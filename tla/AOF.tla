-------------------------------- MODULE AOF ---------------------------------
(***************************************************************************)
(* The append only file of the Redis server (aof.c, with its callers in    *)
(* server.c, config.c and multi.c, and the fsync thread of bio.c).         *)
(*                                                                         *)
(* A dataset is the sequence of the writes executed, <<db, write, part>>:  *)
(* part 0 for a plain command, 1 and 2 for the commands of a transaction.  *)
(* A file is a base (the RDB preamble a rewrite leaves) and a log of       *)
(* entries; torn says that the log ends in a piece of an entry, the rest   *)
(* of which is then at the head of aof_buf.  synced counts the entries of  *)
(* the log that are known to be on the disk and not only in the page cache.*)
(***************************************************************************)
EXTENDS Integers, Sequences

CONSTANTS PipeSize,  \* entries the data pipe to the rewriting child holds
          Setups     \* the configurations and budgets a behaviour may have

ASSUME SetupsAssumption ==
  Setups \subseteq [fsync : {"always", "everysec", "no"}, no_fsync_on_rewrite : BOOLEAN,
                    dbs : SUBSET Nat, multi : BOOLEAN, power : BOOLEAN, torn : BOOLEAN,
                    writes : Nat, rewrites : Nat, saves : Nat, switches : Nat,
                    faults : Nat, crashes : Nat]

VARIABLES server,    \* struct redisServer, the aof_ fields
          file,      \* the file called aof_filename
          child,     \* the forked child
          bio,       \* the queue of BIO_AOF_FSYNC jobs
          acked,     \* how many writes of the dataset clients saw answered
          conf,      \* the configuration and the initial budgets
          left       \* what remains of the budgets

vars == <<server, file, child, bio, acked, conf, left>>

AOF_OFF == "off"
AOF_WAIT_REWRITE == "wait"
AOF_ON == "on"

Select(d) == <<"select", d>>
Multi == <<"multi">>
Exec == <<"exec">>
Command(n, part) == <<"command", n, part>>

NoChild == [type |-> "none"]
HasChild(type) == child.type = type
hasActiveChildProcess == ~HasChild("none")
Used(budget) == left[budget] < conf[budget]
Spend(budget) == /\ left[budget] > 0
                 /\ left' = [left EXCEPT ![budget] = @ - 1]

-----------------------------------------------------------------------------
(* Loading *)

\* What Step makes of start over the elements of s.
Run(Step(_, _), start, s) ==
  LET state[i \in 0..Len(s)] == IF i = 0 THEN start ELSE Step(state[i - 1], s[i])
  IN state[Len(s)]

\* One command executed by the fake client outside of a transaction, or
\* by the EXEC of one (a nested MULTI is answered with an error).
Call(st, e) ==
  CASE e[1] = "select"  -> [st EXCEPT !.db = e[2]]
    [] e[1] = "command" -> [st EXCEPT !.data = Append(@, <<st.db, e[2], e[3]>>)]
    [] OTHER            -> st

Replay(st, e) ==
  IF st.multi
    THEN IF e = Exec
           THEN [Run(Call, [st EXCEPT !.multi = FALSE], st.queue) EXCEPT !.queue = <<>>]
           ELSE [st EXCEPT !.queue = Append(@, e)]
    ELSE IF e = Multi THEN [st EXCEPT !.multi = TRUE] ELSE Call(st, e)

Replayed(f) ==
  Run(Replay, [data |-> f.base, db |-> 0, multi |-> FALSE, queue |-> <<>>], f.log)

\* Cutting at an offset that is 0 also removes the preamble: valid_up_to
\* counts from the start of the file and is first set after an entry.
truncate(f, n) ==
  [base   |-> IF n = 0 THEN <<>> ELSE f.base,
   log    |-> SubSeq(f.log, 1, n),
   torn   |-> FALSE,
   synced |-> IF f.synced < n THEN f.synced ELSE n]

\* valid_before_multi: what precedes the last MULTI.
BeforeMulti(log) ==
  {n \in 0..(Len(log) - 1) :
     log[n + 1] = Multi /\ \A m \in (n + 2)..Len(log) : log[m] # Multi}

\* The file as loadAppendOnlyFile may leave it: a torn tail is cut off
\* after the last entry read, an unfinished transaction before its MULTI.
loadAppendOnlyFile(f) ==
  IF f.torn THEN {truncate(f, Len(f.log))}
  ELSE IF Replayed(f).multi THEN {truncate(f, n) : n \in BeforeMulti(f.log)}
  ELSE {f}

-----------------------------------------------------------------------------
NewServer(data) ==
  [run |-> "up", data |-> data,
   pending |-> FALSE,     \* replies wait in the output buffers
   aof_state |-> AOF_ON, aof_buf |-> <<>>,
   aof_rewrite_buf |-> <<>>, aof_selected_db |-> -1, aof_rewrite_scheduled |-> FALSE,
   aof_stop_sending_diff |-> FALSE, aof_last_write_status |-> TRUE,
   aof_bio_fsync_status |-> TRUE,
   behind |-> FALSE,      \* aof_fsync_offset # aof_current_size
   second |-> FALSE,      \* unixtime > aof_last_fsync
   postponed |-> 0]       \* seconds since aof_flush_postponed_start, plus 1

Init ==
  /\ server = NewServer(<<>>)
  /\ file = [base |-> <<>>, log |-> <<>>, torn |-> FALSE, synced |-> 0]
  /\ child = NoChild /\ bio = <<>> /\ acked = 0
  /\ conf \in Setups /\ left = conf

Up == server.run = "up"

(* A second passes. *)
tick ==
  /\ Up
  /\ ~server.second \/ server.postponed \in 1..2
  /\ server' = [server EXCEPT !.second = TRUE,
                              !.postponed = IF @ \in 1..2 THEN @ + 1 ELSE @]
  /\ UNCHANGED <<file, child, bio, acked, conf, left>>

-----------------------------------------------------------------------------
(* Feeding *)

writeCommandsDeniedByDiskError ==
  /\ server.aof_state # AOF_OFF
  /\ ~server.aof_last_write_status \/ ~server.aof_bio_fsync_status

\* propagate and feedAppendOnlyFile, for the commands of one write
feedAppendOnlyFile(s, d, cmds) ==
  IF s.aof_state = AOF_OFF THEN s
  ELSE LET buf == (IF d # s.aof_selected_db THEN <<Select(d)>> ELSE <<>>) \o cmds
       IN [s EXCEPT
             !.aof_selected_db = d,
             !.aof_buf = IF s.aof_state = AOF_ON THEN @ \o buf ELSE @,
             !.aof_rewrite_buf = IF HasChild("aof") THEN @ \o buf ELSE @]

Executed(d, writes, cmds) ==
  /\ Up
  /\ ~writeCommandsDeniedByDiskError
  /\ Spend("writes")
  /\ server' = feedAppendOnlyFile([server EXCEPT !.data = @ \o writes, !.pending = TRUE],
                                d, cmds)
  /\ UNCHANGED <<file, child, bio, acked, conf>>

command(d) ==
  LET n == left.writes IN Executed(d, <<<<d, n, 0>>>>, <<Command(n, 0)>>)

execCommand(d) ==
  LET n == left.writes
  IN /\ conf.multi
     /\ Executed(d, <<<<d, n, 1>>, <<d, n, 2>>>>,
                 <<Multi, Command(n, 1), Command(n, 2), Exec>>)

-----------------------------------------------------------------------------
(* Flushing.  The outcomes of a flush are records of the new server, file  *)
(* and queue, and of the number of faults it needs.                        *)

Outcome(s, f, jobs, faults) == [server |-> s, file |-> f, bio |-> jobs, faults |-> faults]
Exited(s) == [s EXCEPT !.run = "crashed"]
fsync(f) == [f EXCEPT !.synced = Len(f.log)]

\* Mutant: aof_fsync_offset moves although no job was submitted.
fsyncEverysec_X(s, f, sync_in_progress) ==
  Outcome([s EXCEPT !.second = FALSE, !.behind = FALSE], f,
          IF sync_in_progress THEN bio ELSE Append(bio, Len(f.log)), 0)

fsyncEverysec(s, f, sync_in_progress) ==
  IF sync_in_progress THEN Outcome([s EXCEPT !.second = FALSE], f, bio, 0)
  ELSE Outcome([s EXCEPT !.second = FALSE, !.behind = FALSE], f, Append(bio, Len(f.log)), 0)

try_fsync(s, f, sync_in_progress) ==
  IF conf.no_fsync_on_rewrite /\ hasActiveChildProcess
    THEN {Outcome(s, f, bio, 0)}
  ELSE IF conf.fsync = "always"
    THEN {Outcome([s EXCEPT !.behind = FALSE, !.second = FALSE], fsync(f), bio, 0),
          Outcome(Exited(s), f, bio, 1)}
  ELSE IF conf.fsync = "everysec" /\ s.second
    THEN {fsyncEverysec(s, f, sync_in_progress)}
  ELSE {Outcome(s, f, bio, 0)}

\* write(2) stops after n entries of the buffer, and inside of the next
\* one if torn; ftruncate(2) then fails to take the piece back.  With
\* n = 0 and an untorn file nothing is written.
ShortWrites(s) ==
  {w \in (0..(Len(s.aof_buf) - 1)) \X {FALSE, conf.torn} : w[1] = 0 /\ file.torn => w[2]}

WriteError(s, n, torn) ==
  LET f == [file EXCEPT !.log = @ \o SubSeq(s.aof_buf, 1, n), !.torn = torn]
      rest == [s EXCEPT !.aof_buf = SubSeq(@, n + 1, Len(@)),
                        !.behind = @ \/ n > 0 \/ torn,
                        !.postponed = 0,
                        !.aof_last_write_status = FALSE]
  IN Outcome(IF conf.fsync = "always" THEN Exited(s) ELSE rest, f, bio, 1)

\* Mutant: the error state is kept after a write that succeeds.
Written_X(s) == [s EXCEPT !.aof_buf = <<>>, !.behind = TRUE, !.postponed = 0]

Written(s) ==
  [s EXCEPT !.aof_buf = <<>>, !.behind = TRUE, !.postponed = 0,
            !.aof_last_write_status = TRUE]

flushAppendOnlyFile(s, force) ==
  LET everysec == conf.fsync = "everysec"
      sync_in_progress == everysec /\ bio # <<>>
  IN IF s.aof_buf = <<>>
       THEN IF everysec /\ s.behind /\ s.second /\ ~sync_in_progress
              THEN try_fsync(s, file, FALSE)
              ELSE {Outcome(s, file, bio, 0)}
     ELSE IF sync_in_progress /\ ~force /\ s.postponed < 3
       THEN {Outcome([s EXCEPT !.postponed = IF @ = 0 THEN 1 ELSE @], file, bio, 0)}
     ELSE try_fsync(Written(s), [file EXCEPT !.log = @ \o s.aof_buf, !.torn = FALSE],
                    sync_in_progress)
          \cup {WriteError(s, w[1], w[2]) : w \in ShortWrites(s)}

Possible(outcomes) == {o \in outcomes : o.faults <= left.faults}
Faulted(o) == [left EXCEPT !.faults = @ - o.faults]

(* The end of an iteration of the event loop: the buffer is written, then  *)
(* the replies of the commands executed are sent.                          *)
beforeSleep ==
  /\ Up
  /\ \E o \in Possible(IF server.aof_state = AOF_ON THEN flushAppendOnlyFile(server, FALSE)
                       ELSE {Outcome(server, file, bio, 0)}) :
       /\ server' = [o.server EXCEPT !.pending = FALSE]
       /\ file' = o.file /\ bio' = o.bio /\ left' = Faulted(o)
       /\ acked' = IF server.pending /\ o.server.run = "up" THEN Len(server.data) ELSE acked
  /\ UNCHANGED <<child, conf>>

(* The thread that runs fsync jobs.  A job stands for the entries that     *)
(* were in the file when it was submitted, the least it syncs: 0 if its    *)
(* descriptor was closed meanwhile, which is no error.                     *)
bioProcessBackgroundJobs ==
  /\ Up /\ bio # <<>>
  /\ bio' = Tail(bio)
  /\ \/ /\ file' = [file EXCEPT !.synced = IF @ < Head(bio) THEN Head(bio) ELSE @]
        /\ server' = [server EXCEPT !.aof_bio_fsync_status = TRUE]
        /\ UNCHANGED left
     \/ /\ Head(bio) > 0 /\ Spend("faults")
        /\ server' = [server EXCEPT !.aof_bio_fsync_status = FALSE]
        /\ UNCHANGED file
  /\ UNCHANGED <<child, acked, conf>>

-----------------------------------------------------------------------------
(* Rewriting in the background *)

\* Mutant: the differences may start without a SELECT.
rewriteAppendOnlyFileBackground_X(s) ==
  [s EXCEPT !.aof_rewrite_scheduled = FALSE, !.aof_stop_sending_diff = FALSE]

rewriteAppendOnlyFileBackground(s) ==
  [s EXCEPT !.aof_rewrite_scheduled = FALSE, !.aof_selected_db = -1,
            !.aof_stop_sending_diff = FALSE]

RewriteChild(s) ==
  [type |-> "aof", base |-> s.data, diff |-> <<>>, pipe |-> <<>>, stage |-> "dump"]

\* The child is gone and its pipes and temporary files with it.
aofRewriteBufferReset(s) == [s EXCEPT !.aof_rewrite_buf = <<>>]

bgrewriteaofCommand ==
  /\ Up /\ ~HasChild("aof") /\ Spend("rewrites")
  /\ \/ /\ hasActiveChildProcess
        /\ server' = [server EXCEPT !.aof_rewrite_scheduled = TRUE]
        /\ UNCHANGED child
     \/ /\ ~hasActiveChildProcess
        /\ server' = rewriteAppendOnlyFileBackground(server)
        /\ child' = RewriteChild(server)
  /\ UNCHANGED <<file, bio, acked, conf>>

(* serverCron starts the rewrite that was scheduled. *)
startScheduledRewrite ==
  /\ Up /\ server.aof_rewrite_scheduled /\ ~hasActiveChildProcess
  /\ server' = rewriteAppendOnlyFileBackground(server)
  /\ child' = RewriteChild(server)
  /\ UNCHANGED <<file, bio, acked, conf, left>>

(* BGSAVE and its end matter here as the child that delays a rewrite. *)
bgsaveCommand ==
  /\ Up /\ ~hasActiveChildProcess /\ Spend("saves")
  /\ child' = [type |-> "rdb"]
  /\ UNCHANGED <<server, file, bio, acked, conf>>

backgroundSaveDoneHandler ==
  /\ Up /\ HasChild("rdb")
  /\ child' = NoChild
  /\ UNCHANGED <<server, file, bio, acked, conf, left>>

\* n entries of the rewrite buffer go to the pipe, and rest stays.
Sent(n, rest) ==
  /\ child' = [child EXCEPT !.pipe = @ \o SubSeq(server.aof_rewrite_buf, 1, n)]
  /\ server' = [server EXCEPT !.aof_rewrite_buf = rest]
  /\ UNCHANGED <<file, bio, acked, conf, left>>

Sending(n) ==
  /\ Up /\ HasChild("aof") /\ ~server.aof_stop_sending_diff
  /\ child.stage \in {"dump", "asked"}
  /\ n \in 1..Len(server.aof_rewrite_buf) /\ Len(child.pipe) + n <= PipeSize

\* Mutant: what was sent is not moved out of the block.
aofChildWriteDiffData_X ==
  \E n \in 1..PipeSize :
    Sending(n) /\ Sent(n, SubSeq(server.aof_rewrite_buf, 1, Len(server.aof_rewrite_buf) - n))

(* The parent writes to the data pipe what it takes. *)
aofChildWriteDiffData ==
  \E n \in 1..PipeSize :
    Sending(n) /\ Sent(n, SubSeq(server.aof_rewrite_buf, n + 1, Len(server.aof_rewrite_buf)))

Received(c) == [c EXCEPT !.diff = @ \o c.pipe, !.pipe = <<>>]

aofReadDiffFromParent ==
  /\ Up /\ HasChild("aof") /\ child.stage = "dump" /\ child.pipe # <<>>
  /\ child' = Received(child)
  /\ UNCHANGED <<server, file, bio, acked, conf, left>>

(* The child has written the base and asks the parent to stop sending. *)
askToStop ==
  /\ Up /\ HasChild("aof") /\ child.stage = "dump"
  /\ child' = [child EXCEPT !.stage = "asked"]
  /\ UNCHANGED <<server, file, bio, acked, conf, left>>

aofChildPipeReadable ==
  /\ Up /\ HasChild("aof") /\ child.stage = "asked"
  /\ server' = [server EXCEPT !.aof_stop_sending_diff = TRUE]
  /\ child' = [child EXCEPT !.stage = "acked"]
  /\ UNCHANGED <<file, bio, acked, conf, left>>

(* The child reads the rest of the pipe, writes and syncs its file. *)
finishRewrite ==
  /\ Up /\ HasChild("aof") /\ child.stage = "acked"
  /\ child' = [Received(child) EXCEPT !.stage = "done"]
  /\ UNCHANGED <<server, file, bio, acked, conf, left>>

(* An error on the disk, a timeout or a signal ends the child. *)
rewriteFails ==
  /\ Up /\ HasChild("aof") /\ child.stage \in {"dump", "asked", "acked"}
  /\ Spend("faults")
  /\ child' = [child EXCEPT !.stage = "failed"]
  /\ UNCHANGED <<server, file, bio, acked, conf>>

\* Mutant: a failed rewrite is not tried again.
RewriteCleanup_X(s) == aofRewriteBufferReset(s)

\* cleanup: a server that waits for its first file tries again
RewriteCleanup(s) ==
  [aofRewriteBufferReset(s) EXCEPT
     !.aof_rewrite_scheduled = @ \/ s.aof_state = AOF_WAIT_REWRITE]

\* Mutant: the differences of the parent are not synced before the rename.
RewrittenFile_X ==
  [base |-> child.base, log |-> child.diff \o server.aof_rewrite_buf, torn |-> FALSE,
   synced |-> Len(child.diff)]

\* The temporary file takes the name of the log and, unless the AOF is
\* disabled, the place of aof_fd.
RewrittenFile ==
  LET whole == child.diff \o server.aof_rewrite_buf
  IN [base |-> child.base, log |-> whole, torn |-> FALSE,
      synced |-> IF conf.fsync = "always" THEN Len(whole) ELSE Len(child.diff)]

RewrittenServer ==
  LET s == IF server.aof_state = AOF_OFF THEN server
           ELSE [server EXCEPT !.aof_selected_db = -1, !.behind = FALSE, !.second = FALSE,
                               !.aof_buf = <<>>, !.aof_state = AOF_ON]
  IN RewriteCleanup(s)

Closed(jobs) == [i \in DOMAIN jobs |-> 0]

backgroundRewriteDoneHandler ==
  /\ Up /\ HasChild("aof")
  /\ \/ /\ child.stage = "done"
        /\ file' = RewrittenFile
        /\ server' = RewrittenServer
        /\ bio' = IF conf.fsync # "everysec" THEN Closed(bio)
                  ELSE Append(Closed(bio),
                              IF server.aof_state = AOF_OFF THEN 0 ELSE Len(file'.log))
        /\ UNCHANGED left
     \/ /\ child.stage = "done" /\ Spend("faults")
        /\ server' = RewriteCleanup(server)
        /\ UNCHANGED <<file, bio>>
     \/ /\ child.stage = "failed"
        /\ server' = RewriteCleanup(server)
        /\ UNCHANGED <<file, bio, left>>
  /\ child' = NoChild
  /\ UNCHANGED <<acked, conf>>

-----------------------------------------------------------------------------
(* CONFIG SET appendonly *)

stopAppendOnly ==
  /\ Up /\ server.aof_state # AOF_OFF /\ left.switches > 0
  /\ \E o \in Possible(flushAppendOnlyFile(server, TRUE)) :
       /\ left' = [Faulted(o) EXCEPT !.switches = @ - 1]
       /\ file' = IF o.server.run = "up" THEN fsync(o.file) ELSE o.file
       /\ bio' = Closed(o.bio)
       /\ server' = IF o.server.run # "up" THEN o.server
                    ELSE [(IF HasChild("aof") THEN aofRewriteBufferReset(o.server) ELSE o.server)
                           EXCEPT !.aof_selected_db = -1, !.aof_state = AOF_OFF,
                                  !.aof_rewrite_scheduled = FALSE, !.aof_buf = <<>>,
                                  !.behind = FALSE, !.second = FALSE]
       /\ child' = IF HasChild("aof") /\ o.server.run = "up" THEN NoChild ELSE child
  /\ UNCHANGED <<acked, conf>>

startAppendOnly ==
  /\ Up /\ server.aof_state = AOF_OFF
  /\ LET on == [server EXCEPT !.aof_state = AOF_WAIT_REWRITE, !.second = FALSE,
                              !.aof_bio_fsync_status = TRUE,
                              !.aof_last_write_status = TRUE]
     IN IF HasChild("rdb")
          THEN /\ server' = [on EXCEPT !.aof_rewrite_scheduled = TRUE]
               /\ UNCHANGED child
          ELSE /\ server' = rewriteAppendOnlyFileBackground(aofRewriteBufferReset(on))
               /\ child' = RewriteChild(server)
  /\ UNCHANGED <<file, bio, acked, conf, left>>

-----------------------------------------------------------------------------
(* Stopping and starting.  The configuration file says appendonly yes.     *)

ShutDown(outcomes) ==
  /\ Up /\ left.crashes > 0
  /\ ~(server.aof_state = AOF_WAIT_REWRITE /\ HasChild("aof"))
  /\ \E o \in Possible(outcomes) :
       /\ left' = [Faulted(o) EXCEPT !.crashes = @ - 1]
       /\ file' = IF server.aof_state # AOF_OFF /\ o.server.run = "up"
                    THEN fsync(o.file) ELSE o.file
       /\ server' = [o.server EXCEPT !.run = IF @ = "up" THEN "shutdown" ELSE @]
  /\ child' = NoChild /\ bio' = <<>>
  /\ UNCHANGED <<acked, conf>>

\* Mutant: the last flush is not forced.
prepareForShutdown_X ==
  ShutDown(IF server.aof_state = AOF_OFF THEN {Outcome(server, file, bio, 0)}
           ELSE flushAppendOnlyFile(server, FALSE))

(* SHUTDOWN or SIGTERM; without save points no RDB file is written. *)
prepareForShutdown ==
  ShutDown(IF server.aof_state = AOF_OFF THEN {Outcome(server, file, bio, 0)}
           ELSE flushAppendOnlyFile(server, TRUE))

\* What a flush under way may have written: nothing, or the buffer.
Unwritten == IF Up /\ server.aof_state = AOF_ON THEN {<<>>, server.aof_buf} ELSE {<<>>}

(* The process is killed: what it wrote stays in the page cache. *)
kill ==
  /\ Up /\ Spend("crashes")
  /\ \E buf \in Unwritten :
       file' = IF buf = <<>> THEN file ELSE [file EXCEPT !.log = @ \o buf, !.torn = FALSE]
  /\ server' = Exited(server) /\ child' = NoChild /\ bio' = <<>>
  /\ UNCHANGED <<acked, conf>>

(* The machine stops: what was not synced may be lost, from any byte on. *)
powerLoss ==
  /\ conf.power /\ Spend("crashes")
  /\ \E buf \in Unwritten :
       LET log == file.log \o buf
       IN \E n \in file.synced..Len(log), torn \in {FALSE, conf.torn} :
            /\ torn => n < Len(log) \/ (file.torn /\ buf = <<>>)
            /\ file' = [file EXCEPT !.log = SubSeq(log, 1, n), !.torn = torn, !.synced = n]
  /\ server' = [server EXCEPT !.run = IF @ = "up" THEN "crashed" ELSE @]
  /\ child' = NoChild /\ bio' = <<>>
  /\ UNCHANGED <<acked, conf>>

restart ==
  /\ ~Up
  /\ server' = NewServer(Replayed(file).data)
  /\ file' \in loadAppendOnlyFile(file)
  /\ child' = NoChild /\ bio' = <<>>
  /\ acked' = IF acked < Len(server'.data) THEN acked ELSE Len(server'.data)
  /\ UNCHANGED <<conf, left>>

-----------------------------------------------------------------------------
Next ==
  \/ \E d \in conf.dbs : command(d)
  \/ \E d \in conf.dbs : execCommand(d)
  \/ tick \/ beforeSleep \/ bioProcessBackgroundJobs
  \/ bgrewriteaofCommand \/ startScheduledRewrite \/ bgsaveCommand
  \/ backgroundSaveDoneHandler
  \/ aofChildWriteDiffData \/ aofReadDiffFromParent \/ askToStop
  \/ aofChildPipeReadable \/ finishRewrite \/ rewriteFails
  \/ backgroundRewriteDoneHandler
  \/ stopAppendOnly \/ startAppendOnly
  \/ prepareForShutdown \/ kill \/ powerLoss \/ restart

\* The event loop, its timer, the fsync thread and the children all run on.
Fairness ==
  /\ WF_vars(tick) /\ WF_vars(beforeSleep) /\ WF_vars(bioProcessBackgroundJobs)
  /\ WF_vars(startScheduledRewrite) /\ WF_vars(backgroundSaveDoneHandler)
  /\ WF_vars(askToStop) /\ WF_vars(aofChildPipeReadable) /\ WF_vars(finishRewrite)
  /\ WF_vars(backgroundRewriteDoneHandler)

Spec == Init /\ [][Next]_vars /\ Fairness

-----------------------------------------------------------------------------
\* While the AOF is on, the file with what is still in the buffer loads to
\* the dataset in memory: through short writes, rewrites that take over
\* the file, restarts and the truncation of what a crash left.
LogComplete ==
  Up /\ server.aof_state = AOF_ON =>
    LET r == Replayed([file EXCEPT !.log = @ \o server.aof_buf])
    IN r.data = server.data /\ ~r.multi

\* What a client was answered survives a crash where the policy promises
\* it: with appendfsync always, and with appendfsync no as long as only the
\* process dies and every write succeeds.
Strict ==
  \/ conf.fsync = "always" /\ ~conf.no_fsync_on_rewrite
  \/ conf.fsync = "no" /\ ~conf.power /\ conf.faults = 0

Durable == INSTANCE DurableLog WITH history <- server.data,
                                    logging <- (server.aof_state = AOF_ON),
                                    strict <- Strict

\* The server keeps the promise of a durable log: a crash takes it back to
\* a prefix of what it executed, never into a transaction, and never
\* behind an answered write while the AOF is on and the policy strict.
ImplementsDurableLog == Durable!Spec

EndsWith(t, s) ==
  /\ Len(s) <= Len(t)
  /\ \A i \in 1..Len(s) : t[Len(t) - Len(s) + i] = s[i]

\* What a rewrite adds to its snapshot, wherever it is on the way from the
\* parent to the new file, is what the old file and its buffer got since
\* the fork, so that the new file can take over and the buffer be dropped.
RewriteTail ==
  Up /\ HasChild("aof") /\ server.aof_state = AOF_ON =>
    EndsWith(file.log \o server.aof_buf,
             child.diff \o child.pipe \o server.aof_rewrite_buf)

\* A server that shut down in order, with a disk that worked, finds its
\* whole dataset again, even if the machine stops next.
ShutdownKeepsAll ==
  server.run = "shutdown" /\ server.aof_state = AOF_ON /\ ~Used("faults") =>
    /\ file.synced = Len(file.log)
    /\ Replayed(file).data = server.data

\* With the everysec policy all that a process wrote gets synced, also what
\* it wrote while a sync was under way and what it took over from a
\* rewrite; unless the last sync failed.
WrittenIsSynced ==
  []<>(/\ conf.fsync = "everysec" /\ ~Used("crashes")
       /\ Up /\ server.aof_state = AOF_ON /\ server.aof_bio_fsync_status
       => file.synced = Len(file.log))

\* A server that waits for its first file gets it.
WaitEnds == []<>(Up => server.aof_state # AOF_WAIT_REWRITE)

\* Once a write to the file succeeds the server leaves the error state and
\* takes writes again, unless a rewrite has taken over the file meanwhile.
WriteErrorCleared ==
  []<>(Up /\ server.aof_state = AOF_ON /\ ~Used("rewrites")
         => server.aof_last_write_status)
=============================================================================
