---------------------------- MODULE Replication -----------------------------
(***************************************************************************)
(* Redis replication (src/redis-stable/src/replication.c): masters,        *)
(* replicas and replicas of replicas; the replication stream, its backlog  *)
(* and the two replication ids; PSYNC, partial and full resynchronization; *)
(* the cached master; REPLICAOF, FAILOVER, lost links and restarts.        *)
(*                                                                         *)
(* server[n] has the fields of the C struct that matter; a C function that *)
(* changes the struct is an operator from record to record.  A command     *)
(* counts for one unit of the replication offset.  The dataset is the      *)
(* sequence of the writes that made it, each with its database.            *)
(***************************************************************************)
EXTENDS Integers, Sequences, FiniteSets, SequencesExt

CONSTANTS
  Node,         \* the Redis processes
  BacklogSize,  \* repl-backlog-size, in commands
  Setups,       \* the setups to explore: [procs, rdb, dbs, writes, events]
  NULL

\* A setup has procs processes, diskless ("socket") or not ("disk"), with the
\* databases dbs.  It bounds the commands masters put in their streams (writes)
\* and what else happens (events): REPLICAOF and FAILOVER commands, lost links,
\* failed BGSAVEs and loads, save points, restarts.

VARIABLES
  server,       \* the state of each process
  conn,         \* the link of each process to its master, or NULL
  used          \* the setup; ids, writes, events and restarts so far

vars == <<server, conn, used>>

setup == used.setup

\* second_replid_offset when there is no replid2, and slaveseldb when the
\* stream has to select a database again.
None == -1

EmptySlaves == [r \in {} |-> NULL]

NewServer(id, host, d) ==
  [masterhost |-> host, repl_state |-> IF host = NULL THEN "NONE" ELSE "CONNECT",
   master |-> NULL, cached_master |-> NULL,
   replid |-> id, replid2 |-> 0, second_replid_offset |-> None,
   master_repl_offset |-> 0, repl_backlog |-> NULL, slaveseldb |-> None,
   slaves |-> EmptySlaves, data |-> d, rdb_child |-> NULL, rdb_file |-> NULL,
   master_initial |-> NULL, failover |-> NULL]

\* A master client, or the cached state of one.
MasterClient(id, off, db) == [replid |-> id, reploff |-> off, db |-> db]

\* The link of a replica to m: what is on its way to it, and whether m has
\* closed it.
Link(m) == [to |-> m, down |-> <<>>, eof |-> FALSE]

\* m's side of it.
SlaveClient(state) ==
  [replstate |-> state, initial |-> NULL, ack |-> 0, buf |-> <<>>,
   online_on_ack |-> FALSE]

\* The processes start empty, each with an id of its own, as replicas of one
\* of them, directly or through one another.
Trees(procs) ==
  {up \in [procs -> procs \cup {NULL}] :
     \E root \in procs :
       /\ \A n \in procs : up[n] = NULL <=> n = root
       /\ \A n \in procs \ {root} : up[n] # n /\ (up[n] # root => up[up[n]] = root)}

Init ==
  /\ \E s \in Setups, procs \in SUBSET Node :
       /\ Cardinality(procs) = s.procs
       /\ \E up \in Trees(procs), id \in Bijection(procs, 1..s.procs) :
            server = [n \in Node |-> IF n \in procs THEN NewServer(id[n], up[n], <<>>)
                                     ELSE NewServer(0, NULL, <<>>)]
       /\ conn = [n \in Node |-> NULL]
       /\ used = [setup |-> [s EXCEPT !.procs = procs], id |-> s.procs,
                  write |-> 0, event |-> 0, restart |-> 0]

-----------------------------------------------------------------------------
(* The stream, the backlog and the ids. *)

\* What executing the stream does: SELECT moves the link to a database, a
\* write changes the dataset, PING changes nothing.
Execute(st, e) ==
  CASE e.t = "select" -> [st EXCEPT !.db = e.arg]
    [] e.t = "write" -> [st EXCEPT !.data = Append(@, <<st.db, e.arg>>)]
    [] OTHER -> st

Replay(data, db, stream) ==
  FoldLeft(Execute, [data |-> data, db |-> db], stream)

createReplicationBacklog(s) == [s EXCEPT !.repl_backlog = <<>>]

\* The offset of the first command the backlog holds.
repl_backlog_off(s) == s.master_repl_offset - Len(s.repl_backlog) + 1

\* The circular buffer keeps the last BacklogSize commands.
feedReplicationBacklog(s, es) ==
  IF s.repl_backlog = NULL THEN s ELSE
  LET all == s.repl_backlog \o es
      excess == IF Len(all) > BacklogSize THEN Len(all) - BacklogSize ELSE 0
  IN [s EXCEPT !.master_repl_offset = @ + Len(es),
               !.repl_backlog = SubSeq(all, excess + 1, Len(all))]

\* A replica's link is its master's client as long as the replica has not
\* closed it; the master may find out later.
LiveIn(links, m, r) ==
  links[r] # NULL /\ links[r].to = m /\ ~links[r].eof

Live(m, r) == LiveIn(conn, m, r)

\* Commands for a client that is not online wait in its output buffer.
Buffered(c) == c.replstate = "WAIT_BGSAVE_END" \/ c.online_on_ack

canFeedReplicaReplBuffer(c) == c.replstate # "WAIT_BGSAVE_START"

FeedBuffers(s, es) ==
  [s EXCEPT !.slaves = [r \in DOMAIN @ |->
     IF canFeedReplicaReplBuffer(@[r]) /\ Buffered(@[r])
     THEN [@[r] EXCEPT !.buf = @ \o es] ELSE @[r]]]

\* ... and for one that is online they go to its link.
FeedLinks(m, s, es) ==
  [r \in Node |->
     IF r \in DOMAIN s.slaves /\ Live(m, r) /\ canFeedReplicaReplBuffer(s.slaves[r])
          /\ ~Buffered(s.slaves[r])
     THEN [conn[r] EXCEPT !.down = @ \o es] ELSE conn[r]]

\* The commands a write of database db becomes in the stream.
StreamOf(s, db, e) ==
  (IF s.slaveseldb # db THEN <<[t |-> "select", arg |-> db]>> ELSE <<>>) \o <<e>>

changeReplicationId(s, id) == [s EXCEPT !.replid = id]

clearReplicationId2(s) ==
  [s EXCEPT !.replid2 = 0, !.second_replid_offset = None]

shiftReplicationId(s, id) ==
  changeReplicationId([s EXCEPT !.replid2 = s.replid,
                                !.second_replid_offset = s.master_repl_offset + 1], id)

replicationCacheMasterUsingMyself(s, db) ==
  [s EXCEPT !.cached_master = MasterClient(s.replid, s.master_repl_offset, db)]

\* What rdbSave writes: the dataset and, when rdbPopulateSaveInfo finds
\* replication information, the id, the offset and the stream's database.
rdbPopulateSaveInfo(s) ==
  IF s.masterhost = NULL /\ s.repl_backlog # NULL
  THEN IF s.slaveseldb = None THEN 0 ELSE s.slaveseldb
  ELSE IF s.master # NULL THEN s.master.db
  ELSE IF s.cached_master # NULL THEN s.cached_master.db
  ELSE NULL

Rdb(s) ==
  [data |-> s.data, stream_db |-> rdbPopulateSaveInfo(s),
   replid |-> s.replid, offset |-> s.master_repl_offset]

-----------------------------------------------------------------------------
(* Links. *)

\* The links after m has freed the clients in rs.
Closed(m, rs) ==
  [r \in Node |-> IF r \in rs /\ Live(m, r)
                  THEN [conn[r] EXCEPT !.eof = TRUE] ELSE conn[r]]

\* freeClient of clients that are replicas.  Save points are configured, as
\* they are by default: a BGSAVE in progress goes on.
FreeSlaves(s, rs) ==
  [s EXCEPT !.slaves = [r \in DOMAIN @ \ rs |-> @[r]]]

disconnectSlaves(s) == FreeSlaves(s, DOMAIN s.slaves)

\* freeClient of the master link caches it; one that never got that far is
\* only closed.
FreeMaster(s) ==
  IF s.master = NULL THEN s
  ELSE [s EXCEPT !.cached_master = s.master, !.master = NULL]

Reconnecting(s) == [s EXCEPT !.repl_state = "CONNECT", !.master_initial = NULL]

\* replicationUnsetMaster.
replicationUnsetMaster(s, id) ==
  LET t == shiftReplicationId([FreeMaster(s) EXCEPT !.cached_master = NULL], id)
  IN [disconnectSlaves(t) EXCEPT !.masterhost = NULL, !.repl_state = "NONE",
                                 !.slaveseldb = None, !.master_initial = NULL]

\* replicationSetMaster: a former master offers its own id and offset to the
\* new one; a former replica offers what it had cached.
replicationSetMaster(s, host) ==
  LET t == disconnectSlaves(FreeMaster(s))
      u == IF s.masterhost = NULL THEN replicationCacheMasterUsingMyself(t, 0) ELSE t
  IN [Reconnecting(u) EXCEPT !.masterhost = host]

Spend(what) == used' = [used EXCEPT ![what] = @ + 1]
Fresh == used.id + 1

-----------------------------------------------------------------------------
(* The master. *)

\* A client's write: call() and propagate() feed the stream, unless nobody
\* ever asked for it.
Feed(m, s, es) ==
  /\ server' = [server EXCEPT ![m] = FeedBuffers(feedReplicationBacklog(s, es), es)]
  /\ conn' = FeedLinks(m, s, es)

Write(m, db) ==
  LET s == server[m]
      e == [t |-> "write", arg |-> used.write + 1]
      t == [s EXCEPT !.data = Append(@, <<db, used.write + 1>>)]
  IN /\ m \in setup.procs /\ s.masterhost = NULL /\ s.failover = NULL /\ db \in setup.dbs
     /\ used.write < setup.writes
     /\ Spend("write")
     /\ IF s.repl_backlog = NULL
        THEN server' = [server EXCEPT ![m] = t] /\ UNCHANGED conn
        ELSE Feed(m, [t EXCEPT !.slaveseldb = db], StreamOf(s, db, e))

\* replicationCron pings the replicas, except in a FAILOVER with a timeout.
Ping(m) ==
  LET s == server[m]
  IN /\ s.masterhost = NULL /\ DOMAIN s.slaves # {}
     /\ s.failover # NULL => ~s.failover.timed
     /\ used.write < setup.writes
     /\ Spend("write")
     /\ Feed(m, s, <<[t |-> "ping", arg |-> 0]>>)

\* masterTryPartialResynchronization: the id is ours, or the one we shared
\* up to second_replid_offset, and the backlog still has the command.
masterTryPartialResynchronization(s, req) ==
  /\ \/ req.replid = s.replid
     \/ req.replid = s.replid2 /\ req.offset <= s.second_replid_offset
  /\ s.repl_backlog # NULL
  /\ req.offset >= repl_backlog_off(s)
  /\ req.offset <= repl_backlog_off(s) + Len(s.repl_backlog)

addReplyReplicationBacklog(s, offset) ==
  SubSeq(s.repl_backlog, offset - repl_backlog_off(s) + 1, Len(s.repl_backlog))

AddSlave(s, r, c) ==
  [s EXCEPT !.slaves = [x \in DOMAIN @ \cup {r} |-> IF x = r THEN c ELSE @[x]]]

\* The id and offset that +FULLRESYNC announces go to the replica at once.
FullResync(s, offset) == [t |-> "FULLRESYNC", replid |-> s.replid, offset |-> offset]

replicationSetupSlaveForFullResync(s, rs, offset) ==
  [s EXCEPT !.slaves = [r \in DOMAIN @ |->
              IF r \in rs THEN [@[r] EXCEPT !.replstate = "WAIT_BGSAVE_END",
                                            !.initial = offset]
              ELSE @[r]],
            !.slaveseldb = None]

Announced(m, links, s, rs, offset) ==
  [r \in Node |-> IF r \in rs /\ LiveIn(links, m, r)
                  THEN [links[r] EXCEPT !.down = Append(@, FullResync(s, offset))]
                  ELSE links[r]]

In(s, state) == {r \in DOMAIN s.slaves : s.slaves[r].replstate = state}

\* The fork: the child has the dataset, the ids and the offset of now.
rdbSaveBackground(s, type) == [s EXCEPT !.rdb_child = [type |-> type, rdb |-> Rdb(s)]]

\* A BGSAVE for replication serves every client that waits for one.
startBgsaveForReplication(s, type) ==
  replicationSetupSlaveForFullResync(rdbSaveBackground(s, type),
    In(s, "WAIT_BGSAVE_START"), s.master_repl_offset)

\* A client for whose BGSAVE the child in progress is good: another client
\* has been collecting the writes since its fork.
Attachable(s) ==
  IF s.rdb_child # NULL /\ s.rdb_child.type = "disk" THEN In(s, "WAIT_BGSAVE_END") ELSE {}

\* What slaveTryPartialResynchronization asks: to go on from where the cached
\* master was, or "?" (-1).
InFailover(s) == s.failover # NULL /\ s.failover.state = "IN_PROGRESS"

Psync(s) ==
  LET c == s.cached_master
  IN [replid |-> IF c = NULL THEN -1 ELSE c.replid,
      offset |-> IF c = NULL THEN -1 ELSE c.reploff + 1,
      failover |-> InFailover(s)]

copyClientOutputBuffer_X(s, r, o) == s

copyClientOutputBuffer(s, r, o) == [s EXCEPT !.slaves[r].buf = s.slaves[o].buf]

\* syncCommand for the PSYNC of r.  Connecting, the handshake and the request
\* are one step with it: r changes nothing before the reply.  r is served when
\* its previous link has been seen to close.
Asking(m, r) ==
  /\ server[r].repl_state = "CONNECT" /\ server[r].masterhost = m
  /\ r \notin DOMAIN server[m].slaves

\* A PSYNC FAILOVER with our own id promotes us first.
Promotes(m, r) ==
  InFailover(server[r]) /\ server[m].masterhost # NULL /\ Psync(server[r]).replid = server[m].replid

Promoted(m, r) ==
  IF Promotes(m, r) THEN replicationUnsetMaster(server[m], Fresh) ELSE server[m]

\* The links then, with the new one of r.
Taken(m, r) ==
  [(IF Promotes(m, r) THEN [Closed(m, DOMAIN server[m].slaves) EXCEPT ![m] = NULL] ELSE conn)
     EXCEPT ![r] = Link(m)]

UsedBy(m, r) == IF Promotes(m, r) THEN Fresh ELSE used.id

Refuses(m, r) ==
  LET s == Promoted(m, r)
  IN \/ InFailover(server[r]) /\ ~Promotes(m, r)
     \/ s.failover # NULL
     \/ s.masterhost # NULL /\ s.repl_state # "CONNECTED"

\* abortFailover: one in progress makes the server a master again.
abortFailover(s, id) ==
  IF InFailover(s) THEN [replicationUnsetMaster(s, id) EXCEPT !.failover = NULL]
  ELSE [s EXCEPT !.failover = NULL]

\* An error: r tries later, which is no step, unless its FAILOVER fails with it.
syncRefused(m, r) ==
  /\ Asking(m, r) /\ Refuses(m, r) /\ InFailover(server[r])
  /\ server' = [server EXCEPT ![m] = Promoted(m, r),
                              ![r] = abortFailover(@, UsedBy(m, r) + 1)]
  /\ conn' = [Taken(m, r) EXCEPT ![r] = NULL]
  /\ used' = [used EXCEPT !.id = UsedBy(m, r) + 1]

Answered(m, r, s) ==
  [server EXCEPT ![m] = s, ![r].repl_state = "RECEIVE_PSYNC_REPLY"]

syncPartial(m, r) ==
  LET s == Promoted(m, r)
      req == Psync(server[r])
  IN /\ Asking(m, r) /\ ~Refuses(m, r)
     /\ masterTryPartialResynchronization(s, req)
     /\ server' = Answered(m, r, AddSlave(s, r, SlaveClient("ONLINE")))
     /\ conn' = [Taken(m, r) EXCEPT ![r].down = <<[t |-> "CONTINUE", replid |-> s.replid]>>
                                                \o addReplyReplicationBacklog(s, req.offset)]
     /\ used' = [used EXCEPT !.id = UsedBy(m, r)]

\* A full resynchronization: the client joins the list, the first one
\* creates the backlog under a new id, ...
Joined(m, r) ==
  LET s == AddSlave(Promoted(m, r), r, SlaveClient("WAIT_BGSAVE_START"))
  IN IF s.repl_backlog # NULL THEN s
     ELSE createReplicationBacklog(clearReplicationId2(changeReplicationId(s, UsedBy(m, r) + 1)))

\* ... and it shares a BGSAVE in progress, or one starts now, or it waits.
syncFull(m, r) ==
  LET s == Joined(m, r)
      links == Taken(m, r)
      o == CHOOSE x \in Attachable(s) : TRUE
  IN /\ Asking(m, r) /\ ~Refuses(m, r)
     /\ ~masterTryPartialResynchronization(Promoted(m, r), Psync(server[r]))
     /\ used' = [used EXCEPT !.id = IF Promoted(m, r).repl_backlog # NULL THEN UsedBy(m, r)
                                   ELSE UsedBy(m, r) + 1]
     /\ \/ /\ Attachable(s) # {}
           /\ server' = Answered(m, r,
                replicationSetupSlaveForFullResync(copyClientOutputBuffer(s, r, o), {r},
                                                   s.slaves[o].initial))
           /\ conn' = Announced(m, links, s, {r}, s.slaves[o].initial)
        \/ /\ s.rdb_child = NULL /\ setup.rdb = "disk"
           /\ server' = Answered(m, r, startBgsaveForReplication(s, "disk"))
           /\ conn' = Announced(m, links, s, In(s, "WAIT_BGSAVE_START"), s.master_repl_offset)
        \/ /\ IF s.rdb_child = NULL THEN setup.rdb = "socket" ELSE Attachable(s) = {}
           /\ server' = Answered(m, r, s)
           /\ conn' = links

\* replicationStartPendingFork, from the cron.
replicationStartPendingFork(m) ==
  LET s == server[m]
      w == In(s, "WAIT_BGSAVE_START")
  IN /\ s.rdb_child = NULL /\ w # {} /\ rdbPopulateSaveInfo(s) # NULL
     /\ server' = [server EXCEPT ![m] = startBgsaveForReplication(s, setup.rdb)]
     /\ conn' = Announced(m, conn, s, w, s.master_repl_offset)
     /\ UNCHANGED used

\* A save point is reached.
bgsave(m) ==
  /\ m \in setup.procs /\ server[m].rdb_child = NULL /\ used.event < setup.events
  /\ server' = [server EXCEPT ![m] = rdbSaveBackground(@, "disk")]
  /\ Spend("event") /\ UNCHANGED conn

\* The child is done: the file is in place, and the clients that wait for it
\* are online.  sendBulkToSlave sends them the file and then what their buffers
\* hold; those that had it through their sockets get that after their first ACK.
BgsaveServed(s) ==
  [s EXCEPT !.rdb_child = NULL,
            !.rdb_file = IF s.rdb_child.type = "disk" THEN s.rdb_child.rdb ELSE @,
            !.slaves = [r \in DOMAIN @ |->
               IF r \notin In(s, "WAIT_BGSAVE_END") THEN @[r]
               ELSE IF s.rdb_child.type = "disk" THEN SlaveClient("ONLINE")
               ELSE [@[r] EXCEPT !.replstate = "ONLINE", !.initial = NULL,
                                 !.online_on_ack = TRUE]]]

sendBulkToSlave(s, r) ==
  <<[t |-> "RDB", rdb |-> s.rdb_child.rdb]>>
    \o (IF s.rdb_child.type = "disk" THEN s.slaves[r].buf ELSE <<>>)

updateSlavesWaitingBgsave(m) ==
  LET s == server[m]
  IN /\ s.rdb_child # NULL
     /\ server' = [server EXCEPT ![m] = BgsaveServed(s)]
     /\ conn' = [r \in Node |->
                   IF r \in In(s, "WAIT_BGSAVE_END") /\ Live(m, r)
                   THEN [conn[r] EXCEPT !.down = @ \o sendBulkToSlave(s, r)] ELSE conn[r]]
     /\ UNCHANGED used

bgsaveFails_X(m) ==
  /\ server[m].rdb_child # NULL /\ used.event < setup.events
  /\ server' = [server EXCEPT ![m].rdb_child = NULL]
  /\ Spend("event") /\ UNCHANGED conn

\* The child fails: the clients that wait for it are freed.
bgsaveFails(m) ==
  LET s == server[m]
      w == In(s, "WAIT_BGSAVE_END")
  IN /\ s.rdb_child # NULL /\ used.event < setup.events
     /\ server' = [server EXCEPT ![m] = [FreeSlaves(s, w) EXCEPT !.rdb_child = NULL]]
     /\ conn' = Closed(m, w)
     /\ Spend("event")

\* REPLCONF ACK: the offset the replica has processed.  One that is read late
\* tells less, so it is read when it is sent.
replconfAck(m, r) ==
  LET c == server[m].slaves[r]
      off == server[r].master.reploff
  IN /\ r \in DOMAIN server[m].slaves /\ Live(m, r) /\ server[r].master # NULL
     /\ off > c.ack \/ c.online_on_ack
     /\ server' = [server EXCEPT ![m].slaves[r] =
          [c EXCEPT !.ack = IF off > @ THEN off ELSE @,
                    !.online_on_ack = FALSE, !.buf = IF c.online_on_ack THEN <<>> ELSE @]]
     /\ conn' = IF c.online_on_ack THEN [conn EXCEPT ![r].down = @ \o c.buf] ELSE conn
     /\ UNCHANGED used

\* A replica's client is freed: its link was closed, or timed out.
freeSlave(m, r) ==
  /\ r \in DOMAIN server[m].slaves
  /\ \/ ~Live(m, r) /\ UNCHANGED used
     \/ Live(m, r) /\ used.event < setup.events /\ Spend("event")
  /\ server' = [server EXCEPT ![m] = FreeSlaves(@, {r})]
  /\ conn' = Closed(m, {r})

freeReplicationBacklog_X(m) ==
  LET s == server[m]
  IN /\ s.masterhost = NULL /\ s.slaves = EmptySlaves /\ s.repl_backlog # NULL
     /\ server' = [server EXCEPT ![m].repl_backlog = NULL]
     /\ UNCHANGED <<conn, used>>

\* The cron frees the backlog of a master that has had no replicas for long.
\* The id goes with it: from now on the dataset changes and the offset does not.
freeReplicationBacklog(m) ==
  LET s == server[m]
  IN /\ s.masterhost = NULL /\ s.slaves = EmptySlaves /\ s.repl_backlog # NULL
     /\ server' = [server EXCEPT ![m] =
          [clearReplicationId2(changeReplicationId(s, Fresh)) EXCEPT !.repl_backlog = NULL]]
     /\ Spend("id") /\ UNCHANGED conn

-----------------------------------------------------------------------------
(* The replica. *)

\* The next message on the link of n.
Next1(n) == Head(conn[n].down).t
Readable(n) == conn[n] # NULL /\ conn[n].down # <<>>

\* +FULLRESYNC: the replicas of n have to start over too.
receiveFullResync(n) ==
  LET s == server[n]
      reply == Head(conn[n].down)
  IN /\ s.repl_state = "RECEIVE_PSYNC_REPLY" /\ Readable(n) /\ Next1(n) = "FULLRESYNC"
     /\ server' = [server EXCEPT ![n] =
          [disconnectSlaves(s) EXCEPT !.cached_master = NULL, !.repl_backlog = NULL,
             !.master_initial = MasterClient(reply.replid, reply.offset, 0),
             !.repl_state = "TRANSFER", !.failover = NULL]]
     /\ conn' = [Closed(n, DOMAIN s.slaves) EXCEPT ![n].down = Tail(@)]
     /\ UNCHANGED used

\* +CONTINUE: the cached master is resurrected; under a new id the old one
\* becomes replid2 and the replicas of n are told by closing their links.
receiveContinue(n) ==
  LET s == server[n]
      id == Head(conn[n].down).replid
      moved == IF id = s.cached_master.replid THEN s
               ELSE [disconnectSlaves(s) EXCEPT
                       !.replid2 = s.cached_master.replid,
                       !.second_replid_offset = s.master_repl_offset + 1,
                       !.replid = id, !.cached_master.replid = id]
      up == [moved EXCEPT !.master = moved.cached_master, !.cached_master = NULL,
                          !.repl_state = "CONNECTED", !.failover = NULL]
  IN /\ s.repl_state = "RECEIVE_PSYNC_REPLY" /\ Readable(n) /\ Next1(n) = "CONTINUE"
     /\ server' = [server EXCEPT ![n] =
          IF up.repl_backlog = NULL THEN createReplicationBacklog(up) ELSE up]
     /\ conn' = [Closed(n, DOMAIN s.slaves \ DOMAIN moved.slaves) EXCEPT ![n].down = Tail(@)]
     /\ UNCHANGED used

\* The link fails before the reply: to syncWithMaster that is an answer it
\* does not understand, and the cached master and the backlog are given up.
psyncReadError(n) ==
  LET s == server[n]
      t == [disconnectSlaves(s) EXCEPT !.cached_master = NULL, !.repl_backlog = NULL,
                                       !.repl_state = "CONNECT"]
      closed == conn[n] # NULL /\ conn[n].eof
  IN /\ \/ s.repl_state = "CONNECT"
        \/ s.repl_state = "RECEIVE_PSYNC_REPLY" /\ conn[n].down = <<>>
     /\ closed \/ used.event < setup.events
     /\ server' = [server EXCEPT ![n] = IF InFailover(s) THEN abortFailover(s, Fresh) ELSE t]
     /\ conn' = [Closed(n, DOMAIN s.slaves) EXCEPT ![n] = NULL]
     /\ used' = [used EXCEPT !.event = IF closed THEN @ ELSE @ + 1,
                             !.id = IF InFailover(s) THEN @ + 1 ELSE @]

\* Every other way to lose the link: what was connected is cached, and n
\* connects again.
lostLink(n) ==
  LET s == server[n]
  IN /\ s.repl_state \in {"RECEIVE_PSYNC_REPLY", "TRANSFER", "CONNECTED"}
     /\ \/ conn[n].eof /\ s.repl_state # "RECEIVE_PSYNC_REPLY" /\ UNCHANGED used
        \/ ~conn[n].eof /\ used.event < setup.events /\ Spend("event")
     /\ server' = [server EXCEPT ![n] = Reconnecting(FreeMaster(s))]
     /\ conn' = [conn EXCEPT ![n] = NULL]

\* readSyncBulkPayload: the whole file has arrived and is loaded.
readSyncBulkPayload(n) ==
  LET s == server[n]
      msg == Head(conn[n].down)
      m == [s.master_initial EXCEPT !.db = msg.rdb.stream_db]
      loaded == [s EXCEPT !.data = msg.rdb.data, !.rdb_file = msg.rdb, !.rdb_child = NULL,
                   !.master = m, !.master_initial = NULL, !.repl_state = "CONNECTED",
                   !.replid = m.replid, !.master_repl_offset = m.reploff]
  IN /\ s.repl_state = "TRANSFER" /\ Readable(n) /\ Next1(n) = "RDB"
     /\ server' = [server EXCEPT ![n] =
          createReplicationBacklog(clearReplicationId2(loaded))]
     /\ conn' = [conn EXCEPT ![n].down = Tail(@)]
     /\ UNCHANGED used

\* The file has arrived, the old dataset and the child that saves it are gone,
\* and a step on the way fails: the file is not put in the place of the old one,
\* or it is, and does not load.
loadFails(n) ==
  LET s == server[n]
  IN /\ s.repl_state = "TRANSFER" /\ Readable(n) /\ Next1(n) = "RDB" /\ used.event < setup.events
     /\ \E file \in {s.rdb_file, Head(conn[n].down).rdb} :
          server' = [server EXCEPT ![n] =
            [Reconnecting(s) EXCEPT !.data = <<>>, !.rdb_child = NULL, !.rdb_file = file]]
     /\ conn' = [conn EXCEPT ![n] = NULL]
     /\ Spend("event")

\* A command of the stream: commandProcessed passes on what it applied.
commandProcessed(n) ==
  LET s == server[n]
      e == Head(conn[n].down)
      st == Execute([data |-> s.data, db |-> s.master.db], e)
      t == [s EXCEPT !.data = st.data, !.master.db = st.db, !.master.reploff = @ + 1]
  IN /\ s.repl_state = "CONNECTED" /\ Readable(n)
     /\ server' = [server EXCEPT ![n] = FeedBuffers(feedReplicationBacklog(t, <<e>>), <<e>>)]
     /\ conn' = [FeedLinks(n, s, <<e>>) EXCEPT ![n].down = Tail(@)]
     /\ UNCHANGED used

-----------------------------------------------------------------------------
(* Commands of the administrator, and restarts. *)

replicaofNoOne(n) ==
  LET s == server[n]
  IN /\ s.masterhost # NULL /\ s.failover = NULL /\ used.event < setup.events
     /\ server' = [server EXCEPT ![n] = replicationUnsetMaster(s, Fresh)]
     /\ conn' = [Closed(n, DOMAIN s.slaves) EXCEPT ![n] = NULL]
     /\ used' = [used EXCEPT !.event = @ + 1, !.id = @ + 1]

SetMaster(n, s, h) ==
  /\ server' = [server EXCEPT ![n] = replicationSetMaster(s, h)]
  /\ conn' = [Closed(n, DOMAIN s.slaves) EXCEPT ![n] = NULL]

replicaof(n, h) ==
  LET s == server[n]
  IN /\ {n, h} \subseteq setup.procs /\ h \notin {n, s.masterhost} /\ s.failover = NULL /\ used.event < setup.events
     /\ SetMaster(n, s, h)
     /\ Spend("event")

failoverCommand(m, target, force, timed) ==
  LET s == server[m]
  IN /\ s.failover = NULL /\ s.masterhost = NULL /\ s.slaves # EmptySlaves
     /\ force => timed /\ target # NULL
     /\ target # NULL => target \in In(s, "ONLINE")
     /\ used.event < setup.events
     /\ server' = [server EXCEPT ![m].failover =
          [state |-> "WAIT_FOR_SYNC", target |-> target, force |-> force, timed |-> timed]]
     /\ Spend("event") /\ UNCHANGED conn

failoverAbort(m) ==
  LET s == server[m]
  IN /\ s.failover # NULL
     /\ server' = [server EXCEPT ![m] = abortFailover(s, Fresh)]
     /\ conn' = IF InFailover(s) THEN [Closed(m, DOMAIN s.slaves) EXCEPT ![m] = NULL] ELSE conn
     /\ used' = [used EXCEPT !.id = IF InFailover(s) THEN @ + 1 ELSE @]

Going(s, r) == [s EXCEPT !.failover.state = "IN_PROGRESS", !.failover.target = r]

updateFailoverStatus_X(m, r) ==
  LET s == server[m]
  IN /\ s.failover # NULL /\ s.failover.state = "WAIT_FOR_SYNC"
     /\ r \in DOMAIN s.slaves /\ s.failover.target \in {NULL, r}
     /\ SetMaster(m, Going(s, r), r)
     /\ UNCHANGED used

\* updateFailoverStatus: a replica has acknowledged the whole stream.
updateFailoverStatus(m, r) ==
  LET s == server[m]
  IN /\ s.failover # NULL /\ s.failover.state = "WAIT_FOR_SYNC"
     /\ r \in DOMAIN s.slaves /\ s.failover.target \in {NULL, r}
     /\ s.slaves[r].ack = s.master_repl_offset
     /\ SetMaster(m, Going(s, r), r)
     /\ UNCHANGED used

\* ... or the time is over.
failoverTimeout(m) ==
  LET s == server[m]
  IN /\ s.failover # NULL /\ s.failover.state = "WAIT_FOR_SYNC" /\ s.failover.timed
     /\ IF s.failover.force
        THEN SetMaster(m, Going(s, s.failover.target), s.failover.target)
        ELSE server' = [server EXCEPT ![m] = abortFailover(s, Fresh)] /\ UNCHANGED conn
     /\ UNCHANGED used

\* loadDataFromDisk: a process that starts as a replica resumes from the id
\* and the offset in the file; a master takes only the dataset.
loadDataFromDisk(s, id, h) ==
  LET f == s.rdb_file
      new == [NewServer(id, h, IF f = NULL THEN <<>> ELSE f.data) EXCEPT !.rdb_file = f]
  IN IF h = NULL \/ f = NULL THEN new
     ELSE IF f.stream_db = NULL THEN new
     ELSE replicationCacheMasterUsingMyself(
            [new EXCEPT !.replid = f.replid, !.master_repl_offset = f.offset], f.stream_db)

\* A process starts again with the configuration it had.
restart(n) ==
  /\ n \in setup.procs /\ used.event < setup.events
  /\ server' = [server EXCEPT ![n] = loadDataFromDisk(@, Fresh, @.masterhost)]
  /\ conn' = [r \in Node |->
       IF r = n THEN NULL
       ELSE IF conn[r] # NULL /\ conn[r].to = n THEN [conn[r] EXCEPT !.eof = TRUE]
       ELSE conn[r]]
  /\ used' = [used EXCEPT !.event = @ + 1, !.restart = @ + 1, !.id = @ + 1]

-----------------------------------------------------------------------------
MasterStep(m) ==
  \/ \E db \in 0..1 : Write(m, db)
  \/ Ping(m)
  \/ \E r \in Node : \/ syncRefused(m, r) \/ syncPartial(m, r) \/ syncFull(m, r)
                     \/ replconfAck(m, r) \/ freeSlave(m, r)
  \/ replicationStartPendingFork(m) \/ bgsave(m) \/ updateSlavesWaitingBgsave(m) \/ bgsaveFails(m)
  \/ freeReplicationBacklog(m)

ReplicaStep(n) ==
  \/ receiveFullResync(n) \/ receiveContinue(n) \/ psyncReadError(n)
  \/ lostLink(n) \/ readSyncBulkPayload(n) \/ loadFails(n)
  \/ commandProcessed(n)

AdminStep(n) ==
  \/ replicaofNoOne(n)
  \/ \E h \in Node : replicaof(n, h) \/ updateFailoverStatus(n, h)
  \/ \E target \in Node \cup {NULL}, force, timed \in BOOLEAN :
       failoverCommand(n, target, force, timed)
  \/ failoverAbort(n) \/ failoverTimeout(n) \/ restart(n)

Next == \E n \in Node : MasterStep(n) \/ ReplicaStep(n) \/ AdminStep(n)

Spec == Init /\ [][Next]_vars

-----------------------------------------------------------------------------
\* A partial resynchronization that would be accepted would be right: the
\* dataset a disconnected replica holds, followed by the part of the backlog
\* it would be sent, is the dataset of the server that accepts it.
PartialResyncSafe ==
  \A n, m \in Node :
    LET s == server[n]
        req == [replid |-> s.cached_master.replid, offset |-> s.cached_master.reploff + 1]
    IN n # m /\ s.cached_master # NULL /\ masterTryPartialResynchronization(server[m], req)
       => Replay(s.data, s.cached_master.db,
                 addReplyReplicationBacklog(server[m], req.offset)).data = server[m].data

\* A connected replica is behind its master, never beside it: its dataset,
\* with the commands on their way to it, is its master's, and so is its offset.
StreamConsistent ==
  \A n, m \in Node :
    LET s == server[n]
        c == server[m].slaves[n]
        pending == conn[n].down \o c.buf
    IN s.repl_state = "CONNECTED" /\ Live(m, n) /\ n \in DOMAIN server[m].slaves
       => /\ Replay(s.data, s.master.db, pending).data = server[m].data
          /\ s.master.reploff + Len(pending) = server[m].master_repl_offset
          /\ s.master_repl_offset = s.master.reploff

\* Nobody is left behind: when nothing more happens by itself, every replica
\* whose masters are not failing over has the dataset of its master, whatever
\* links, BGSAVEs and loads failed on the way.  Replicas in a cycle have none.
Internal(n) ==
  \/ \E r \in Node : \/ syncRefused(n, r) \/ syncPartial(n, r) \/ syncFull(n, r)
                            \/ replconfAck(n, r) \/ freeSlave(n, r)
                            \/ updateFailoverStatus(n, r)
  \/ replicationStartPendingFork(n) \/ updateSlavesWaitingBgsave(n)
  \/ failoverTimeout(n) \/ ReplicaStep(n)

Follows(n, m) == server[n].masterhost = m /\ server[m].masterhost = NULL /\ server[m].failover = NULL

NoReplicaLeftBehind ==
  used.event = setup.events /\ ~ENABLED (\E n \in Node : Internal(n))
    => \A n, m, h \in Node :
         /\ Follows(n, m) => server[n].repl_state = "CONNECTED" /\ server[n].data = server[m].data
         /\ Follows(m, h) /\ server[n].masterhost = m
              => server[n].repl_state = "CONNECTED" /\ server[n].data = server[h].data

\* A FAILOVER that was not forced loses no write: when a replica is promoted
\* by PSYNC FAILOVER as a replica of the master that asked for it, it has that
\* master's dataset, as long as no process has restarted with an older one.
FailoverLosesNothing ==
  [][\A m, r \in Node :
       Asking(m, r) /\ server[m].masterhost = r /\ server'[m].masterhost = NULL
         /\ Promotes(m, r) /\ ~server[r].failover.force /\ used.restart = 0
       => server[m].data = server[r].data]_vars
=============================================================================
