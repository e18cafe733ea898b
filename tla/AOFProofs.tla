----------------------------- MODULE AOFProofs ------------------------------
(***************************************************************************)
(* RewriteTail, LogComplete, ShutdownKeepsAll and ImplementsDurableLog for *)
(* every configuration, and for logs, buffers and pipes of any length.     *)
(*                                                                         *)
(* IInv has the types and RewriteTail.  LInv says what the file and the    *)
(* differences of a rewrite load to; it rests on logs being regular: with  *)
(* every entry the dataset that the log loads to grows or stays, and is    *)
(* never left inside of a transaction, so that what a crash leaves of the  *)
(* log loads to a prefix.  TornInv keeps torn entries apart from           *)
(* preambles.  AInv says how much of the log has to be there for what was  *)
(* answered.  Induction over the length of a log is over a set of numbers  *)
(* (Induction), for each fact that needs it.                               *)
(***************************************************************************)
EXTENDS AOF, TLAPS

\* A leaf is left to Zenon unless it names SMT (or PTL).
USE ZenonT(60)

Entry ==
  {Multi, Exec} \cup {Select(d) : d \in Nat}
  \cup {Command(n, part) : n \in Int, part \in 0..2}

ServerFields ==
  {"run", "data", "pending", "aof_state", "aof_buf", "aof_rewrite_buf", "aof_selected_db",
   "aof_rewrite_scheduled", "aof_stop_sending_diff", "aof_last_write_status",
   "aof_bio_fsync_status", "behind", "second", "postponed"}

ServerOK(s) ==
  /\ DOMAIN s = ServerFields
  /\ s.aof_buf \in Seq(Entry) /\ s.aof_rewrite_buf \in Seq(Entry)

FileOK(f) ==
  /\ DOMAIN f = {"base", "log", "torn", "synced"}
  /\ f.log \in Seq(Entry) /\ f.synced \in Nat

ChildOK(c) ==
  /\ DOMAIN c = {"type", "base", "diff", "pipe", "stage"}
  /\ c.diff \in Seq(Entry) /\ c.pipe \in Seq(Entry)

BudgetOK ==
  /\ conf \in Setups
  /\ DOMAIN left = DOMAIN conf /\ left.writes \in Int

\* The types, that only a rewrite under way has differences, and RewriteTail.
IInv ==
  /\ BudgetOK /\ ServerOK(server) /\ FileOK(file) /\ bio \in Seq(Nat)
  /\ HasChild("aof") => ChildOK(child)
  /\ Up /\ ~HasChild("aof") => server.aof_rewrite_buf = <<>>
  /\ RewriteTail

-----------------------------------------------------------------------------
(* Sequences *)

\* Sequences with the same entries are the same.
LEMMA SameEntries ==
  ASSUME NEW S, NEW s \in Seq(S), NEW t \in Seq(S), Len(s) = Len(t),
         \A i \in 1..Len(s) : s[i] = t[i]
  PROVE  s = t
BY SMT

\* Concatenation is associative.
LEMMA ConcatAssoc ==
  \A s, t, u \in Seq(Entry) : (s \o t) \o u = s \o (t \o u)
BY SMTT(30)

\* The entries of a concatenation.
LEMMA ConcatEntries ==
  ASSUME NEW S, NEW s \in Seq(S), NEW t \in Seq(S)
  PROVE  /\ s \o t \in Seq(S) /\ Len(s \o t) = Len(s) + Len(t)
         /\ \A i \in 1..(Len(s) + Len(t)) :
              (s \o t)[i] = IF i <= Len(s) THEN s[i] ELSE t[i - Len(s)]
BY SMT

\* Two parts of a sequence, side by side.
LEMMA Adjacent ==
  ASSUME NEW S, NEW s \in Seq(S),
         NEW m \in 1..Len(s)+1, NEW k \in m-1..Len(s), NEW n \in k..Len(s)
  PROVE  SubSeq(s, m, k) \o SubSeq(s, k+1, n) = SubSeq(s, m, n)
BY SMT

\* A sequence is what comes first followed by the rest.
LEMMA Split ==
  ASSUME NEW S, NEW s \in Seq(S), NEW n \in 0..Len(s)
  PROVE  /\ SubSeq(s, 1, n) \in Seq(S) /\ SubSeq(s, n + 1, Len(s)) \in Seq(S)
         /\ SubSeq(s, 1, n) \o SubSeq(s, n + 1, Len(s)) = s
<1>1. SubSeq(s, 1, n) \in Seq(S) /\ SubSeq(s, n + 1, Len(s)) \in Seq(S)
  BY SMT
<1>2. SubSeq(s, 1, n) \o SubSeq(s, n + 1, Len(s)) = SubSeq(s, 1, Len(s))
  <2>1. 1 \in 1..(Len(s) + 1) /\ n \in (1 - 1)..Len(s) /\ Len(s) \in n..Len(s)
    BY SMT
  <2> QED
    BY <2>1, Adjacent
<1>3. SubSeq(s, 1, Len(s)) = s
  BY SMT
<1> QED
  BY <1>1, <1>2, <1>3

\* The first n elements of a sequence.
First(s, n) == SubSeq(s, 1, n)

\* What the first elements are.
LEMMA FirstProperties ==
  ASSUME NEW S, NEW s \in Seq(S), NEW n \in 0..Len(s)
  PROVE  /\ First(s, n) \in Seq(S) /\ Len(First(s, n)) = n
         /\ \A i \in 1..n : First(s, n)[i] = s[i]
<1>1. First(s, n) \in Seq(S)
  BY SMT DEF First
<1>2. Len(First(s, n)) = n
  BY SMT DEF First
<1>3. \A i \in 1..n : First(s, n)[i] = s[i]
  BY SMT DEF First
<1> QED BY <1>1, <1>2, <1>3

\* One more.
LEMMA FirstNext ==
  ASSUME NEW S, NEW s \in Seq(S), NEW n \in 1..Len(s)
  PROVE  First(s, n) = Append(First(s, n - 1), s[n])
<1>1. n \in 0..Len(s) /\ n - 1 \in 0..Len(s) /\ s[n] \in S
  BY SMT
<1> DEFINE f == First(s, n)
           g == First(s, n - 1)
<1>2. /\ f \in Seq(S) /\ Len(f) = n /\ \A i \in 1..n : f[i] = s[i]
      /\ g \in Seq(S) /\ Len(g) = n - 1 /\ \A i \in 1..(n - 1) : g[i] = s[i]
  BY <1>1, FirstProperties
<1> HIDE DEF f, g
<1>3. f = Append(g, s[n])
  BY <1>1, <1>2, SMT
<1> QED BY <1>3 DEF f, g

\* All of them.
LEMMA FirstAll ==
  ASSUME NEW S, NEW s \in Seq(S)
  PROVE  First(s, Len(s)) = s
BY SMT DEF First

\* None of them.
LEMMA FirstNone ==
  ASSUME NEW S, NEW s \in Seq(S)
  PROVE  First(s, 0) = <<>>
<1>1. 0 \in 0..Len(s)
  BY SMT
<1>2. First(s, 0) \in Seq(S) /\ Len(First(s, 0)) = 0
  BY <1>1, FirstProperties
<1> QED BY <1>2, SMT

\* The first ones of the first ones.
LEMMA FirstOfFirst ==
  ASSUME NEW S, NEW s \in Seq(S), NEW m \in 0..Len(s), NEW n \in 0..m
  PROVE  First(First(s, m), n) = First(s, n)
<1> DEFINE t == First(s, m)
           f == First(t, n)
           g == First(s, n)
<1>1. t \in Seq(S) /\ Len(t) = m /\ \A i \in 1..m : t[i] = s[i]
  BY FirstProperties
<1> HIDE DEF t
<1>2. f \in Seq(S) /\ Len(f) = n /\ \A i \in 1..n : f[i] = t[i]
  BY <1>1, FirstProperties
<1>3. g \in Seq(S) /\ Len(g) = n /\ \A i \in 1..n : g[i] = s[i]
  <2>1. n \in 0..Len(s)
    BY SMT
  <2> QED BY <2>1, FirstProperties
<1> HIDE DEF f, g
<1>4. f = g
  BY <1>1, <1>2, <1>3, SMT
<1> QED BY <1>4 DEF f, g, t

\* The first ones of what was appended to.
LEMMA FirstOfConcat ==
  ASSUME NEW S, NEW s \in Seq(S), NEW u \in Seq(S), NEW n \in 0..Len(s)
  PROVE  First(s \o u, n) = First(s, n)
<1> DEFINE t == s \o u
           f == First(t, n)
           g == First(s, n)
<1>1. t \in Seq(S) /\ n \in 0..Len(t) /\ \A i \in 1..n : t[i] = s[i]
  BY SMT
<1> HIDE DEF t
<1>2. f \in Seq(S) /\ Len(f) = n /\ \A i \in 1..n : f[i] = t[i]
  BY <1>1, FirstProperties
<1>3. g \in Seq(S) /\ Len(g) = n /\ \A i \in 1..n : g[i] = s[i]
  BY FirstProperties
<1> HIDE DEF f, g
<1>4. f = g
  BY <1>1, <1>2, <1>3, SMT
<1> QED BY <1>4 DEF f, g, t

-----------------------------------------------------------------------------
(* The types and RewriteTail *)

\* try_fsync touches no entry of the file and of the buffers.
LEMMA TryFsync ==
  ASSUME NEW s, ServerOK(s), NEW f, FileOK(f), bio \in Seq(Nat), NEW sip \in BOOLEAN,
         NEW o \in try_fsync(s, f, sip)
  PROVE  /\ ServerOK(o.server) /\ FileOK(o.file) /\ o.bio \in Seq(Nat)
         /\ o.file.log = f.log /\ o.server.aof_buf = s.aof_buf
         /\ o.server.aof_rewrite_buf = s.aof_rewrite_buf
         /\ o.server.aof_state = s.aof_state
         /\ o.server.run \in {s.run, "crashed"}
<1>1. Len(f.log) \in Nat
  BY SMT DEF FileOK
<1>2. \/ o = Outcome(s, f, bio, 0)
      \/ o = Outcome([s EXCEPT !.behind = FALSE, !.second = FALSE], fsync(f), bio, 0)
      \/ o = Outcome(Exited(s), f, bio, 1)
      \/ o = Outcome([s EXCEPT !.second = FALSE], f, bio, 0)
      \/ o = Outcome([s EXCEPT !.second = FALSE, !.behind = FALSE], f,
                     Append(bio, Len(f.log)), 0)
  BY DEF try_fsync, fsyncEverysec
<1>3. CASE o = Outcome(s, f, bio, 0)
  BY <1>3 DEF Outcome
<1>4. CASE o = Outcome([s EXCEPT !.behind = FALSE, !.second = FALSE], fsync(f), bio, 0)
  BY <1>1, <1>4 DEF Outcome, fsync, ServerOK, ServerFields, FileOK
<1>5. CASE o = Outcome(Exited(s), f, bio, 1)
  BY <1>5 DEF Outcome, Exited, ServerOK, ServerFields
<1>6. CASE o = Outcome([s EXCEPT !.second = FALSE], f, bio, 0)
  BY <1>6 DEF Outcome, ServerOK, ServerFields
<1>7. CASE o = Outcome([s EXCEPT !.second = FALSE, !.behind = FALSE], f,
                       Append(bio, Len(f.log)), 0)
  <2>1. Append(bio, Len(f.log)) \in Seq(Nat)
    BY <1>1, SMT
  <2> QED
    BY <2>1, <1>7 DEF Outcome, ServerOK, ServerFields
<1> QED
  BY <1>2, <1>3, <1>4, <1>5, <1>6, <1>7

\* An outcome of a flush of a server that stays up has the same log and
\* buffer taken together; every outcome has well-formed ones.
LEMMA FlushStep ==
  ASSUME ServerOK(server), FileOK(file), bio \in Seq(Nat), NEW force \in BOOLEAN,
         NEW o \in flushAppendOnlyFile(server, force)
  PROVE  /\ ServerOK(o.server) /\ FileOK(o.file) /\ o.bio \in Seq(Nat)
         /\ o.server.aof_rewrite_buf = server.aof_rewrite_buf
         /\ o.server.aof_state = server.aof_state
         /\ o.server.run \in {server.run, "crashed"}
         /\ o.server.run # "crashed" =>
              o.file.log \o o.server.aof_buf = file.log \o server.aof_buf
<1> DEFINE w(s) == Written(s)
           f == [file EXCEPT !.log = @ \o server.aof_buf, !.torn = FALSE]
           later == [server EXCEPT !.postponed = IF @ = 0 THEN 1 ELSE @]
<1>1. /\ ServerOK(w(server)) /\ w(server).aof_buf = <<>>
      /\ w(server).aof_rewrite_buf = server.aof_rewrite_buf
      /\ w(server).aof_state = server.aof_state /\ w(server).run = server.run
  BY SMT DEF Written, ServerOK, ServerFields
<1>2. FileOK(f) /\ f.log = file.log \o server.aof_buf
  BY SMT DEF FileOK, ServerOK
<1>3. \/ o = Outcome(server, file, bio, 0)
      \/ o = Outcome(later, file, bio, 0)
      \/ o \in try_fsync(server, file, FALSE)
      \/ \E sip \in BOOLEAN : o \in try_fsync(w(server), f, sip)
      \/ \E e \in ShortWrites(server) : o = WriteError(server, e[1], e[2])
  <2>1. (conf.fsync = "everysec" /\ bio # <<>>) \in BOOLEAN
    OBVIOUS
  <2> QED
    BY <2>1 DEF flushAppendOnlyFile
<1>4. CASE o = Outcome(server, file, bio, 0)
  BY <1>4 DEF Outcome
<1>5. CASE o = Outcome(later, file, bio, 0)
  BY <1>5 DEF Outcome, ServerOK, ServerFields
<1>6. CASE o \in try_fsync(server, file, FALSE)
  <2>1. FALSE \in BOOLEAN
    OBVIOUS
  <2>2. /\ ServerOK(o.server) /\ FileOK(o.file) /\ o.bio \in Seq(Nat)
        /\ o.file.log = file.log /\ o.server.aof_buf = server.aof_buf
        /\ o.server.aof_rewrite_buf = server.aof_rewrite_buf
        /\ o.server.aof_state = server.aof_state
        /\ o.server.run \in {server.run, "crashed"}
    BY <1>6, <2>1, TryFsync
  <2> QED
    BY <2>2
<1>7. ASSUME NEW sip \in BOOLEAN, o \in try_fsync(w(server), f, sip)
      PROVE  /\ ServerOK(o.server) /\ FileOK(o.file) /\ o.bio \in Seq(Nat)
             /\ o.server.aof_rewrite_buf = server.aof_rewrite_buf
             /\ o.server.aof_state = server.aof_state
             /\ o.server.run \in {server.run, "crashed"}
             /\ o.file.log \o o.server.aof_buf = file.log \o server.aof_buf
  <2> HIDE DEF w, f
  <2>1. /\ ServerOK(o.server) /\ FileOK(o.file) /\ o.bio \in Seq(Nat)
        /\ o.file.log = f.log /\ o.server.aof_buf = w(server).aof_buf
        /\ o.server.aof_rewrite_buf = w(server).aof_rewrite_buf
        /\ o.server.aof_state = w(server).aof_state
        /\ o.server.run \in {w(server).run, "crashed"}
    BY <1>1, <1>2, <1>7, TryFsync
  <2>2. f.log \o <<>> = f.log
    BY <1>2, SMT DEF FileOK
  <2> QED
    BY <1>1, <1>2, <2>1, <2>2
<1>8. ASSUME NEW e \in ShortWrites(server), o = WriteError(server, e[1], e[2])
      PROVE  /\ ServerOK(o.server) /\ FileOK(o.file) /\ o.bio \in Seq(Nat)
             /\ o.server.aof_rewrite_buf = server.aof_rewrite_buf
             /\ o.server.aof_state = server.aof_state
             /\ o.server.run \in {server.run, "crashed"}
             /\ o.server.run # "crashed" =>
                  o.file.log \o o.server.aof_buf = file.log \o server.aof_buf
  <2> DEFINE n == e[1]
             first == SubSeq(server.aof_buf, 1, n)
             last == SubSeq(server.aof_buf, n + 1, Len(server.aof_buf))
             g == [file EXCEPT !.log = @ \o first, !.torn = e[2]]
             rest == [server EXCEPT !.aof_buf = last,
                                    !.behind = @ \/ n > 0 \/ e[2],
                                    !.postponed = 0,
                                    !.aof_last_write_status = FALSE]
  <2>1. n \in 0..Len(server.aof_buf)
    BY SMT DEF ShortWrites, ServerOK
  <2>2. first \in Seq(Entry) /\ last \in Seq(Entry) /\ first \o last = server.aof_buf
    BY <2>1, Split DEF ServerOK
  <2>3. o = Outcome(IF conf.fsync = "always" THEN Exited(server) ELSE rest, g, bio, 1)
    BY <1>8 DEF WriteError
  <2> HIDE DEF first, last, n
  <2>4. FileOK(g) /\ g.log = file.log \o first
    BY <2>2, SMTT(30) DEF FileOK
  <2>5. /\ ServerOK(rest) /\ rest.aof_buf = last
        /\ rest.aof_rewrite_buf = server.aof_rewrite_buf
        /\ rest.aof_state = server.aof_state /\ rest.run = server.run
    BY <2>2 DEF ServerOK, ServerFields
  <2>6. /\ ServerOK(Exited(server)) /\ Exited(server).run = "crashed"
        /\ Exited(server).aof_rewrite_buf = server.aof_rewrite_buf
        /\ Exited(server).aof_state = server.aof_state
    BY DEF Exited, ServerOK, ServerFields
  <2>7. (file.log \o first) \o last = file.log \o server.aof_buf
    <3>1. file.log \in Seq(Entry)
      BY DEF FileOK
    <3>2. (file.log \o first) \o last = file.log \o (first \o last)
      BY <2>2, <3>1, ConcatAssoc
    <3> QED
      BY <2>2, <3>2
  <2> HIDE DEF g, rest
  <2> QED
    BY <2>3, <2>4, <2>5, <2>6, <2>7 DEF Outcome
<1> QED
  BY <1>3, <1>4, <1>5, <1>6, <1>7, <1>8

\* It holds at the start.
LEMMA InvInit == Init => IInv
<1> SUFFICES ASSUME Init PROVE IInv
  OBVIOUS
<1>1. BudgetOK
  BY SetupsAssumption, SMT DEF Init, BudgetOK
<1>2. ServerOK(server) /\ server.aof_rewrite_buf = <<>>
  BY SMT DEF Init, NewServer, ServerOK, ServerFields
<1>3. FileOK(file)
  BY SMT DEF Init, FileOK
<1>4. ~HasChild("aof") /\ bio \in Seq(Nat)
  BY SMT DEF Init, HasChild, NoChild
<1> QED
  BY <1>1, <1>2, <1>3, <1>4 DEF IInv, RewriteTail

\* Every step keeps it.
LEMMA InvNext == IInv /\ [Next]_vars => IInv'
\* A sequence ends with the empty one.
<1>EndsWithEmpty. ASSUME NEW t \in Seq(Entry) PROVE EndsWith(t, <<>>)
  BY <1>EndsWithEmpty, SMT DEF EndsWith
\* Both sides of EndsWith may grow by the same entries.
<1>EndsWithGrow. ASSUME NEW t \in Seq(Entry), NEW s \in Seq(Entry), NEW u \in Seq(Entry), EndsWith(t, s)
                 PROVE  EndsWith(t \o u, s \o u)
  BY <1>EndsWithGrow, SMTT(30) DEF EndsWith
\* A log and the differences may grow by the same entries.
<1>TailGrows. ASSUME NEW log \in Seq(Entry), NEW old \in Seq(Entry), NEW sent \in Seq(Entry),
                     NEW rest \in Seq(Entry), NEW new \in Seq(Entry), EndsWith(log \o old, sent \o rest)
              PROVE  EndsWith(log \o (old \o new), sent \o (rest \o new))
  <2>1. /\ log \in Seq(Entry) /\ old \in Seq(Entry) /\ new \in Seq(Entry)
        /\ sent \in Seq(Entry) /\ rest \in Seq(Entry)
    BY <1>TailGrows
  <2>2. log \o old \in Seq(Entry) /\ sent \o rest \in Seq(Entry)
    BY <2>1, SMT
  <2>3. EndsWith((log \o old) \o new, (sent \o rest) \o new)
    BY <1>TailGrows, <2>2, <1>EndsWithGrow
  <2>4. (log \o old) \o new = log \o (old \o new)
    BY <2>1, ConcatAssoc
  <2>5. (sent \o rest) \o new = sent \o (rest \o new)
    BY <2>1, ConcatAssoc
  <2> QED
    BY <2>3, <2>4, <2>5
\* A budget other than that of the writes may shrink.
<1>Spent. ASSUME BudgetOK, UNCHANGED conf, Spend("faults") \/ Spend("crashes")
          PROVE  BudgetOK'
  <2> USE <1>Spent
  <2>1. CASE Spend("faults")
    BY <2>1, SMT DEF Spend, BudgetOK
  <2>2. CASE Spend("crashes")
    BY <2>2, SMT DEF Spend, BudgetOK
  <2> QED
    BY <2>1, <2>2
\* A step that leaves alone the entries on their way.
<1>PlainStep. ASSUME IInv, BudgetOK', ServerOK(server'), FileOK(file'), (bio \in Seq(Nat))',
                     server'.run = server.run, server'.aof_state = server.aof_state,
                     server'.aof_buf = server.aof_buf,
                     server'.aof_rewrite_buf = server.aof_rewrite_buf,
                     file'.log = file.log,
                     HasChild("aof")' <=> HasChild("aof"),
                     HasChild("aof") => /\ ChildOK(child')
                                        /\ child'.diff = child.diff /\ child'.pipe = child.pipe
              PROVE  IInv'
  BY <1>PlainStep DEF IInv, RewriteTail, Up
\* A step after which the process is gone.
<1>DownStep. ASSUME BudgetOK', ServerOK(server'), FileOK(file'), (bio \in Seq(Nat))',
                    server'.run # "up", HasChild("aof")' => ChildOK(child')
             PROVE  IInv'
  BY <1>DownStep DEF IInv, RewriteTail, Up
\* A step after which no rewrite is under way.
<1>NoRewriteStep. ASSUME BudgetOK', ServerOK(server'), FileOK(file'), (bio \in Seq(Nat))',
                         ~HasChild("aof")', server'.aof_rewrite_buf = <<>>
                  PROVE  IInv'
  BY <1>NoRewriteStep DEF IInv, RewriteTail
\* A step that forks the rewriting child.
<1>ForkStep. ASSUME BudgetOK', ServerOK(server'), FileOK(file'), (bio \in Seq(Nat))',
                    child' = RewriteChild(server), server'.aof_rewrite_buf = <<>>
             PROVE  IInv'
  <2> USE <1>ForkStep
  <2>1. /\ ChildOK(child') /\ child'.diff = <<>> /\ child'.pipe = <<>>
    BY SMT DEF RewriteChild, ChildOK
  <2>2. HasChild("aof")' => ChildOK(child')
    BY <2>1
  <2>3. (file.log \o server.aof_buf)' \in Seq(Entry)
    BY SMT DEF FileOK, ServerOK
  <2>4. child'.diff \o child'.pipe \o server'.aof_rewrite_buf = <<>>
    BY <2>1, SMT
  <2>5. EndsWith(file'.log \o server'.aof_buf,
                 child'.diff \o child'.pipe \o server'.aof_rewrite_buf)
    BY <2>3, <2>4, <1>EndsWithEmpty
  <2> QED
    BY <2>2, <2>5 DEF IInv, RewriteTail
\* A step of a rewrite that only moves entries on, or a flush.
<1>MoveStep. ASSUME IInv, BudgetOK', ServerOK(server'), FileOK(file'), (bio \in Seq(Nat))',
                    server'.run = server.run, server'.aof_state = server.aof_state,
                    HasChild("aof")' <=> HasChild("aof"),
                    ~HasChild("aof") => server'.aof_rewrite_buf = server.aof_rewrite_buf,
                    file'.log \o server'.aof_buf = file.log \o server.aof_buf,
                    HasChild("aof") =>
                      /\ ChildOK(child')
                      /\ child'.diff \o child'.pipe \o server'.aof_rewrite_buf
                           = child.diff \o child.pipe \o server.aof_rewrite_buf
             PROVE  IInv'
  BY <1>MoveStep DEF IInv, RewriteTail, Up
\* A write appends the same entries to the log and to the differences.
<1>FeedStep. ASSUME IInv, NEW d \in conf.dbs, NEW writes, NEW cmds \in Seq(Entry),
                    Executed(d, writes, cmds)
             PROVE  IInv'
  <2> USE <1>FeedStep
  <2> DEFINE s == [server EXCEPT !.data = @ \o writes, !.pending = TRUE]
             buf == (IF d # s.aof_selected_db THEN <<Select(d)>> ELSE <<>>) \o cmds
  <2>1. d \in Nat
    BY SetupsAssumption DEF IInv, BudgetOK
  <2>2. Select(d) \in Entry
    BY <2>1, SMT DEF Entry
  <2>3. buf \in Seq(Entry)
    BY <2>2, SMT
  <2>4. /\ ServerOK(s) /\ s.aof_buf = server.aof_buf /\ s.aof_state = server.aof_state
        /\ s.aof_rewrite_buf = server.aof_rewrite_buf /\ s.run = server.run
    BY DEF IInv, ServerOK, ServerFields
  <2>5. server' = feedAppendOnlyFile(s, d, cmds) /\ UNCHANGED <<file, child, bio, conf>>
    BY DEF Executed
  <2>6. BudgetOK'
    BY SMT DEF Executed, Spend, IInv, BudgetOK
  <2>7. CASE s.aof_state = AOF_OFF
    <3>1. server' = s
      BY <2>5, <2>7 DEF feedAppendOnlyFile
    <3> QED
      BY <3>1, <2>4, <2>5, <2>6, <1>PlainStep DEF IInv, HasChild
  <2>8. CASE s.aof_state # AOF_OFF
    <3> HIDE DEF s, buf
    <3>1. server' = [s EXCEPT
             !.aof_selected_db = d,
             !.aof_buf = IF s.aof_state = AOF_ON THEN @ \o buf ELSE @,
             !.aof_rewrite_buf = IF HasChild("aof") THEN @ \o buf ELSE @]
      BY <2>5, <2>8 DEF feedAppendOnlyFile, buf
    <3>2. /\ DOMAIN server' = ServerFields
          /\ server'.run = server.run /\ server'.aof_state = server.aof_state
          /\ server'.aof_buf = IF s.aof_state = AOF_ON THEN server.aof_buf \o buf
                               ELSE server.aof_buf
          /\ server'.aof_rewrite_buf = IF HasChild("aof") THEN server.aof_rewrite_buf \o buf
                                       ELSE server.aof_rewrite_buf
      BY <3>1, <2>4 DEF ServerOK, ServerFields
    <3>3. ServerOK(server')
      BY <3>2, <2>3, SMT DEF ServerOK, IInv
    <3>4. (HasChild("aof")' <=> HasChild("aof")) /\ child' = child /\ file' = file /\ bio' = bio
      BY <2>5 DEF HasChild
    <3>5. RewriteTail'
      <4> SUFFICES ASSUME Up, HasChild("aof"), server.aof_state = AOF_ON
                   PROVE  EndsWith(file.log \o server'.aof_buf,
                                   child.diff \o child.pipe \o server'.aof_rewrite_buf)
        BY <3>2, <3>4 DEF RewriteTail, Up
      <4> DEFINE log == file.log
                 old == server.aof_buf
                 sent == child.diff \o child.pipe
                 rest == server.aof_rewrite_buf
      <4>1. /\ log \in Seq(Entry) /\ old \in Seq(Entry)
            /\ sent \in Seq(Entry) /\ rest \in Seq(Entry)
        BY SMT DEF IInv, FileOK, ServerOK, ChildOK
      <4>2. EndsWith(log \o old, sent \o rest)
        BY DEF IInv, RewriteTail
      <4>3. server'.aof_buf = old \o buf /\ server'.aof_rewrite_buf = rest \o buf
        BY <3>2, <2>4
      <4>4. EndsWith(log \o (old \o buf), sent \o (rest \o buf))
        <5> HIDE DEF log, old, sent, rest
        <5> QED
          BY <4>1, <4>2, <2>3, <1>TailGrows
      <4> QED
        BY <4>3, <4>4
    <3> QED
      BY <2>6, <3>2, <3>3, <3>4, <3>5 DEF IInv, Up
  <2> QED
    BY <2>7, <2>8
\* The clients' commands.
<1>CommandStep. ASSUME IInv, NEW d \in conf.dbs, command(d) \/ execCommand(d)
                PROVE  IInv'
  <2> USE <1>CommandStep
  <2> DEFINE n == left.writes
  <2>1. n \in Int
    BY DEF IInv, BudgetOK
  <2>2. /\ <<Command(n, 0)>> \in Seq(Entry)
        /\ <<Multi, Command(n, 1), Command(n, 2), Exec>> \in Seq(Entry)
    <3>1. /\ Multi \in Entry /\ Exec \in Entry /\ Command(n, 0) \in Entry
          /\ Command(n, 1) \in Entry /\ Command(n, 2) \in Entry
      BY <2>1, SMT DEF Entry
    <3> QED
      BY <3>1, SMT
  <2>3. CASE command(d)
    BY <2>2, <2>3, <1>FeedStep DEF command
  <2>4. CASE execCommand(d)
    BY <2>2, <2>4, <1>FeedStep DEF execCommand
  <2> QED
    BY <2>3, <2>4
\* The time, the fsync thread and the child that saves an RDB file.
<1>OtherStep. ASSUME IInv,
                     tick \/ bioProcessBackgroundJobs \/ bgsaveCommand \/ backgroundSaveDoneHandler
              PROVE  IInv'
  <2> USE <1>OtherStep
  <2> USE DEF IInv
  <2>1. CASE tick
    <3>1. /\ ServerOK(server') /\ server'.run = server.run
          /\ server'.aof_state = server.aof_state /\ server'.aof_buf = server.aof_buf
          /\ server'.aof_rewrite_buf = server.aof_rewrite_buf
      BY <2>1 DEF tick, ServerOK, ServerFields
    <3>2. UNCHANGED <<file, child, bio, conf, left>>
      BY <2>1 DEF tick
    <3> QED
      BY <3>1, <3>2, <1>PlainStep DEF BudgetOK, HasChild
  <2>2. CASE bioProcessBackgroundJobs
    <3>1. Head(bio) \in Nat /\ bio' \in Seq(Nat)
      BY <2>2, SMT DEF bioProcessBackgroundJobs
    <3>2. /\ ServerOK(server') /\ server'.run = server.run
          /\ server'.aof_state = server.aof_state /\ server'.aof_buf = server.aof_buf
          /\ server'.aof_rewrite_buf = server.aof_rewrite_buf
      BY <2>2 DEF bioProcessBackgroundJobs, ServerOK, ServerFields
    <3>3. FileOK(file') /\ file'.log = file.log
      BY <2>2, <3>1 DEF bioProcessBackgroundJobs, FileOK
    <3>4. BudgetOK' /\ child' = child
      <4>1. conf' = conf /\ child' = child /\ (left' = left \/ Spend("faults"))
        BY <2>2 DEF bioProcessBackgroundJobs
      <4>2. ASSUME Spend("faults") PROVE DOMAIN left' = DOMAIN left /\ left'.writes \in Int
        BY <4>2, SMT DEF Spend, BudgetOK
      <4> QED
        BY <4>1, <4>2 DEF BudgetOK
    <3> QED
      BY <3>1, <3>2, <3>3, <3>4, <1>PlainStep DEF HasChild
  <2>3. CASE bgsaveCommand
    <3>1. BudgetOK' /\ UNCHANGED <<server, file, bio>>
      BY <2>3, SMT DEF bgsaveCommand, Spend, BudgetOK
    <3>2. ~HasChild("aof") /\ ~HasChild("aof")'
      BY <2>3 DEF bgsaveCommand, HasChild, hasActiveChildProcess
    <3> QED
      BY <3>1, <3>2, <1>PlainStep
  <2>4. CASE backgroundSaveDoneHandler
    <3>1. UNCHANGED <<server, file, bio, conf, left>>
      BY <2>4 DEF backgroundSaveDoneHandler
    <3>2. ~HasChild("aof") /\ ~HasChild("aof")'
      BY <2>4 DEF backgroundSaveDoneHandler, HasChild, NoChild
    <3>3. BudgetOK'
      BY <3>1 DEF BudgetOK
    <3> QED
      BY <3>1, <3>2, <3>3, <1>PlainStep
  <2> QED
    BY <2>1, <2>2, <2>3, <2>4
\* The event loop writes the buffer.
<1>BeforeSleepStep. ASSUME IInv, beforeSleep
                    PROVE  IInv'
  <2> USE <1>BeforeSleepStep
  <2>1. PICK o \in Possible(IF server.aof_state = AOF_ON
                              THEN flushAppendOnlyFile(server, FALSE)
                              ELSE {Outcome(server, file, bio, 0)}) :
          /\ server' = [o.server EXCEPT !.pending = FALSE]
          /\ file' = o.file /\ bio' = o.bio /\ left' = Faulted(o)
    BY DEF beforeSleep
  <2>2. /\ ServerOK(o.server) /\ FileOK(o.file) /\ o.bio \in Seq(Nat)
        /\ o.server.aof_rewrite_buf = server.aof_rewrite_buf
        /\ o.server.aof_state = server.aof_state
        /\ o.server.run \in {server.run, "crashed"}
        /\ o.server.run # "crashed" =>
             o.file.log \o o.server.aof_buf = file.log \o server.aof_buf
    <3>1. CASE server.aof_state = AOF_ON
      <4>1. o \in flushAppendOnlyFile(server, FALSE) /\ FALSE \in BOOLEAN
        BY <2>1, <3>1 DEF Possible
      <4> QED
        BY <4>1, FlushStep DEF IInv
    <3>2. CASE server.aof_state # AOF_ON
      <4>1. o = Outcome(server, file, bio, 0)
        BY <2>1, <3>2 DEF Possible
      <4> QED
        BY <4>1 DEF Outcome, IInv
    <3> QED
      BY <3>1, <3>2
  <2>3. /\ ServerOK(server') /\ server'.run = o.server.run
        /\ server'.aof_buf = o.server.aof_buf
        /\ server'.aof_rewrite_buf = server.aof_rewrite_buf
        /\ server'.aof_state = server.aof_state
    BY <2>1, <2>2 DEF ServerOK, ServerFields
  <2>4. BudgetOK' /\ child' = child
    BY <2>1, SMT DEF beforeSleep, Faulted, IInv, BudgetOK
  <2>5. HasChild("aof")' <=> HasChild("aof")
    BY <2>4 DEF HasChild
  <2>6. CASE o.server.run = "crashed"
    BY <2>1, <2>2, <2>3, <2>4, <2>5, <2>6, <1>DownStep DEF IInv
  <2>7. CASE o.server.run # "crashed"
    BY <2>1, <2>2, <2>3, <2>4, <2>5, <2>7, <1>MoveStep DEF IInv
  <2> QED
    BY <2>6, <2>7
\* The steps of a rewrite up to its end.
<1>RewriteStep. ASSUME IInv,
                       \/ bgrewriteaofCommand \/ startScheduledRewrite \/ aofChildWriteDiffData
                       \/ aofReadDiffFromParent \/ askToStop \/ aofChildPipeReadable \/ finishRewrite
                       \/ rewriteFails
                PROVE  IInv'
  <2> USE <1>RewriteStep
  <2> DEFINE Started ==
        /\ server' = rewriteAppendOnlyFileBackground(server)
        /\ child' = RewriteChild(server)
  <2>1. ASSUME Started, BudgetOK', UNCHANGED <<file, bio>>, Up, ~HasChild("aof")
        PROVE  IInv'
    <3>1. ServerOK(server') /\ server'.aof_rewrite_buf = server.aof_rewrite_buf
      BY <2>1 DEF rewriteAppendOnlyFileBackground, IInv, ServerOK, ServerFields
    <3>2. server.aof_rewrite_buf = <<>>
      BY <2>1 DEF IInv
    <3> QED
      BY <2>1, <3>1, <3>2, <1>ForkStep DEF IInv
  <2>2. CASE bgrewriteaofCommand
    <3>1. BudgetOK' /\ UNCHANGED <<file, bio>> /\ Up /\ ~HasChild("aof")
      BY <2>2, SMT DEF bgrewriteaofCommand, Spend, IInv, BudgetOK
    <3>2. CASE Started
      BY <2>1, <3>1, <3>2
    <3>3. CASE server' = [server EXCEPT !.aof_rewrite_scheduled = TRUE] /\ child' = child
      <4>1. /\ ServerOK(server') /\ server'.run = server.run
            /\ server'.aof_state = server.aof_state /\ server'.aof_buf = server.aof_buf
            /\ server'.aof_rewrite_buf = server.aof_rewrite_buf
        BY <3>3 DEF IInv, ServerOK, ServerFields
      <4>2. ~HasChild("aof")'
        BY <3>1, <3>3 DEF HasChild
      <4> QED
        BY <3>1, <4>1, <4>2, <1>PlainStep DEF IInv
    <3> QED
      BY <2>2, <3>2, <3>3 DEF bgrewriteaofCommand
  <2>3. CASE startScheduledRewrite
    <3>1. BudgetOK' /\ UNCHANGED <<file, bio>> /\ Up /\ ~HasChild("aof")
      BY <2>3 DEF startScheduledRewrite, hasActiveChildProcess, HasChild, IInv, BudgetOK
    <3> QED
      BY <2>1, <2>3, <3>1 DEF startScheduledRewrite
  <2>4. CASE aofChildWriteDiffData
    <3>1. PICK n \in 1..PipeSize :
            /\ Sending(n)
            /\ Sent(n, SubSeq(server.aof_rewrite_buf, n + 1, Len(server.aof_rewrite_buf)))
      BY <2>4 DEF aofChildWriteDiffData
    <3> DEFINE first == SubSeq(server.aof_rewrite_buf, 1, n)
               last == SubSeq(server.aof_rewrite_buf, n + 1, Len(server.aof_rewrite_buf))
    <3>2. HasChild("aof") /\ n \in 0..Len(server.aof_rewrite_buf)
      BY <3>1, SMT DEF Sending, IInv, ServerOK
    <3>3. ChildOK(child) /\ server.aof_rewrite_buf \in Seq(Entry)
      BY <3>2 DEF IInv, ServerOK
    <3>4. first \in Seq(Entry) /\ last \in Seq(Entry)
      BY <3>2, <3>3, Split
    <3>13. first \o last = server.aof_rewrite_buf
      BY <3>2, <3>3, Split
    <3>5. /\ child' = [child EXCEPT !.pipe = @ \o first]
          /\ server' = [server EXCEPT !.aof_rewrite_buf = last]
          /\ UNCHANGED <<file, bio, conf, left>>
      BY <3>1 DEF Sent
    <3> HIDE DEF first, last
    <3>6. /\ ChildOK(child') /\ child'.diff = child.diff /\ child'.type = child.type
          /\ child'.pipe = child.pipe \o first
      BY <3>3, <3>4, <3>5, SMT DEF ChildOK
    <3>7. /\ ServerOK(server') /\ server'.run = server.run
          /\ server'.aof_state = server.aof_state /\ server'.aof_buf = server.aof_buf
          /\ server'.aof_rewrite_buf = last
      BY <3>4, <3>5 DEF IInv, ServerOK, ServerFields
    <3>8. child.diff \o (child.pipe \o first) \o last
            = child.diff \o child.pipe \o server.aof_rewrite_buf
      <4> DEFINE diff == child.diff
                 pipe == child.pipe
      <4>1. diff \in Seq(Entry) /\ pipe \in Seq(Entry)
        BY <3>3 DEF ChildOK
      <4>2. diff \o (pipe \o first) \o last = diff \o pipe \o (first \o last)
        <5> HIDE DEF diff, pipe
        <5>1. pipe \o first \in Seq(Entry) /\ diff \o pipe \in Seq(Entry)
          BY <3>4, <4>1, SMT
        <5>2. diff \o (pipe \o first) = (diff \o pipe) \o first
          BY <3>4, <4>1, ConcatAssoc
        <5>3. ((diff \o pipe) \o first) \o last = (diff \o pipe) \o (first \o last)
          <6> DEFINE sent == diff \o pipe
          <6> HIDE DEF sent
          <6>1. sent \in Seq(Entry)
            BY <5>1 DEF sent
          <6>2. (sent \o first) \o last = sent \o (first \o last)
            BY <3>4, <6>1, ConcatAssoc
          <6> QED
            BY <6>2 DEF sent
        <5> QED
          BY <5>2, <5>3
      <4> QED
        BY <3>13, <4>2
    <3>9. BudgetOK'
      BY <3>5 DEF IInv, BudgetOK
    <3>10. /\ bio' \in Seq(Nat) /\ FileOK(file')
           /\ file'.log \o server'.aof_buf = file.log \o server.aof_buf
      BY <3>5, <3>7 DEF IInv
    <3>11. child'.diff \o child'.pipe \o server'.aof_rewrite_buf
             = child.diff \o child.pipe \o server.aof_rewrite_buf
      BY <3>6, <3>7, <3>8
    <3>12. HasChild("aof")'
      BY <3>2, <3>6 DEF HasChild
    <3> QED
      BY <3>2, <3>6, <3>7, <3>9, <3>10, <3>11, <3>12, <1>MoveStep
  <2>5. ASSUME HasChild("aof"), UNCHANGED <<server, file, bio>>, BudgetOK',
               NEW stage, child' = [Received(child) EXCEPT !.stage = stage]
        PROVE  IInv'
    <3>1. ChildOK(child) /\ server.aof_rewrite_buf \in Seq(Entry)
      BY <2>5 DEF IInv, ServerOK
    <3>2. /\ ChildOK(child') /\ child'.type = child.type
          /\ child'.diff = child.diff \o child.pipe /\ child'.pipe = <<>>
      BY <2>5, <3>1, SMT DEF Received, ChildOK
    <3>3. (child.diff \o child.pipe) \o <<>> \o server.aof_rewrite_buf
            = child.diff \o child.pipe \o server.aof_rewrite_buf
      BY <3>1, SMT DEF ChildOK
    <3>4. bio' \in Seq(Nat) /\ FileOK(file') /\ ServerOK(server')
      BY <2>5 DEF IInv
    <3>6. HasChild("aof")'
      BY <2>5, <3>2 DEF HasChild
    <3>5. child'.diff \o child'.pipe \o server'.aof_rewrite_buf
             = child.diff \o child.pipe \o server.aof_rewrite_buf
      BY <2>5, <3>2, <3>3
    <3> QED
      BY <2>5, <3>2, <3>4, <3>5, <3>6, <1>MoveStep
  <2>6. CASE aofReadDiffFromParent
    <3>1. ChildOK(child) /\ HasChild("aof") /\ child' = Received(child)
      BY <2>6 DEF aofReadDiffFromParent, IInv
    <3>2. child' = [Received(child) EXCEPT !.stage = child.stage]
      BY <3>1 DEF Received, ChildOK
    <3>3. UNCHANGED <<server, file, bio>> /\ BudgetOK'
      BY <2>6 DEF aofReadDiffFromParent, IInv, BudgetOK
    <3> QED
      BY <2>5, <3>1, <3>2, <3>3
  <2>7. CASE finishRewrite
    <3>1. HasChild("aof") /\ child' = [Received(child) EXCEPT !.stage = "done"]
      BY <2>7 DEF finishRewrite
    <3>2. UNCHANGED <<server, file, bio>> /\ BudgetOK'
      BY <2>7 DEF finishRewrite, IInv, BudgetOK
    <3> QED
      BY <2>5, <3>1, <3>2
  <2>8. ASSUME HasChild("aof"), ServerOK(server'), UNCHANGED <<file, bio>>, BudgetOK',
               server'.run = server.run, server'.aof_state = server.aof_state,
               server'.aof_buf = server.aof_buf,
               server'.aof_rewrite_buf = server.aof_rewrite_buf,
               NEW stage, child' = [child EXCEPT !.stage = stage]
        PROVE  IInv'
    <3>1. /\ ChildOK(child') /\ child'.type = child.type
          /\ child'.diff = child.diff /\ child'.pipe = child.pipe
      BY <2>8 DEF IInv, ChildOK
    <3>2. HasChild("aof")'
      BY <2>8, <3>1 DEF HasChild
    <3> QED
      BY <2>8, <3>1, <3>2, <1>PlainStep DEF IInv
  <2>9. CASE askToStop
    BY <2>8, <2>9 DEF askToStop, IInv, BudgetOK
  <2>10. CASE rewriteFails
    <3>1. BudgetOK'
      BY <2>10, SMT DEF rewriteFails, Spend, IInv, BudgetOK
    <3> QED
      BY <2>8, <2>10, <3>1 DEF rewriteFails, IInv
  <2>11. CASE aofChildPipeReadable
    <3>1. /\ ServerOK(server') /\ server'.run = server.run
          /\ server'.aof_state = server.aof_state /\ server'.aof_buf = server.aof_buf
          /\ server'.aof_rewrite_buf = server.aof_rewrite_buf
      BY <2>11 DEF aofChildPipeReadable, IInv, ServerOK, ServerFields
    <3>2. BudgetOK'
      BY <2>11 DEF aofChildPipeReadable, IInv, BudgetOK
    <3> QED
      BY <2>8, <2>11, <3>1, <3>2 DEF aofChildPipeReadable
  <2> QED
    BY <2>2, <2>3, <2>4, <2>6, <2>7, <2>9, <2>10, <2>11
\* The end of a rewrite, whether it takes over the file or not.
<1>DoneStep. ASSUME IInv, backgroundRewriteDoneHandler
             PROVE  IInv'
  <2> USE <1>DoneStep
  <2>1. ~HasChild("aof")' /\ conf' = conf
    BY DEF backgroundRewriteDoneHandler, HasChild, NoChild
  <2>2. ChildOK(child) /\ ServerOK(server) /\ FileOK(file) /\ bio \in Seq(Nat)
    BY DEF backgroundRewriteDoneHandler, IInv
  <2>3. ASSUME NEW s, ServerOK(s)
        PROVE  ServerOK(RewriteCleanup(s)) /\ RewriteCleanup(s).aof_rewrite_buf = <<>>
    BY <2>3, SMT DEF RewriteCleanup, aofRewriteBufferReset, ServerOK, ServerFields
  <2>4. ServerOK(RewrittenServer) /\ RewrittenServer.aof_rewrite_buf = <<>>
    <3> DEFINE s == IF server.aof_state = AOF_OFF THEN server
                    ELSE [server EXCEPT !.aof_selected_db = -1, !.behind = FALSE,
                                        !.second = FALSE, !.aof_buf = <<>>,
                                        !.aof_state = AOF_ON]
    <3>1. ServerOK(s)
      BY <2>2, SMT DEF ServerOK, ServerFields
    <3>2. RewrittenServer = RewriteCleanup(s)
      BY DEF RewrittenServer
    <3> HIDE DEF s
    <3> QED
      BY <2>3, <3>1, <3>2
  <2>5. FileOK(RewrittenFile)
    BY <2>2, SMT DEF RewrittenFile, FileOK, ChildOK, ServerOK
  <2>6. BudgetOK'
    <3>1. left' = left \/ Spend("faults")
      BY DEF backgroundRewriteDoneHandler
    <3>2. ASSUME Spend("faults") PROVE DOMAIN left' = DOMAIN left /\ left'.writes \in Int
      BY <3>2, SMT DEF Spend, IInv, BudgetOK
    <3> QED
      BY <2>1, <3>1, <3>2 DEF IInv, BudgetOK
  <2>7. bio' \in Seq(Nat)
    <3>1. Closed(bio) \in Seq(Nat)
      BY <2>2, SMT DEF Closed
    <3>2. CASE bio' = bio
      BY <2>2, <3>2
    <3>3. CASE bio' = Closed(bio)
      BY <3>1, <3>3
    <3>4. CASE \E n \in Nat : bio' = Append(Closed(bio), n)
      BY <3>1, <3>4, SMT
    <3>5. file' = RewrittenFile => Len(file'.log) \in Nat
      BY <2>5, SMT DEF FileOK
    <3> QED
      BY <3>2, <3>3, <3>4, <3>5 DEF backgroundRewriteDoneHandler
  <2>8. ServerOK(server') /\ server'.aof_rewrite_buf = <<>> /\ FileOK(file')
    BY <2>2, <2>3, <2>4, <2>5 DEF backgroundRewriteDoneHandler
  <2> QED
    BY <2>1, <2>6, <2>7, <2>8, <1>NoRewriteStep
\* CONFIG SET appendonly no, and yes.
<1>SwitchStep. ASSUME IInv, stopAppendOnly \/ startAppendOnly
               PROVE  IInv'
  <2> USE <1>SwitchStep
  <2>1. CASE stopAppendOnly
    <3>1. PICK o \in Possible(flushAppendOnlyFile(server, TRUE)) :
            /\ left' = [Faulted(o) EXCEPT !.switches = @ - 1]
            /\ file' = IF o.server.run = "up" THEN fsync(o.file) ELSE o.file
            /\ bio' = Closed(o.bio)
            /\ server' = IF o.server.run # "up" THEN o.server
                    ELSE [(IF HasChild("aof") THEN aofRewriteBufferReset(o.server) ELSE o.server)
                           EXCEPT !.aof_selected_db = -1, !.aof_state = AOF_OFF,
                                  !.aof_rewrite_scheduled = FALSE, !.aof_buf = <<>>,
                                  !.behind = FALSE, !.second = FALSE]
            /\ child' = IF HasChild("aof") /\ o.server.run = "up" THEN NoChild ELSE child
      BY <2>1 DEF stopAppendOnly
    <3>2. Up /\ conf' = conf
      BY <2>1 DEF stopAppendOnly
    <3>3. o \in flushAppendOnlyFile(server, TRUE) /\ TRUE \in BOOLEAN
      BY <3>1 DEF Possible
    <3>4. /\ ServerOK(o.server) /\ FileOK(o.file) /\ o.bio \in Seq(Nat)
          /\ o.server.aof_rewrite_buf = server.aof_rewrite_buf
          /\ o.server.run \in {server.run, "crashed"}
      BY <3>3, FlushStep DEF IInv
    <3>5. BudgetOK'
      BY <3>1, <3>2, SMT DEF Faulted, IInv, BudgetOK
    <3>6. Closed(o.bio) \in Seq(Nat)
      BY <3>4, SMT DEF Closed
    <3>7. FileOK(file')
      BY <3>1, <3>4, SMT DEF fsync, FileOK
    <3>8. CASE o.server.run # "up"
      <4>1. ServerOK(server') /\ server'.run # "up" /\ child' = child
        BY <3>1, <3>4, <3>8
      <4>2. HasChild("aof")' => ChildOK(child')
        BY <4>1 DEF IInv, HasChild
      <4> QED
        BY <3>1, <3>5, <3>6, <3>7, <4>1, <4>2, <1>DownStep
    <3>9. CASE o.server.run = "up"
      <4> DEFINE s == IF HasChild("aof") THEN aofRewriteBufferReset(o.server) ELSE o.server
      <4>1. ServerOK(s) /\ s.aof_rewrite_buf = <<>>
        BY <3>2, <3>4, SMT DEF IInv, aofRewriteBufferReset, ServerOK, ServerFields
      <4>2. server' = [s EXCEPT !.aof_selected_db = -1, !.aof_state = AOF_OFF,
                                !.aof_rewrite_scheduled = FALSE, !.aof_buf = <<>>,
                                !.behind = FALSE, !.second = FALSE]
        BY <3>1, <3>9
      <4> HIDE DEF s
      <4>3. ServerOK(server') /\ server'.aof_rewrite_buf = <<>>
        BY <4>1, <4>2 DEF ServerOK, ServerFields
      <4>4. ~HasChild("aof")'
        BY <3>1, <3>9 DEF HasChild, NoChild
      <4> QED
        BY <3>1, <3>5, <3>6, <3>7, <4>3, <4>4, <1>NoRewriteStep
    <3> QED
      BY <3>8, <3>9
  <2>2. CASE startAppendOnly
    <3> DEFINE on == [server EXCEPT !.aof_state = AOF_WAIT_REWRITE, !.second = FALSE,
                                    !.aof_bio_fsync_status = TRUE,
                                    !.aof_last_write_status = TRUE]
    <3>1. BudgetOK' /\ FileOK(file') /\ bio' \in Seq(Nat) /\ Up
      BY <2>2 DEF startAppendOnly, IInv, BudgetOK
    <3>2. ServerOK(on) /\ on.aof_rewrite_buf = server.aof_rewrite_buf
      BY DEF IInv, ServerOK, ServerFields
    <3>3. CASE HasChild("rdb")
      <4>1. server' = [on EXCEPT !.aof_rewrite_scheduled = TRUE] /\ child' = child
        BY <2>2, <3>3 DEF startAppendOnly
      <4>2. ~HasChild("aof") /\ ~HasChild("aof")'
        BY <3>3, <4>1 DEF HasChild
      <4> HIDE DEF on
      <4>3. ServerOK(server') /\ server'.aof_rewrite_buf = <<>>
        BY <3>1, <3>2, <4>1, <4>2 DEF IInv, ServerOK, ServerFields
      <4> QED
        BY <3>1, <4>2, <4>3, <1>NoRewriteStep
    <3>4. CASE ~HasChild("rdb")
      <4>1. /\ server' = rewriteAppendOnlyFileBackground(aofRewriteBufferReset(on))
            /\ child' = RewriteChild(server)
        BY <2>2, <3>4 DEF startAppendOnly
      <4> HIDE DEF on
      <4>2. ServerOK(server') /\ server'.aof_rewrite_buf = <<>>
        BY <3>2, <4>1, SMT DEF rewriteAppendOnlyFileBackground, aofRewriteBufferReset,
                          ServerOK, ServerFields
      <4> QED
        BY <3>1, <4>1, <4>2, <1>ForkStep
    <3> QED
      BY <3>3, <3>4
  <2> QED
    BY <2>1, <2>2
\* The process ends: in order, killed, or with the machine.
<1>StopStep. ASSUME IInv, prepareForShutdown \/ kill \/ powerLoss
             PROVE  IInv'
  <2> USE <1>StopStep
  <2>1. conf' = conf /\ bio' \in Seq(Nat) /\ ~HasChild("aof")'
    <3>1. conf' = conf /\ bio' = <<>> /\ child' = NoChild
      BY DEF prepareForShutdown, ShutDown, kill, powerLoss
    <3> QED
      BY <3>1, SMT DEF HasChild, NoChild
  <2>2. CASE prepareForShutdown
    <3> DEFINE outcomes == IF server.aof_state = AOF_OFF THEN {Outcome(server, file, bio, 0)}
                           ELSE flushAppendOnlyFile(server, TRUE)
    <3>1. PICK o \in Possible(outcomes) :
            /\ left' = [Faulted(o) EXCEPT !.crashes = @ - 1]
            /\ file' = IF server.aof_state # AOF_OFF /\ o.server.run = "up"
                         THEN fsync(o.file) ELSE o.file
            /\ server' = [o.server EXCEPT !.run = IF @ = "up" THEN "shutdown" ELSE @]
      BY <2>2 DEF prepareForShutdown, ShutDown
    <3>2. ServerOK(o.server) /\ FileOK(o.file)
      <4>1. CASE server.aof_state = AOF_OFF
        BY <3>1, <4>1, SMT DEF Possible, Outcome, IInv
      <4>2. CASE server.aof_state # AOF_OFF
        <5>1. o \in flushAppendOnlyFile(server, TRUE) /\ TRUE \in BOOLEAN
          BY <3>1, <4>2 DEF Possible
        <5> QED
          BY <5>1, FlushStep DEF IInv
      <4> QED
        BY <4>1, <4>2
    <3>3. BudgetOK'
      BY <2>1, <3>1, SMT DEF Faulted, IInv, BudgetOK
    <3>4. FileOK(file')
      BY <3>1, <3>2, SMT DEF fsync, FileOK
    <3>5. ServerOK(server') /\ server'.run # "up"
      BY <3>1, <3>2 DEF ServerOK, ServerFields
    <3> QED
      BY <2>1, <3>3, <3>4, <3>5, <1>DownStep
  <2>3. ASSUME NEW buf \in Unwritten
        PROVE  buf \in Seq(Entry) /\ file.log \o buf \in Seq(Entry)
    <3>1. <<>> \in Seq(Entry) /\ server.aof_buf \in Seq(Entry) /\ file.log \in Seq(Entry)
      BY SMT DEF IInv, ServerOK, FileOK
    <3>2. buf = <<>> \/ buf = server.aof_buf
      BY DEF Unwritten
    <3>3. CASE buf = <<>>
      BY <3>1, <3>3, SMT
    <3>4. CASE buf = server.aof_buf
      BY <3>1, <3>4, SMT
    <3> QED
      BY <3>2, <3>3, <3>4
  <2>4. CASE kill
    <3>1. BudgetOK'
      BY <2>1, <2>4, <1>Spent DEF kill, IInv
    <3>2. ServerOK(server') /\ server'.run # "up"
      BY <2>4 DEF kill, Exited, IInv, ServerOK, ServerFields
    <3>3. FileOK(file')
      <4>1. PICK buf \in Unwritten :
              file' = IF buf = <<>> THEN file ELSE [file EXCEPT !.log = @ \o buf, !.torn = FALSE]
        BY <2>4 DEF kill
      <4>2. file.log \o buf \in Seq(Entry)
        BY <2>3
      <4> QED
        BY <4>1, <4>2 DEF IInv, FileOK
    <3> QED
      BY <2>1, <3>1, <3>2, <3>3, <1>DownStep
  <2>5. CASE powerLoss
    <3>1. BudgetOK'
      BY <2>1, <2>5, <1>Spent DEF powerLoss, IInv
    <3>2. ServerOK(server') /\ server'.run # "up"
      BY <2>5 DEF powerLoss, IInv, ServerOK, ServerFields
    <3>3. FileOK(file')
      <4>0. PICK buf \in Unwritten :
              \E n \in file.synced..Len(file.log \o buf), torn \in {FALSE, conf.torn} :
                file' = [file EXCEPT !.log = SubSeq(file.log \o buf, 1, n), !.torn = torn,
                                     !.synced = n]
        BY <2>5 DEF powerLoss
      <4>1. PICK n \in file.synced..Len(file.log \o buf), torn \in {FALSE, conf.torn} :
              file' = [file EXCEPT !.log = SubSeq(file.log \o buf, 1, n), !.torn = torn,
                                   !.synced = n]
        BY <4>0
      <4> DEFINE log == file.log \o buf
      <4>2. log \in Seq(Entry) /\ n \in 0..Len(log)
        BY <2>3, SMT DEF IInv, FileOK
      <4> HIDE DEF log
      <4>3. SubSeq(log, 1, n) \in Seq(Entry)
        BY <4>2, Split
      <4> QED
        BY <4>1, <4>2, <4>3, SMT DEF log, IInv, FileOK
    <3> QED
      BY <2>1, <3>1, <3>2, <3>3, <1>DownStep, SMTT(30)
  <2> QED
    BY <2>2, <2>4, <2>5
\* A server starts with an empty buffer and what it kept of the file.
<1>RestartStep. ASSUME IInv, restart
                PROVE  IInv'
  <2> USE <1>RestartStep
  <2>1. BudgetOK' /\ bio' \in Seq(Nat) /\ ~HasChild("aof")'
    BY SMT DEF restart, IInv, BudgetOK, HasChild, NoChild
  <2>2. ServerOK(server') /\ server'.aof_rewrite_buf = <<>>
    BY SMT DEF restart, NewServer, ServerOK, ServerFields
  <2>3. ASSUME NEW n \in 0..Len(file.log)
        PROVE  FileOK(truncate(file, n))
    <3>1. SubSeq(file.log, 1, n) \in Seq(Entry)
      BY Split DEF IInv, FileOK
    <3> QED
      BY <3>1, SMT DEF truncate, IInv, FileOK
  <2>4. \A n \in BeforeMulti(file.log) : n \in 0..Len(file.log)
    BY SMT DEF BeforeMulti, IInv, FileOK
  <2>5. Len(file.log) \in 0..Len(file.log)
    BY SMT DEF IInv, FileOK
  <2>6. FileOK(file')
    <3>1. file' \in loadAppendOnlyFile(file) /\ FileOK(file)
      BY DEF restart, IInv
    <3> QED
      BY <2>3, <2>4, <2>5, <3>1 DEF loadAppendOnlyFile
  <2> QED
    BY <2>1, <2>2, <2>6, <1>NoRewriteStep
<1> SUFFICES ASSUME IInv, [Next]_vars PROVE IInv'
  OBVIOUS
<1>1. CASE UNCHANGED vars
  BY <1>1 DEF vars, IInv, BudgetOK, HasChild, Up, RewriteTail
<1>2. CASE Next
  BY <1>2, <1>CommandStep, <1>OtherStep, <1>BeforeSleepStep, <1>RewriteStep, <1>DoneStep, <1>SwitchStep,
     <1>StopStep, <1>RestartStep DEF Next
<1> QED
  BY <1>1, <1>2

\* The invariant holds in every behaviour of the append only file.
THEOREM Invariance == Spec => []IInv
<1>1. Init => IInv
  BY InvInit
<1>2. IInv /\ [Next]_vars => IInv'
  BY InvNext
<1> QED
  BY <1>1, <1>2, PTL DEF Spec

\* backgroundRewriteDoneHandler may drop aof_buf and put the new file in
\* the place of the old one: the rewrite has all that the old one got.
THEOREM RewriteTailAlways == Spec => []RewriteTail
<1>1. IInv => RewriteTail
  BY DEF IInv
<1> QED
  BY <1>1, Invariance, PTL

-----------------------------------------------------------------------------
(* Torn entries *)

\* What a step leaves of the server's fields other than the buffers.
SameFields(s, t) ==
  /\ t.data = s.data /\ t.aof_state = s.aof_state /\ t.pending = s.pending
  /\ t.aof_selected_db = s.aof_selected_db
  /\ t.aof_rewrite_scheduled = s.aof_rewrite_scheduled

\* The first elements of a concatenation, beyond its first part.
LEMMA FirstBeyond ==
  ASSUME NEW S, NEW s \in Seq(S), NEW u \in Seq(S), NEW n \in 0..Len(u)
  PROVE  /\ Len(s) + n \in Len(s)..Len(s \o u)
         /\ s \o First(u, n) = First(s \o u, Len(s) + n)
<1> DEFINE k == Len(s) + n
           t == s \o u
           f == First(u, n)
           g == First(t, k)
           h == s \o f
<1>1. f \in Seq(S) /\ Len(f) = n /\ \A i \in 1..n : f[i] = u[i]
  BY FirstProperties
<1>2. /\ t \in Seq(S) /\ Len(t) = Len(s) + Len(u) /\ k \in Len(s)..Len(t) /\ k \in 0..Len(t)
      /\ \A i \in 1..Len(t) : t[i] = IF i <= Len(s) THEN s[i] ELSE u[i - Len(s)]
  BY SMT
<1> HIDE DEF t, f
<1>3. g \in Seq(S) /\ Len(g) = k /\ \A i \in 1..k : g[i] = t[i]
  <2> HIDE DEF k
  <2> QED BY <1>2, FirstProperties
<1>4. /\ h \in Seq(S) /\ Len(h) = k
      /\ \A i \in 1..k : h[i] = IF i <= Len(s) THEN s[i] ELSE f[i - Len(s)]
  BY <1>1, ConcatEntries
<1> HIDE DEF g, h
<1>5. ASSUME NEW i \in 1..k PROVE h[i] = g[i]
  <2>1. CASE i <= Len(s)
    BY <1>2, <1>3, <1>4, <2>1, SMTT(30)
  <2>2. CASE ~(i <= Len(s))
    <3>1. i - Len(s) \in 1..n /\ i \in 1..Len(t)
      BY <1>2, <2>2, SMT
    <3> QED BY <1>1, <1>2, <1>3, <1>4, <2>2, <3>1
  <2> QED BY <2>1, <2>2
<1>6. h = g
  BY <1>3, <1>4, <1>5, SameEntries
<1> QED BY <1>2, <1>6 DEF h, g, f, t

\* try_fsync leaves the log as it is.
LEMMA TryFsyncFile ==
  ASSUME NEW s, ServerOK(s), NEW f, FileOK(f), NEW sip, NEW o,
         o \in try_fsync(s, f, sip)
  PROVE  /\ SameFields(s, o.server) /\ o.server.aof_buf = s.aof_buf
         /\ o.file.base = f.base /\ o.file.log = f.log /\ o.file.torn = f.torn
<1>2. \/ o = Outcome(s, f, bio, 0)
      \/ o = Outcome([s EXCEPT !.behind = FALSE, !.second = FALSE], fsync(f), bio, 0)
      \/ o = Outcome(Exited(s), f, bio, 1)
      \/ o = Outcome([s EXCEPT !.second = FALSE], f, bio, 0)
      \/ o = Outcome([s EXCEPT !.second = FALSE, !.behind = FALSE], f,
                     Append(bio, Len(f.log)), 0)
  BY DEF try_fsync, fsyncEverysec
<1>3. CASE o = Outcome(s, f, bio, 0)
  BY <1>3 DEF Outcome, SameFields
<1>4. CASE o = Outcome([s EXCEPT !.behind = FALSE, !.second = FALSE], fsync(f), bio, 0)
  BY <1>4 DEF Outcome, fsync, ServerOK, ServerFields, FileOK, SameFields
<1>5. CASE o = Outcome(Exited(s), f, bio, 1)
  BY <1>5 DEF Outcome, Exited, ServerOK, ServerFields, SameFields
<1>6. CASE o = Outcome([s EXCEPT !.second = FALSE], f, bio, 0)
  BY <1>6 DEF Outcome, ServerOK, ServerFields, SameFields
<1>7. CASE o = Outcome([s EXCEPT !.second = FALSE, !.behind = FALSE], f,
                       Append(bio, Len(f.log)), 0)
  BY <1>7 DEF Outcome, ServerOK, ServerFields, SameFields
<1> QED BY <1>2, <1>3, <1>4, <1>5, <1>6, <1>7

\* A flush writes some of the buffer, in order.
LEMMA FlushFile ==
  ASSUME ServerOK(server), FileOK(file), NEW force \in BOOLEAN,
         NEW o \in flushAppendOnlyFile(server, force)
  PROVE  /\ SameFields(server, o.server) /\ o.file.base = file.base
         /\ o.file.torn \in {file.torn, FALSE, conf.torn}
         /\ \E k \in Len(file.log)..Len(file.log \o server.aof_buf) :
              o.file.log = First(file.log \o server.aof_buf, k)
<1> DEFINE w == Written(server)
           f == [file EXCEPT !.log = @ \o server.aof_buf, !.torn = FALSE]
           later == [server EXCEPT !.postponed = IF @ = 0 THEN 1 ELSE @]
           L == file.log \o server.aof_buf
<1>1. ServerOK(w) /\ w.aof_buf = <<>> /\ SameFields(server, w)
  BY SMT DEF Written, ServerOK, ServerFields, SameFields
<1>2. FileOK(f) /\ f.log = L /\ f.base = file.base /\ f.torn = FALSE
  BY SMT DEF FileOK, ServerOK
<1>3. \/ o = Outcome(server, file, bio, 0)
      \/ o = Outcome(later, file, bio, 0)
      \/ \E sip \in BOOLEAN : o \in try_fsync(server, file, sip)
      \/ \E sip \in BOOLEAN : o \in try_fsync(w, f, sip)
      \/ \E e \in ShortWrites(server) : o = WriteError(server, e[1], e[2])
  <2>1. (conf.fsync = "everysec" /\ bio # <<>>) \in BOOLEAN /\ FALSE \in BOOLEAN
    OBVIOUS
  <2> QED
    BY <2>1 DEF flushAppendOnlyFile
<1>4. /\ file.log \in Seq(Entry) /\ server.aof_buf \in Seq(Entry) /\ L \in Seq(Entry)
      /\ Len(file.log) \in Len(file.log)..Len(L) /\ Len(L) \in Len(file.log)..Len(L)
      /\ Len(file.log) \in 0..Len(file.log)
  BY SMT DEF FileOK, ServerOK
<1>5. file.log = First(L, Len(file.log)) /\ L = First(L, Len(L))
  <2>1. First(L, Len(file.log)) = First(file.log, Len(file.log))
    BY <1>4, FirstOfConcat
  <2> HIDE DEF L
  <2> QED BY <1>4, <2>1, FirstAll
<1> DEFINE Ok == /\ SameFields(server, o.server) /\ o.file.base = file.base
                 /\ o.file.torn \in {file.torn, FALSE, conf.torn}
<1> HIDE DEF w, f, L
<1>6. CASE o.file.log = file.log /\ Ok
  BY <1>4, <1>5, <1>6 DEF L
<1>7. CASE o.file.log = L /\ Ok
  BY <1>4, <1>5, <1>7 DEF L
<1>8. CASE o = Outcome(server, file, bio, 0)
  <2>1. o.file.log = file.log /\ Ok
    BY <1>8 DEF Outcome, SameFields
  <2> QED BY <1>6, <2>1
<1>9. CASE o = Outcome(later, file, bio, 0)
  <2>1. o.file.log = file.log /\ Ok
    BY <1>9 DEF Outcome, SameFields, ServerOK, ServerFields
  <2> QED BY <1>6, <2>1
<1>10. ASSUME NEW sip \in BOOLEAN, o \in try_fsync(server, file, sip)
       PROVE  o.file.log = file.log /\ Ok
  <2>2. /\ SameFields(server, o.server)
        /\ o.file.base = file.base /\ o.file.log = file.log /\ o.file.torn = file.torn
    BY <1>10, TryFsyncFile, SMT
  <2> QED BY <2>2
<1>11. ASSUME NEW sip \in BOOLEAN, o \in try_fsync(w, f, sip)
       PROVE  o.file.log = L /\ Ok
  <2>1. /\ SameFields(w, o.server)
        /\ o.file.base = f.base /\ o.file.log = f.log /\ o.file.torn = f.torn
    BY <1>1, <1>2, <1>11, TryFsyncFile, SMT
  <2> QED BY <1>1, <1>2, <2>1 DEF SameFields
<1>12. ASSUME NEW e \in ShortWrites(server), o = WriteError(server, e[1], e[2])
       PROVE  Ok /\ \E k \in Len(file.log)..Len(L) : o.file.log = First(L, k)
  <2> DEFINE n == e[1]
             first == SubSeq(server.aof_buf, 1, n)
             g == [file EXCEPT !.log = @ \o first, !.torn = e[2]]
             rest == [server EXCEPT !.aof_buf = SubSeq(@, n + 1, Len(@)),
                                    !.behind = @ \/ n > 0 \/ e[2],
                                    !.postponed = 0,
                                    !.aof_last_write_status = FALSE]
  <2>1. n \in 0..Len(server.aof_buf) /\ e[2] \in {FALSE, conf.torn}
    <3>1. n \in 0..Len(server.aof_buf)
      BY SMT DEF ShortWrites, ServerOK
    <3>2. e[2] \in {FALSE, conf.torn}
      BY DEF ShortWrites
    <3> QED BY <3>1, <3>2
  <2>2. o = Outcome(IF conf.fsync = "always" THEN Exited(server) ELSE rest, g, bio, 1)
    BY <1>12 DEF WriteError
  <2>3. SameFields(server, rest) /\ SameFields(server, Exited(server))
    BY DEF SameFields, Exited, ServerOK, ServerFields
  <2>4. first = First(server.aof_buf, n)
    BY DEF First
  <2>5. g.log = file.log \o first /\ g.torn = e[2] /\ g.base = file.base
    BY DEF FileOK
  <2> HIDE DEF g, rest, n, first
  <2>6. o.file = g /\ (o.server = rest \/ o.server = Exited(server))
    BY <2>2 DEF Outcome
  <2>7. Ok
    BY <2>1, <2>3, <2>5, <2>6
  <2>8. /\ Len(file.log) + n \in Len(file.log)..Len(L)
        /\ file.log \o first = First(L, Len(file.log) + n)
    BY <1>4, <2>1, <2>4, FirstBeyond DEF L
  <2> QED BY <2>5, <2>6, <2>7, <2>8
<1> QED BY <1>3, <1>6, <1>7, <1>8, <1>9, <1>10, <1>11, <1>12 DEF L

\* The log that the file has, or gets with the next flush.
TheLog == IF Up THEN file.log \o server.aof_buf ELSE file.log

\* The differences that the rewrite under way adds to its snapshot.
Diff == child.diff \o child.pipe \o server.aof_rewrite_buf

\* The entries and the configuration have their types.
LEMMA LogTypes ==
  ASSUME IInv
  PROVE  /\ TheLog \in Seq(Entry) /\ file.log \in Seq(Entry) /\ server.aof_buf \in Seq(Entry)
         /\ HasChild("aof") => Diff \in Seq(Entry)
         /\ conf.multi \in BOOLEAN /\ conf.torn \in BOOLEAN
<1>1. /\ TheLog \in Seq(Entry) /\ file.log \in Seq(Entry) /\ server.aof_buf \in Seq(Entry)
  BY SMT DEF IInv, FileOK, ServerOK, TheLog
<1>2. HasChild("aof") => Diff \in Seq(Entry)
  BY SMT DEF IInv, ChildOK, ServerOK, Diff
<1>3. conf.multi \in BOOLEAN /\ conf.torn \in BOOLEAN
  BY SetupsAssumption DEF IInv, BudgetOK
<1> QED BY <1>1, <1>2, <1>3

\* Entries are torn only where neither a rewrite nor a switch of the AOF
\* nor a transaction comes in between.
Separate == conf.torn => conf.rewrites = 0 /\ conf.switches = 0 /\ ~conf.multi

\* With torn entries the log starts with the dataset; without, the file
\* never ends in a piece of one.
TornInv ==
  IF conf.torn
    THEN /\ left.rewrites = 0 /\ left.switches = 0 /\ server.aof_rewrite_scheduled = FALSE
         /\ ~HasChild("aof") /\ server.aof_state = AOF_ON /\ file.base = <<>>
    ELSE file.torn = FALSE

\* It holds at the start.
LEMMA TornInit == Init /\ Separate => TornInv
BY SMT DEF Init, Separate, TornInv, NewServer, HasChild, NoChild

\* Spending another budget, or none.
Untouched == left'.rewrites = left.rewrites /\ left'.switches = left.switches

\* Every step keeps TornInv.
LEMMA TornNext == IInv /\ TornInv /\ [Next]_vars => TornInv'
\* Neither rewrites nor switches are spent by the other steps.
<1>OtherBudget. ASSUME IInv, conf' = conf,
                       left' = left \/ Spend("writes") \/ Spend("saves") \/ Spend("faults")
                         \/ Spend("crashes") \/ (\E o : left' = Faulted(o))
                         \/ (\E o : left' = [Faulted(o) EXCEPT !.crashes = @ - 1])
                PROVE  Untouched
  <2> USE <1>OtherBudget
  <2>1. DOMAIN left = {"fsync", "no_fsync_on_rewrite", "dbs", "multi", "power", "torn",
                       "writes", "rewrites", "saves", "switches", "faults", "crashes"}
    BY SetupsAssumption DEF IInv, BudgetOK
  <2>2. CASE left' = left
    BY <2>2 DEF Untouched
  <2>3. CASE Spend("writes") \/ Spend("saves") \/ Spend("faults") \/ Spend("crashes")
    BY <2>1, <2>3, SMTT(30) DEF Untouched, Spend
  <2>4. CASE \E o : left' = Faulted(o)
    BY <2>1, <2>4 DEF Untouched, Faulted
  <2>5. CASE \E o : left' = [Faulted(o) EXCEPT !.crashes = @ - 1]
    BY <2>1, <2>5 DEF Untouched, Faulted
  <2> QED BY <2>2, <2>3, <2>4, <2>5
\* A step that neither forks nor switches.
<1>TornStep. ASSUME IInv, TornInv, conf' = conf, Untouched,
                    server'.aof_rewrite_scheduled = server.aof_rewrite_scheduled,
                    server'.aof_state = server.aof_state,
                    HasChild("aof")' => HasChild("aof"),
                    file'.base = file.base, file'.torn \in {file.torn, FALSE, conf.torn}
             PROVE  TornInv'
  <2> USE <1>TornStep
  <2>1. conf.torn \in BOOLEAN
    BY LogTypes
  <2>2. CASE conf.torn = TRUE
    BY <2>2 DEF TornInv, Untouched
  <2>3. CASE conf.torn = FALSE
    <3>1. file.torn = FALSE
      BY <2>3 DEF TornInv
    <3>2. file'.torn = FALSE
      BY <2>3, <3>1
    <3> QED BY <2>3, <3>2 DEF TornInv
  <2> QED BY <2>1, <2>2, <2>3
\* A flush.
<1>TornFlush. ASSUME IInv, NEW force \in BOOLEAN, NEW o \in flushAppendOnlyFile(server, force)
              PROVE  /\ ServerOK(o.server) /\ FileOK(o.file)
                     /\ o.server.aof_rewrite_scheduled = server.aof_rewrite_scheduled
                     /\ o.server.aof_state = server.aof_state
                     /\ o.file.base = file.base /\ o.file.torn \in {file.torn, FALSE, conf.torn}
  <2> USE <1>TornFlush
  <2>1. ServerOK(server) /\ FileOK(file) /\ bio \in Seq(Nat)
    BY DEF IInv
  <2>2. ServerOK(o.server) /\ FileOK(o.file)
    BY <2>1, FlushStep
  <2>3. /\ SameFields(server, o.server)
        /\ o.file.base = file.base /\ o.file.torn \in {file.torn, FALSE, conf.torn}
    BY <2>1, FlushFile
  <2> QED BY <2>2, <2>3 DEF SameFields
\* The clients' commands.
<1>TornCommand. ASSUME IInv, TornInv, NEW d \in conf.dbs, command(d) \/ execCommand(d)
                PROVE  TornInv'
  <2> USE <1>TornCommand
  <2>1. PICK writes, cmds : Executed(d, writes, cmds)
    BY DEF command, execCommand
  <2>2. /\ UNCHANGED <<file, child, conf>> /\ Spend("writes")
        /\ server' = feedAppendOnlyFile([server EXCEPT !.data = @ \o writes, !.pending = TRUE],
                                        d, cmds)
    BY <2>1 DEF Executed
  <2>3. /\ server'.aof_rewrite_scheduled = server.aof_rewrite_scheduled
        /\ server'.aof_state = server.aof_state
    BY <2>2 DEF feedAppendOnlyFile, IInv, ServerOK, ServerFields
  <2>4. Untouched
    BY <2>2, <1>OtherBudget
  <2> QED BY <2>2, <2>3, <2>4, <1>TornStep DEF HasChild
\* The time, the fsync thread and the child that saves an RDB file.
<1>TornOther. ASSUME IInv, TornInv,
                     tick \/ bioProcessBackgroundJobs \/ bgsaveCommand \/ backgroundSaveDoneHandler
              PROVE  TornInv'
  <2> USE <1>TornOther
  <2>1. /\ server'.aof_rewrite_scheduled = server.aof_rewrite_scheduled
        /\ server'.aof_state = server.aof_state
    BY DEF tick, bioProcessBackgroundJobs, bgsaveCommand, backgroundSaveDoneHandler,
           IInv, ServerOK, ServerFields
  <2>2. file'.base = file.base /\ file'.torn = file.torn
    BY DEF tick, bioProcessBackgroundJobs, bgsaveCommand, backgroundSaveDoneHandler,
           IInv, FileOK
  <2>3. conf' = conf /\ (HasChild("aof")' => HasChild("aof"))
    BY SMT DEF tick, bioProcessBackgroundJobs, bgsaveCommand, backgroundSaveDoneHandler,
           HasChild, NoChild
  <2>4. left' = left \/ Spend("saves") \/ Spend("faults")
    BY DEF tick, bioProcessBackgroundJobs, bgsaveCommand, backgroundSaveDoneHandler
  <2>5. Untouched
    BY <2>3, <2>4, <1>OtherBudget
  <2> QED BY <2>1, <2>2, <2>3, <2>5, <1>TornStep
\* The event loop writes the buffer.
<1>TornBeforeSleep. ASSUME IInv, TornInv, beforeSleep
                    PROVE  TornInv'
  <2> USE <1>TornBeforeSleep
  <2>1. PICK o \in Possible(IF server.aof_state = AOF_ON
                              THEN flushAppendOnlyFile(server, FALSE)
                              ELSE {Outcome(server, file, bio, 0)}) :
          /\ server' = [o.server EXCEPT !.pending = FALSE]
          /\ file' = o.file /\ left' = Faulted(o)
    BY DEF beforeSleep
  <2>2. conf' = conf /\ child' = child
    BY DEF beforeSleep
  <2>3. /\ ServerOK(o.server)
        /\ o.server.aof_rewrite_scheduled = server.aof_rewrite_scheduled
        /\ o.server.aof_state = server.aof_state
        /\ o.file.base = file.base /\ o.file.torn \in {file.torn, FALSE, conf.torn}
    <3>1. CASE server.aof_state = AOF_ON
      <4>1. o \in flushAppendOnlyFile(server, FALSE) /\ FALSE \in BOOLEAN
        BY <2>1, <3>1 DEF Possible
      <4> QED BY <4>1, <1>TornFlush
    <3>2. CASE server.aof_state # AOF_ON
      <4>1. o = Outcome(server, file, bio, 0)
        BY <2>1, <3>2 DEF Possible
      <4> QED BY <4>1 DEF Outcome, IInv
    <3> QED BY <3>1, <3>2
  <2>4. /\ server'.aof_rewrite_scheduled = server.aof_rewrite_scheduled
        /\ server'.aof_state = server.aof_state
    BY <2>1, <2>3 DEF ServerOK, ServerFields
  <2>5. Untouched
    BY <2>1, <2>2, <1>OtherBudget
  <2> QED BY <2>1, <2>2, <2>3, <2>4, <2>5, <1>TornStep DEF HasChild
\* A rewrite, which needs an untorn file.
<1>TornRewrite. ASSUME IInv, TornInv,
                       \/ bgrewriteaofCommand \/ startScheduledRewrite \/ aofChildWriteDiffData
                       \/ aofReadDiffFromParent \/ askToStop \/ aofChildPipeReadable \/ finishRewrite
                       \/ rewriteFails \/ backgroundRewriteDoneHandler
                PROVE  TornInv'
  <2> USE <1>TornRewrite
  <2>1. conf' = conf
    BY DEF bgrewriteaofCommand, startScheduledRewrite, aofChildWriteDiffData, Sent,
           aofReadDiffFromParent, askToStop, aofChildPipeReadable, finishRewrite,
           rewriteFails, backgroundRewriteDoneHandler
  <2>2. file' = file \/ file' = RewrittenFile
    BY DEF bgrewriteaofCommand, startScheduledRewrite, aofChildWriteDiffData, Sent,
           aofReadDiffFromParent, askToStop, aofChildPipeReadable, finishRewrite,
           rewriteFails, backgroundRewriteDoneHandler
  <2>3. file'.torn \in {file.torn, FALSE}
    <3>1. RewrittenFile.torn = FALSE
      BY DEF RewrittenFile
    <3> QED BY <2>2, <3>1
  <2>4. conf.torn = FALSE
    <3> SUFFICES ASSUME conf.torn = TRUE PROVE FALSE
      BY LogTypes
    <3>1. left.rewrites = 0 /\ server.aof_rewrite_scheduled = FALSE /\ ~HasChild("aof")
      BY DEF TornInv
    <3> QED
      BY <3>1, SMT DEF bgrewriteaofCommand, startScheduledRewrite, aofChildWriteDiffData, Sending,
           aofReadDiffFromParent, askToStop, aofChildPipeReadable, finishRewrite,
           rewriteFails, backgroundRewriteDoneHandler, Spend
  <2>5. file.torn = FALSE
    BY <2>4 DEF TornInv
  <2>6. file'.torn = FALSE
    BY <2>3, <2>5
  <2> QED BY <2>1, <2>4, <2>6 DEF TornInv
\* CONFIG SET appendonly, which needs one too.
<1>TornSwitch. ASSUME IInv, TornInv, stopAppendOnly \/ startAppendOnly
               PROVE  TornInv'
  <2> USE <1>TornSwitch
  <2>1. conf' = conf
    BY DEF stopAppendOnly, startAppendOnly
  <2>2. conf.torn = FALSE
    <3> SUFFICES ASSUME conf.torn = TRUE PROVE FALSE
      BY LogTypes
    <3>1. left.switches = 0 /\ server.aof_state = AOF_ON
      BY DEF TornInv
    <3>2. (stopAppendOnly => left.switches > 0) /\ (startAppendOnly => server.aof_state = AOF_OFF)
      BY DEF stopAppendOnly, startAppendOnly
    <3> QED BY <3>1, <3>2, SMT DEF AOF_ON, AOF_OFF
  <2>3. file.torn = FALSE
    BY <2>2 DEF TornInv
  <2>4. file'.torn = FALSE
    <3>1. CASE startAppendOnly
      BY <2>3, <3>1 DEF startAppendOnly
    <3>2. CASE stopAppendOnly
      <4>1. PICK o \in Possible(flushAppendOnlyFile(server, TRUE)) :
              file' = IF o.server.run = "up" THEN fsync(o.file) ELSE o.file
        BY <3>2 DEF stopAppendOnly
      <4>2. o \in flushAppendOnlyFile(server, TRUE) /\ TRUE \in BOOLEAN
        BY <4>1 DEF Possible
      <4>3. FileOK(o.file) /\ o.file.torn \in {file.torn, FALSE, conf.torn}
        BY <4>2, <1>TornFlush
      <4>4. file'.torn = o.file.torn
        BY <4>1, <4>3 DEF fsync, FileOK
      <4> QED BY <2>2, <2>3, <4>3, <4>4
    <3> QED BY <3>1, <3>2
  <2> QED BY <2>1, <2>2, <2>4 DEF TornInv
\* The process ends.
<1>TornStop. ASSUME IInv, TornInv, prepareForShutdown \/ kill \/ powerLoss
             PROVE  TornInv'
  <2> USE <1>TornStop
  <2>0. ServerOK(server) /\ FileOK(file)
    BY DEF IInv
  <2>1. conf' = conf /\ ~HasChild("aof")'
    <3>1. conf' = conf /\ child' = NoChild
      BY DEF prepareForShutdown, ShutDown, kill, powerLoss
    <3> QED BY <3>1 DEF HasChild, NoChild
  <2>2. CASE prepareForShutdown
    <3> DEFINE outcomes == IF server.aof_state = AOF_OFF THEN {Outcome(server, file, bio, 0)}
                           ELSE flushAppendOnlyFile(server, TRUE)
    <3>1. PICK o \in Possible(outcomes) :
            /\ left' = [Faulted(o) EXCEPT !.crashes = @ - 1]
            /\ file' = IF server.aof_state # AOF_OFF /\ o.server.run = "up"
                         THEN fsync(o.file) ELSE o.file
            /\ server' = [o.server EXCEPT !.run = IF @ = "up" THEN "shutdown" ELSE @]
      BY <2>2 DEF prepareForShutdown, ShutDown
    <3>2. /\ ServerOK(o.server) /\ FileOK(o.file)
          /\ o.server.aof_rewrite_scheduled = server.aof_rewrite_scheduled
          /\ o.server.aof_state = server.aof_state
          /\ o.file.base = file.base /\ o.file.torn \in {file.torn, FALSE, conf.torn}
      <4>1. CASE server.aof_state = AOF_OFF
        <5>1. o.server = server /\ o.file = file
          BY <3>1, <4>1, SMT DEF Possible, Outcome
        <5> QED BY <2>0, <5>1
      <4>2. CASE server.aof_state # AOF_OFF
        <5>1. o \in flushAppendOnlyFile(server, TRUE) /\ TRUE \in BOOLEAN
          BY <3>1, <4>2 DEF Possible
        <5> QED BY <5>1, <1>TornFlush
      <4> QED BY <4>1, <4>2
    <3>3. file'.base = file.base /\ file'.torn \in {file.torn, FALSE, conf.torn}
      <4>1. file'.base = o.file.base /\ file'.torn = o.file.torn
        BY <3>1, <3>2 DEF fsync, FileOK
      <4> QED BY <3>2, <4>1
    <3>4. /\ server'.aof_rewrite_scheduled = server.aof_rewrite_scheduled
          /\ server'.aof_state = server.aof_state
      BY <3>1, <3>2 DEF ServerOK, ServerFields
    <3>5. Untouched
      BY <2>1, <3>1, <1>OtherBudget
    <3> QED BY <2>1, <3>3, <3>4, <3>5, <1>TornStep
  <2>3. CASE kill \/ powerLoss
    <3>1. Spend("crashes")
      BY <2>3 DEF kill, powerLoss
    <3>2. Untouched
      BY <2>1, <3>1, <1>OtherBudget
    <3>3. \/ server' = Exited(server)
          \/ server' = [server EXCEPT !.run = IF @ = "up" THEN "crashed" ELSE @]
      BY <2>3 DEF kill, powerLoss
    <3>4. /\ server'.aof_rewrite_scheduled = server.aof_rewrite_scheduled
          /\ server'.aof_state = server.aof_state
      BY <2>0, <3>3 DEF Exited, ServerOK, ServerFields
    <3>6. file'.base = file.base /\ file'.torn \in {file.torn, FALSE, conf.torn}
      <4>1. CASE kill
        <5>1. PICK buf \in Unwritten :
                file' = IF buf = <<>> THEN file ELSE [file EXCEPT !.log = @ \o buf, !.torn = FALSE]
          BY <4>1 DEF kill
        <5> QED BY <2>0, <5>1 DEF FileOK
      <4>2. CASE powerLoss
        <5>1. PICK buf \in Unwritten :
                \E n \in file.synced..Len(file.log \o buf), torn \in {FALSE, conf.torn} :
                  file' = [file EXCEPT !.log = SubSeq(file.log \o buf, 1, n), !.torn = torn,
                                       !.synced = n]
          BY <4>2 DEF powerLoss
        <5>2. PICK n \in file.synced..Len(file.log \o buf), torn \in {FALSE, conf.torn} :
                file' = [file EXCEPT !.log = SubSeq(file.log \o buf, 1, n), !.torn = torn,
                                     !.synced = n]
          BY <5>1
        <5>3. file'.base = file.base /\ file'.torn = torn
          BY <2>0, <5>2 DEF FileOK
        <5> QED BY <5>3
      <4> QED BY <2>3, <4>1, <4>2
    <3> QED BY <2>1, <3>2, <3>4, <3>6, <1>TornStep
  <2> QED BY <2>2, <2>3
\* The server starts again, with the torn piece cut off.
<1>TornRestart. ASSUME IInv, TornInv, restart
                PROVE  TornInv'
  <2> USE <1>TornRestart
  <2>1. /\ UNCHANGED <<conf, left>> /\ ~HasChild("aof")'
        /\ server'.aof_rewrite_scheduled = FALSE /\ server'.aof_state = AOF_ON
    BY DEF restart, NewServer, HasChild, NoChild
  <2>2. file' = file \/ \E n : file' = truncate(file, n)
    BY DEF restart, loadAppendOnlyFile
  <2>3. CASE conf.torn = TRUE
    <3>1. file.base = <<>> /\ left.rewrites = 0 /\ left.switches = 0
      BY <2>3 DEF TornInv
    <3>2. file'.base = <<>>
      BY <2>2, <3>1, SMT DEF truncate
    <3> QED BY <2>1, <2>3, <3>1, <3>2 DEF TornInv
  <2>4. CASE conf.torn = FALSE
    <3>1. file.torn = FALSE
      BY <2>4 DEF TornInv
    <3>2. file'.torn = FALSE
      BY <2>2, <3>1, SMT DEF truncate
    <3> QED BY <2>1, <2>4, <3>2 DEF TornInv
  <2> QED BY <2>3, <2>4, LogTypes
<1> SUFFICES ASSUME IInv, TornInv, [Next]_vars PROVE TornInv'
  OBVIOUS
<1>1. CASE UNCHANGED vars
  BY <1>1 DEF vars, TornInv, HasChild
<1>2. CASE Next
  BY <1>2, <1>TornCommand, <1>TornOther, <1>TornBeforeSleep, <1>TornRewrite, <1>TornSwitch, <1>TornStop,
     <1>TornRestart DEF Next
<1> QED BY <1>1, <1>2

-----------------------------------------------------------------------------
(* Faults *)

\* What try_fsync does under each policy.
LEMMA TryFsyncSync ==
  ASSUME NEW s, ServerOK(s), NEW f, FileOK(f), NEW sip, NEW o, o \in try_fsync(s, f, sip)
  PROVE  /\ o.faults \in {0, 1} /\ o.file.log = f.log
         /\ o.faults = 0 => o.server.run = s.run
         /\ conf.fsync = "always" =>
              /\ o.bio = bio /\ o.file.synced \in {f.synced, Len(f.log)}
              /\ ~conf.no_fsync_on_rewrite =>
                   o.server.run = "crashed" \/ o.file.synced = Len(f.log)
<1>1. \/ o = Outcome(s, f, bio, 0) /\ (conf.fsync = "always" => conf.no_fsync_on_rewrite)
      \/ o = Outcome([s EXCEPT !.behind = FALSE, !.second = FALSE], fsync(f), bio, 0)
      \/ o = Outcome(Exited(s), f, bio, 1)
      \/ conf.fsync # "always" /\ o = Outcome([s EXCEPT !.second = FALSE], f, bio, 0)
      \/ conf.fsync # "always" /\ o = Outcome([s EXCEPT !.second = FALSE, !.behind = FALSE], f,
                                              Append(bio, Len(f.log)), 0)
  BY DEF try_fsync, fsyncEverysec
<1>2. CASE o = Outcome(s, f, bio, 0) /\ (conf.fsync = "always" => conf.no_fsync_on_rewrite)
  BY <1>2 DEF Outcome
<1>3. CASE o = Outcome([s EXCEPT !.behind = FALSE, !.second = FALSE], fsync(f), bio, 0)
  <2>1. /\ o.server.run = s.run /\ o.file.log = f.log /\ o.file.synced = Len(f.log)
        /\ o.bio = bio /\ o.faults = 0
    BY <1>3 DEF Outcome, fsync, ServerOK, ServerFields, FileOK
  <2> QED BY <2>1
<1>4. CASE o = Outcome(Exited(s), f, bio, 1)
  <2>1. o.server.run = "crashed" /\ o.file = f /\ o.bio = bio /\ o.faults = 1
    BY <1>4 DEF Outcome, Exited, ServerOK, ServerFields
  <2> QED BY <2>1, SMT
<1>5. CASE conf.fsync # "always" /\ o = Outcome([s EXCEPT !.second = FALSE], f, bio, 0)
  <2>1. o.server.run = s.run /\ o.file = f /\ o.faults = 0
    BY <1>5 DEF Outcome, ServerOK, ServerFields
  <2> QED BY <1>5, <2>1
<1>6. CASE conf.fsync # "always" /\ o = Outcome([s EXCEPT !.second = FALSE, !.behind = FALSE], f,
                                                Append(bio, Len(f.log)), 0)
  <2>1. o.server.run = s.run /\ o.file = f /\ o.faults = 0
    BY <1>6 DEF Outcome, ServerOK, ServerFields
  <2> QED BY <1>6, <2>1
<1> QED BY <1>1, <1>2, <1>3, <1>4, <1>5, <1>6

\* What a flush does: without a fault the buffer is written, at once where
\* nothing may postpone it; with appendfsync always it is synced, or the
\* server exits.
LEMMA FlushSync ==
  ASSUME ServerOK(server), FileOK(file), NEW force \in BOOLEAN,
         NEW o \in flushAppendOnlyFile(server, force)
  PROVE  LET log == file.log \o server.aof_buf
         IN  /\ o.faults \in {0, 1}
             /\ o.faults = 0 /\ (force \/ conf.fsync # "everysec") =>
                  o.server.run = server.run /\ o.file.log = log
             /\ conf.fsync = "always" =>
                  /\ o.bio = bio /\ o.file.synced \in {file.synced, Len(o.file.log)}
                  /\ server.aof_buf = <<>> => o.server = server /\ o.file = file
                  /\ o.server.run = "crashed" \/ o.file.log = log
                  /\ ~conf.no_fsync_on_rewrite =>
                       \/ o.server.run = "crashed" \/ server.aof_buf = <<>>
                       \/ o.file.synced = Len(log)
<1> DEFINE w == Written(server)
           f == [file EXCEPT !.log = @ \o server.aof_buf, !.torn = FALSE]
           later == [server EXCEPT !.postponed = IF @ = 0 THEN 1 ELSE @]
           log == file.log \o server.aof_buf
<1>1. ServerOK(w) /\ w.run = server.run
  BY SMT DEF Written, ServerOK, ServerFields
<1>2. FileOK(f) /\ f.log = log /\ f.synced = file.synced
  BY SMT DEF FileOK, ServerOK
<1>3. server.aof_buf = <<>> => log = file.log
  BY SMT DEF FileOK, ServerOK
<1> HIDE DEF w, f, log
<1>4. CASE server.aof_buf = <<>>
  <2>1. \/ o = Outcome(server, file, bio, 0)
        \/ conf.fsync = "everysec" /\ o \in try_fsync(server, file, FALSE)
    BY <1>4 DEF flushAppendOnlyFile
  <2>2. CASE o = Outcome(server, file, bio, 0)
    BY <1>3, <1>4, <2>2 DEF Outcome, log
  <2>3. CASE conf.fsync = "everysec" /\ o \in try_fsync(server, file, FALSE)
    <3>1. \E sip : o \in try_fsync(server, file, sip)
      BY <2>3
    <3>2. /\ o.faults \in {0, 1} /\ o.file.log = file.log
          /\ o.faults = 0 => o.server.run = server.run
      BY <3>1, TryFsyncSync, SMT
    <3> QED BY <1>3, <1>4, <2>3, <3>2 DEF log
  <2> QED BY <2>1, <2>2, <2>3
<1>5. CASE server.aof_buf # <<>>
  <2>1. \/ ~force /\ conf.fsync = "everysec" /\ o = Outcome(later, file, bio, 0)
        \/ \E sip : o \in try_fsync(w, f, sip)
        \/ \E e \in ShortWrites(server) : o = WriteError(server, e[1], e[2])
    BY <1>5 DEF flushAppendOnlyFile, w, f
  <2>2. CASE ~force /\ conf.fsync = "everysec" /\ o = Outcome(later, file, bio, 0)
    BY <2>2 DEF Outcome
  <2>3. CASE \E sip : o \in try_fsync(w, f, sip)
    <3>1. /\ o.faults \in {0, 1} /\ o.file.log = f.log
          /\ o.faults = 0 => o.server.run = w.run
          /\ conf.fsync = "always" =>
              /\ o.bio = bio /\ o.file.synced \in {f.synced, Len(f.log)}
              /\ ~conf.no_fsync_on_rewrite =>
                   o.server.run = "crashed" \/ o.file.synced = Len(f.log)
      BY <1>1, <1>2, <2>3, TryFsyncSync, SMT
    <3> QED BY <1>1, <1>2, <1>5, <3>1 DEF log
  <2>4. CASE \E e \in ShortWrites(server) : o = WriteError(server, e[1], e[2])
    <3>1. PICK e \in ShortWrites(server) : o = WriteError(server, e[1], e[2])
      BY <2>4
    <3>2. /\ o.faults = 1 /\ o.bio = bio /\ o.file.synced = file.synced
          /\ conf.fsync = "always" => o.server = Exited(server)
      BY <3>1 DEF WriteError, Outcome, FileOK
    <3>3. Exited(server).run = "crashed"
      BY DEF Exited, ServerOK, ServerFields
    <3>4. conf.fsync = "always" => o.server.run = "crashed"
      BY <3>2, <3>3
    <3>5. o.faults # 0
      BY <3>2, SMT
    <3> QED BY <1>5, <3>2, <3>4, <3>5
  <2> QED BY <2>1, <2>2, <2>3, <2>4
<1> QED BY <1>4, <1>5

\* What is left of the faults.
FaultsInv == left.faults \in 0..conf.faults

\* The outcome that a flush has, among the possible ones.
LEMMA FlushFaults ==
  ASSUME IInv, NEW force \in BOOLEAN,
         NEW o \in Possible(flushAppendOnlyFile(server, force))
  PROVE  o \in flushAppendOnlyFile(server, force) /\ o.faults \in {0, 1} /\ o.faults <= left.faults
<1>1. o \in flushAppendOnlyFile(server, force) /\ o.faults <= left.faults
  BY DEF Possible
<1>2. ServerOK(server) /\ FileOK(file)
  BY DEF IInv
<1> QED BY <1>1, <1>2, FlushSync

\* Every step keeps FaultsInv.
LEMMA FaultsNext == IInv /\ FaultsInv /\ [Next]_vars => FaultsInv'
\* A step spends no fault that is not left.
<1>FaultsStep. ASSUME IInv, FaultsInv, conf' = conf,
                      \/ left' = left
                      \/ \E budget \in {"writes", "rewrites", "saves", "faults", "crashes"} : Spend(budget)
                      \/ \E o : /\ o.faults \in {0, 1} /\ o.faults <= left.faults
                                /\ \/ left' = Faulted(o)
                                   \/ left' = [Faulted(o) EXCEPT !.crashes = @ - 1]
                                   \/ left' = [Faulted(o) EXCEPT !.switches = @ - 1]
               PROVE  FaultsInv'
  <2> USE <1>FaultsStep
  <2>1. /\ DOMAIN left = {"fsync", "no_fsync_on_rewrite", "dbs", "multi", "power", "torn",
                          "writes", "rewrites", "saves", "switches", "faults", "crashes"}
        /\ conf.faults \in Nat
    BY SetupsAssumption DEF IInv, BudgetOK
  <2>2. CASE left' = left
    BY <2>2 DEF FaultsInv
  <2>3. CASE \E budget \in {"writes", "rewrites", "saves", "faults", "crashes"} : Spend(budget)
    <3>1. PICK budget \in {"writes", "rewrites", "saves", "faults", "crashes"} : Spend(budget)
      BY <2>3
    <3>2. left'.faults = IF budget = "faults" THEN left.faults - 1 ELSE left.faults
      BY <2>1, <3>1 DEF Spend
    <3>3. budget = "faults" => left.faults > 0
      BY <3>1 DEF Spend
    <3> QED BY <2>1, <3>2, <3>3, SMT DEF FaultsInv
  <2>4. CASE \E o : /\ o.faults \in {0, 1} /\ o.faults <= left.faults
                    /\ \/ left' = Faulted(o)
                       \/ left' = [Faulted(o) EXCEPT !.crashes = @ - 1]
                       \/ left' = [Faulted(o) EXCEPT !.switches = @ - 1]
    <3>1. PICK o : /\ o.faults \in {0, 1} /\ o.faults <= left.faults
                   /\ \/ left' = Faulted(o)
                      \/ left' = [Faulted(o) EXCEPT !.crashes = @ - 1]
                      \/ left' = [Faulted(o) EXCEPT !.switches = @ - 1]
      BY <2>4
    <3>2. left'.faults = left.faults - o.faults
      BY <2>1, <3>1 DEF Faulted
    <3> QED BY <2>1, <3>1, <3>2, SMT DEF FaultsInv
  <2> QED BY <2>2, <2>3, <2>4
<1> SUFFICES ASSUME IInv, FaultsInv, [Next]_vars PROVE FaultsInv'
  BY SMTT(30)
<1> DEFINE Spent1 == \E budget \in {"writes", "rewrites", "saves", "faults", "crashes"} :
                       Spend(budget)
<1>0. TRUE \in BOOLEAN /\ FALSE \in BOOLEAN
  OBVIOUS
<1>2. CASE (\E d \in conf.dbs : command(d) \/ execCommand(d)) \/ bgrewriteaofCommand
           \/ bgsaveCommand \/ rewriteFails \/ kill \/ powerLoss
  <2>1. Spent1 /\ conf' = conf
    <3>1. Spend("writes") \/ Spend("rewrites") \/ Spend("saves") \/ Spend("faults")
            \/ Spend("crashes")
      BY <1>2 DEF command, execCommand, Executed, bgrewriteaofCommand, bgsaveCommand,
                         rewriteFails, kill, powerLoss
    <3>2. conf' = conf
      BY <1>2 DEF command, execCommand, Executed, bgrewriteaofCommand, bgsaveCommand,
                         rewriteFails, kill, powerLoss
    <3> QED BY <3>1, <3>2
  <2> QED BY <2>1, <1>FaultsStep
<1>3. CASE tick \/ bioProcessBackgroundJobs \/ startScheduledRewrite
           \/ backgroundSaveDoneHandler \/ aofChildWriteDiffData \/ aofReadDiffFromParent
           \/ askToStop \/ aofChildPipeReadable \/ finishRewrite
           \/ backgroundRewriteDoneHandler \/ startAppendOnly \/ restart
  <2>1. conf' = conf /\ (left' = left \/ Spend("faults"))
    BY <1>3 DEF tick, bioProcessBackgroundJobs, startScheduledRewrite,
           backgroundSaveDoneHandler, aofChildWriteDiffData, Sent, aofReadDiffFromParent,
           askToStop, aofChildPipeReadable, finishRewrite,
           backgroundRewriteDoneHandler, startAppendOnly, restart
  <2>2. left' = left \/ Spent1
    BY <2>1
  <2> QED BY <2>1, <2>2, <1>FaultsStep
<1>4. CASE beforeSleep
  <2>1. PICK o \in Possible(IF server.aof_state = AOF_ON
                              THEN flushAppendOnlyFile(server, FALSE)
                              ELSE {Outcome(server, file, bio, 0)}) :
          left' = Faulted(o)
    BY <1>4 DEF beforeSleep
  <2>2. conf' = conf
    BY <1>4 DEF beforeSleep
  <2>3. o.faults \in {0, 1} /\ o.faults <= left.faults
    <3>1. CASE server.aof_state = AOF_ON
      <4>1. o \in Possible(flushAppendOnlyFile(server, FALSE))
        BY <2>1, <3>1
      <4> QED BY <1>0, <4>1, FlushFaults
    <3>2. CASE server.aof_state # AOF_ON
      BY <2>1, <3>2, SMT DEF Outcome, Possible
    <3> QED BY <3>1, <3>2
  <2> QED BY <2>1, <2>2, <2>3, <1>FaultsStep
<1>5. CASE stopAppendOnly
  <2>1. PICK o \in Possible(flushAppendOnlyFile(server, TRUE)) :
          left' = [Faulted(o) EXCEPT !.switches = @ - 1]
    BY <1>5 DEF stopAppendOnly
  <2>2. conf' = conf
    BY <1>5 DEF stopAppendOnly
  <2>3. o.faults \in {0, 1} /\ o.faults <= left.faults
    BY <1>0, FlushFaults
  <2> QED BY <2>1, <2>2, <2>3, <1>FaultsStep
<1>6. CASE prepareForShutdown
  <2>1. PICK o \in Possible(IF server.aof_state = AOF_OFF
                              THEN {Outcome(server, file, bio, 0)}
                              ELSE flushAppendOnlyFile(server, TRUE)) :
          left' = [Faulted(o) EXCEPT !.crashes = @ - 1]
    BY <1>6 DEF prepareForShutdown, ShutDown
  <2>2. conf' = conf
    BY <1>6 DEF prepareForShutdown, ShutDown
  <2>3. o.faults \in {0, 1} /\ o.faults <= left.faults
    <3>1. CASE server.aof_state # AOF_OFF
      <4>1. o \in Possible(flushAppendOnlyFile(server, TRUE))
        BY <2>1, <3>1
      <4> QED BY <1>0, <4>1, FlushFaults
    <3>2. CASE server.aof_state = AOF_OFF
      BY <2>1, <3>2, SMT DEF Outcome, Possible
    <3> QED BY <3>1, <3>2
  <2> QED BY <2>1, <2>2, <2>3, <1>FaultsStep
<1>7. CASE UNCHANGED vars
  BY <1>7 DEF vars, FaultsInv
<1> QED BY <1>2, <1>3, <1>4, <1>5, <1>6, <1>7 DEF Next

\* No step changes the configuration.
LEMMA ConfStays == [Next]_vars => conf' = conf
BY DEF vars, Next, command, execCommand, Executed, tick, beforeSleep,
     bioProcessBackgroundJobs, bgrewriteaofCommand, startScheduledRewrite, bgsaveCommand,
     backgroundSaveDoneHandler, aofChildWriteDiffData, Sent, aofReadDiffFromParent, askToStop,
     aofChildPipeReadable, finishRewrite, rewriteFails, backgroundRewriteDoneHandler,
     stopAppendOnly, startAppendOnly, prepareForShutdown, ShutDown, kill, powerLoss, restart

-----------------------------------------------------------------------------
(* What a log loads to *)

INSTANCE WellFoundedInduction

\* Induction over a set of natural numbers.
LEMMA Induction ==
  ASSUME NEW T, 0 \in T, \A n \in Nat : n \in T => n + 1 \in T
  PROVE  \A n \in Nat : n \in T
<1> SUFFICES ASSUME NEW k \in Nat, k \notin T PROVE FALSE
  OBVIOUS
<1> DEFINE R == OpToRel(<, Nat)
           rest == {n \in Nat : n \notin T}
<1>1. IsWellFoundedOn(R, Nat)
  BY NatLessThanWellFounded
<1>2. \A x, y \in Nat : <<y, x>> \notin R => x <= y
  BY SMT DEF OpToRel
<1>3. rest \subseteq Nat /\ rest # {}
  OBVIOUS
<1> HIDE DEF R
<1>4. PICK x \in rest : \A y \in rest : ~ (<<y, x>> \in R)
  BY <1>1, <1>3, WFMin
<1>5. x # 0 /\ x \in Nat /\ x \notin T
  BY <1>4
<1>6. x - 1 \in Nat /\ x - 1 \notin T
  BY <1>5, SMT
<1>7. x <= x - 1
  BY <1>2, <1>4, <1>5, <1>6
<1> QED BY <1>5, <1>7, SMT

\* The state of the fake client after the entries of s.
After(st, s) == Run(Replay, st, s)

\* g[i] is that state after the first i.
IsRun(g, st, s) ==
  g = [i \in 0..Len(s) |-> IF i = 0 THEN st ELSE Replay(g[i - 1], s[i])]

\* The states that loading passes through exist ...
LEMMA RunExists ==
  ASSUME NEW st, NEW s \in Seq(Entry)
  PROVE  \E g : IsRun(g, st, s)
<1> DEFINE To(g, n) == g = [i \in 0..n |-> IF i = 0 THEN st ELSE Replay(g[i - 1], s[i])]
           T == {n \in Nat : \E g : To(g, n)}
<1> HIDE DEF Replay
<1>1. 0 \in T
  <2> DEFINE g == [i \in 0..0 |-> st]
  <2>1. To(g, 0)
    BY SMT
  <2> QED BY <2>1
<1>2. ASSUME NEW n \in Nat, n \in T
      PROVE  n + 1 \in T
  <2>1. PICK g : To(g, n)
    BY <1>2
  <2> DEFINE h == [i \in 0..(n + 1) |-> IF i = n + 1 THEN Replay(g[n], s[n + 1]) ELSE g[i]]
  <2>2. \A i \in 0..n : h[i] = g[i]
    BY SMT
  <2>3. \A i \in 0..n : g[i] = IF i = 0 THEN st ELSE Replay(g[i - 1], s[i])
    BY <2>1
  <2>4. \A i \in 0..(n + 1) : h[i] = IF i = 0 THEN st ELSE Replay(h[i - 1], s[i])
    <3> SUFFICES ASSUME NEW i \in 0..(n + 1)
                 PROVE  h[i] = IF i = 0 THEN st ELSE Replay(h[i - 1], s[i])
      OBVIOUS
    <3>1. CASE i = n + 1
      <4>1. h[i] = Replay(g[n], s[n + 1]) /\ i - 1 = n /\ i # 0 /\ h[n] = g[n]
        BY <3>1, SMT
      <4> QED BY <4>1, <3>1
    <3>2. CASE i # n + 1
      <4>1. i \in 0..n /\ (i # 0 => i - 1 \in 0..n)
        BY <3>2, SMT
      <4>2. h[i] = g[i] /\ (i # 0 => h[i - 1] = g[i - 1])
        BY <2>2, <4>1
      <4> QED BY <2>3, <4>1, <4>2
    <3> QED BY <3>1, <3>2
  <2>5. To(h, n + 1)
    <3>1. h = [i \in 0..(n + 1) |-> h[i]]
      OBVIOUS
    <3> HIDE DEF h
    <3> QED BY <2>4, <3>1
  <2> HIDE DEF h, To
  <2> QED BY <2>5, SMT
<1>3. \A n \in Nat : n \in T
  <2> HIDE DEF T
  <2> QED BY <1>1, <1>2, Induction
<1>4. Len(s) \in T
  <2> HIDE DEF T
  <2> QED BY <1>3, SMT
<1> QED BY <1>4 DEF IsRun

\* ... and are the only ones.
LEMMA RunUnique ==
  ASSUME NEW st, NEW s \in Seq(Entry), NEW g, NEW h, IsRun(g, st, s), IsRun(h, st, s)
  PROVE  g = h
<1> DEFINE T == {n \in Nat : n <= Len(s) => g[n] = h[n]}
<1> HIDE DEF Replay
<1>1. /\ DOMAIN g = 0..Len(s) /\ DOMAIN h = 0..Len(s)
      /\ g = [i \in 0..Len(s) |-> g[i]] /\ h = [i \in 0..Len(s) |-> h[i]]
  BY DEF IsRun
<1>2. /\ \A i \in 0..Len(s) : g[i] = IF i = 0 THEN st ELSE Replay(g[i - 1], s[i])
      /\ \A i \in 0..Len(s) : h[i] = IF i = 0 THEN st ELSE Replay(h[i - 1], s[i])
  BY DEF IsRun
<1>3. 0 \in T
  BY <1>2, SMT
<1>4. ASSUME NEW n \in Nat, n \in T
      PROVE  n + 1 \in T
  <2> SUFFICES ASSUME n + 1 <= Len(s) PROVE g[n + 1] = h[n + 1]
    BY SMT
  <2>1. n + 1 \in 0..Len(s) /\ n + 1 # 0 /\ (n + 1) - 1 = n /\ g[n] = h[n]
    BY <1>4, SMT
  <2> QED BY <1>2, <2>1
<1>5. \A n \in Nat : n \in T
  <2> HIDE DEF T
  <2> QED BY <1>3, <1>4, Induction
<1>6. \A i \in 0..Len(s) : g[i] = h[i]
  BY <1>5, SMT
<1> QED BY <1>1, <1>6

\* The last state of a run is what Run computes.
LEMMA RunIs ==
  ASSUME NEW st, NEW s \in Seq(Entry), NEW g, IsRun(g, st, s)
  PROVE  After(st, s) = g[Len(s)]
<1> DEFINE c == CHOOSE f : IsRun(f, st, s)
<1>1. IsRun(c, st, s)
  OBVIOUS
<1>2. c = g
  BY <1>1, RunUnique
<1>3. After(st, s) = c[Len(s)]
  <2> HIDE DEF Replay
  <2> QED BY DEF After, Run, IsRun
<1> QED BY <1>2, <1>3

\* Nothing to replay changes nothing.
LEMMA AfterEmpty ==
  ASSUME NEW st PROVE After(st, <<>>) = st
<1>1. <<>> \in Seq(Entry) /\ Len(<<>>) = 0
  BY SMT
<1>2. PICK g : IsRun(g, st, <<>>)
  BY <1>1, RunExists
<1>3. g[0] = st
  BY <1>2, SMT DEF IsRun
<1> QED BY <1>1, <1>2, <1>3, RunIs

\* One entry more is one step more.
LEMMA AfterAppend ==
  ASSUME NEW st, NEW s \in Seq(Entry), NEW e \in Entry
  PROVE  After(st, Append(s, e)) = Replay(After(st, s), e)
<1> HIDE DEF Replay
<1> DEFINE t == Append(s, e)
<1>1. /\ t \in Seq(Entry) /\ Len(t) = Len(s) + 1 /\ t[Len(s) + 1] = e
      /\ \A i \in 1..Len(s) : t[i] = s[i]
  BY SMT
<1> HIDE DEF t
<1>2. PICK g : IsRun(g, st, t)
  BY <1>1, RunExists
<1> DEFINE h == [i \in 0..Len(s) |-> g[i]]
<1>3. \A i \in 0..Len(t) : g[i] = IF i = 0 THEN st ELSE Replay(g[i - 1], t[i])
  BY <1>2 DEF IsRun
<1>4. \A i \in 0..Len(s) : h[i] = IF i = 0 THEN st ELSE Replay(h[i - 1], s[i])
  <2> SUFFICES ASSUME NEW i \in 0..Len(s)
               PROVE  h[i] = IF i = 0 THEN st ELSE Replay(h[i - 1], s[i])
    OBVIOUS
  <2>1. /\ i \in 0..Len(t) /\ h[i] = g[i]
        /\ i # 0 => i - 1 \in 0..Len(s) /\ h[i - 1] = g[i - 1] /\ t[i] = s[i]
    BY <1>1, SMT
  <2> QED BY <1>3, <2>1
<1>5. IsRun(h, st, s)
  <2>1. h = [i \in 0..Len(s) |-> h[i]]
    OBVIOUS
  <2> HIDE DEF h
  <2> QED BY <1>4, <2>1 DEF IsRun
<1>6. After(st, s) = g[Len(s)]
  <2>1. h[Len(s)] = g[Len(s)]
    BY SMT
  <2> QED BY <1>5, <2>1, RunIs
<1>7. After(st, t) = g[Len(s) + 1]
  BY <1>1, <1>2, RunIs
<1>8. g[Len(s) + 1] = Replay(g[Len(s)], e)
  <2>1. Len(s) + 1 \in 0..Len(t) /\ Len(s) + 1 # 0 /\ (Len(s) + 1) - 1 = Len(s)
    BY <1>1, SMT
  <2> QED BY <1>1, <1>3, <2>1, SMTT(30)
<1> QED BY <1>6, <1>7, <1>8 DEF t

\* What the preamble loads to, and the log after it.
StartOf(base) == [data |-> base, db |-> 0, multi |-> FALSE, queue |-> <<>>]

Loaded(base, log) == After(StartOf(base), log)

\* The last entry of a log is replayed last.
LEMMA LoadedAppend ==
  ASSUME NEW base, NEW log \in Seq(Entry), NEW e \in Entry
  PROVE  Loaded(base, Append(log, e)) = Replay(Loaded(base, log), e)
BY AfterAppend DEF Loaded

-----------------------------------------------------------------------------
(* Regular logs *)

Prefix(s, t) == Durable!IsPrefix(s, t)

Whole(h) == Durable!Whole(h)

Write == Nat \X Int \X (0..2)

\* The prefixes of a dataset are ordered.
LEMMA PrefixItself ==
  ASSUME NEW s \in Seq(Write) PROVE Prefix(s, s)
BY SMT DEF Prefix, Durable!IsPrefix

\* They are, transitively.
LEMMA PrefixTrans ==
  ASSUME NEW s \in Seq(Write), NEW t \in Seq(Write), NEW u \in Seq(Write),
         Prefix(s, t), Prefix(t, u)
  PROVE  Prefix(s, u)
BY SMT DEF Prefix, Durable!IsPrefix

StateFields == {"data", "db", "multi", "queue"}

\* What holds after every entry of a log.
Fine(st, multi) ==
  /\ DOMAIN st = StateFields
  /\ st.data \in Seq(Write) /\ Whole(st.data) /\ st.db \in Nat
  /\ st.multi \in BOOLEAN
  /\ st.multi => multi
  /\ ~st.multi => st.queue = <<>>

\* The logs the server writes: a transaction is closed before the next one
\* begins, something (a SELECT) precedes the first one, and no entry takes
\* writes back.
Regular(base, log, multi) ==
  /\ \A n \in 0..Len(log) : Fine(Loaded(base, First(log, n)), multi)
  /\ \A n \in 1..Len(log) :
       /\ log[n] = Multi => n > 1 /\ ~Loaded(base, First(log, n - 1)).multi
       /\ log[n] = Exec => ~Loaded(base, First(log, n)).multi
       /\ Prefix(Loaded(base, First(log, n - 1)).data, Loaded(base, First(log, n)).data)

\* A regular log loads well.
LEMMA RegularAll ==
  ASSUME NEW base, NEW log \in Seq(Entry), NEW multi, Regular(base, log, multi)
  PROVE  Fine(Loaded(base, log), multi)
<1>1. Len(log) \in 0..Len(log) /\ First(log, Len(log)) = log
  BY FirstAll, SMT
<1> QED BY <1>1 DEF Regular

\* A log that is empty loads to its base.
LEMMA RegularEmpty ==
  ASSUME NEW base \in Seq(Write), Whole(base), NEW multi
  PROVE  /\ Regular(base, <<>>, multi) /\ Loaded(base, <<>>) = StartOf(base)
         /\ Loaded(base, <<>>).data = base /\ ~Loaded(base, <<>>).multi
<1>1. Loaded(base, <<>>) = StartOf(base)
  BY AfterEmpty DEF Loaded
<1>2. Fine(StartOf(base), multi) /\ StartOf(base).data = base /\ ~StartOf(base).multi
  BY DEF Fine, StartOf, StateFields
<1>3. <<>> \in Seq(Entry) /\ First(<<>>, 0) = <<>> /\ Len(<<>>) = 0
  <2>1. <<>> \in Seq(Entry)
    BY SMT
  <2> QED BY <2>1, FirstNone
<1>4. Regular(base, <<>>, multi)
  <2>1. \A n \in 0..Len(<<>>) : n = 0
    BY <1>3, SMT
  <2>2. \A n \in 1..Len(<<>>) : FALSE
    BY <1>3, SMT
  <2> QED BY <1>1, <1>2, <1>3, <2>1, <2>2, SMTT(30) DEF Regular
<1> QED BY <1>1, <1>2, <1>4

\* The beginning of a regular log is one.
LEMMA RegularFirst ==
  ASSUME NEW base, NEW log \in Seq(Entry), NEW multi, Regular(base, log, multi),
         NEW m \in 0..Len(log)
  PROVE  Regular(base, First(log, m), multi)
<1> DEFINE t == First(log, m)
<1>1. t \in Seq(Entry) /\ Len(t) = m /\ \A i \in 1..m : t[i] = log[i]
  BY FirstProperties
<1>2. \A n \in 0..m : First(t, n) = First(log, n)
  BY FirstOfFirst
<1> HIDE DEF t
<1>3. \A n \in 0..m : n \in 0..Len(log)
  BY SMT
<1>4. \A n \in 1..m : n \in 1..Len(log) /\ n \in 0..m /\ n - 1 \in 0..m
  BY SMT
<1>5. Regular(base, t, multi)
  BY <1>1, <1>2, <1>3, <1>4 DEF Regular
<1> QED BY <1>5 DEF t

\* What a regular log loads to only grows.
LEMMA Monotone ==
  ASSUME NEW base, NEW log \in Seq(Entry), NEW multi, Regular(base, log, multi),
         NEW i \in 0..Len(log), NEW j \in i..Len(log)
  PROVE  Prefix(Loaded(base, First(log, i)).data, Loaded(base, First(log, j)).data)
<1> DEFINE D(n) == Loaded(base, First(log, n)).data
           T == {k \in Nat : i + k <= Len(log) => Prefix(D(i), D(i + k))}
<1>1. \A n \in 0..Len(log) : D(n) \in Seq(Write)
  BY DEF Regular, Fine
<1>2. \A n \in 1..Len(log) : Prefix(D(n - 1), D(n))
  BY DEF Regular
<1> HIDE DEF D
<1>3. 0 \in T
  <2>1. i + 0 = i
    BY SMT
  <2> QED BY <1>1, <2>1, PrefixItself
<1>4. ASSUME NEW k \in Nat, k \in T
      PROVE  k + 1 \in T
  <2> SUFFICES ASSUME i + (k + 1) <= Len(log) PROVE Prefix(D(i), D(i + (k + 1)))
    BY SMT
  <2>1. /\ i + (k + 1) \in 1..Len(log) /\ (i + (k + 1)) - 1 = i + k
        /\ i + k \in 0..Len(log) /\ i + (k + 1) \in 0..Len(log)
    BY SMT
  <2>2. Prefix(D(i), D(i + k))
    BY <1>4, <2>1, SMT
  <2>3. Prefix(D(i + k), D(i + (k + 1)))
    BY <1>2, <2>1
  <2> QED BY <1>1, <2>1, <2>2, <2>3, PrefixTrans
<1>5. \A k \in Nat : k \in T
  <2> HIDE DEF T
  <2> QED BY <1>3, <1>4, Induction
<1>6. j - i \in Nat /\ i + (j - i) = j /\ j <= Len(log)
  BY SMT
<1>7. Prefix(D(i), D(j))
  <2>1. j - i \in T
    <3> HIDE DEF T
    <3> QED BY <1>5, <1>6
  <2> QED BY <1>6, <2>1
<1> QED BY <1>7 DEF D

\* MULTI opens a transaction.
LEMMA ReplayMulti ==
  ASSUME NEW st, DOMAIN st = StateFields, st.multi = FALSE
  PROVE  /\ DOMAIN Replay(st, Multi) = StateFields
         /\ Replay(st, Multi).data = st.data /\ Replay(st, Multi).db = st.db
         /\ Replay(st, Multi).multi = TRUE /\ Replay(st, Multi).queue = st.queue
<1>1. Replay(st, Multi) = [st EXCEPT !.multi = TRUE]
  BY DEF Replay
<1> QED BY <1>1 DEF StateFields

\* Inside of one.
LEMMA ReplayQueued ==
  ASSUME NEW st, DOMAIN st = StateFields, st.multi = TRUE, NEW e, e # Exec
  PROVE  /\ DOMAIN Replay(st, e) = StateFields
         /\ Replay(st, e).data = st.data /\ Replay(st, e).db = st.db
         /\ Replay(st, e).multi = TRUE /\ Replay(st, e).queue = Append(st.queue, e)
<1>1. Replay(st, e) = [st EXCEPT !.queue = Append(@, e)]
  BY DEF Replay
<1> QED BY <1>1 DEF StateFields

-----------------------------------------------------------------------------
(* A log that is kept, and one that is current *)

\* A log is regular and loads to a prefix of the dataset.
Kept(base, log, data, multi) ==
  Regular(base, log, multi) /\ Prefix(Loaded(base, log).data, data)

\* What feedAppendOnlyFile puts before the command.
SelectIf(d, selected) == IF d # selected THEN <<Select(d)>> ELSE <<>>

\* The log loads to the data, and the next command goes to the database
\* that the server has selected, if it has.
Current(base, log, data, selected) ==
  /\ Loaded(base, log).data = data /\ Loaded(base, log).multi = FALSE
  /\ selected # -1 => Loaded(base, log).db = selected /\ log # <<>>

\* A log that is current is kept.
LEMMA CurrentKept ==
  ASSUME NEW base, NEW log, NEW data \in Seq(Write), NEW multi, NEW selected,
         Regular(base, log, multi), Current(base, log, data, selected)
  PROVE  Kept(base, log, data, multi)
BY PrefixItself DEF Kept, Current

\* It stays current when the next entry is to be a SELECT.
LEMMA CurrentAnew ==
  ASSUME NEW base, NEW log, NEW data, NEW selected, Current(base, log, data, selected)
  PROVE  Current(base, log, data, -1)
BY DEF Current

\* What a crash leaves of a log is kept.
LEMMA KeptFirst ==
  ASSUME NEW base, NEW log \in Seq(Entry), NEW data \in Seq(Write), NEW multi,
         Kept(base, log, data, multi), NEW k \in 0..Len(log)
  PROVE  Kept(base, First(log, k), data, multi)
<1>1. Regular(base, First(log, k), multi) /\ Regular(base, log, multi)
  BY RegularFirst DEF Kept
<1>2. First(log, k) \in Seq(Entry)
  BY FirstProperties
<1>3. /\ Loaded(base, First(log, k)).data \in Seq(Write)
      /\ Loaded(base, log).data \in Seq(Write)
  BY <1>1, <1>2, RegularAll DEF Fine
<1>4. Prefix(Loaded(base, First(log, k)).data, Loaded(base, log).data)
  <2>1. Len(log) \in k..Len(log)
    BY SMT
  <2>2. Prefix(Loaded(base, First(log, k)).data, Loaded(base, First(log, Len(log))).data)
    BY <1>1, <2>1, Monotone
  <2> QED BY <2>2, FirstAll
<1> QED BY <1>1, <1>3, <1>4, PrefixTrans DEF Kept

\* A rewrite starts from the dataset.
LEMMA KeptFork ==
  ASSUME NEW data \in Seq(Write), Whole(data), NEW multi
  PROVE  Kept(data, <<>>, data, multi) /\ Current(data, <<>>, data, -1)
<1>1. /\ Regular(data, <<>>, multi) /\ Loaded(data, <<>>).data = data
      /\ Loaded(data, <<>>).multi = FALSE
  BY RegularEmpty, SMT DEF StartOf
<1>2. Current(data, <<>>, data, -1)
  BY <1>1 DEF Current
<1> QED BY <1>1, <1>2, CurrentKept

-----------------------------------------------------------------------------
(* The invariant of the log *)

\* The dataset, which has no part of a transaction.
DataInv ==
  /\ server.data \in Seq(Write) /\ Whole(server.data)
  /\ Up /\ server.aof_state # AOF_ON => server.aof_buf = <<>>

\* The file loads to a prefix of the dataset, and to all of it while the AOF
\* is on.
FileInv ==
  /\ Kept(file.base, TheLog, server.data, conf.multi)
  /\ Up /\ server.aof_state = AOF_ON =>
       Current(file.base, TheLog, server.data, server.aof_selected_db)

\* The same of the file that the child writes.
ChildInv ==
  Up /\ HasChild("aof") =>
    /\ Kept(child.base, Diff, server.data, conf.multi)
    /\ server.aof_state # AOF_OFF =>
         Current(child.base, Diff, server.data, server.aof_selected_db)
    /\ child.stage = "done" => child.pipe = <<>>

\* What the files load to.
LInv == DataInv /\ FileInv /\ ChildInv

\* A step that leaves the log, the differences and the dataset.
LEMMA QuietStep ==
  ASSUME LInv, conf' = conf, server'.run = server.run, server'.aof_state = server.aof_state,
         server'.data = server.data, server'.aof_selected_db = server.aof_selected_db,
         server.aof_state # AOF_ON => server'.aof_buf = server.aof_buf,
         file'.base = file.base,
         Up => file'.log \o server'.aof_buf = file.log \o server.aof_buf,
         ~Up => file'.log = file.log,
         HasChild("aof")' =>
           /\ HasChild("aof") /\ child'.base = child.base /\ Diff' = Diff
           /\ child'.stage = "done" => child'.pipe = <<>>
  PROVE  LInv'
<1>1. (Up' <=> Up) /\ TheLog' = TheLog
  BY DEF Up, TheLog
<1>2. DataInv'
  BY <1>1 DEF LInv, DataInv
<1>3. FileInv'
  BY <1>1 DEF LInv, FileInv
<1>4. ChildInv'
  BY <1>1 DEF LInv, ChildInv
<1> QED BY <1>2, <1>3, <1>4 DEF LInv

\* A step after which the process is gone and the file has kept a first
\* part of the log.
LEMMA CutStep ==
  ASSUME IInv, LInv, conf' = conf, server'.run # "up", server'.data = server.data,
         file'.base = file.base,
         \E k \in 0..Len(TheLog) : file'.log = First(TheLog, k)
  PROVE  LInv'
<1>1. ~Up' /\ TheLog' = file'.log
  BY DEF Up, TheLog
<1>2. PICK k \in 0..Len(TheLog) : file'.log = First(TheLog, k)
  OBVIOUS
<1>3. Kept(file.base, First(TheLog, k), server.data, conf.multi)
  BY LogTypes, KeptFirst DEF LInv, FileInv, DataInv
<1>4. FileInv'
  BY <1>1, <1>2, <1>3 DEF FileInv
<1>5. DataInv' /\ ChildInv'
  BY <1>1 DEF LInv, DataInv, ChildInv
<1> QED BY <1>4, <1>5 DEF LInv

\* A step that forks the rewriting child.
LEMMA ForkedStep ==
  ASSUME LInv, conf' = conf, server'.run = server.run, server'.data = server.data,
         \/ server'.aof_state = server.aof_state
         \/ server.aof_state # AOF_ON /\ server'.aof_state # AOF_ON,
         server'.aof_selected_db = -1, server'.aof_buf = server.aof_buf,
         server'.aof_rewrite_buf = <<>>, file' = file, child' = RewriteChild(server)
  PROVE  LInv'
<1>1. (Up' <=> Up) /\ TheLog' = TheLog
  BY DEF Up, TheLog
<1>2. DataInv'
  BY <1>1 DEF LInv, DataInv
<1>3. FileInv'
  <2>1. Kept(file'.base, TheLog', server'.data, conf'.multi)
    BY <1>1 DEF LInv, FileInv
  <2>2. ASSUME Up', server'.aof_state = AOF_ON
        PROVE  Current(file'.base, TheLog', server'.data, server'.aof_selected_db)
    <3>1. Current(file.base, TheLog, server.data, server.aof_selected_db)
      BY <1>1, <2>2 DEF LInv, FileInv
    <3>2. Current(file.base, TheLog, server.data, -1)
      BY <3>1, CurrentAnew
    <3> QED BY <1>1, <3>2
  <2> QED BY <2>1, <2>2 DEF FileInv
<1>4. ChildInv'
  <2>1. /\ child'.base = server.data /\ child'.diff = <<>> /\ child'.pipe = <<>>
        /\ child'.stage = "dump"
    BY DEF RewriteChild
  <2>2. Diff' = <<>>
    BY <2>1, SMT DEF Diff
  <2>3. /\ Kept(server.data, <<>>, server.data, conf.multi)
        /\ Current(server.data, <<>>, server.data, -1)
    BY KeptFork DEF LInv, DataInv
  <2>4. /\ Kept(child'.base, Diff', server'.data, conf'.multi)
        /\ Current(child'.base, Diff', server'.data, server'.aof_selected_db)
    BY <2>1, <2>2, <2>3
  <2> QED BY <2>1, <2>4 DEF ChildInv
<1> QED BY <1>2, <1>3, <1>4 DEF LInv

-----------------------------------------------------------------------------
(* The actions *)

\* The empty file loads to the empty dataset.
LEMMA LInit == Init => LInv
<1> SUFFICES ASSUME Init PROVE LInv
  BY SMTT(30)
<1>1. /\ server.run = "up" /\ server.data = <<>> /\ server.aof_buf = <<>>
      /\ server.aof_state = AOF_ON /\ server.aof_selected_db = -1
      /\ file.base = <<>> /\ file.log = <<>> /\ ~HasChild("aof")
  BY DEF Init, NewServer, HasChild, NoChild
<1>2. <<>> \in Seq(Write) /\ Whole(<<>>)
  BY SMT DEF Whole, Durable!Whole
<1>3. TheLog = <<>>
  BY <1>1, SMT DEF TheLog, Up
<1>4. Kept(<<>>, <<>>, <<>>, conf.multi) /\ Current(<<>>, <<>>, <<>>, -1)
  BY <1>2, KeptFork
<1>5. FileInv
  BY <1>1, <1>3, <1>4 DEF FileInv
<1>6. DataInv /\ ChildInv
  BY <1>1, <1>2 DEF DataInv, ChildInv
<1> QED BY <1>5, <1>6 DEF LInv

\* Two queued commands executed by EXEC.
Called(st, queue) == Run(Call, st, queue)

\* What feedAppendOnlyFile appends for a command and for a transaction.
Fed(d, selected, n, multi, new, added) ==
  \/ /\ new = SelectIf(d, selected) \o <<Command(n, 0)>>
     /\ added = <<<<d, n, 0>>>>
  \/ /\ multi = TRUE
     /\ new = SelectIf(d, selected) \o <<Multi, Command(n, 1), Command(n, 2), Exec>>
     /\ added = <<<<d, n, 1>>, <<d, n, 2>>>>

\* A command is executed, and fed to the file and to a rewrite.
LEMMA LCommand ==
  ASSUME IInv, LInv
  PROVE  \A d \in conf.dbs :
           command(d) \/ execCommand(d) =>
             /\ LInv' /\ Prefix(server.data, server'.data) /\ server.data # server'.data
             /\ server'.aof_state = server.aof_state
\* Two elements appended.
<1>AppendTwo. ASSUME NEW S, NEW s \in Seq(S), NEW v \in S, NEW w \in S
              PROVE  Append(Append(s, v), w) = s \o <<v, w>>
  <2> USE <1>AppendTwo
  <2> DEFINE p == <<v, w>>
             l == Append(Append(s, v), w)
             r == s \o p
  <2>1. p \in Seq(S) /\ Len(p) = 2 /\ p[1] = v /\ p[2] = w
    BY SMT
  <2>2. /\ l \in Seq(S) /\ Len(l) = Len(s) + 2 /\ l[Len(s) + 1] = v /\ l[Len(s) + 2] = w
        /\ \A i \in 1..Len(s) : l[i] = s[i]
    BY SMT
  <2> HIDE DEF p, l
  <2>3. /\ r \in Seq(S) /\ Len(r) = Len(s) + 2 /\ r[Len(s) + 1] = p[1] /\ r[Len(s) + 2] = p[2]
        /\ \A i \in 1..Len(s) : r[i] = s[i]
    <3>1. /\ r \in Seq(S) /\ Len(r) = Len(s) + Len(p)
          /\ \A i \in 1..(Len(s) + Len(p)) :
               r[i] = IF i <= Len(s) THEN s[i] ELSE p[i - Len(s)]
      BY <2>1, ConcatEntries
    <3> HIDE DEF r
    <3>2. Len(s) \in Nat
      BY SMT
    <3>3. (Len(s) + 1) - Len(s) = 1 /\ (Len(s) + 2) - Len(s) = 2
      BY <3>2, SMT
    <3>4. r[Len(s) + 1] = p[(Len(s) + 1) - Len(s)] /\ r[Len(s) + 2] = p[(Len(s) + 2) - Len(s)]
      <4>1. \A i \in {Len(s) + 1, Len(s) + 2} : i \in 1..(Len(s) + Len(p)) /\ ~(i <= Len(s))
        BY <2>1, <3>2, SMT
      <4> QED BY <3>1, <4>1
    <3>5. \A i \in 1..Len(s) : r[i] = s[i]
      BY <2>1, <3>1, <3>2, SMT
    <3> QED BY <2>1, <3>1, <3>3, <3>4, <3>5
  <2> HIDE DEF r
  <2>4. \A i \in 1..Len(l) : l[i] = r[i]
    <3> SUFFICES ASSUME NEW i \in 1..(Len(s) + 2) PROVE l[i] = r[i]
      BY <2>2
    <3>1. i \in 1..Len(s) \/ i = Len(s) + 1 \/ i = Len(s) + 2
      BY SMT
    <3> QED BY <2>1, <2>2, <2>3, <3>1
  <2>5. l = r
    BY <2>2, <2>3, <2>4, SameEntries
  <2> QED BY <2>5 DEF l, r, p
\* A plain write leaves no transaction in part.
<1>WholeCommand. ASSUME NEW h \in Seq(Write), Whole(h), NEW d \in Nat, NEW n \in Int
                 PROVE  /\ Append(h, <<d, n, 0>>) \in Seq(Write)
                        /\ Whole(Append(h, <<d, n, 0>>)) /\ Prefix(h, Append(h, <<d, n, 0>>))
  <2> USE <1>WholeCommand
  <2> DEFINE w == <<d, n, 0>>
             g == Append(h, w)
  <2>1. w \in Write /\ w[3] = 0
    BY SMT DEF Write
  <2> HIDE DEF w
  <2>2. /\ g \in Seq(Write) /\ Len(g) = Len(h) + 1 /\ g[Len(h) + 1] = w
        /\ \A i \in 1..Len(h) : g[i] = h[i]
    BY <2>1, SMT
  <2> HIDE DEF g
  <2>3. Whole(g)
    <3> SUFFICES ASSUME NEW i \in DOMAIN g, g[i][3] = 1
                 PROVE  i < Len(g) /\ g[i + 1] = <<g[i][1], g[i][2], 2>>
      BY DEF Whole, Durable!Whole
    <3>1. i \in 1..Len(h)
      BY <2>1, <2>2, SMTT(30)
    <3>2. g[i] = h[i] /\ i \in DOMAIN h
      BY <2>2, <3>1, SMT
    <3>3. i < Len(h) /\ h[i + 1] = <<h[i][1], h[i][2], 2>>
      BY <3>2 DEF Whole, Durable!Whole
    <3>4. i + 1 \in 1..Len(h)
      BY <3>1, <3>3, SMT
    <3>5. g[i + 1] = h[i + 1]
      BY <2>2, <3>4
    <3> QED BY <2>2, <3>2, <3>3, <3>4, <3>5, SMTT(30)
  <2>4. Prefix(h, g)
    BY <2>2, SMT DEF Prefix, Durable!IsPrefix
  <2> QED BY <2>2, <2>3, <2>4, SMTT(30) DEF g, w
\* Neither do the two writes of a transaction.
<1>WholeTransaction. ASSUME NEW h \in Seq(Write), Whole(h), NEW d \in Nat, NEW n \in Int
                     PROVE  LET g == Append(Append(h, <<d, n, 1>>), <<d, n, 2>>)
                            IN  g \in Seq(Write) /\ Whole(g) /\ Prefix(h, g)
  <2> USE <1>WholeTransaction
  <2> DEFINE v == <<d, n, 1>>
             w == <<d, n, 2>>
             g == Append(Append(h, v), w)
  <2>1. v \in Write /\ w \in Write /\ w[3] = 2 /\ w = <<v[1], v[2], 2>>
    BY SMT DEF Write
  <2> HIDE DEF v, w
  <2>2. /\ g \in Seq(Write) /\ Len(g) = Len(h) + 2
        /\ g[Len(h) + 1] = v /\ g[Len(h) + 2] = w
        /\ \A i \in 1..Len(h) : g[i] = h[i]
    BY <2>1, SMTT(30)
  <2> HIDE DEF g
  <2>3. Whole(g)
    <3> SUFFICES ASSUME NEW i \in DOMAIN g, g[i][3] = 1
                 PROVE  i < Len(g) /\ g[i + 1] = <<g[i][1], g[i][2], 2>>
      BY SMTT(30) DEF Whole, Durable!Whole
    <3>0. i \in 1..Len(h) \/ i = Len(h) + 1
      BY <2>1, <2>2, SMT
    <3>1. CASE i \in 1..Len(h)
      <4>2. g[i] = h[i] /\ i \in DOMAIN h
        BY <2>2, <3>1, SMTT(30)
      <4>3. i < Len(h) /\ h[i + 1] = <<h[i][1], h[i][2], 2>>
        BY <4>2, SMTT(30) DEF Whole, Durable!Whole
      <4>4. i + 1 \in 1..Len(h)
        BY <3>1, <4>3, SMT
      <4>5. g[i + 1] = h[i + 1]
        BY <2>2, <4>4
      <4> QED BY <2>2, <4>2, <4>3, <4>4, <4>5, SMTT(30)
    <3>2. CASE i = Len(h) + 1
      <4>1. i + 1 = Len(h) + 2 /\ i < Len(g)
        BY <2>2, <3>2, SMT
      <4> QED BY <2>1, <2>2, <3>2, <4>1
    <3> QED BY <3>0, <3>1, <3>2
  <2>4. Prefix(h, g)
    BY <2>2, SMT DEF Prefix, Durable!IsPrefix
  <2> QED BY <2>2, <2>3, <2>4 DEF g, v, w
\* Outside of a transaction.
<1>ReplaySelect. ASSUME NEW st, DOMAIN st = StateFields, st.multi = FALSE, NEW d
                 PROVE  /\ DOMAIN Replay(st, Select(d)) = StateFields
                        /\ Replay(st, Select(d)).data = st.data /\ Replay(st, Select(d)).db = d
                        /\ Replay(st, Select(d)).multi = FALSE /\ Replay(st, Select(d)).queue = st.queue
  <2> USE <1>ReplaySelect
  <2>1. Select(d) # Multi /\ Select(d)[1] = "select" /\ Select(d)[2] = d
    BY DEF Select, Multi
  <2>2. Replay(st, Select(d)) = Call(st, Select(d))
    BY <2>1 DEF Replay
  <2>3. Call(st, Select(d)) = [st EXCEPT !.db = d]
    BY <2>1 DEF Call
  <2> QED BY <2>2, <2>3 DEF StateFields
\* A command outside of a transaction is executed in the selected db.
<1>ReplayCommand. ASSUME NEW st, DOMAIN st = StateFields, st.multi = FALSE, NEW n, NEW part
                  PROVE  /\ DOMAIN Replay(st, Command(n, part)) = StateFields
                         /\ Replay(st, Command(n, part)).data = Append(st.data, <<st.db, n, part>>)
                         /\ Replay(st, Command(n, part)).db = st.db
                         /\ Replay(st, Command(n, part)).multi = FALSE
                         /\ Replay(st, Command(n, part)).queue = st.queue
  <2> USE <1>ReplayCommand
  <2> DEFINE e == Command(n, part)
  <2>1. e # Multi /\ e[1] = "command" /\ e[2] = n /\ e[3] = part
    BY DEF Command, Multi
  <2> HIDE DEF e
  <2>2. Replay(st, e) = Call(st, e)
    BY <2>1 DEF Replay
  <2>3. Call(st, e) = [st EXCEPT !.data = Append(@, <<st.db, n, part>>)]
    BY <2>1 DEF Call
  <2> QED BY <2>2, <2>3 DEF StateFields, e
\* EXEC executes what was queued in order.
<1>RunOfTwo. ASSUME NEW st, NEW a, NEW b
             PROVE  Called(st, <<a, b>>) = Call(Call(st, a), b)
  <2> USE <1>RunOfTwo
  <2> HIDE DEF Call
  <2> DEFINE q == <<a, b>>
             Is(g) == g = [i \in 0..Len(q) |-> IF i = 0 THEN st ELSE Call(g[i - 1], q[i])]
             f == [i \in 0..2 |-> IF i = 0 THEN st
                                  ELSE IF i = 1 THEN Call(st, a) ELSE Call(Call(st, a), b)]
             c == CHOOSE g : Is(g)
  <2>1. Len(q) = 2 /\ q[1] = a /\ q[2] = b
    OBVIOUS
  <2>2. ASSUME NEW g, Is(g)
        PROVE  g[2] = Call(Call(st, a), b)
    <3>1. g[0] = st
      BY <2>1, <2>2, SMT
    <3>2. g[1] = Call(g[0], q[1])
      BY <2>1, <2>2, SMT
    <3>3. g[2] = Call(g[1], q[2])
      BY <2>1, <2>2, SMT
    <3> QED BY <2>1, <3>1, <3>2, <3>3
  <2>3. Is(f)
    <3>1. \A i \in 0..2 : f[i] = IF i = 0 THEN st ELSE Call(f[i - 1], q[i])
      <4>1. f[0] = st /\ f[1] = Call(st, a) /\ f[2] = Call(Call(st, a), b)
        BY SMT
      <4> HIDE DEF f
      <4>2. ASSUME NEW i \in 0..2 PROVE i = 0 \/ i = 1 \/ i = 2
        BY SMT
      <4> QED BY <2>1, <4>1, <4>2, SMT
    <3>2. f = [i \in 0..2 |-> f[i]]
      OBVIOUS
    <3> HIDE DEF f, q
    <3> QED BY <2>1, <3>1, <3>2
  <2>4. Is(c)
    <3> HIDE DEF Is
    <3> QED BY <2>3
  <2>5. Called(st, q) = c[Len(q)]
    BY DEF Called, Run
  <2> QED
    <3> HIDE DEF Is, c, q
    <3>1. c[2] = Call(Call(st, a), b)
      BY <2>2, <2>4
    <3> QED BY <2>1, <2>5, <3>1 DEF q
\* The EXEC of a transaction of two commands.
<1>ReplayExec. ASSUME NEW st, DOMAIN st = StateFields, st.multi = TRUE, NEW n,
                      st.queue = <<Command(n, 1), Command(n, 2)>>
               PROVE  LET new == Replay(st, Exec)
                      IN  /\ DOMAIN new = StateFields
                          /\ new.data = Append(Append(st.data, <<st.db, n, 1>>), <<st.db, n, 2>>)
                          /\ new.db = st.db /\ new.multi = FALSE /\ new.queue = <<>>
  <2> USE <1>ReplayExec
  <2> DEFINE a == Command(n, 1)
             b == Command(n, 2)
             s0 == [st EXCEPT !.multi = FALSE]
             s1 == Call(s0, a)
             s2 == Call(s1, b)
  <2>1. /\ a[1] = "command" /\ a[2] = n /\ a[3] = 1
        /\ b[1] = "command" /\ b[2] = n /\ b[3] = 2
    BY DEF Command
  <2>2. Replay(st, Exec) = [Called(s0, <<a, b>>) EXCEPT !.queue = <<>>]
    BY DEF Replay, Called
  <2> HIDE DEF a, b
  <2>3. Called(s0, <<a, b>>) = s2
    BY <1>RunOfTwo, SMT
  <2>4. /\ DOMAIN s0 = StateFields /\ s0.data = st.data /\ s0.db = st.db /\ s0.multi = FALSE
    BY DEF StateFields
  <2> HIDE DEF s0
  <2>5. s1 = [s0 EXCEPT !.data = Append(@, <<s0.db, n, 1>>)]
    BY <2>1 DEF Call
  <2>6. /\ DOMAIN s1 = StateFields /\ s1.data = Append(st.data, <<st.db, n, 1>>)
        /\ s1.db = st.db /\ s1.multi = FALSE
    BY <2>4, <2>5 DEF StateFields
  <2> HIDE DEF s1
  <2>7. s2 = [s1 EXCEPT !.data = Append(@, <<s1.db, n, 2>>)]
    BY <2>1 DEF Call
  <2>8. /\ DOMAIN s2 = StateFields
        /\ s2.data = Append(Append(st.data, <<st.db, n, 1>>), <<st.db, n, 2>>)
        /\ s2.db = st.db /\ s2.multi = FALSE
    BY <2>6, <2>7, SMTT(30) DEF StateFields
  <2> HIDE DEF s2
  <2>9. Replay(st, Exec) = [s2 EXCEPT !.queue = <<>>]
    BY <2>2, <2>3
  <2> HIDE DEF Replay
  <2> QED BY <2>8, <2>9 DEF StateFields
\* A regular log and one entry more.
<1>RegularAppend. ASSUME NEW base, NEW log \in Seq(Entry), NEW multi, NEW e \in Entry,
                         Regular(base, log, multi),
                         Fine(Replay(Loaded(base, log), e), multi),
                         e = Multi => log # <<>> /\ ~Loaded(base, log).multi,
                         e = Exec => ~Replay(Loaded(base, log), e).multi,
                         Prefix(Loaded(base, log).data, Replay(Loaded(base, log), e).data)
                  PROVE  Regular(base, Append(log, e), multi)
  <2> USE <1>RegularAppend
  <2> DEFINE t == Append(log, e)
             k == Len(log)
  <2>1. /\ t \in Seq(Entry) /\ Len(t) = k + 1 /\ t[k + 1] = e /\ k \in Nat
        /\ \A i \in 1..k : t[i] = log[i]
    BY SMT
  <2>2. \A n \in 0..k : First(t, n) = First(log, n)
    <3>1. t = log \o <<e>> /\ <<e>> \in Seq(Entry)
      BY SMT
    <3> HIDE DEF t
    <3> QED BY <3>1, FirstOfConcat
  <2>3. First(t, k + 1) = t /\ First(log, k) = log
    BY <2>1, FirstAll
  <2>4. Loaded(base, t) = Replay(Loaded(base, log), e)
    BY LoadedAppend
  <2> HIDE DEF t, k
  <2> HIDE DEF Replay
  <2>5. ASSUME NEW n \in 0..(k + 1) PROVE Fine(Loaded(base, First(t, n)), multi)
    <3>1. CASE n = k + 1
      BY <2>3, <2>4, <3>1
    <3>2. CASE n # k + 1
      <4>1. n \in 0..k
        BY <2>1, <3>2, SMT
      <4>2. Fine(Loaded(base, First(log, n)), multi)
        BY <4>1 DEF Regular, k
      <4> QED BY <2>2, <4>1, <4>2
    <3> QED BY <3>1, <3>2
  <2>6. ASSUME NEW n \in 1..(k + 1)
        PROVE  /\ t[n] = Multi => n > 1 /\ ~Loaded(base, First(t, n - 1)).multi
               /\ t[n] = Exec => ~Loaded(base, First(t, n)).multi
               /\ Prefix(Loaded(base, First(t, n - 1)).data, Loaded(base, First(t, n)).data)
    <3>1. CASE n = k + 1
      <4>1. n - 1 = k /\ k \in 0..k /\ t[n] = e /\ (log # <<>> => n > 1)
        BY <2>1, <3>1, SMT DEF k
      <4>2. First(t, n) = t /\ First(t, n - 1) = log
        BY <2>2, <2>3, <3>1, <4>1
      <4> QED BY <2>4, <4>1, <4>2
    <3>2. CASE n # k + 1
      <4>1. n \in 1..k /\ n \in 0..k /\ n - 1 \in 0..k
        BY <2>1, <3>2, SMT
      <4>2. /\ log[n] = Multi => n > 1 /\ ~Loaded(base, First(log, n - 1)).multi
            /\ log[n] = Exec => ~Loaded(base, First(log, n)).multi
            /\ Prefix(Loaded(base, First(log, n - 1)).data, Loaded(base, First(log, n)).data)
        BY <4>1 DEF Regular, k
      <4>3. First(t, n) = First(log, n) /\ First(t, n - 1) = First(log, n - 1) /\ t[n] = log[n]
        BY <2>1, <2>2, <4>1
      <4> QED BY <4>2, <4>3
    <3> QED BY <3>1, <3>2
  <2>7. Regular(base, t, multi)
    BY <2>1, <2>5, <2>6 DEF Regular
  <2> QED BY <2>7 DEF t
\* SELECT is fed where the database is not the one selected, and then the
\* log is not empty.
<1>FeedSelect. ASSUME NEW base, NEW log \in Seq(Entry), NEW multi \in BOOLEAN, Regular(base, log, multi),
                      NEW data, NEW selected, Current(base, log, data, selected), NEW d \in Nat
               PROVE  LET new == log \o SelectIf(d, selected)
                      IN  /\ new \in Seq(Entry) /\ new # <<>>
                          /\ Regular(base, new, multi) /\ Current(base, new, data, d)
  <2> USE <1>FeedSelect
  <2> DEFINE st == Loaded(base, log)
             e == Select(d)
  <2>1. Fine(st, multi)
    BY RegularAll
  <2>2. st.data = data /\ st.multi = FALSE /\ st.queue = <<>> /\ DOMAIN st = StateFields
    BY <2>1 DEF Current, Fine
  <2>3. CASE d # selected
    <3>1. e \in Entry /\ e # Multi /\ e # Exec
      BY SMT DEF Entry, Select, Multi, Exec
    <3>2. log \o SelectIf(d, selected) = Append(log, e)
      BY <2>3, <3>1, SMT DEF SelectIf
    <3>3. /\ DOMAIN Replay(st, e) = StateFields
          /\ Replay(st, e).data = data /\ Replay(st, e).db = d
          /\ Replay(st, e).multi = FALSE /\ Replay(st, e).queue = <<>>
      BY <2>2, <1>ReplaySelect
    <3>4. Loaded(base, Append(log, e)) = Replay(st, e)
      BY <3>1, LoadedAppend
    <3>5. Fine(Replay(st, e), multi) /\ Prefix(st.data, Replay(st, e).data)
      <4> HIDE DEF st, e
      <4> HIDE DEF Replay
      <4> QED BY <2>1, <2>2, <3>3, PrefixItself DEF Fine
    <3>6. Regular(base, Append(log, e), multi)
      <4> HIDE DEF e
      <4> HIDE DEF Replay
      <4> QED BY <3>1, <3>5, <1>RegularAppend
    <3>7. Append(log, e) \in Seq(Entry) /\ Append(log, e) # <<>>
      BY <3>1, SMT
    <3> HIDE DEF e
    <3> HIDE DEF Replay
    <3> QED BY <3>2, <3>3, <3>4, <3>6, <3>7 DEF Current
  <2>4. CASE d = selected
    <3>1. log \o SelectIf(d, selected) = log
      BY <2>4, SMT DEF SelectIf
    <3>2. d # -1
      BY SMT
    <3> QED BY <2>4, <3>1, <3>2 DEF Current
  <2> QED BY <2>3, <2>4
\* A command is fed.
<1>FeedCommand. ASSUME NEW base, NEW log \in Seq(Entry), NEW multi \in BOOLEAN, Regular(base, log, multi),
                       NEW data, NEW d \in Nat, NEW n \in Int, log # <<>>, Current(base, log, data, d)
                PROVE  LET new == log \o <<Command(n, 0)>>
                       IN  /\ new \in Seq(Entry) /\ new # <<>> /\ Regular(base, new, multi)
                           /\ Current(base, new, data \o <<<<d, n, 0>>>>, d)
  <2> USE <1>FeedCommand
  <2> DEFINE st == Loaded(base, log)
             e == Command(n, 0)
  <2>1. Fine(st, multi) /\ d # -1
    BY RegularAll, SMT
  <2>2. /\ st.data = data /\ st.multi = FALSE /\ st.queue = <<>> /\ DOMAIN st = StateFields
        /\ st.db = d /\ data \in Seq(Write) /\ Whole(data)
    BY <2>1 DEF Current, Fine
  <2>3. e \in Entry /\ e # Multi /\ e # Exec
    BY SMT DEF Entry, Command, Multi, Exec
  <2>4. /\ DOMAIN Replay(st, e) = StateFields
        /\ Replay(st, e).data = Append(data, <<d, n, 0>>) /\ Replay(st, e).db = d
        /\ Replay(st, e).multi = FALSE /\ Replay(st, e).queue = <<>>
    <3> HIDE DEF st
    <3> HIDE DEF Replay
    <3>1. /\ DOMAIN Replay(st, Command(n, 0)) = StateFields
          /\ Replay(st, Command(n, 0)).data = Append(st.data, <<st.db, n, 0>>)
          /\ Replay(st, Command(n, 0)).db = st.db
          /\ Replay(st, Command(n, 0)).multi = FALSE
          /\ Replay(st, Command(n, 0)).queue = st.queue
      BY <2>2, <1>ReplayCommand
    <3> QED BY <2>2, <3>1
  <2>5. Loaded(base, Append(log, e)) = Replay(st, e)
    BY <2>3, LoadedAppend
  <2>6. /\ Append(data, <<d, n, 0>>) \in Seq(Write)
        /\ Whole(Append(data, <<d, n, 0>>)) /\ Prefix(data, Append(data, <<d, n, 0>>))
    BY <2>2, <1>WholeCommand
  <2>7. Fine(Replay(st, e), multi) /\ Prefix(st.data, Replay(st, e).data)
    <3> HIDE DEF st, e
    <3> HIDE DEF Replay
    <3> QED BY <2>2, <2>4, <2>6 DEF Fine
  <2>8. Regular(base, Append(log, e), multi)
    <3> HIDE DEF e
    <3> HIDE DEF Replay
    <3> QED BY <2>3, <2>7, <1>RegularAppend
  <2>9. /\ Append(log, e) \in Seq(Entry) /\ Append(log, e) # <<>>
        /\ log \o <<e>> = Append(log, e)
    BY <2>3, SMT
  <2>10. data \o <<<<d, n, 0>>>> = Append(data, <<d, n, 0>>)
    BY <2>2, SMT
  <2> HIDE DEF e
  <2> HIDE DEF Replay
  <2>11. Current(base, Append(log, e), Append(data, <<d, n, 0>>), d)
    BY <2>4, <2>5, <2>9 DEF Current
  <2> QED BY <2>8, <2>9, <2>10, <2>11 DEF e
\* A transaction is fed.
<1>FeedTransaction. ASSUME NEW base, NEW log \in Seq(Entry), Regular(base, log, TRUE),
                           NEW data, NEW d \in Nat, NEW n \in Int, log # <<>>, Current(base, log, data, d)
                    PROVE  LET new == log \o <<Multi, Command(n, 1), Command(n, 2), Exec>>
                           IN  /\ new \in Seq(Entry) /\ new # <<>> /\ Regular(base, new, TRUE)
                               /\ Current(base, new, data \o <<<<d, n, 1>>, <<d, n, 2>>>>, d)
  <2> USE <1>FeedTransaction
  <2> DEFINE st == Loaded(base, log)
             a == Command(n, 1)
             b == Command(n, 2)
             log1 == Append(log, Multi)
             log2 == Append(log1, a)
             log3 == Append(log2, b)
             log4 == Append(log3, Exec)
             all == Append(Append(data, <<d, n, 1>>), <<d, n, 2>>)
  <2>1. Fine(st, TRUE) /\ d # -1
    <3>1. d # -1
      BY SMT
    <3> QED BY <3>1, RegularAll
  <2>2. /\ st.data = data /\ st.multi = FALSE /\ st.queue = <<>> /\ DOMAIN st = StateFields
        /\ st.db = d /\ data \in Seq(Write) /\ Whole(data)
    BY <2>1 DEF Current, Fine
  <2>3. /\ a \in Entry /\ a # Multi /\ a # Exec /\ b \in Entry /\ b # Multi /\ b # Exec
        /\ Multi \in Entry /\ Exec \in Entry /\ Multi # Exec
    BY SMT DEF Entry, Command, Multi, Exec
  <2>4. /\ log1 \in Seq(Entry) /\ log2 \in Seq(Entry) /\ log3 \in Seq(Entry)
        /\ log4 \in Seq(Entry) /\ log4 # <<>>
        /\ log \o <<Multi, a, b, Exec>> = log4
    <3> HIDE DEF a, b
    <3> QED BY <2>3, SMT
  <2>5. Prefix(data, data)
    BY <2>2, PrefixItself
  <2>6. all \in Seq(Write) /\ Whole(all) /\ Prefix(data, all)
    BY <2>2, <1>WholeTransaction
  <2>7. all = data \o <<<<d, n, 1>>, <<d, n, 2>>>>
    <3> DEFINE v == <<d, n, 1>>
               w == <<d, n, 2>>
    <3>1. v \in Write /\ w \in Write
      BY SMT DEF Write
    <3> HIDE DEF v, w
    <3>2. Append(Append(data, v), w) = data \o <<v, w>>
      BY <2>2, <3>1, <1>AppendTwo
    <3> QED BY <3>2 DEF v, w
  <2> HIDE DEF all
  <2> HIDE DEF Replay
  <2> DEFINE st1 == Loaded(base, log1)
             st2 == Loaded(base, log2)
             st3 == Loaded(base, log3)
             st4 == Loaded(base, log4)
  <2>10. /\ st1 = Replay(st, Multi) /\ st2 = Replay(st1, a)
         /\ st3 = Replay(st2, b) /\ st4 = Replay(st3, Exec)
    <3> HIDE DEF a, b, log1, log2, log3, log4
    <3>1. st1 = Replay(st, Multi)
      BY <2>3, LoadedAppend DEF log1
    <3>2. st2 = Replay(st1, a)
      BY <2>3, <2>4, LoadedAppend DEF log2
    <3>3. st3 = Replay(st2, b)
      BY <2>3, <2>4, LoadedAppend DEF log3
    <3>4. st4 = Replay(st3, Exec)
      BY <2>3, <2>4, LoadedAppend DEF log4
    <3> QED BY <3>1, <3>2, <3>3, <3>4
  <2> HIDE DEF st, st1, st2, st3, st4
  <2>11. /\ DOMAIN st1 = StateFields /\ st1.data = data /\ st1.db = d
         /\ st1.multi = TRUE /\ st1.queue = <<>>
    BY <2>2, <2>10, ReplayMulti
  <2>12. /\ DOMAIN st2 = StateFields /\ st2.data = data /\ st2.db = d
         /\ st2.multi = TRUE /\ st2.queue = <<a>>
    <3>1. Append(<<>>, a) = <<a>>
      BY SMT
    <3> HIDE DEF a
    <3> QED BY <2>3, <2>10, <2>11, <3>1, ReplayQueued
  <2>13. /\ DOMAIN st3 = StateFields /\ st3.data = data /\ st3.db = d
         /\ st3.multi = TRUE /\ st3.queue = <<a, b>>
    <3> HIDE DEF a, b
    <3>1. Append(<<a>>, b) = <<a, b>>
      <4>1. <<>> \in Seq(Entry) /\ <<a, b>> \in Seq(Entry)
        BY <2>3, SMT
      <4>2. Append(Append(<<>>, a), b) = <<>> \o <<a, b>>
        BY <2>3, <4>1, <1>AppendTwo
      <4>3. <<>> \o <<a, b>> = <<a, b>>
        BY <4>1, SMT
      <4>4. Append(<<>>, a) = <<a>>
        BY SMT
      <4> QED BY <4>2, <4>3, <4>4
    <3> QED BY <2>3, <2>10, <2>12, <3>1, ReplayQueued
  <2>14. /\ DOMAIN st4 = StateFields /\ st4.data = all /\ st4.db = d
         /\ st4.multi = FALSE /\ st4.queue = <<>>
    BY <2>10, <2>13, <1>ReplayExec DEF all
  <2> HIDE DEF a, b
  <2>15. Regular(base, log1, TRUE)
    <3>1. Fine(st1, TRUE) /\ Prefix(st.data, st1.data)
      BY <2>2, <2>5, <2>11 DEF Fine
    <3> QED BY <2>2, <2>3, <2>10, <3>1, <1>RegularAppend DEF st
  <2>16. Regular(base, log2, TRUE)
    <3>1. Fine(st2, TRUE) /\ Prefix(st1.data, st2.data)
      BY <2>2, <2>5, <2>11, <2>12 DEF Fine
    <3> HIDE DEF log1
    <3> QED BY <2>3, <2>4, <2>10, <2>15, <3>1, <1>RegularAppend DEF st1
  <2>17. Regular(base, log3, TRUE)
    <3>1. Fine(st3, TRUE) /\ Prefix(st2.data, st3.data)
      BY <2>2, <2>5, <2>12, <2>13 DEF Fine
    <3> HIDE DEF log2
    <3> QED BY <2>3, <2>4, <2>10, <2>16, <3>1, <1>RegularAppend DEF st2
  <2>18. Regular(base, log4, TRUE)
    <3>1. Fine(st4, TRUE) /\ Prefix(st3.data, st4.data) /\ ~st4.multi
      BY <2>2, <2>6, <2>13, <2>14 DEF Fine
    <3> HIDE DEF log3
    <3> QED BY <2>3, <2>4, <2>10, <2>17, <3>1, <1>RegularAppend DEF st3
  <2>19. Current(base, log4, all, d)
    BY <2>4, <2>14 DEF Current, st4
  <2> HIDE DEF log4
  <2> QED BY <2>4, <2>7, <2>18, <2>19 DEF a, b
\* The dataset may grow.
<1>KeptGrows. ASSUME NEW base, NEW log \in Seq(Entry), NEW data \in Seq(Write), NEW more \in Seq(Write),
                     NEW multi, Kept(base, log, data, multi), Prefix(data, more)
              PROVE  Kept(base, log, more, multi)
  <2> USE <1>KeptGrows
  <2>1. Loaded(base, log).data \in Seq(Write)
    BY RegularAll DEF Kept, Fine
  <2> QED BY <2>1, PrefixTrans DEF Kept
\* A write extends a log that is current to one that is.
<1>CurrentFed. ASSUME NEW base, NEW log \in Seq(Entry), NEW data \in Seq(Write), NEW multi \in BOOLEAN,
                      Regular(base, log, multi), NEW selected, Current(base, log, data, selected),
                      NEW d \in Nat, NEW n \in Int, NEW new, NEW added,
                      Fed(d, selected, n, multi, new, added)
               PROVE  /\ log \o new \in Seq(Entry) /\ Regular(base, log \o new, multi)
                      /\ Current(base, log \o new, data \o added, d)
  <2> USE <1>CurrentFed
  <2> DEFINE sel == SelectIf(d, selected)
             mid == log \o sel
  <2>1. /\ mid \in Seq(Entry) /\ mid # <<>>
        /\ Regular(base, mid, multi) /\ Current(base, mid, data, d)
    BY <1>FeedSelect
  <2>2. sel \in Seq(Entry)
    <3>1. Select(d) \in Entry
      BY SMT DEF Entry
    <3> QED BY <3>1, SMT DEF SelectIf
  <2>3. CASE new = sel \o <<Command(n, 0)>> /\ added = <<<<d, n, 0>>>>
    <3> DEFINE u == <<Command(n, 0)>>
    <3>1. u \in Seq(Entry)
      BY SMT DEF Entry
    <3> HIDE DEF sel, u, mid
    <3>2. /\ mid \o u \in Seq(Entry) /\ Regular(base, mid \o u, multi)
          /\ Current(base, mid \o u, data \o added, d)
      BY <2>1, <2>3, <1>FeedCommand DEF u
    <3>3. mid \o u = log \o new
      BY <2>2, <2>3, <3>1, ConcatAssoc DEF mid, u
    <3> QED BY <3>2, <3>3
  <2>4. CASE /\ multi = TRUE /\ new = sel \o <<Multi, Command(n, 1), Command(n, 2), Exec>>
             /\ added = <<<<d, n, 1>>, <<d, n, 2>>>>
    <3> DEFINE u == <<Multi, Command(n, 1), Command(n, 2), Exec>>
    <3>1. u \in Seq(Entry)
      BY SMT DEF Entry
    <3> HIDE DEF sel, u, mid
    <3>2. Regular(base, mid, TRUE)
      BY <2>1, <2>4
    <3>3. /\ mid \o u \in Seq(Entry) /\ Regular(base, mid \o u, TRUE)
          /\ Current(base, mid \o u, data \o added, d)
      BY <2>1, <2>4, <3>2, <1>FeedTransaction DEF u
    <3>4. mid \o u = log \o new
      BY <2>2, <2>4, <3>1, ConcatAssoc DEF mid, u
    <3>5. Regular(base, mid \o u, multi)
      BY <2>4, <3>3
    <3> QED BY <3>3, <3>4, <3>5
  <2> QED BY <2>3, <2>4 DEF Fed
\* The dataset after a write.
<1>DataFed. ASSUME NEW data \in Seq(Write), Whole(data), NEW multi, NEW selected, NEW d \in Nat,
                   NEW n \in Int, NEW new, NEW added, Fed(d, selected, n, multi, new, added)
            PROVE  /\ data \o added \in Seq(Write) /\ Whole(data \o added)
                   /\ Prefix(data, data \o added) /\ data # data \o added
  <2> USE <1>DataFed
  <2> DEFINE w(part) == <<d, n, part>>
  <2>1. w(0) \in Write /\ w(1) \in Write /\ w(2) \in Write
    BY SMT DEF Write
  <2> HIDE DEF w
  <2>2. CASE added = <<w(0)>>
    <3>1. data \o added = Append(data, w(0))
      BY <2>1, <2>2, SMT
    <3>2. data # Append(data, w(0))
      <4>1. Len(Append(data, w(0))) = Len(data) + 1 /\ Len(data) \in Nat
        BY <2>1, SMT
      <4> QED BY <4>1, SMT
    <3> QED BY <3>1, <3>2, <1>WholeCommand DEF w
  <2>3. CASE added = <<w(1), w(2)>>
    <3>1. data \o added = Append(Append(data, w(1)), w(2))
      BY <2>1, <2>3, <1>AppendTwo
    <3>2. data # Append(Append(data, w(1)), w(2))
      <4>1. Len(Append(Append(data, w(1)), w(2))) = Len(data) + 2 /\ Len(data) \in Nat
        BY <2>1, SMT
      <4> QED BY <4>1, SMT
    <3> QED BY <3>1, <3>2, <1>WholeTransaction DEF w
  <2> QED BY <2>2, <2>3 DEF Fed, w
\* A write reaches the log and the differences.
<1>LFed. ASSUME IInv, LInv, NEW d \in conf.dbs, NEW n \in Int, NEW writes, NEW cmds \in Seq(Entry),
                Executed(d, writes, cmds),
                Fed(d, server.aof_selected_db, n, conf.multi,
                    SelectIf(d, server.aof_selected_db) \o cmds, writes)
         PROVE  /\ LInv' /\ server'.data = server.data \o writes
                /\ server'.aof_state = server.aof_state
  <2> USE <1>LFed
  <2> DEFINE s == [server EXCEPT !.data = @ \o writes, !.pending = TRUE]
             selected == server.aof_selected_db
             new == SelectIf(d, selected) \o cmds
             more == server.data \o writes
  <2>1. d \in Nat /\ conf.multi \in BOOLEAN
    BY SetupsAssumption DEF IInv, BudgetOK
  <2>2. new \in Seq(Entry)
    <3>1. Select(d) \in Entry
      BY <2>1, SMT DEF Entry
    <3> QED BY <3>1, SMT DEF SelectIf
  <2>3. /\ s.aof_buf = server.aof_buf /\ s.aof_state = server.aof_state /\ s.run = server.run
        /\ s.aof_rewrite_buf = server.aof_rewrite_buf /\ s.aof_selected_db = selected
        /\ s.data = more /\ DOMAIN s = ServerFields
    BY DEF IInv, ServerOK, ServerFields
  <2>4. /\ server' = feedAppendOnlyFile(s, d, cmds) /\ UNCHANGED <<file, child, conf>> /\ Up
    BY DEF Executed
  <2>5. Fed(d, selected, n, conf.multi, new, writes)
    OBVIOUS
  <2>6. server.data \in Seq(Write) /\ Whole(server.data)
    BY DEF LInv, DataInv
  <2> HIDE DEF s, new, selected, more
  <2>7. more \in Seq(Write) /\ Whole(more) /\ Prefix(server.data, more)
    BY <2>1, <2>5, <2>6, <1>DataFed DEF more
  <2>8. CASE s.aof_state = AOF_OFF
    <3>1. server' = s
      BY <2>4, <2>8 DEF feedAppendOnlyFile
    <3>2. (Up' <=> Up) /\ TheLog' = TheLog
      BY <2>3, <2>4, <3>1 DEF Up, TheLog
    <3>3. Diff' = Diff /\ (HasChild("aof")' <=> HasChild("aof"))
      BY <2>3, <2>4, <3>1 DEF Diff, HasChild
    <3>4. DataInv'
      BY <2>3, <2>7, <3>1, <3>2 DEF LInv, DataInv
    <3>5. FileInv'
      <4>1. Kept(file.base, TheLog, more, conf.multi)
        BY <2>6, <2>7, LogTypes, <1>KeptGrows DEF LInv, FileInv
      <4>2. server'.data = more /\ file' = file /\ conf' = conf /\ server'.aof_state # AOF_ON
        BY <2>3, <2>4, <2>8, <3>1 DEF AOF_OFF, AOF_ON
      <4> QED BY <3>2, <4>1, <4>2 DEF FileInv
    <3>6. ChildInv'
      <4> SUFFICES ASSUME HasChild("aof") PROVE ChildInv'
        BY <3>3 DEF ChildInv
      <4>1. Kept(child.base, Diff, more, conf.multi)
        BY <2>4, <2>6, <2>7, LogTypes, <1>KeptGrows DEF LInv, ChildInv
      <4>2. server'.data = more /\ child' = child /\ conf' = conf /\ server'.aof_state = AOF_OFF
        BY <2>3, <2>4, <2>8, <3>1
      <4>3. child.stage = "done" => child.pipe = <<>>
        BY <2>4 DEF LInv, ChildInv
      <4> QED BY <3>3, <4>1, <4>2, <4>3 DEF ChildInv
    <3> QED BY <2>3, <3>1, <3>4, <3>5, <3>6 DEF LInv, more
  <2>9. CASE s.aof_state # AOF_OFF
    <3>1. server' = [s EXCEPT
             !.aof_selected_db = d,
             !.aof_buf = IF s.aof_state = AOF_ON THEN @ \o new ELSE @,
             !.aof_rewrite_buf = IF HasChild("aof") THEN @ \o new ELSE @]
      BY <2>3, <2>4, <2>9 DEF feedAppendOnlyFile, new, SelectIf
    <3>2. /\ server'.run = server.run /\ server'.aof_state = server.aof_state
          /\ server'.data = more /\ server'.aof_selected_db = d
          /\ server'.aof_buf = IF server.aof_state = AOF_ON THEN server.aof_buf \o new
                               ELSE server.aof_buf
          /\ server'.aof_rewrite_buf = IF HasChild("aof") THEN server.aof_rewrite_buf \o new
                                       ELSE server.aof_rewrite_buf
      BY <3>1, <2>3 DEF ServerFields
    <3>3. Up' /\ (HasChild("aof")' <=> HasChild("aof"))
      BY <2>4, <3>2 DEF Up, HasChild
    <3>4. DataInv'
      BY <2>4, <2>7, <3>2, <3>3 DEF LInv, DataInv
    <3>5. FileInv'
      <4>1. CASE server.aof_state = AOF_ON
        <5>1. TheLog' = TheLog \o new
          <6>1. file.log \in Seq(Entry) /\ server.aof_buf \in Seq(Entry)
            BY LogTypes
          <6>2. (file.log \o server.aof_buf) \o new = file.log \o (server.aof_buf \o new)
            BY <2>2, <6>1, ConcatAssoc
          <6>3. file'.log = file.log /\ server'.aof_buf = server.aof_buf \o new
            BY <2>4, <3>2, <4>1
          <6> QED BY <2>4, <3>3, <6>2, <6>3 DEF TheLog
        <5>2. /\ Regular(file.base, TheLog, conf.multi)
              /\ Current(file.base, TheLog, server.data, selected)
          BY <2>4, <4>1 DEF LInv, FileInv, Kept, selected
        <5>3. /\ Regular(file.base, TheLog \o new, conf.multi)
              /\ Current(file.base, TheLog \o new, more, d)
          BY <2>1, <2>5, <2>6, <5>2, LogTypes, <1>CurrentFed DEF more
        <5>4. Kept(file.base, TheLog \o new, more, conf.multi)
          BY <2>7, <5>3, CurrentKept
        <5> QED BY <2>4, <3>2, <5>1, <5>3, <5>4 DEF FileInv
      <4>2. CASE server.aof_state # AOF_ON
        <5>1. TheLog' = TheLog
          BY <2>4, <3>2, <3>3, <4>2 DEF TheLog
        <5>2. Kept(file.base, TheLog, more, conf.multi)
          BY <2>6, <2>7, LogTypes, <1>KeptGrows, SMTT(30) DEF LInv, FileInv
        <5> QED BY <2>4, <3>2, <4>2, <5>1, <5>2 DEF FileInv
      <4> QED BY <4>1, <4>2
    <3>6. ChildInv'
      <4> SUFFICES ASSUME HasChild("aof") PROVE ChildInv'
        BY <3>3 DEF ChildInv
      <4>1. Diff' = Diff \o new
        <5>1. child.diff \o child.pipe \in Seq(Entry) /\ server.aof_rewrite_buf \in Seq(Entry)
          BY SMT DEF IInv, ChildOK, ServerOK
        <5>2. Diff' = (child.diff \o child.pipe) \o (server.aof_rewrite_buf \o new)
          BY <2>4, <3>2 DEF Diff
        <5> DEFINE sent == child.diff \o child.pipe
                   rest == server.aof_rewrite_buf
        <5> HIDE DEF sent, rest
        <5>3. sent \in Seq(Entry) /\ rest \in Seq(Entry)
          BY <5>1 DEF sent, rest
        <5>4. (sent \o rest) \o new = sent \o (rest \o new)
          BY <2>2, <5>3, ConcatAssoc
        <5> QED BY <5>2, <5>4, SMTT(30) DEF Diff, sent, rest
      <4>2. /\ Regular(child.base, Diff, conf.multi)
            /\ Current(child.base, Diff, server.data, selected)
            /\ child.stage = "done" => child.pipe = <<>>
        BY <2>3, <2>4, <2>9 DEF LInv, ChildInv, Kept, selected
      <4>3. /\ Regular(child.base, Diff \o new, conf.multi)
            /\ Current(child.base, Diff \o new, more, d)
        BY <2>1, <2>5, <2>6, <4>2, LogTypes, <1>CurrentFed DEF more
      <4>4. Kept(child.base, Diff \o new, more, conf.multi)
        BY <2>7, <4>3, CurrentKept
      <4> QED BY <2>4, <3>2, <4>1, <4>2, <4>3, <4>4 DEF ChildInv
    <3> QED BY <3>2, <3>4, <3>5, <3>6 DEF LInv, more
  <2> QED BY <2>8, <2>9
\* The clients' commands.
<1>FedCommand. ASSUME IInv, LInv, NEW d \in conf.dbs, command(d) \/ execCommand(d)
               PROVE  /\ LInv' /\ Prefix(server.data, server'.data) /\ server.data # server'.data
                      /\ server'.aof_state = server.aof_state
  <2> USE <1>FedCommand
  <2> DEFINE n == left.writes
             selected == server.aof_selected_db
             one == <<Command(n, 0)>>
             many == <<Multi, Command(n, 1), Command(n, 2), Exec>>
             write == <<<<d, n, 0>>>>
             writes == <<<<d, n, 1>>, <<d, n, 2>>>>
  <2>1. n \in Int /\ d \in Nat
    BY SetupsAssumption DEF IInv, BudgetOK
  <2>2. one \in Seq(Entry) /\ many \in Seq(Entry)
    <3>1. /\ Multi \in Entry /\ Exec \in Entry /\ Command(n, 0) \in Entry
          /\ Command(n, 1) \in Entry /\ Command(n, 2) \in Entry
      BY <2>1, SMT DEF Entry
    <3> QED BY <3>1, SMT
  <2>3. Fed(d, selected, n, conf.multi, SelectIf(d, selected) \o one, write)
    BY DEF Fed
  <2>4. conf.multi = TRUE =>
          Fed(d, selected, n, conf.multi, SelectIf(d, selected) \o many, writes)
    BY DEF Fed
  <2>5. server.data \in Seq(Write) /\ Whole(server.data)
    BY DEF LInv, DataInv
  <2>6. CASE command(d)
    <3>1. Executed(d, write, one)
      BY <2>6 DEF command
    <3> HIDE DEF n, selected, one, write
    <3>2. LInv' /\ server'.data = server.data \o write /\ server'.aof_state = server.aof_state
      BY <2>1, <2>2, <2>3, <3>1, <1>LFed DEF selected
    <3>3. Prefix(server.data, server.data \o write) /\ server.data # server.data \o write
      BY <2>1, <2>3, <2>5, <1>DataFed
    <3> QED BY <3>2, <3>3
  <2>7. CASE execCommand(d)
    <3>1. Executed(d, writes, many) /\ conf.multi = TRUE
      <4>1. conf.multi \in BOOLEAN
        BY LogTypes
      <4>2. Executed(d, writes, many) /\ conf.multi
        BY <2>7 DEF execCommand
      <4> QED BY <4>1, <4>2
    <3>2. Fed(d, selected, n, conf.multi, SelectIf(d, selected) \o many, writes)
      BY <2>4, <3>1
    <3> HIDE DEF n, selected, many, writes
    <3>3. LInv' /\ server'.data = server.data \o writes /\ server'.aof_state = server.aof_state
      BY <2>1, <2>2, <3>2, <3>1, <1>LFed DEF selected
    <3>4. Prefix(server.data, server.data \o writes) /\ server.data # server.data \o writes
      BY <2>1, <3>2, <2>5, <1>DataFed
    <3> QED BY <3>3, <3>4, SMTT(30)
  <2> QED BY <2>6, <2>7
<1> QED BY <1>FedCommand

\* The dataset stays and the AOF is on or off as before.
NothingSeen ==
  server'.data = server.data /\ server'.aof_state = server.aof_state /\ acked' = acked

\* The time, the fsync thread and the child that saves an RDB file.
LEMMA LOther ==
  ASSUME IInv, LInv,
         tick \/ bioProcessBackgroundJobs \/ bgsaveCommand \/ backgroundSaveDoneHandler
  PROVE  LInv' /\ NothingSeen
<1> USE DEF NothingSeen
<1>1. ServerOK(server) /\ FileOK(file)
  BY DEF IInv
<1>2. CASE tick \/ bioProcessBackgroundJobs
  <2>1. /\ server'.run = server.run /\ server'.aof_state = server.aof_state
        /\ server'.data = server.data /\ server'.aof_selected_db = server.aof_selected_db
        /\ server'.aof_buf = server.aof_buf
        /\ server'.aof_rewrite_buf = server.aof_rewrite_buf
    BY <1>1, <1>2 DEF tick, bioProcessBackgroundJobs, ServerOK, ServerFields
  <2>2. file'.base = file.base /\ file'.log = file.log
    BY <1>1, <1>2 DEF tick, bioProcessBackgroundJobs, FileOK
  <2>3. UNCHANGED <<child, conf, acked>>
    BY <1>2 DEF tick, bioProcessBackgroundJobs
  <2>4. HasChild("aof")' => /\ HasChild("aof") /\ child'.base = child.base /\ Diff' = Diff
                            /\ Up => (child'.stage = "done" => child'.pipe = <<>>)
    BY <2>1, <2>3 DEF HasChild, Diff, LInv, ChildInv
  <2>5. Up
    BY <1>2 DEF tick, bioProcessBackgroundJobs
  <2> QED BY <2>1, <2>2, <2>3, <2>4, <2>5, QuietStep
<1>3. CASE bgsaveCommand \/ backgroundSaveDoneHandler
  <2>1. UNCHANGED <<server, file, conf, acked>>
    BY <1>3 DEF bgsaveCommand, backgroundSaveDoneHandler
  <2>2. ~HasChild("aof")'
    BY <1>3, SMT DEF bgsaveCommand, backgroundSaveDoneHandler, HasChild, NoChild
  <2> QED BY <2>1, <2>2, QuietStep
<1> QED BY <1>2, <1>3

\* Their lengths are numbers.
LEMMA LogLengths ==
  ASSUME IInv
  PROVE  Len(file.log) \in Nat /\ Len(file.log \o server.aof_buf) \in Nat
BY SMT DEF IInv, FileOK, ServerOK

\* What a flush leaves in the file is a first part of the log.
LEMMA FlushCut ==
  ASSUME IInv, Up, NEW log,
         \E k \in Len(file.log)..Len(file.log \o server.aof_buf) :
           log = First(file.log \o server.aof_buf, k)
  PROVE  \E k \in 0..Len(TheLog) : log = First(TheLog, k)
<1> DEFINE L == file.log \o server.aof_buf
<1>2. Len(file.log) \in Nat /\ Len(L) \in Nat
  BY LogLengths
<1>3. TheLog = L
  BY DEF TheLog
<1>4. \E k \in Len(file.log)..Len(L) : log = First(L, k)
  OBVIOUS
<1> HIDE DEF L
<1>5. PICK k \in Len(file.log)..Len(L) : log = First(L, k)
  BY <1>4
<1>6. k \in 0..Len(L)
  BY <1>2, SMT
<1> QED BY <1>3, <1>5, <1>6

\* The event loop writes the buffer.
LEMMA LBeforeSleep ==
  ASSUME IInv, LInv, beforeSleep
  PROVE  /\ LInv' /\ server'.data = server.data /\ server'.aof_state = server.aof_state
         /\ acked' \in {acked, Len(server.data)}
<1>1. PICK o \in Possible(IF server.aof_state = AOF_ON
                            THEN flushAppendOnlyFile(server, FALSE)
                            ELSE {Outcome(server, file, bio, 0)}) :
        /\ server' = [o.server EXCEPT !.pending = FALSE]
        /\ file' = o.file /\ bio' = o.bio /\ left' = Faulted(o)
  BY DEF beforeSleep
<1>2. /\ Up /\ conf' = conf /\ child' = child /\ acked' \in {acked, Len(server.data)}
  BY DEF beforeSleep
<1>3. ServerOK(server) /\ FileOK(file) /\ bio \in Seq(Nat)
  BY DEF IInv
<1>4. CASE server.aof_state = AOF_ON
  <2>1. o \in flushAppendOnlyFile(server, FALSE) /\ FALSE \in BOOLEAN
    BY <1>1, <1>4 DEF Possible
  <2>2. /\ ServerOK(o.server)
        /\ o.server.aof_rewrite_buf = server.aof_rewrite_buf
        /\ o.server.run \in {server.run, "crashed"}
        /\ o.server.run # "crashed" =>
             o.file.log \o o.server.aof_buf = file.log \o server.aof_buf
    BY <1>3, <2>1, FlushStep
  <2>3. /\ SameFields(server, o.server) /\ o.file.base = file.base
        /\ \E k \in Len(file.log)..Len(file.log \o server.aof_buf) :
             o.file.log = First(file.log \o server.aof_buf, k)
    BY <1>3, <2>1, FlushFile
  <2>4. /\ server'.run = o.server.run /\ server'.aof_state = server.aof_state
        /\ server'.data = server.data /\ server'.aof_selected_db = server.aof_selected_db
        /\ server'.aof_buf = o.server.aof_buf
        /\ server'.aof_rewrite_buf = server.aof_rewrite_buf
    BY <1>1, <2>2, <2>3 DEF SameFields, ServerOK, ServerFields
  <2>5. CASE o.server.run = "crashed"
    <3>1. \E k \in 0..Len(TheLog) : file'.log = First(TheLog, k)
      BY <1>1, <1>2, <2>3, FlushCut
    <3>2. LInv'
      BY <1>1, <1>2, <2>3, <2>4, <2>5, <3>1, CutStep
    <3> QED BY <1>2, <2>4, <3>2
  <2>6. CASE o.server.run # "crashed"
    <3>1. HasChild("aof")' => /\ HasChild("aof") /\ child'.base = child.base /\ Diff' = Diff
                              /\ (child'.stage = "done" => child'.pipe = <<>>)
      BY <1>2, <2>4 DEF HasChild, Diff, LInv, ChildInv
    <3>2. file'.log \o server'.aof_buf = file.log \o server.aof_buf
      BY <1>1, <2>2, <2>4, <2>6
    <3>3. file'.base = file.base /\ server'.run = server.run
      BY <1>1, <2>2, <2>3, <2>4, <2>6
    <3>4. LInv'
      BY <1>2, <1>4, <2>4, <3>1, <3>2, <3>3, QuietStep
    <3> QED BY <1>2, <2>4, <3>4, SMTT(30)
  <2> QED BY <2>5, <2>6
<1>5. CASE server.aof_state # AOF_ON
  <2>1. o = Outcome(server, file, bio, 0)
    BY <1>1, <1>5 DEF Possible
  <2>2. file' = file /\ server' = [server EXCEPT !.pending = FALSE]
    BY <1>1, <2>1 DEF Outcome
  <2>3. /\ server'.run = server.run /\ server'.aof_state = server.aof_state
        /\ server'.data = server.data /\ server'.aof_selected_db = server.aof_selected_db
        /\ server'.aof_buf = server.aof_buf
        /\ server'.aof_rewrite_buf = server.aof_rewrite_buf
    BY <1>3, <2>2 DEF ServerOK, ServerFields
  <2>4. HasChild("aof")' => /\ HasChild("aof") /\ child'.base = child.base /\ Diff' = Diff
                            /\ (child'.stage = "done" => child'.pipe = <<>>)
    BY <1>2, <2>3 DEF HasChild, Diff, LInv, ChildInv
  <2>5. LInv'
    BY <1>2, <2>2, <2>3, <2>4, QuietStep
  <2> QED BY <1>2, <2>3, <2>5
<1> QED BY <1>4, <1>5

\* The steps of a rewrite up to its end.
LEMMA LRewrite ==
  ASSUME IInv, LInv,
         \/ bgrewriteaofCommand \/ startScheduledRewrite \/ aofChildWriteDiffData
         \/ aofReadDiffFromParent \/ askToStop \/ aofChildPipeReadable \/ finishRewrite
         \/ rewriteFails
  PROVE  LInv' /\ NothingSeen
\* What the parent sends is moved from its buffer to the pipe.
<1>DiffSent. ASSUME IInv, aofChildWriteDiffData
             PROVE  /\ HasChild("aof") /\ HasChild("aof")' /\ Diff' = Diff
                    /\ child'.base = child.base /\ child'.stage = child.stage
                    /\ child.stage \in {"dump", "asked"}
  <2> USE <1>DiffSent
  <2>1. PICK n \in 1..PipeSize :
          /\ Sending(n)
          /\ Sent(n, SubSeq(server.aof_rewrite_buf, n + 1, Len(server.aof_rewrite_buf)))
    BY DEF aofChildWriteDiffData
  <2> DEFINE first == SubSeq(server.aof_rewrite_buf, 1, n)
             last == SubSeq(server.aof_rewrite_buf, n + 1, Len(server.aof_rewrite_buf))
             diff == child.diff
             pipe == child.pipe
             sent == diff \o pipe
  <2>2. /\ HasChild("aof") /\ n \in 0..Len(server.aof_rewrite_buf)
        /\ child.stage \in {"dump", "asked"}
    BY <2>1, SMT DEF Sending, IInv, ServerOK
  <2>3. ChildOK(child) /\ server.aof_rewrite_buf \in Seq(Entry)
    BY <2>2 DEF IInv, ServerOK
  <2>4. /\ first \in Seq(Entry) /\ last \in Seq(Entry) /\ first \o last = server.aof_rewrite_buf
    BY <2>2, <2>3, Split
  <2>5. /\ child' = [child EXCEPT !.pipe = @ \o first]
        /\ server' = [server EXCEPT !.aof_rewrite_buf = last]
    BY <2>1 DEF Sent
  <2> HIDE DEF first, last
  <2>6. /\ child'.diff = child.diff /\ child'.type = child.type /\ child'.base = child.base
        /\ child'.pipe = child.pipe \o first /\ child'.stage = child.stage
    BY <2>3, <2>4, <2>5 DEF ChildOK
  <2>7. server'.aof_rewrite_buf = last
    BY <2>4, <2>5 DEF IInv, ServerOK, ServerFields
  <2>8. diff \in Seq(Entry) /\ pipe \in Seq(Entry) /\ sent \in Seq(Entry)
    BY <2>3, SMT DEF ChildOK
  <2>9. diff \o (pipe \o first) = sent \o first
    BY <2>4, <2>8, ConcatAssoc
  <2>10. (sent \o first) \o last = sent \o (first \o last)
    <3> HIDE DEF sent
    <3> QED BY <2>4, <2>8, ConcatAssoc
  <2>11. Diff' = Diff
    BY <2>4, <2>6, <2>7, <2>9, <2>10 DEF Diff
  <2> QED BY <2>2, <2>6, <2>11 DEF HasChild
\* What the child reads is moved from the pipe to its file.
<1>DiffReceived. ASSUME IInv, aofReadDiffFromParent \/ finishRewrite
                 PROVE  /\ HasChild("aof") /\ HasChild("aof")' /\ Diff' = Diff
                        /\ child'.base = child.base /\ child'.pipe = <<>>
  <2> USE <1>DiffReceived
  <2>1. /\ HasChild("aof") /\ UNCHANGED server
        /\ \/ child' = Received(child)
           \/ child' = [Received(child) EXCEPT !.stage = "done"]
    BY DEF aofReadDiffFromParent, finishRewrite
  <2>2. ChildOK(child) /\ server.aof_rewrite_buf \in Seq(Entry)
    BY <2>1 DEF IInv, ServerOK
  <2>3. /\ child'.type = child.type /\ child'.base = child.base
        /\ child'.diff = child.diff \o child.pipe /\ child'.pipe = <<>>
    BY <2>1, <2>2 DEF Received, ChildOK
  <2>4. (child.diff \o child.pipe) \o <<>> \o server.aof_rewrite_buf
          = child.diff \o child.pipe \o server.aof_rewrite_buf
    BY <2>2, SMT DEF ChildOK
  <2>5. Diff' = Diff
    BY <2>1, <2>3, <2>4 DEF Diff
  <2> QED BY <2>1, <2>3, <2>5 DEF HasChild
<1> DEFINE Started ==
      /\ server' = rewriteAppendOnlyFileBackground(server)
      /\ child' = RewriteChild(server)
<1>0. ServerOK(server) /\ FileOK(file) /\ (HasChild("aof") => ChildOK(child))
  BY DEF IInv
<1>1. ASSUME Started, UNCHANGED <<file, conf, acked>>, Up, ~HasChild("aof")
      PROVE  LInv' /\ NothingSeen
  <2>1. /\ server'.run = server.run /\ server'.data = server.data
        /\ server'.aof_state = server.aof_state /\ server'.aof_buf = server.aof_buf
        /\ server'.aof_rewrite_buf = server.aof_rewrite_buf
        /\ server'.aof_selected_db = -1
    BY <1>0, <1>1 DEF rewriteAppendOnlyFileBackground, ServerOK, ServerFields
  <2>2. server.aof_rewrite_buf = <<>>
    BY <1>1 DEF IInv
  <2>3. LInv'
    BY <1>1, <2>1, <2>2, ForkedStep
  <2> QED BY <1>1, <2>1, <2>3 DEF NothingSeen
<1>2. ASSUME Up, UNCHANGED <<file, conf, acked>>,
             server'.run = server.run, server'.aof_state = server.aof_state,
             server'.data = server.data, server'.aof_selected_db = server.aof_selected_db,
             server'.aof_buf = server.aof_buf,
             HasChild("aof")' =>
               /\ HasChild("aof") /\ child'.base = child.base /\ Diff' = Diff
               /\ child'.stage = "done" => child'.pipe = <<>>
      PROVE  LInv' /\ NothingSeen
  BY <1>2, QuietStep DEF NothingSeen
<1>3. CASE bgrewriteaofCommand
  <2>1. UNCHANGED <<file, conf, acked>> /\ Up /\ ~HasChild("aof")
    BY <1>3 DEF bgrewriteaofCommand
  <2>2. CASE Started
    BY <1>1, <2>1, <2>2
  <2>3. CASE server' = [server EXCEPT !.aof_rewrite_scheduled = TRUE] /\ child' = child
    <3>1. /\ server'.run = server.run /\ server'.aof_state = server.aof_state
          /\ server'.data = server.data /\ server'.aof_selected_db = server.aof_selected_db
          /\ server'.aof_buf = server.aof_buf
      BY <1>0, <2>3 DEF ServerOK, ServerFields
    <3>2. ~HasChild("aof")'
      BY <2>1, <2>3 DEF HasChild
    <3> QED BY <1>2, <2>1, <3>1, <3>2
  <2> QED BY <1>3, <2>2, <2>3 DEF bgrewriteaofCommand
<1>4. CASE startScheduledRewrite
  <2>1. UNCHANGED <<file, conf, acked>> /\ Up /\ ~HasChild("aof")
    BY <1>4 DEF startScheduledRewrite, hasActiveChildProcess, HasChild
  <2> QED BY <1>1, <1>4, <2>1 DEF startScheduledRewrite
<1>5. CASE aofChildWriteDiffData
  <2>1. /\ Up /\ UNCHANGED <<file, conf, acked>>
        /\ \E rest : server' = [server EXCEPT !.aof_rewrite_buf = rest]
    BY <1>5 DEF aofChildWriteDiffData, Sent, Sending
  <2>2. /\ server'.run = server.run /\ server'.aof_state = server.aof_state
        /\ server'.data = server.data /\ server'.aof_selected_db = server.aof_selected_db
        /\ server'.aof_buf = server.aof_buf
    BY <1>0, <2>1 DEF ServerOK, ServerFields
  <2>3. /\ HasChild("aof") /\ Diff' = Diff /\ child'.base = child.base
        /\ child'.stage = child.stage /\ child.stage \in {"dump", "asked"}
    BY <1>5, <1>DiffSent
  <2> QED BY <1>2, <2>1, <2>2, <2>3
<1>6. CASE aofReadDiffFromParent \/ finishRewrite
  <2>1. Up /\ UNCHANGED <<server, file, conf, acked>>
    BY <1>6 DEF aofReadDiffFromParent, finishRewrite
  <2>2. HasChild("aof") /\ Diff' = Diff /\ child'.base = child.base /\ child'.pipe = <<>>
    BY <1>6, <1>DiffReceived
  <2> QED BY <1>2, <2>1, <2>2
<1>7. CASE askToStop \/ aofChildPipeReadable \/ rewriteFails
  <2>1. /\ Up /\ HasChild("aof") /\ UNCHANGED <<file, conf, acked>>
        /\ \E stage \in {"asked", "acked", "failed"} :
             child' = [child EXCEPT !.stage = stage]
        /\ \/ server' = server
           \/ server' = [server EXCEPT !.aof_stop_sending_diff = TRUE]
    BY <1>7 DEF askToStop, aofChildPipeReadable, rewriteFails
  <2>2. /\ server'.run = server.run /\ server'.aof_state = server.aof_state
        /\ server'.data = server.data /\ server'.aof_selected_db = server.aof_selected_db
        /\ server'.aof_buf = server.aof_buf
        /\ server'.aof_rewrite_buf = server.aof_rewrite_buf
    BY <1>0, <2>1 DEF ServerOK, ServerFields
  <2>3. /\ child'.base = child.base /\ child'.diff = child.diff
        /\ child'.pipe = child.pipe /\ child'.stage # "done"
    BY <1>0, <2>1 DEF ChildOK
  <2>4. Diff' = Diff
    BY <2>2, <2>3 DEF Diff
  <2> QED BY <1>2, <2>1, <2>2, <2>3, <2>4
<1> QED BY <1>3, <1>4, <1>5, <1>6, <1>7

\* The end of a rewrite: the new file takes over, or nothing changes.
LEMMA LDone ==
  ASSUME IInv, LInv, backgroundRewriteDoneHandler
  PROVE  /\ LInv' /\ server'.data = server.data /\ acked' = acked
         /\ \/ server'.aof_state = server.aof_state
            \/ server.aof_state # AOF_ON /\ server'.aof_state = AOF_ON
<1>1. /\ Up /\ HasChild("aof") /\ ~HasChild("aof")' /\ UNCHANGED <<conf, acked>>
  BY DEF backgroundRewriteDoneHandler, HasChild, NoChild
<1>2. ChildOK(child) /\ ServerOK(server)
  BY <1>1 DEF IInv
<1>3. ASSUME NEW s, ServerOK(s)
      PROVE  /\ RewriteCleanup(s).run = s.run /\ RewriteCleanup(s).aof_state = s.aof_state
             /\ RewriteCleanup(s).data = s.data /\ RewriteCleanup(s).aof_buf = s.aof_buf
             /\ RewriteCleanup(s).aof_selected_db = s.aof_selected_db
  BY <1>3 DEF RewriteCleanup, aofRewriteBufferReset, ServerOK, ServerFields
<1>4. CASE server' = RewriteCleanup(server) /\ file' = file
  <2>1. /\ server'.run = server.run /\ server'.aof_state = server.aof_state
        /\ server'.data = server.data /\ server'.aof_selected_db = server.aof_selected_db
        /\ server'.aof_buf = server.aof_buf
    BY <1>2, <1>3, <1>4
  <2>2. LInv'
    BY <1>1, <1>4, <2>1, QuietStep
  <2> QED BY <1>1, <2>1, <2>2
<1>5. CASE server' = RewrittenServer /\ file' = RewrittenFile /\ child.stage = "done"
  <2> DEFINE s == IF server.aof_state = AOF_OFF THEN server
                  ELSE [server EXCEPT !.aof_selected_db = -1, !.behind = FALSE,
                                      !.second = FALSE, !.aof_buf = <<>>,
                                      !.aof_state = AOF_ON]
  <2>1. file'.base = child.base /\ file'.log = child.diff \o server.aof_rewrite_buf
    BY <1>5 DEF RewrittenFile
  <2>2. /\ ServerOK(s) /\ s.run = server.run /\ s.data = server.data /\ s.aof_buf = <<>>
        /\ IF server.aof_state = AOF_OFF THEN s.aof_state = AOF_OFF
           ELSE s.aof_state = AOF_ON /\ s.aof_selected_db = -1
    BY <1>1, <1>2, SMT DEF ServerOK, ServerFields, LInv, DataInv, AOF_OFF, AOF_ON
  <2>3. server' = RewriteCleanup(s)
    BY <1>5 DEF RewrittenServer
  <2> HIDE DEF s
  <2>4. /\ server'.run = server.run /\ server'.data = server.data /\ server'.aof_buf = <<>>
        /\ IF server.aof_state = AOF_OFF THEN server'.aof_state = AOF_OFF
           ELSE server'.aof_state = AOF_ON /\ server'.aof_selected_db = -1
    BY <1>3, <2>2, <2>3
  <2>5. /\ Kept(child.base, Diff, server.data, conf.multi) /\ child.pipe = <<>>
        /\ server.aof_state # AOF_OFF =>
             Current(child.base, Diff, server.data, server.aof_selected_db)
    BY <1>1, <1>5 DEF LInv, ChildInv
  <2>6. TheLog' = Diff
    <3>1. /\ child.diff \in Seq(Entry) /\ server.aof_rewrite_buf \in Seq(Entry)
      BY <1>2 DEF ChildOK, ServerOK
    <3>2. Up'
      BY <1>1, <2>4 DEF Up
    <3>3. TheLog' = child.diff \o server.aof_rewrite_buf \o <<>>
      BY <2>1, <2>4, <3>2 DEF TheLog
    <3>4. Diff = child.diff \o <<>> \o server.aof_rewrite_buf
      BY <2>5 DEF Diff
    <3> QED BY <3>1, <3>3, <3>4, SMT
  <2>7. FileInv'
    <3>1. Kept(file'.base, TheLog', server'.data, conf'.multi)
      BY <1>1, <2>1, <2>4, <2>5, <2>6
    <3>2. ASSUME server'.aof_state = AOF_ON
          PROVE  Current(file'.base, TheLog', server'.data, server'.aof_selected_db)
      <4>1. server.aof_state # AOF_OFF /\ server'.aof_selected_db = -1
        BY <2>4, <3>2 DEF AOF_OFF, AOF_ON
      <4>2. Current(child.base, Diff, server.data, -1)
        BY <2>5, <4>1, CurrentAnew
      <4> QED BY <2>1, <2>4, <2>6, <4>1, <4>2
    <3> QED BY <3>1, <3>2 DEF FileInv
  <2>8. DataInv' /\ ChildInv'
    BY <1>1, <2>4 DEF LInv, DataInv, ChildInv
  <2> QED BY <1>1, <2>4, <2>7, <2>8 DEF LInv
<1> QED BY <1>4, <1>5 DEF backgroundRewriteDoneHandler

\* CONFIG SET appendonly no, and yes.
LEMMA LSwitch ==
  ASSUME IInv, LInv, stopAppendOnly \/ startAppendOnly
  PROVE  /\ LInv' /\ server'.data = server.data /\ acked' = acked
         /\ \/ server'.aof_state = server.aof_state
            \/ server'.aof_state # AOF_ON
<1>0. ServerOK(server) /\ FileOK(file) /\ bio \in Seq(Nat)
  BY DEF IInv
<1>1. CASE stopAppendOnly
  <2>1. PICK o \in Possible(flushAppendOnlyFile(server, TRUE)) :
          /\ file' = IF o.server.run = "up" THEN fsync(o.file) ELSE o.file
          /\ server' = IF o.server.run # "up" THEN o.server
                  ELSE [(IF HasChild("aof") THEN aofRewriteBufferReset(o.server) ELSE o.server)
                         EXCEPT !.aof_selected_db = -1, !.aof_state = AOF_OFF,
                                !.aof_rewrite_scheduled = FALSE, !.aof_buf = <<>>,
                                !.behind = FALSE, !.second = FALSE]
          /\ child' = IF HasChild("aof") /\ o.server.run = "up" THEN NoChild ELSE child
    BY <1>1 DEF stopAppendOnly
  <2>2. Up /\ conf' = conf /\ acked' = acked
    BY <1>1 DEF stopAppendOnly
  <2>3. o \in flushAppendOnlyFile(server, TRUE) /\ TRUE \in BOOLEAN
    BY <2>1 DEF Possible
  <2>4. ServerOK(o.server) /\ FileOK(o.file)
    BY <1>0, <2>3, FlushStep
  <2>5. /\ SameFields(server, o.server) /\ o.file.base = file.base
        /\ \E k \in Len(file.log)..Len(file.log \o server.aof_buf) :
             o.file.log = First(file.log \o server.aof_buf, k)
    BY <1>0, <2>3, FlushFile
  <2>6. file'.base = file.base /\ file'.log = o.file.log
    BY <2>1, <2>4, <2>5 DEF fsync, FileOK
  <2>7. \E k \in 0..Len(TheLog) : file'.log = First(TheLog, k)
    BY <2>2, <2>5, <2>6, FlushCut
  <2>8. CASE o.server.run # "up"
    <3>1. /\ server'.run # "up" /\ server'.data = server.data
          /\ server'.aof_state = server.aof_state
      BY <2>1, <2>5, <2>8 DEF SameFields
    <3>2. LInv'
      BY <2>2, <2>6, <2>7, <3>1, CutStep
    <3> QED BY <2>2, <3>1, <3>2
  <2>9. CASE o.server.run = "up"
    <3> DEFINE s == IF HasChild("aof") THEN aofRewriteBufferReset(o.server) ELSE o.server
    <3>1. ServerOK(s) /\ s.data = server.data /\ s.run = "up"
      BY <2>4, <2>5, <2>9, SMT DEF SameFields, aofRewriteBufferReset, ServerOK, ServerFields
    <3>2. server' = [s EXCEPT !.aof_selected_db = -1, !.aof_state = AOF_OFF,
                              !.aof_rewrite_scheduled = FALSE, !.aof_buf = <<>>,
                              !.behind = FALSE, !.second = FALSE]
      BY <2>1, <2>9
    <3> HIDE DEF s
    <3>3. /\ server'.data = server.data /\ server'.aof_state = AOF_OFF
          /\ server'.aof_buf = <<>> /\ server'.run = "up"
      BY <3>1, <3>2 DEF ServerOK, ServerFields
    <3>4. ~HasChild("aof")' /\ AOF_OFF # AOF_ON
      BY <2>1, <2>9 DEF HasChild, NoChild, AOF_OFF, AOF_ON
    <3>5. PICK k \in 0..Len(TheLog) : file'.log = First(TheLog, k)
      BY <2>7
    <3>6. Kept(file.base, First(TheLog, k), server.data, conf.multi)
      BY LogTypes, KeptFirst DEF LInv, FileInv, DataInv
    <3>7. TheLog' = file'.log
      <4>1. file'.log \in Seq(Entry)
        BY <2>4, <2>6 DEF FileOK
      <4>2. file'.log \o <<>> = file'.log
        BY <4>1, SMT
      <4> QED BY <3>3, <4>2 DEF TheLog
    <3>8. FileInv'
      BY <2>2, <2>6, <3>3, <3>4, <3>5, <3>6, <3>7 DEF FileInv
    <3>9. DataInv' /\ ChildInv'
      BY <3>3, <3>4 DEF LInv, DataInv, ChildInv
    <3> QED BY <2>2, <3>3, <3>4, <3>8, <3>9 DEF LInv
  <2> QED BY <2>8, <2>9
<1>2. CASE startAppendOnly
  <2> DEFINE on == [server EXCEPT !.aof_state = AOF_WAIT_REWRITE, !.second = FALSE,
                                  !.aof_bio_fsync_status = TRUE,
                                  !.aof_last_write_status = TRUE]
  <2>1. /\ Up /\ UNCHANGED <<file, conf, acked>> /\ server.aof_state # AOF_ON
        /\ AOF_WAIT_REWRITE # AOF_ON
    BY <1>2 DEF startAppendOnly, AOF_OFF, AOF_ON, AOF_WAIT_REWRITE
  <2>2. /\ ServerOK(on) /\ on.run = server.run /\ on.data = server.data
        /\ on.aof_state = AOF_WAIT_REWRITE /\ on.aof_buf = server.aof_buf
    BY <1>0 DEF ServerOK, ServerFields
  <2>3. CASE HasChild("rdb")
    <3>1. server' = [on EXCEPT !.aof_rewrite_scheduled = TRUE] /\ child' = child
      BY <1>2, <2>3 DEF startAppendOnly
    <3>2. ~HasChild("aof")'
      BY <2>3, <3>1 DEF HasChild
    <3> HIDE DEF on
    <3>3. /\ server'.run = server.run /\ server'.data = server.data
          /\ server'.aof_state # AOF_ON /\ server'.aof_buf = server.aof_buf
      BY <2>1, <2>2, <3>1 DEF ServerOK, ServerFields
    <3>4. (Up' <=> Up) /\ TheLog' = TheLog
      BY <2>1, <3>3 DEF Up, TheLog
    <3>5. FileInv'
      BY <2>1, <3>3, <3>4 DEF LInv, FileInv
    <3>6. DataInv' /\ ChildInv'
      BY <2>1, <3>2, <3>3, <3>4 DEF LInv, DataInv, ChildInv
    <3> QED BY <2>1, <3>3, <3>5, <3>6 DEF LInv
  <2>4. CASE ~HasChild("rdb")
    <3>1. /\ server' = rewriteAppendOnlyFileBackground(aofRewriteBufferReset(on))
          /\ child' = RewriteChild(server)
      BY <1>2, <2>4 DEF startAppendOnly
    <3> HIDE DEF on
    <3>2. /\ server'.run = server.run /\ server'.data = server.data
          /\ server'.aof_state # AOF_ON /\ server'.aof_buf = server.aof_buf
          /\ server'.aof_rewrite_buf = <<>> /\ server'.aof_selected_db = -1
      BY <2>1, <2>2, <3>1 DEF rewriteAppendOnlyFileBackground, aofRewriteBufferReset,
                              ServerOK, ServerFields
    <3>3. LInv'
      BY <2>1, <3>1, <3>2, ForkedStep
    <3> QED BY <2>1, <3>2, <3>3
  <2> QED BY <2>3, <2>4
<1> QED BY <1>1, <1>2

\* What the kernel was given before a crash continues the file.
LEMMA UnwrittenCut ==
  ASSUME IInv, NEW buf \in Unwritten
  PROVE  /\ buf \in Seq(Entry) /\ file.log \o buf \in Seq(Entry)
         /\ Len(file.log) <= Len(file.log \o buf)
         /\ \A n \in 0..Len(file.log \o buf) :
              n \in 0..Len(TheLog) /\ First(file.log \o buf, n) = First(TheLog, n)
         /\ server.aof_state # AOF_ON \/ ~Up => buf = <<>>
<1>0. ServerOK(server) /\ FileOK(file)
  BY DEF IInv
<1>1. /\ file.log \in Seq(Entry) /\ server.aof_buf \in Seq(Entry)
      /\ Len(file.log) \in Nat /\ Len(file.log \o server.aof_buf) \in Nat
      /\ Len(file.log) <= Len(file.log \o server.aof_buf)
  BY <1>0, SMT DEF FileOK, ServerOK
<1>2. buf = <<>> \/ (Up /\ server.aof_state = AOF_ON /\ buf = server.aof_buf)
  BY DEF Unwritten
<1>3. buf \in Seq(Entry)
  <2>1. CASE buf = <<>>
    BY <2>1, SMT
  <2>2. CASE buf = server.aof_buf
    BY <1>1, <2>2
  <2> QED BY <1>2, <2>1, <2>2
<1>4. file.log \o buf \in Seq(Entry) /\ Len(file.log) <= Len(file.log \o buf)
  BY <1>1, <1>3, SMT
<1>5. ASSUME NEW n \in 0..Len(file.log \o buf)
      PROVE  n \in 0..Len(TheLog) /\ First(file.log \o buf, n) = First(TheLog, n)
  <2>1. CASE Up /\ buf = server.aof_buf
    BY <2>1 DEF TheLog
  <2>2. CASE buf = <<>>
    <3>1. file.log \o buf = file.log
      BY <1>1, <2>2, SMT
    <3>2. CASE ~Up
      BY <3>1, <3>2 DEF TheLog
    <3>3. CASE Up
      <4>1. TheLog = file.log \o server.aof_buf
        BY <3>3 DEF TheLog
      <4>2. n \in 0..Len(file.log)
        BY <3>1
      <4>3. n \in 0..Len(TheLog)
        <5>1. /\ Len(file.log) \in Nat /\ Len(TheLog) \in Nat
              /\ Len(file.log) <= Len(TheLog)
          BY <1>1, <4>1
        <5> QED BY <4>2, <5>1, SMT
      <4>4. First(file.log \o server.aof_buf, n) = First(file.log, n)
        BY <1>1, <4>2, FirstOfConcat
      <4> QED BY <3>1, <4>1, <4>3, <4>4
    <3> QED BY <3>2, <3>3
  <2> QED BY <1>2, <2>1, <2>2
<1> QED BY <1>2, <1>3, <1>4, <1>5

\* The process ends: in order, killed, or with the machine.
LEMMA LStop ==
  ASSUME IInv, LInv, prepareForShutdown \/ kill \/ powerLoss
  PROVE  LInv' /\ NothingSeen
<1>0. ServerOK(server) /\ FileOK(file) /\ bio \in Seq(Nat)
  BY DEF IInv
<1>1. ASSUME NEW buf \in Unwritten
      PROVE  /\ buf \in Seq(Entry) /\ file.log \o buf \in Seq(Entry)
             /\ \A n \in 0..Len(file.log \o buf) :
                  n \in 0..Len(TheLog) /\ First(file.log \o buf, n) = First(TheLog, n)
  BY UnwrittenCut
<1>2. CASE prepareForShutdown
  <2> DEFINE outcomes == IF server.aof_state = AOF_OFF THEN {Outcome(server, file, bio, 0)}
                         ELSE flushAppendOnlyFile(server, TRUE)
  <2>1. PICK o \in Possible(outcomes) :
          /\ file' = IF server.aof_state # AOF_OFF /\ o.server.run = "up"
                       THEN fsync(o.file) ELSE o.file
          /\ server' = [o.server EXCEPT !.run = IF @ = "up" THEN "shutdown" ELSE @]
    BY <1>2 DEF prepareForShutdown, ShutDown
  <2>2. Up /\ conf' = conf /\ acked' = acked
    BY <1>2 DEF prepareForShutdown, ShutDown
  <2>3. /\ ServerOK(o.server) /\ FileOK(o.file)
        /\ SameFields(server, o.server) /\ o.file.base = file.base
        /\ \E k \in 0..Len(TheLog) : o.file.log = First(TheLog, k)
    <3>1. CASE server.aof_state = AOF_OFF
      <4>1. o.server = server /\ o.file = file
        BY <2>1, <3>1, SMT DEF Possible, Outcome
      <4>2. <<>> \in Unwritten
        BY DEF Unwritten
      <4>3. file.log \o <<>> = file.log /\ Len(file.log) \in 0..Len(file.log)
        BY <1>0, SMT DEF FileOK
      <4>4. /\ Len(file.log) \in 0..Len(TheLog)
            /\ First(file.log, Len(file.log)) = First(TheLog, Len(file.log))
        BY <1>1, <4>2, <4>3
      <4>5. file.log = First(TheLog, Len(file.log))
        BY <1>0, <4>4, FirstAll DEF FileOK
      <4> QED BY <1>0, <4>1, <4>4, <4>5 DEF SameFields
    <3>2. CASE server.aof_state # AOF_OFF
      <4>1. o \in flushAppendOnlyFile(server, TRUE) /\ TRUE \in BOOLEAN
        BY <2>1, <3>2 DEF Possible
      <4>2. ServerOK(o.server) /\ FileOK(o.file)
        BY <1>0, <4>1, FlushStep
      <4>3. /\ SameFields(server, o.server) /\ o.file.base = file.base
            /\ \E k \in Len(file.log)..Len(file.log \o server.aof_buf) :
                 o.file.log = First(file.log \o server.aof_buf, k)
        BY <1>0, <4>1, FlushFile
      <4> QED BY <2>2, <4>2, <4>3, FlushCut
    <3> QED BY <3>1, <3>2
  <2>4. file'.base = file.base /\ file'.log = o.file.log
    BY <2>1, <2>3 DEF fsync, FileOK
  <2>5. /\ server'.run # "up" /\ server'.data = server.data
        /\ server'.aof_state = server.aof_state
    BY <2>1, <2>3 DEF ServerOK, ServerFields, SameFields
  <2>6. LInv'
    BY <2>2, <2>3, <2>4, <2>5, CutStep
  <2> QED BY <2>2, <2>5, <2>6 DEF NothingSeen
<1>3. CASE kill
  <2>1. PICK buf \in Unwritten :
          file' = IF buf = <<>> THEN file ELSE [file EXCEPT !.log = @ \o buf, !.torn = FALSE]
    BY <1>3 DEF kill
  <2>2. UNCHANGED <<conf, acked>> /\ server' = Exited(server)
    BY <1>3 DEF kill
  <2>3. /\ server'.run # "up" /\ server'.data = server.data
        /\ server'.aof_state = server.aof_state
    BY <1>0, <2>2 DEF Exited, ServerOK, ServerFields
  <2>4. file.log \o buf \in Seq(Entry) /\ file.log \o <<>> = file.log
    BY <1>0, <1>1, SMT DEF FileOK
  <2>5. file'.base = file.base /\ file'.log = file.log \o buf
    BY <1>0, <2>1, <2>4 DEF FileOK
  <2> DEFINE log == file.log \o buf
  <2>6. /\ Len(log) \in 0..Len(log) /\ log = First(log, Len(log))
    <3>1. log \in Seq(Entry)
      BY <2>4
    <3> HIDE DEF log
    <3> QED BY <3>1, FirstAll, SMT
  <2>7. Len(log) \in 0..Len(TheLog) /\ First(log, Len(log)) = First(TheLog, Len(log))
    BY <1>1, <2>6
  <2>8. \E k \in 0..Len(TheLog) : file'.log = First(TheLog, k)
    BY <2>5, <2>6, <2>7
  <2>9. LInv'
    BY <2>2, <2>3, <2>5, <2>8, CutStep
  <2> QED BY <2>2, <2>3, <2>9 DEF NothingSeen
<1>4. CASE powerLoss
  <2>1. PICK buf \in Unwritten :
          \E n \in file.synced..Len(file.log \o buf), torn \in {FALSE, conf.torn} :
            file' = [file EXCEPT !.log = SubSeq(file.log \o buf, 1, n), !.torn = torn,
                                 !.synced = n]
    BY <1>4 DEF powerLoss
  <2>2. PICK n \in file.synced..Len(file.log \o buf), torn \in {FALSE, conf.torn} :
          file' = [file EXCEPT !.log = SubSeq(file.log \o buf, 1, n), !.torn = torn,
                               !.synced = n]
    BY <2>1
  <2>3. /\ UNCHANGED <<conf, acked>>
        /\ server' = [server EXCEPT !.run = IF @ = "up" THEN "crashed" ELSE @]
    BY <1>4 DEF powerLoss
  <2>4. /\ server'.run # "up" /\ server'.data = server.data
        /\ server'.aof_state = server.aof_state
    BY <1>0, <2>3 DEF ServerOK, ServerFields
  <2> DEFINE log == file.log \o buf
  <2>5. log \in Seq(Entry) /\ n \in 0..Len(log)
    BY <1>0, <1>1, SMT DEF FileOK
  <2>6. file'.base = file.base /\ file'.log = First(log, n)
    BY <1>0, <2>2 DEF FileOK, First
  <2>7. n \in 0..Len(TheLog) /\ First(log, n) = First(TheLog, n)
    BY <1>1, <2>5
  <2>8. \E k \in 0..Len(TheLog) : file'.log = First(TheLog, k)
    BY <2>6, <2>7
  <2>9. LInv'
    BY <2>3, <2>4, <2>6, <2>8, CutStep
  <2> QED BY <2>3, <2>4, <2>9 DEF NothingSeen
<1> QED BY <1>2, <1>3, <1>4

\* What loadAppendOnlyFile makes of a file.
LEMMA ReplayedIs ==
  ASSUME NEW f PROVE Replayed(f) = Loaded(f.base, f.log)
BY DEF Replayed, Loaded, After, StartOf

\* A server that starts has what its file loads to, and keeps a log that
\* loads to the same.
LEMMA LRestart ==
  ASSUME IInv, LInv, TornInv, Separate, restart
  PROVE  /\ LInv' /\ server'.data = Loaded(file.base, file.log).data
         /\ server'.aof_state = AOF_ON /\ file'.base = file.base
         /\ Prefix(server'.data, server.data) /\ Whole(server'.data)
\* An entry that is no MULTI starts no transaction.
<1>ReplayPlain. ASSUME NEW st, DOMAIN st = StateFields, st.multi = FALSE, NEW e, e # Multi
                PROVE  Replay(st, e).multi = FALSE
  <2> USE <1>ReplayPlain
  <2>1. Replay(st, e) = Call(st, e)
    BY DEF Replay
  <2>2. \/ Call(st, e) = st \/ Call(st, e) = [st EXCEPT !.db = e[2]]
        \/ Call(st, e) = [st EXCEPT !.data = Append(@, <<st.db, e[2], e[3]>>)]
    BY DEF Call
  <2> QED BY <2>1, <2>2 DEF StateFields
\* Where a transaction is open at the end, the log up to its MULTI loads to
\* the same data.
<1>OpenTransaction. ASSUME NEW base, NEW log \in Seq(Entry), NEW multi, Regular(base, log, multi),
                           Loaded(base, log).multi, NEW n \in BeforeMulti(log)
                    PROVE  /\ n \in 1..Len(log)
                           /\ ~Loaded(base, First(log, n)).multi
                           /\ Loaded(base, First(log, n)).data = Loaded(base, log).data
  <2> USE <1>OpenTransaction
  <2> DEFINE L(k) == Loaded(base, First(log, k))
  <2>1. /\ n \in 0..(Len(log) - 1) /\ log[n + 1] = Multi
        /\ \A m \in (n + 2)..Len(log) : log[m] # Multi
    BY DEF BeforeMulti
  <2>2. n + 1 \in 1..Len(log) /\ (n + 1) - 1 = n /\ Len(log) \in Nat
    BY <2>1, SMT
  <2>3. n \in 1..Len(log) /\ ~L(n).multi
    <3>1. n + 1 > 1 /\ ~Loaded(base, First(log, (n + 1) - 1)).multi
      BY <2>1, <2>2 DEF Regular
    <3> QED BY <2>1, <2>2, <3>1, SMT
  <2>4. \A k \in 1..Len(log) : L(k) = Replay(L(k - 1), log[k])
    <3> SUFFICES ASSUME NEW k \in 1..Len(log) PROVE L(k) = Replay(L(k - 1), log[k])
      OBVIOUS
    <3>1. First(log, k) = Append(First(log, k - 1), log[k])
      BY FirstNext
    <3>2. k - 1 \in 0..Len(log) /\ log[k] \in Entry
      BY SMT
    <3>3. First(log, k - 1) \in Seq(Entry)
      BY <3>2, FirstProperties
    <3> QED BY <3>1, <3>2, <3>3, LoadedAppend, SMTT(30)
  <2>5. \A k \in 0..Len(log) : DOMAIN L(k) = StateFields /\ L(k).multi \in BOOLEAN
    BY DEF Regular, Fine
  <2>6. \A k \in 1..Len(log) : log[k] = Exec => ~L(k).multi
    BY DEF Regular
  <2>7. L(Len(log)) = Loaded(base, log)
    BY FirstAll
  <2> HIDE DEF L
  <2> HIDE DEF Replay
  <2>8. ASSUME NEW k \in (n + 1)..Len(log) PROVE L(k).multi
    <3> SUFFICES ASSUME ~L(k).multi PROVE FALSE
      OBVIOUS
    <3> DEFINE T == {j \in Nat : k + j <= Len(log) => ~L(k + j).multi}
    <3>1. 0 \in T
      <4>1. k + 0 = k
        BY SMT
      <4> QED BY <4>1
    <3>2. ASSUME NEW j \in Nat, j \in T
          PROVE  j + 1 \in T
      <4> SUFFICES ASSUME k + (j + 1) <= Len(log) PROVE ~L(k + (j + 1)).multi
        BY SMT
      <4> DEFINE m == k + (j + 1)
      <4>1. /\ m \in 1..Len(log) /\ m - 1 = k + j /\ k + j \in 0..Len(log)
            /\ m \in (n + 2)..Len(log)
        BY <2>1, SMT
      <4>2. ~L(m - 1).multi
        BY <3>2, <4>1, SMT
      <4> HIDE DEF m
      <4>3. log[m] # Multi /\ L(m) = Replay(L(m - 1), log[m])
        BY <2>1, <2>4, <4>1
      <4>4. L(m - 1).multi = FALSE /\ DOMAIN L(m - 1) = StateFields
        BY <2>5, <4>1, <4>2
      <4>5. L(m).multi = FALSE
        <5> DEFINE p == L(m - 1)
                   e == log[m]
        <5>1. DOMAIN p = StateFields /\ p.multi = FALSE /\ e # Multi
          BY <4>3, <4>4
        <5> HIDE DEF p, e
        <5>2. Replay(p, e).multi = FALSE
          BY <5>1, <1>ReplayPlain
        <5> QED BY <4>3, <5>2 DEF p, e
      <4> QED BY <4>5 DEF m
    <3>3. \A j \in Nat : j \in T
      <4> HIDE DEF T
      <4> QED BY <3>1, <3>2, Induction
    <3>4. Len(log) - k \in Nat /\ k + (Len(log) - k) = Len(log)
      BY <2>1, SMT
    <3>5. ~L(Len(log)).multi
      <4>1. Len(log) - k \in T
        <5> HIDE DEF T
        <5> QED BY <3>3, <3>4
      <4> QED BY <3>4, <4>1, <2>2, SMT
    <3> QED BY <2>7, <3>5
  <2>9. L(n + 1).data = L(n).data
    <3>1. L(n + 1) = Replay(L(n), Multi) /\ n \in 0..Len(log)
      BY <2>1, <2>2, <2>4, SMT
    <3>2. L(n).multi = FALSE /\ DOMAIN L(n) = StateFields
      BY <2>3, <2>5, <3>1
    <3> QED BY <3>1, <3>2, ReplayMulti
  <2> DEFINE T == {j \in Nat : n + 1 + j <= Len(log) => L(n + 1 + j).data = L(n).data}
  <2>10. 0 \in T
    <3>1. n + 1 + 0 = n + 1
      BY <2>1, SMT
    <3> QED BY <2>9, <3>1
  <2>11. ASSUME NEW j \in Nat, j \in T
         PROVE  j + 1 \in T
    <3> SUFFICES ASSUME n + 1 + (j + 1) <= Len(log) PROVE L(n + 1 + (j + 1)).data = L(n).data
      BY SMT
    <3> DEFINE m == n + 1 + (j + 1)
    <3>1. /\ m \in 1..Len(log) /\ m - 1 = n + 1 + j /\ m - 1 \in 0..Len(log)
          /\ m \in (n + 1)..Len(log) /\ m - 1 \in (n + 1)..Len(log)
      BY <2>1, SMT
    <3>2. L(m - 1).data = L(n).data
      BY <2>11, <3>1, SMT
    <3> HIDE DEF m
    <3>3. L(m).multi /\ L(m - 1).multi /\ log[m] # Exec /\ L(m) = Replay(L(m - 1), log[m])
      BY <2>4, <2>6, <2>8, <3>1
    <3>4. L(m - 1).multi = TRUE /\ DOMAIN L(m - 1) = StateFields
      BY <2>5, <3>1, <3>3
    <3>5. L(m).data = L(m - 1).data
      <4> DEFINE p == L(m - 1)
                 e == log[m]
      <4>1. DOMAIN p = StateFields /\ p.multi = TRUE /\ e # Exec
        BY <3>3, <3>4
      <4> HIDE DEF p, e
      <4>2. Replay(p, e).data = p.data
        BY <4>1, ReplayQueued
      <4> QED BY <3>3, <4>2 DEF p, e
    <3> QED BY <3>2, <3>5 DEF m
  <2>12. \A j \in Nat : j \in T
    <3> HIDE DEF T
    <3> QED BY <2>10, <2>11, Induction
  <2>13. L(Len(log)).data = L(n).data
    <3>1. Len(log) - n - 1 \in Nat /\ n + 1 + (Len(log) - n - 1) = Len(log)
      BY <2>1, <2>2, SMT
    <3>2. Len(log) - n - 1 \in T
      <4> HIDE DEF T
      <4> QED BY <2>12, <3>1
    <3> QED BY <2>2, <3>1, <3>2, SMTT(30)
  <2> QED BY <2>3, <2>7, <2>13 DEF L
<1> DEFINE st == Loaded(file.base, file.log)
<1>1. /\ ~Up /\ server' = NewServer(Replayed(file).data) /\ conf' = conf
      /\ file' \in loadAppendOnlyFile(file) /\ child' = NoChild
  BY DEF restart
<1>2. Replayed(file) = st
  BY ReplayedIs
<1>3. /\ server'.run = "up" /\ server'.data = st.data /\ server'.aof_buf = <<>>
      /\ server'.aof_state = AOF_ON /\ server'.aof_selected_db = -1 /\ ~HasChild("aof")'
  BY <1>1, <1>2 DEF NewServer, HasChild, NoChild
<1>4. FileOK(file) /\ file.log \in Seq(Entry) /\ Len(file.log) \in 0..Len(file.log)
  BY SMT DEF IInv, FileOK
<1>5. Regular(file.base, file.log, conf.multi) /\ Prefix(st.data, server.data)
  BY <1>1 DEF LInv, FileInv, Kept, TheLog
<1>6. Fine(st, conf.multi)
  BY <1>4, <1>5, RegularAll
<1>7. st.data \in Seq(Write) /\ Whole(st.data) /\ st.multi \in BOOLEAN
  BY <1>6 DEF Fine
<1> DEFINE Same(f) == \E k \in 0..Len(file.log) :
             /\ f.base = file.base /\ f.log = First(file.log, k)
             /\ Loaded(file.base, First(file.log, k)).data = st.data
             /\ Loaded(file.base, First(file.log, k)).multi = FALSE
<1>8. ASSUME st.multi = FALSE PROVE \A f : f.base = file.base /\ f.log = file.log => Same(f)
  <2>1. First(file.log, Len(file.log)) = file.log
    BY <1>4, FirstAll
  <2> QED BY <1>4, <1>8, <2>1
<1>9. Same(file')
  <2>1. CASE file.torn = TRUE
    <3>1. file' = truncate(file, Len(file.log))
      BY <1>1, <2>1 DEF loadAppendOnlyFile
    <3>2. conf.torn = TRUE /\ file.base = <<>> /\ conf.multi = FALSE
      BY <2>1, LogTypes DEF TornInv, Separate
    <3>3. file'.base = file.base /\ file'.log = First(file.log, Len(file.log))
      BY <3>1, <3>2 DEF truncate, First
    <3>4. st.multi = FALSE
      BY <1>6, <3>2 DEF Fine
    <3>5. First(file.log, Len(file.log)) = file.log
      BY <1>4, FirstAll, SMTT(30)
    <3> QED BY <1>8, <3>3, <3>4, <3>5
  <2>2. CASE file.torn # TRUE /\ st.multi = TRUE
    <3>1. PICK n \in BeforeMulti(file.log) : file' = truncate(file, n)
      BY <1>1, <1>2, <2>2 DEF loadAppendOnlyFile
    <3>2. /\ n \in 1..Len(file.log)
          /\ ~Loaded(file.base, First(file.log, n)).multi
          /\ Loaded(file.base, First(file.log, n)).data = st.data
      BY <1>4, <1>5, <2>2, <1>OpenTransaction
    <3>3. Loaded(file.base, First(file.log, n)).multi \in BOOLEAN /\ n \in 0..Len(file.log)
      <4>1. n \in 0..Len(file.log)
        BY <1>4, <3>2, SMTT(30)
      <4> QED BY <1>5, <4>1 DEF Regular, Fine
    <3>4. file'.base = file.base /\ file'.log = First(file.log, n)
      BY <3>1, <3>2, SMT DEF truncate, First
    <3> QED BY <3>2, <3>3, <3>4
  <2>3. CASE file.torn # TRUE /\ st.multi = FALSE
    <3>2. file'.base = file.base /\ file'.log = file.log
      BY <1>1, <1>2, <1>4, <2>3 DEF loadAppendOnlyFile
    <3> QED BY <1>8, <2>3, <3>2
  <2> QED BY <1>7, <2>1, <2>2, <2>3
<1>10. PICK k \in 0..Len(file.log) :
             /\ file'.base = file.base /\ file'.log = First(file.log, k)
             /\ Loaded(file.base, First(file.log, k)).data = st.data
             /\ Loaded(file.base, First(file.log, k)).multi = FALSE
  BY <1>9
<1> DEFINE log == First(file.log, k)
<1>11. log \in Seq(Entry) /\ Regular(file.base, log, conf.multi)
  BY <1>4, <1>5, FirstProperties, RegularFirst
<1> HIDE DEF log
<1>12. Current(file.base, log, st.data, -1)
  BY <1>10 DEF Current, log
<1>13. Kept(file.base, log, st.data, conf.multi)
  BY <1>7, <1>11, <1>12, CurrentKept
<1>14. TheLog' = log
  <2>1. Up' /\ file'.log = log
    BY <1>3, <1>10 DEF Up, log
  <2>2. log \o <<>> = log
    BY <1>11, SMT
  <2> QED BY <1>3, <2>1, <2>2 DEF TheLog
<1>15. FileInv'
  BY <1>1, <1>3, <1>10, <1>12, <1>13, <1>14 DEF FileInv
<1>16. DataInv' /\ ChildInv'
  BY <1>3, <1>7, SMTT(30) DEF DataInv, ChildInv
<1> QED BY <1>3, <1>5, <1>7, <1>10, <1>15, <1>16 DEF LInv

-----------------------------------------------------------------------------
(* The log is complete *)

\* The invariant of the log.
LogInv == IInv /\ LInv /\ TornInv /\ Separate

\* Every step keeps LogInv.
LEMMA LogNext == LogInv /\ [Next]_vars => LogInv'
<1> SUFFICES ASSUME LogInv, [Next]_vars PROVE LogInv'
  BY SMTT(30)
<1>1. IInv /\ LInv /\ TornInv /\ Separate
  BY DEF LogInv
<1>2. IInv' /\ TornInv'
  BY <1>1, InvNext, TornNext
<1>3. conf' = conf
  BY ConfStays
<1>4. Separate'
  BY <1>1, <1>3 DEF Separate
<1>5. CASE UNCHANGED vars
  <2>1. UNCHANGED <<server, file, child, conf>>
    BY <1>5 DEF vars
  <2>2. LInv'
    BY <1>1, <2>1 DEF LInv, DataInv, FileInv, ChildInv, TheLog, Diff, Up, HasChild
  <2> QED BY <1>2, <1>4, <2>2 DEF LogInv
<1>6. CASE Next
  <2>1. LInv'
    BY <1>1, <1>6, LCommand, LOther, LBeforeSleep, LRewrite, LDone, LSwitch, LStop,
       LRestart DEF Next
  <2> QED BY <1>2, <1>4, <2>1, SMTT(30) DEF LogInv
<1> QED BY <1>5, <1>6, SMTT(30)

\* The invariant of the log.
THEOREM LogInvariance == Spec /\ Separate => []LogInv
<1>1. Init /\ Separate => LogInv
  BY InvInit, LInit, TornInit DEF LogInv
<1>2. LogInv /\ [Next]_vars => LogInv'
  BY LogNext, SMTT(30)
<1> QED BY <1>1, <1>2, PTL DEF Spec

\* While the AOF is on, the file and its buffer load to the dataset.
THEOREM LogCompleteAlways == Spec /\ Separate => []LogComplete
<1>1. LogInv => LogComplete
  <2> SUFFICES ASSUME LogInv, Up, server.aof_state = AOF_ON
               PROVE  LET r == Replayed([file EXCEPT !.log = @ \o server.aof_buf])
                      IN r.data = server.data /\ ~r.multi
    BY DEF LogComplete
  <2> DEFINE f == [file EXCEPT !.log = @ \o server.aof_buf]
  <2>1. f.base = file.base /\ f.log = TheLog
    BY DEF LogInv, IInv, FileOK, TheLog
  <2>2. Replayed(f) = Loaded(file.base, TheLog)
    <3>1. Replayed(f) = Loaded(f.base, f.log)
      BY ReplayedIs
    <3> QED BY <2>1, <3>1
  <2>3. Current(file.base, TheLog, server.data, server.aof_selected_db)
    BY DEF LogInv, LInv, FileInv
  <2> HIDE DEF f
  <2>4. Replayed(f).data = server.data /\ ~Replayed(f).multi
    BY <2>2, <2>3 DEF Current
  <2> QED BY <2>4 DEF f
<1> QED BY <1>1, LogInvariance, PTL

-----------------------------------------------------------------------------
(* The invariant of the answers *)

\* The entries of the file that the policy counts on.
Durably == IF conf.fsync = "always" THEN file.synced ELSE Len(file.log)

\* With appendfsync always nothing is left to the fsync thread, and what
\* waits for an answer is in the buffer or on the disk.
SyncInv ==
  conf.fsync = "always" =>
    /\ bio = <<>> /\ file.synced <= Len(file.log)
    /\ server.aof_state # AOF_ON => file.synced = Len(file.log)
    /\ Up /\ server.aof_state = AOF_ON /\ server.pending /\ ~conf.no_fsync_on_rewrite =>
         server.aof_buf # <<>> \/ file.synced = Len(file.log)

\* What was answered is in what the file is sure to load to.
AckInv ==
  /\ acked \in 0..Len(server.data)
  /\ Strict /\ server.aof_state = AOF_ON =>
       acked <= Len(Loaded(file.base, First(file.log, Durably)).data)

\* The invariant of what was answered.
AInv == FaultsInv /\ SyncInv /\ AckInv /\ ShutdownKeepsAll

\* Nothing was answered at the start.
LEMMA AInit == Init => AInv
<1> SUFFICES ASSUME Init PROVE AInv
  BY SMTT(30)
<1>1. /\ server.run = "up" /\ server.data = <<>> /\ server.pending = FALSE
      /\ server.aof_state = AOF_ON
      /\ file.base = <<>> /\ file.log = <<>> /\ file.synced = 0 /\ bio = <<>> /\ acked = 0
      /\ left = conf /\ conf \in Setups
  BY DEF Init, NewServer
<1>2. FaultsInv
  BY <1>1, SetupsAssumption, SMT DEF FaultsInv
<1>3. Durably = 0 /\ First(<<>>, 0) = <<>>
  <2>1. Durably = 0
    BY <1>1 DEF Durably
  <2>2. First(<<>>, 0) = <<>>
    <3>1. <<>> \in Seq(Entry)
      BY SMT
    <3> QED BY <3>1, FirstNone
  <2> QED BY <2>1, <2>2
<1>4. Loaded(<<>>, <<>>).data = <<>>
  <2>1. <<>> \in Seq(Write) /\ Whole(<<>>)
    BY SMTT(30) DEF Whole, Durable!Whole
  <2>2. Current(<<>>, <<>>, <<>>, -1)
    BY <2>1, KeptFork
  <2> QED BY <2>2 DEF Current
<1>5. AckInv
  <2>1. Loaded(file.base, First(file.log, Durably)).data = <<>>
    BY <1>1, <1>3, <1>4
  <2> QED BY <1>1, <2>1, SMT DEF AckInv
<1>6. SyncInv /\ ShutdownKeepsAll
  BY <1>1, SMTT(30) DEF SyncInv, ShutdownKeepsAll
<1> QED BY <1>2, <1>5, <1>6 DEF AInv

\* The invariant of both.
DurableInv == LogInv /\ AInv

\* Every step keeps DurableInv.
LEMMA DurableNext == DurableInv /\ [Next]_vars => DurableInv'
\* The log loads to no less when more of it counts.
<1>AckGrows. ASSUME IInv, LInv, AckInv, conf' = conf, server'.data = server.data, acked' = acked,
                    file'.base = file.base, server'.aof_state = AOF_ON => server.aof_state = AOF_ON,
                    NEW k \in 0..Len(TheLog), file'.log = First(TheLog, k),
                    Strict => /\ Durably \in 0..Len(file.log)
                              /\ Durably' \in Durably..k
             PROVE  AckInv'
  <2> USE <1>AckGrows
  <2>1. Strict' = Strict
    BY DEF Strict
  <2>2. acked' \in 0..Len(server'.data)
    BY DEF AckInv
  <2>3. ASSUME Strict, server'.aof_state = AOF_ON
        PROVE  acked' <= Len(Loaded(file'.base, First(file'.log, Durably')).data)
    <3> DEFINE m == Durably
               n == Durably'
               D(i) == Loaded(file.base, First(TheLog, i)).data
    <3>1. /\ TheLog \in Seq(Entry) /\ file.log \in Seq(Entry) /\ server.aof_buf \in Seq(Entry)
          /\ m \in 0..Len(file.log) /\ n \in m..k
      BY <2>3, LogTypes
    <3> HIDE DEF m, n
    <3>2. m \in 0..Len(TheLog) /\ n \in 0..k /\ n \in m..Len(TheLog)
      BY <3>1, SMT
    <3>3. First(file.log, m) = First(TheLog, m)
      BY <3>1, FirstOfConcat DEF TheLog
    <3>4. First(file'.log, n) = First(TheLog, n)
      BY <3>1, <3>2, FirstOfFirst
    <3>5. Regular(file.base, TheLog, conf.multi)
      BY DEF LInv, FileInv, Kept
    <3>6. Prefix(D(m), D(n))
      BY <3>1, <3>2, <3>5, Monotone
    <3>7. D(m) \in Seq(Write) /\ D(n) \in Seq(Write)
      <4>1. m \in 0..Len(TheLog) /\ n \in 0..Len(TheLog)
        BY <3>1, <3>2, SMT
      <4> QED BY <3>5, <4>1 DEF Regular, Fine
    <3>8. acked <= Len(D(m)) /\ acked \in Int
      BY <2>3, <3>3, SMT DEF AckInv, m
    <3> HIDE DEF D
    <3>9. Len(D(m)) <= Len(D(n))
      BY <3>6, <3>7 DEF Prefix, Durable!IsPrefix
    <3>10. acked <= Len(D(n))
      BY <3>7, <3>8, <3>9, SMTT(30)
    <3> QED BY <3>4, <3>10 DEF D, n
  <2> QED BY <2>1, <2>2, <2>3 DEF AckInv
\* A step that leaves the file, the buffer and what waits for an answer.
<1>AQuiet. ASSUME AInv, FaultsInv', conf' = conf, Up, server'.run = server.run,
                  server'.data = server.data, acked' = acked, file' = file, bio' = bio,
                  server'.pending = server.pending, server'.aof_buf = server.aof_buf,
                  \/ server'.aof_state = server.aof_state
                  \/ server.aof_state # AOF_ON /\ server'.aof_state # AOF_ON
           PROVE  AInv'
  <2> USE <1>AQuiet
  <2>1. Up' /\ server'.run # "shutdown" /\ Strict' = Strict /\ Durably' = Durably
    BY DEF Up, Strict, Durably
  <2>2. SyncInv'
    BY <2>1 DEF AInv, SyncInv
  <2>3. AckInv'
    <3>1. acked' \in 0..Len(server'.data)
      BY DEF AInv, AckInv
    <3>2. Strict' /\ server'.aof_state = AOF_ON =>
            acked' <= Len(Loaded(file'.base, First(file'.log, Durably')).data)
      BY <2>1 DEF AInv, AckInv
    <3> QED BY <3>1, <3>2 DEF AckInv
  <2>4. ShutdownKeepsAll'
    BY <2>1 DEF ShutdownKeepsAll
  <2> QED BY <2>2, <2>3, <2>4, SMTT(30) DEF AInv
\* The time, the rewrite up to its end, the child that saves an RDB file and
\* CONFIG SET appendonly yes.
<1>AOther. ASSUME IInv, AInv, FaultsInv',
                  \/ tick \/ bgrewriteaofCommand \/ startScheduledRewrite \/ bgsaveCommand
                  \/ backgroundSaveDoneHandler \/ aofChildWriteDiffData \/ aofReadDiffFromParent
                  \/ askToStop \/ aofChildPipeReadable \/ finishRewrite \/ rewriteFails
                  \/ startAppendOnly
           PROVE  AInv'
  <2> USE <1>AOther
  <2>1. ServerOK(server)
    BY DEF IInv
  <2>2. Up /\ UNCHANGED <<file, bio, acked, conf>>
    BY DEF tick, bgrewriteaofCommand, startScheduledRewrite, bgsaveCommand,
           backgroundSaveDoneHandler, aofChildWriteDiffData, Sending, Sent,
           aofReadDiffFromParent, askToStop, aofChildPipeReadable, finishRewrite, rewriteFails,
           startAppendOnly
  <2> DEFINE Same == /\ server'.run = server.run /\ server'.data = server.data
                     /\ server'.pending = server.pending /\ server'.aof_buf = server.aof_buf
  <2>3. CASE startAppendOnly
    <3> DEFINE on == [server EXCEPT !.aof_state = AOF_WAIT_REWRITE, !.second = FALSE,
                                    !.aof_bio_fsync_status = TRUE,
                                    !.aof_last_write_status = TRUE]
    <3>1. /\ ServerOK(on) /\ on.run = server.run /\ on.data = server.data
          /\ on.pending = server.pending /\ on.aof_buf = server.aof_buf
          /\ on.aof_state = AOF_WAIT_REWRITE
      BY <2>1 DEF ServerOK, ServerFields
    <3>2. \/ server' = [on EXCEPT !.aof_rewrite_scheduled = TRUE]
          \/ server' = rewriteAppendOnlyFileBackground(aofRewriteBufferReset(on))
      BY <2>3 DEF startAppendOnly
    <3> HIDE DEF on
    <3>3. Same /\ server'.aof_state = AOF_WAIT_REWRITE
      BY <3>1, <3>2 DEF rewriteAppendOnlyFileBackground, aofRewriteBufferReset, ServerOK,
                        ServerFields
    <3>4. server.aof_state # AOF_ON /\ AOF_WAIT_REWRITE # AOF_ON
      BY <2>3 DEF startAppendOnly, AOF_OFF, AOF_ON, AOF_WAIT_REWRITE
    <3> QED BY <2>2, <3>3, <3>4, <1>AQuiet
  <2>4. CASE ~startAppendOnly
    <3>1. \/ server' = server
          \/ server' = [server EXCEPT !.second = TRUE,
                                      !.postponed = IF @ \in 1..2 THEN @ + 1 ELSE @]
          \/ server' = [server EXCEPT !.aof_rewrite_scheduled = TRUE]
          \/ server' = rewriteAppendOnlyFileBackground(server)
          \/ \E rest : server' = [server EXCEPT !.aof_rewrite_buf = rest]
          \/ server' = [server EXCEPT !.aof_stop_sending_diff = TRUE]
      BY <2>4 DEF tick, bgrewriteaofCommand, startScheduledRewrite, bgsaveCommand,
           backgroundSaveDoneHandler, aofChildWriteDiffData, Sent,
           aofReadDiffFromParent, askToStop, aofChildPipeReadable, finishRewrite, rewriteFails
    <3>2. Same /\ server'.aof_state = server.aof_state
      BY <2>1, <3>1 DEF rewriteAppendOnlyFileBackground, ServerOK, ServerFields
    <3> QED BY <2>2, <3>2, <1>AQuiet
  <2> QED BY <2>3, <2>4
\* The fsync thread.
<1>ABio. ASSUME IInv, AInv, FaultsInv', bioProcessBackgroundJobs
         PROVE  AInv'
  <2> USE <1>ABio
  <2>1. /\ Up /\ bio # <<>> /\ UNCHANGED <<acked, conf>>
        /\ \/ file' = [file EXCEPT !.synced = IF @ < Head(bio) THEN Head(bio) ELSE @]
           \/ file' = file
        /\ \E status : server' = [server EXCEPT !.aof_bio_fsync_status = status]
    BY DEF bioProcessBackgroundJobs
  <2>2. conf.fsync # "always"
    BY <2>1 DEF AInv, SyncInv
  <2>3. file'.base = file.base /\ file'.log = file.log
    BY <2>1 DEF IInv, FileOK
  <2>4. /\ server'.run = server.run /\ server'.data = server.data
        /\ server'.aof_state = server.aof_state
    BY <2>1 DEF IInv, ServerOK, ServerFields
  <2>5. Strict' = Strict /\ Durably' = Durably /\ server'.run # "shutdown"
    BY <2>1, <2>2, <2>3, <2>4 DEF Strict, Durably, Up
  <2>6. AckInv'
    <3>1. acked' \in 0..Len(server'.data)
      BY <2>1, <2>4 DEF AInv, AckInv
    <3>2. Strict' /\ server'.aof_state = AOF_ON =>
            acked' <= Len(Loaded(file'.base, First(file'.log, Durably')).data)
      BY <2>1, <2>3, <2>4, <2>5 DEF AInv, AckInv
    <3> QED BY <3>1, <3>2 DEF AckInv
  <2>7. SyncInv' /\ ShutdownKeepsAll'
    BY <2>1, <2>2, <2>5 DEF SyncInv, ShutdownKeepsAll
  <2> QED BY <2>6, <2>7 DEF AInv
\* The clients' commands.
<1>ACommand. ASSUME IInv, LInv, LInv', AInv, FaultsInv', NEW d \in conf.dbs, command(d) \/ execCommand(d),
                    Prefix(server.data, server'.data)
             PROVE  AInv'
  <2> USE <1>ACommand
  <2>0. ServerOK(server)
    BY DEF IInv
  <2>1. PICK writes, cmds : Executed(d, writes, cmds) /\ cmds \in Seq(Entry) /\ cmds # <<>>
    <3>1. left.writes \in Int
      BY DEF IInv, BudgetOK
    <3>2. /\ Multi \in Entry /\ Exec \in Entry
          /\ \A part \in 0..2 : Command(left.writes, part) \in Entry
      BY <3>1, SMTT(30) DEF Entry
    <3> DEFINE n == left.writes
               one == <<Command(n, 0)>>
               many == <<Multi, Command(n, 1), Command(n, 2), Exec>>
    <3>3. one \in Seq(Entry) /\ one # <<>> /\ many \in Seq(Entry) /\ many # <<>>
      BY <3>2, SMT
    <3> QED BY <3>3 DEF command, execCommand
  <2>2. /\ UNCHANGED <<file, child, conf, bio, acked>> /\ Up
        /\ server' = feedAppendOnlyFile([server EXCEPT !.data = @ \o writes, !.pending = TRUE],
                                        d, cmds)
    BY <2>1 DEF Executed
  <2>3. /\ server'.aof_state = server.aof_state /\ server'.run = server.run
    BY <2>0, <2>2 DEF feedAppendOnlyFile, ServerOK, ServerFields
  <2>4. server.aof_state = AOF_ON => server'.aof_buf # <<>>
    <3> SUFFICES ASSUME server.aof_state = AOF_ON PROVE server'.aof_buf # <<>>
      OBVIOUS
    <3> DEFINE s == [server EXCEPT !.data = @ \o writes, !.pending = TRUE]
               buf == (IF d # server.aof_selected_db THEN <<Select(d)>> ELSE <<>>) \o cmds
    <3>1. /\ s.aof_state = AOF_ON /\ s.aof_buf = server.aof_buf /\ AOF_ON # AOF_OFF
          /\ s.aof_selected_db = server.aof_selected_db /\ DOMAIN s = ServerFields
      BY <2>0 DEF ServerOK, ServerFields, AOF_ON, AOF_OFF
    <3>2. buf \in Seq(Entry) /\ buf # <<>>
      <4>1. Select(d) \in Entry
        BY SetupsAssumption, SMT DEF Entry, IInv, BudgetOK
      <4> QED BY <2>1, <4>1, SMTT(30)
    <3>3. server' = feedAppendOnlyFile(s, d, cmds)
      BY <2>2
    <3> HIDE DEF s
    <3>4. server'.aof_buf = server.aof_buf \o buf
      BY <3>1, <3>3 DEF feedAppendOnlyFile, ServerFields
    <3> HIDE DEF buf
    <3> QED BY <2>0, <3>2, <3>4, SMTT(30) DEF ServerOK
  <2>5. Strict' = Strict /\ Durably' = Durably /\ server'.run # "shutdown"
    BY <2>2, <2>3 DEF Strict, Durably, Up
  <2>6. AckInv'
    <3>1. acked' \in 0..Len(server'.data)
      <4>1. server.data \in Seq(Write) /\ server'.data \in Seq(Write)
        BY DEF LInv, DataInv
      <4>2. Len(server.data) <= Len(server'.data)
        BY <4>1 DEF Prefix, Durable!IsPrefix
      <4> QED BY <2>2, <4>1, <4>2, SMTT(30) DEF AInv, AckInv
    <3>2. Strict' /\ server'.aof_state = AOF_ON =>
            acked' <= Len(Loaded(file'.base, First(file'.log, Durably')).data)
      BY <2>2, <2>3, <2>5 DEF AInv, AckInv
    <3> QED BY <3>1, <3>2 DEF AckInv
  <2>7. SyncInv'
    BY <2>2, <2>3, <2>4 DEF AInv, SyncInv, Up
  <2>8. ShutdownKeepsAll'
    BY <2>5 DEF ShutdownKeepsAll
  <2> QED BY <2>6, <2>7, <2>8 DEF AInv
\* Where the file holds the whole log, and the policy counts on all of it,
\* everything may be answered.
<1>AckWhole. ASSUME IInv', LInv', Up', acked' \in 0..Len(server'.data),
                    Strict' /\ server'.aof_state = AOF_ON =>
                      TheLog' = file'.log /\ Durably' = Len(file'.log)
             PROVE  AckInv'
  <2> USE <1>AckWhole
  <2> SUFFICES ASSUME Strict', server'.aof_state = AOF_ON
               PROVE  acked' <= Len(Loaded(file'.base, First(file'.log, Durably')).data)
    BY DEF AckInv
  <2>1. Current(file'.base, TheLog', server'.data, server'.aof_selected_db)
    BY DEF LInv, FileInv
  <2>2. Loaded(file'.base, file'.log).data = server'.data
    BY <2>1 DEF Current
  <2>3. First(file'.log, Len(file'.log)) = file'.log
    BY FirstAll DEF IInv, FileOK
  <2>4. Durably' = Len(file'.log)
    OBVIOUS
  <2>5. Len(server'.data) \in Nat
    BY SMT DEF LInv, DataInv
  <2> QED BY <2>2, <2>3, <2>4, <2>5, SMTT(30)
\* What a flush does to the file.
<1>FlushGrows. ASSUME IInv, SyncInv, Up, NEW force \in BOOLEAN,
                      NEW o \in flushAppendOnlyFile(server, force)
               PROVE  /\ ServerOK(o.server) /\ FileOK(o.file)
                      /\ SameFields(server, o.server) /\ o.file.base = file.base
                      /\ o.server.run \in {server.run, "crashed"}
                      /\ \E k \in 0..Len(TheLog) :
                           /\ o.file.log = First(TheLog, k) /\ Len(o.file.log) = k
                           /\ Len(file.log) \in 0..k
                      /\ conf.fsync = "always" =>
                           /\ o.bio = <<>>
                           /\ o.file.synced \in file.synced..Len(o.file.log)
                           /\ file.synced \in 0..Len(file.log)
  <2> USE <1>FlushGrows
  <2> DEFINE L == file.log \o server.aof_buf
  <2>1. ServerOK(server) /\ FileOK(file) /\ bio \in Seq(Nat)
    BY DEF IInv
  <2>2. ServerOK(o.server) /\ FileOK(o.file) /\ o.server.run \in {server.run, "crashed"}
    BY <2>1, FlushStep
  <2>3. /\ SameFields(server, o.server) /\ o.file.base = file.base
        /\ \E k \in Len(file.log)..Len(L) : o.file.log = First(L, k)
    BY <2>1, FlushFile
  <2>4. L \in Seq(Entry) /\ Len(file.log) \in Nat /\ Len(L) \in Nat /\ file.synced \in Nat
    BY <2>1, SMT DEF FileOK, ServerOK
  <2>5. TheLog = L
    BY DEF TheLog
  <2> HIDE DEF L
  <2>6. PICK k \in Len(file.log)..Len(L) : o.file.log = First(L, k)
    BY <2>3
  <2>7. k \in 0..Len(L) /\ Len(file.log) \in 0..k
    BY <2>4, SMT
  <2>8. Len(o.file.log) = k
    BY <2>4, <2>6, <2>7, FirstProperties, SMTT(30)
  <2>9. ASSUME conf.fsync = "always"
        PROVE  /\ o.bio = <<>>
               /\ o.file.synced \in file.synced..Len(o.file.log)
               /\ file.synced \in 0..Len(file.log)
    <3>1. o.bio = bio /\ o.file.synced \in {file.synced, Len(o.file.log)}
      BY <2>1, <2>9, FlushSync
    <3>2. bio = <<>> /\ file.synced <= Len(file.log)
      BY <2>9 DEF SyncInv
    <3>3. file.synced \in 0..Len(file.log)
      BY <2>4, <3>2, SMTT(30)
    <3>4. file.synced <= k /\ k \in Int
      BY <2>4, <2>7, <3>2, SMTT(30)
    <3> QED BY <2>4, <2>8, <3>1, <3>2, <3>3, <3>4, SMTT(30)
  <2> QED BY <2>2, <2>3, <2>5, <2>6, <2>7, <2>8, <2>9, SMTT(30)
\* The event loop writes the buffer and answers.
<1>ABeforeSleep. ASSUME IInv, IInv', LInv, LInv', AInv, FaultsInv', beforeSleep
                 PROVE  AInv'
  <2> USE <1>ABeforeSleep
  <2>1. PICK o \in Possible(IF server.aof_state = AOF_ON
                              THEN flushAppendOnlyFile(server, FALSE)
                              ELSE {Outcome(server, file, bio, 0)}) :
          /\ server' = [o.server EXCEPT !.pending = FALSE]
          /\ file' = o.file /\ bio' = o.bio /\ left' = Faulted(o)
          /\ acked' = IF server.pending /\ o.server.run = "up" THEN Len(server.data) ELSE acked
    BY DEF beforeSleep
  <2>2. Up /\ conf' = conf /\ child' = child
    BY DEF beforeSleep
  <2>3. /\ ServerOK(server) /\ FileOK(file) /\ bio \in Seq(Nat)
        /\ FaultsInv /\ SyncInv /\ AckInv /\ server.data \in Seq(Write)
    BY DEF IInv, AInv, LInv, DataInv
  <2>4. CASE server.aof_state = AOF_ON
    <3> DEFINE L == file.log \o server.aof_buf
    <3>1. FALSE \in BOOLEAN /\ o \in Possible(flushAppendOnlyFile(server, FALSE))
      BY <2>1, <2>4
    <3>2. /\ o \in flushAppendOnlyFile(server, FALSE)
          /\ o.faults \in {0, 1} /\ o.faults <= left.faults
      BY <3>1, FlushFaults
    <3>3. /\ ServerOK(o.server) /\ FileOK(o.file)
          /\ SameFields(server, o.server) /\ o.file.base = file.base
          /\ o.server.run \in {server.run, "crashed"}
          /\ \E k \in 0..Len(TheLog) :
               /\ o.file.log = First(TheLog, k) /\ Len(o.file.log) = k
               /\ Len(file.log) \in 0..k
          /\ conf.fsync = "always" =>
               /\ o.bio = <<>>
               /\ o.file.synced \in file.synced..Len(o.file.log)
               /\ file.synced \in 0..Len(file.log)
      BY <2>2, <2>3, <3>1, <3>2, <1>FlushGrows
    <3>4. /\ server'.run = o.server.run /\ server'.aof_state = server.aof_state
          /\ server'.data = server.data /\ server'.aof_buf = o.server.aof_buf
          /\ server'.pending = FALSE /\ server'.run # "shutdown"
      BY <2>1, <2>2, <3>3, SMTT(30) DEF SameFields, ServerOK, ServerFields, Up
    <3>5. SyncInv'
      <4> SUFFICES ASSUME conf.fsync = "always"
                   PROVE  bio' = <<>> /\ file'.synced <= Len(file'.log)
        BY <2>2, <2>4, <3>4, SMTT(30) DEF SyncInv
      <4>1. file.synced \in Int /\ Len(o.file.log) \in Int
        BY <2>3, <3>3, SMTT(30) DEF FileOK
      <4> QED BY <2>1, <3>3, <4>1, SMTT(30)
    <3>6. AckInv'
      <4>1. CASE server.pending /\ o.server.run = "up"
        <5>1. acked' \in 0..Len(server'.data)
          BY <2>1, <2>3, <3>4, <4>1, SMTT(30)
        <5>2. ASSUME Strict PROVE TheLog' = file'.log /\ Durably' = Len(file'.log)
          <6>1. o.file.log \o o.server.aof_buf = L
            BY <2>3, <3>1, <3>2, <4>1, FlushStep
          <6>2. TheLog' = L
            BY <2>1, <3>4, <4>1, <6>1 DEF TheLog, Up
          <6>3. CASE conf.fsync = "always" /\ ~conf.no_fsync_on_rewrite
            <7>1. /\ server.aof_buf = <<>> => o.file = file
                  /\ o.file.log = L
                  /\ server.aof_buf = <<>> \/ o.file.synced = Len(L)
              BY <2>3, <3>1, <3>2, <4>1, <6>3, FlushSync
            <7>2. server.aof_buf = <<>> => file.synced = Len(file.log)
              BY <2>2, <2>3, <2>4, <4>1, <6>3 DEF SyncInv
            <7>3. o.file.synced = Len(o.file.log)
              BY <7>1, <7>2
            <7> QED BY <2>1, <2>2, <6>2, <6>3, <7>1, <7>3 DEF Durably
          <6>4. CASE conf.fsync = "no" /\ conf.faults = 0
            <7>1. o.faults = 0
              BY <2>3, <3>2, <6>4, SMTT(30) DEF FaultsInv
            <7>2. conf.fsync # "everysec"
              BY <6>4
            <7>3. o.file.log = L
              BY <2>3, <3>1, <3>2, <7>1, <7>2, FlushSync
            <7> QED BY <2>1, <2>2, <6>2, <6>4, <7>3 DEF Durably
          <6> QED BY <5>2, <6>3, <6>4 DEF Strict
        <5>3. Strict' = Strict /\ Up'
          BY <2>2, <3>4, <4>1 DEF Strict, Up
        <5> QED BY <5>1, <5>2, <5>3, <1>AckWhole
      <4>2. CASE ~(server.pending /\ o.server.run = "up")
        <5>1. acked' = acked
          BY <2>1, <4>2
        <5>2. PICK k \in 0..Len(TheLog) :
                 /\ o.file.log = First(TheLog, k) /\ Len(o.file.log) = k
                 /\ Len(file.log) \in 0..k
          BY <3>3
        <5>3. ASSUME Strict PROVE Durably \in 0..Len(file.log) /\ Durably' \in Durably..k
          <6>1. CASE conf.fsync = "always"
            BY <2>1, <2>2, <3>3, <5>2, <6>1 DEF Durably
          <6>2. CASE conf.fsync = "no"
            <7>1. Durably = Len(file.log) /\ Durably' = k
              BY <2>1, <2>2, <5>2, <6>2 DEF Durably
            <7>2. Len(file.log) \in 0..k
              BY <5>2
            <7>3. k \in Int /\ Len(file.log) \in Int
              BY <7>2, SMT
            <7> HIDE DEF Durably
            <7> QED BY <7>1, <7>2, <7>3, SMTT(30)
          <6> QED BY <5>3, <6>1, <6>2 DEF Strict
        <5> QED BY <2>1, <2>2, <2>3, <3>3, <3>4, <5>1, <5>2, <5>3, <1>AckGrows
      <4> QED BY <4>1, <4>2
    <3> QED BY <3>4, <3>5, <3>6 DEF AInv, ShutdownKeepsAll
  <2>5. CASE server.aof_state # AOF_ON
    <3>1. o = Outcome(server, file, bio, 0)
      BY <2>1, <2>5 DEF Possible
    <3>2. file' = file /\ bio' = bio /\ server' = [server EXCEPT !.pending = FALSE]
      BY <2>1, <3>1 DEF Outcome
    <3>3. /\ server'.run = "up" /\ server'.aof_state = server.aof_state
          /\ server'.data = server.data
      BY <2>2, <2>3, <3>2 DEF ServerOK, ServerFields, Up
    <3>4. acked' \in 0..Len(server'.data)
      BY <2>1, <2>3, <3>3, SMT DEF AckInv
    <3>5. AckInv'
      BY <2>5, <3>3, <3>4 DEF AckInv
    <3>6. SyncInv'
      BY <2>2, <2>3, <2>5, <3>2, <3>3 DEF SyncInv
    <3>7. ShutdownKeepsAll'
      BY <3>3 DEF ShutdownKeepsAll
    <3> QED BY <3>5, <3>6, <3>7 DEF AInv
  <2> QED BY <2>4, <2>5, SMTT(30)
\* There is no job to be closed.
<1>ClosedEmpty. Closed(<<>>) = <<>>
  BY SMT DEF Closed
\* The end of a rewrite.
<1>ADone. ASSUME IInv, IInv', LInv, LInv', AInv, FaultsInv', backgroundRewriteDoneHandler
          PROVE  AInv'
  <2> USE <1>ADone
  <2>1. /\ Up /\ HasChild("aof") /\ UNCHANGED <<conf, acked>>
    BY DEF backgroundRewriteDoneHandler
  <2>2. /\ ChildOK(child) /\ ServerOK(server) /\ SyncInv /\ AckInv
        /\ (server.aof_state # AOF_ON => server.aof_buf = <<>>)
    BY <2>1 DEF IInv, AInv, LInv, DataInv
  <2>3. ASSUME NEW s, ServerOK(s)
        PROVE  /\ RewriteCleanup(s).run = s.run /\ RewriteCleanup(s).aof_state = s.aof_state
               /\ RewriteCleanup(s).data = s.data /\ RewriteCleanup(s).aof_buf = s.aof_buf
               /\ RewriteCleanup(s).pending = s.pending
    BY <2>3 DEF RewriteCleanup, aofRewriteBufferReset, ServerOK, ServerFields
  <2>4. CASE server' = RewriteCleanup(server) /\ file' = file /\ bio' = bio
    <3>1. /\ server'.run = server.run /\ server'.aof_state = server.aof_state
          /\ server'.data = server.data /\ server'.pending = server.pending
          /\ server'.aof_buf = server.aof_buf
      BY <2>2, <2>3, <2>4
    <3> QED BY <2>1, <2>4, <3>1, <1>AQuiet
  <2>5. CASE /\ server' = RewrittenServer /\ file' = RewrittenFile
             /\ conf.fsync # "everysec" => bio' = Closed(bio)
    <3> DEFINE s == IF server.aof_state = AOF_OFF THEN server
                    ELSE [server EXCEPT !.aof_selected_db = -1, !.behind = FALSE,
                                        !.second = FALSE, !.aof_buf = <<>>,
                                        !.aof_state = AOF_ON]
    <3>1. /\ conf.fsync = "always" => file'.synced = Len(file'.log)
      BY <2>5 DEF RewrittenFile
    <3>2. /\ ServerOK(s) /\ s.run = server.run /\ s.data = server.data /\ s.aof_buf = <<>>
      BY <2>2, SMT DEF ServerOK, ServerFields, AOF_OFF, AOF_ON
    <3>3. server' = RewriteCleanup(s)
      BY <2>5 DEF RewrittenServer
    <3> HIDE DEF s
    <3>4. /\ server'.run = "up" /\ server'.data = server.data /\ server'.aof_buf = <<>>
      BY <2>1, <2>3, <3>2, <3>3 DEF Up
    <3>5. Up' /\ TheLog' = file'.log
      <4>1. file'.log \in Seq(Entry)
        BY DEF IInv, FileOK
      <4>2. file'.log \o <<>> = file'.log
        BY <4>1, SMT
      <4> QED BY <3>4, <4>2 DEF Up, TheLog
    <3>6. Durably' = Len(file'.log)
      BY <2>1, <3>1 DEF Durably
    <3>7. acked' \in 0..Len(server'.data)
      BY <2>1, <2>2, <3>4 DEF AckInv
    <3>8. AckInv'
      BY <3>5, <3>6, <3>7, <1>AckWhole
    <3>9. SyncInv'
      <4> SUFFICES ASSUME conf.fsync = "always"
                   PROVE  bio' = <<>> /\ file'.synced <= Len(file'.log)
        BY <2>1, <3>1 DEF SyncInv
      <4>1. bio' = <<>>
        BY <2>2, <2>5, <1>ClosedEmpty, SMTT(30) DEF SyncInv
      <4>2. Len(file'.log) \in Nat
        BY SMT DEF IInv, FileOK
      <4> QED BY <3>1, <4>1, <4>2, SMT
    <3>10. ShutdownKeepsAll'
      BY <3>4 DEF ShutdownKeepsAll
    <3> QED BY <3>8, <3>9, <3>10 DEF AInv
  <2> QED BY <2>4, <2>5 DEF backgroundRewriteDoneHandler
\* A step that flushes, and syncs or not.
<1>AFlushed. ASSUME IInv, LInv, SyncInv, AckInv, Up, NEW force \in BOOLEAN,
                    NEW o \in flushAppendOnlyFile(server, force),
                    conf' = conf, acked' = acked, server'.data = server.data,
                    server'.aof_state = AOF_ON => server.aof_state = AOF_ON,
                    file' = fsync(o.file) \/ file' = o.file
             PROVE  /\ AckInv' /\ file'.log = o.file.log
                    /\ conf.fsync = "always" => file'.synced <= Len(file'.log)
  <2> USE <1>AFlushed
  <2>1. /\ ServerOK(o.server) /\ FileOK(o.file)
        /\ SameFields(server, o.server) /\ o.file.base = file.base
        /\ \E k \in 0..Len(TheLog) :
             /\ o.file.log = First(TheLog, k) /\ Len(o.file.log) = k
             /\ Len(file.log) \in 0..k
        /\ conf.fsync = "always" =>
             /\ o.file.synced \in file.synced..Len(o.file.log)
             /\ file.synced \in 0..Len(file.log)
    BY <1>FlushGrows
  <2>2. /\ file'.log = o.file.log /\ file'.base = file.base
        /\ file'.synced \in {o.file.synced, Len(o.file.log)}
    BY <2>1 DEF fsync, FileOK
  <2>3. PICK k \in 0..Len(TheLog) :
               /\ o.file.log = First(TheLog, k) /\ Len(o.file.log) = k
               /\ Len(file.log) \in 0..k
    BY <2>1
  <2>4. k \in Int
    BY LogTypes, SMT
  <2>5. conf.fsync = "always" =>
          /\ file'.synced \in file.synced..k
          /\ file.synced \in 0..Len(file.log)
    <3> SUFFICES ASSUME conf.fsync = "always"
                 PROVE  file'.synced \in file.synced..k /\ file.synced \in 0..Len(file.log)
      OBVIOUS
    <3>1. file.synced \in 0..Len(file.log) /\ o.file.synced \in file.synced..k
      BY <2>1, <2>3
    <3>2. k \in file.synced..k
      BY <2>4, <3>1, SMT
    <3> QED BY <2>2, <2>3, <3>1, <3>2
  <2>6. ASSUME Strict PROVE Durably \in 0..Len(file.log) /\ Durably' \in Durably..k
    <3>1. CASE conf.fsync = "always"
      BY <2>5, <3>1 DEF Durably
    <3>2. CASE conf.fsync = "no"
      <4>1. Durably = Len(file.log) /\ Durably' = k
        BY <2>2, <2>3, <3>2 DEF Durably
      <4>2. Len(file.log) \in 0..k
        BY <2>3
      <4> HIDE DEF Durably
      <4> QED BY <2>4, <4>1, <4>2, SMT
    <3> QED BY <2>6, <3>1, <3>2 DEF Strict
  <2>7. AckInv'
    BY <2>2, <2>3, <2>6, <1>AckGrows
  <2>8. conf.fsync = "always" => file'.synced <= Len(file'.log)
    BY <2>2, <2>3, <2>4, <2>5, SMTT(30)
  <2> QED BY <2>2, <2>7, <2>8
\* CONFIG SET appendonly no.
<1>AStopAppendOnly. ASSUME IInv, LInv, LInv', AInv, FaultsInv', stopAppendOnly
                    PROVE  AInv'
  <2> USE <1>AStopAppendOnly
  <2>1. PICK o \in Possible(flushAppendOnlyFile(server, TRUE)) :
          /\ file' = IF o.server.run = "up" THEN fsync(o.file) ELSE o.file
          /\ bio' = Closed(o.bio)
          /\ server' = IF o.server.run # "up" THEN o.server
                  ELSE [(IF HasChild("aof") THEN aofRewriteBufferReset(o.server) ELSE o.server)
                         EXCEPT !.aof_selected_db = -1, !.aof_state = AOF_OFF,
                                !.aof_rewrite_scheduled = FALSE, !.aof_buf = <<>>,
                                !.behind = FALSE, !.second = FALSE]
    BY DEF stopAppendOnly
  <2>2. Up /\ conf' = conf /\ acked' = acked
    BY DEF stopAppendOnly
  <2>3. TRUE \in BOOLEAN /\ o \in flushAppendOnlyFile(server, TRUE)
    BY <2>1 DEF Possible
  <2>4. /\ ServerOK(server) /\ FileOK(file) /\ SyncInv /\ AckInv
        /\ server.aof_state # AOF_ON => server.aof_buf = <<>>
    BY <2>2 DEF IInv, AInv, LInv, DataInv
  <2>5. /\ ServerOK(o.server) /\ FileOK(o.file) /\ SameFields(server, o.server)
        /\ o.server.run \in {server.run, "crashed"}
        /\ conf.fsync = "always" => o.bio = <<>>
    BY <2>2, <2>3, <2>4, <1>FlushGrows
  <2>6. /\ conf.fsync = "always" /\ server.aof_buf = <<>> => o.server = server
    BY <2>3, <2>4, FlushSync
  <2>7. /\ server'.data = server.data /\ server'.run = o.server.run
        /\ IF o.server.run = "up" THEN server'.aof_state = AOF_OFF
           ELSE server'.aof_state = server.aof_state
    <3> DEFINE s == IF HasChild("aof") THEN aofRewriteBufferReset(o.server) ELSE o.server
    <3>1. ServerOK(s) /\ s.data = server.data /\ s.run = o.server.run
      BY <2>5, SMT DEF SameFields, aofRewriteBufferReset, ServerOK, ServerFields
    <3>2. IF o.server.run # "up" THEN server' = o.server
          ELSE server' = [s EXCEPT !.aof_selected_db = -1, !.aof_state = AOF_OFF,
                              !.aof_rewrite_scheduled = FALSE, !.aof_buf = <<>>,
                              !.behind = FALSE, !.second = FALSE]
      BY <2>1
    <3> HIDE DEF s
    <3> QED BY <2>5, <3>1, <3>2 DEF SameFields, ServerOK, ServerFields
  <2>8. /\ server'.aof_state = AOF_ON => server.aof_state = AOF_ON
        /\ server'.run # "shutdown"
    BY <2>2, <2>5, <2>7 DEF AOF_ON, AOF_OFF, Up
  <2>9. file' = fsync(o.file) \/ file' = o.file
    BY <2>1
  <2>10. /\ AckInv' /\ file'.log = o.file.log
         /\ conf.fsync = "always" => file'.synced <= Len(file'.log)
    BY <2>2, <2>3, <2>4, <2>7, <2>8, <2>9, <1>AFlushed
  <2>11. SyncInv'
    <3> SUFFICES ASSUME conf.fsync = "always"
                 PROVE  /\ bio' = <<>> /\ file'.synced <= Len(file'.log)
                        /\ server'.aof_state # AOF_ON => file'.synced = Len(file'.log)
                        /\ Up' /\ server'.aof_state = AOF_ON => FALSE
      BY <2>2 DEF SyncInv
    <3>1. bio' = <<>>
      BY <2>1, <2>5, <1>ClosedEmpty
    <3>2. Up' /\ server'.aof_state = AOF_ON => FALSE
      BY <2>7 DEF Up, AOF_ON, AOF_OFF
    <3>3. ASSUME server'.aof_state # AOF_ON PROVE file'.synced = Len(file'.log)
      <4>1. o.server.run = "up"
        <5> SUFFICES ASSUME o.server.run # "up" PROVE FALSE
          OBVIOUS
        <5>1. server.aof_state # AOF_ON
          BY <2>7, <3>3
        <5> QED BY <2>2, <2>4, <2>6, <5>1 DEF Up
      <4>2. file' = fsync(o.file)
        BY <2>1, <4>1
      <4> QED BY <2>5, <4>2 DEF fsync, FileOK
    <3> QED BY <2>10, <3>1, <3>2, <3>3
  <2>12. ShutdownKeepsAll'
    BY <2>8 DEF ShutdownKeepsAll
  <2> QED BY <2>10, <2>11, <2>12 DEF AInv
\* The server shuts down in order.
<1>AShutDown. ASSUME IInv, LInv, AInv, FaultsInv', prepareForShutdown
              PROVE  AInv'
  <2> USE <1>AShutDown
  <2> DEFINE outcomes == IF server.aof_state = AOF_OFF THEN {Outcome(server, file, bio, 0)}
                         ELSE flushAppendOnlyFile(server, TRUE)
  <2>1. PICK o \in Possible(outcomes) :
          /\ left' = [Faulted(o) EXCEPT !.crashes = @ - 1]
          /\ file' = IF server.aof_state # AOF_OFF /\ o.server.run = "up"
                       THEN fsync(o.file) ELSE o.file
          /\ server' = [o.server EXCEPT !.run = IF @ = "up" THEN "shutdown" ELSE @]
    BY DEF prepareForShutdown, ShutDown
  <2>2. Up /\ conf' = conf /\ acked' = acked /\ bio' = <<>>
    BY DEF prepareForShutdown, ShutDown
  <2>3. /\ ServerOK(server) /\ FileOK(file) /\ SyncInv /\ AckInv /\ FaultsInv
        /\ server.aof_state # AOF_ON => server.aof_buf = <<>>
    BY <2>2 DEF IInv, AInv, LInv, DataInv
  <2>4. CASE server.aof_state = AOF_OFF
    <3>1. o.server = server /\ o.file = file
      BY <2>1, <2>4, SMT DEF Possible, Outcome
    <3>2. /\ file' = file /\ server'.aof_state = AOF_OFF /\ server'.data = server.data
          /\ server'.run # "up" /\ AOF_OFF # AOF_ON
      BY <2>1, <2>3, <2>4, <3>1 DEF ServerOK, ServerFields, AOF_ON, AOF_OFF
    <3>3. AckInv'
      BY <2>2, <2>3, <3>2 DEF AckInv
    <3>4. SyncInv'
      BY <2>2, <2>3, <2>4, <3>2 DEF SyncInv
    <3>5. ShutdownKeepsAll'
      BY <3>2 DEF ShutdownKeepsAll
    <3> QED BY <3>3, <3>4, <3>5 DEF AInv
  <2>5. CASE server.aof_state # AOF_OFF
    <3>1. TRUE \in BOOLEAN /\ o \in Possible(flushAppendOnlyFile(server, TRUE))
      BY <2>1, <2>5
    <3>2. o \in flushAppendOnlyFile(server, TRUE) /\ o.faults \in {0, 1}
      BY <3>1, FlushFaults
    <3>3. /\ ServerOK(o.server) /\ FileOK(o.file) /\ SameFields(server, o.server)
          /\ o.file.base = file.base
          /\ o.server.run \in {server.run, "crashed"}
      BY <2>2, <2>3, <3>1, <3>2, <1>FlushGrows
    <3>4. conf.fsync = "always" /\ server.aof_buf = <<>> => o.server = server
      BY <2>3, <3>1, <3>2, FlushSync
    <3>5. /\ server'.data = server.data /\ server'.aof_state = server.aof_state
          /\ server'.run = IF o.server.run = "up" THEN "shutdown" ELSE o.server.run
          /\ server'.run # "up"
      BY <2>1, <3>3 DEF SameFields, ServerOK, ServerFields
    <3>6. file' = fsync(o.file) \/ file' = o.file
      BY <2>1
    <3>7. /\ AckInv' /\ file'.log = o.file.log
          /\ conf.fsync = "always" => file'.synced <= Len(file'.log)
      BY <2>2, <2>3, <3>1, <3>2, <3>5, <3>6, <1>AFlushed
    <3>8. o.server.run = "up" => file' = fsync(o.file) /\ file'.synced = Len(file'.log)
      BY <2>1, <2>5, <3>3 DEF fsync, FileOK
    <3>9. SyncInv'
      <4> SUFFICES ASSUME conf.fsync = "always", server'.aof_state # AOF_ON
                   PROVE  file'.synced = Len(file'.log)
        BY <2>2, <3>5, <3>7 DEF SyncInv, Up
      <4>1. o.server = server
        BY <2>3, <3>4, <3>5
      <4> QED BY <2>2, <3>8, <4>1 DEF Up
    <3>10. ShutdownKeepsAll'
      <4> SUFFICES ASSUME server'.run = "shutdown", server'.aof_state = AOF_ON,
                          ~Used("faults")'
                   PROVE  file'.synced = Len(file'.log) /\ Replayed(file').data = server'.data
        BY DEF ShutdownKeepsAll
      <4>1. o.server.run = "up"
        BY <2>2, <3>3, <3>5 DEF Up
      <4>2. o.faults = 0
        <5>1. left'.faults = left.faults - o.faults
          <6>1. DOMAIN left = {"fsync", "no_fsync_on_rewrite", "dbs", "multi", "power", "torn",
                       "writes", "rewrites", "saves", "switches", "faults", "crashes"}
            BY SetupsAssumption DEF IInv, BudgetOK
          <6> QED BY <2>1, <6>1 DEF Faulted
        <5>2. ~(left'.faults < conf.faults)
          BY <2>2 DEF Used
        <5>3. conf.faults \in Nat
          BY SetupsAssumption DEF IInv, BudgetOK
        <5> QED BY <2>3, <3>2, <5>1, <5>2, <5>3, SMTT(30) DEF FaultsInv
      <4>3. o.file.log = file.log \o server.aof_buf
        BY <2>3, <3>1, <3>2, <4>2, FlushSync
      <4>4. file'.log = TheLog /\ file'.base = file.base
        BY <2>2, <3>3, <3>7, <3>8, <4>1, <4>3 DEF TheLog, fsync, FileOK
      <4>5. Current(file.base, TheLog, server.data, server.aof_selected_db)
        BY <2>2, <3>5 DEF LInv, FileInv
      <4>6. Replayed(file') = Loaded(file'.base, file'.log)
        BY ReplayedIs
      <4> QED BY <3>5, <3>8, <4>1, <4>4, <4>5, <4>6 DEF Current
    <3> QED BY <3>7, <3>9, <3>10 DEF AInv
  <2> QED BY <2>4, <2>5
\* The process is killed.
<1>AKill. ASSUME IInv, LInv, AInv, FaultsInv', kill
          PROVE  AInv'
  <2> USE <1>AKill
  <2>1. PICK buf \in Unwritten :
          file' = IF buf = <<>> THEN file ELSE [file EXCEPT !.log = @ \o buf, !.torn = FALSE]
    BY DEF kill
  <2>2. /\ conf' = conf /\ acked' = acked /\ bio' = <<>> /\ server' = Exited(server)
    BY DEF kill
  <2>3. /\ ServerOK(server) /\ FileOK(file) /\ SyncInv /\ AckInv
    BY DEF IInv, AInv
  <2>4. /\ server'.run = "crashed" /\ server'.data = server.data
        /\ server'.aof_state = server.aof_state
    BY <2>2, <2>3 DEF Exited, ServerOK, ServerFields
  <2> DEFINE log == file.log \o buf
             k == Len(log)
  <2>5. /\ log \in Seq(Entry) /\ Len(file.log) <= k /\ buf \in Seq(Entry)
        /\ \A n \in 0..k : n \in 0..Len(TheLog) /\ First(log, n) = First(TheLog, n)
        /\ server.aof_state # AOF_ON => buf = <<>>
    BY UnwrittenCut
  <2>6. file'.base = file.base /\ file'.synced = file.synced /\ file'.log = log
    BY <2>1, <2>3, <2>5, SMTT(30) DEF FileOK
  <2>7. server.aof_state # AOF_ON => log = file.log
    BY <2>3, <2>5, SMTT(30) DEF FileOK
  <2> HIDE DEF log
  <2>8. k \in Nat /\ k \in 0..k /\ First(log, k) = log /\ Len(file.log) \in Nat
        /\ file.synced \in Nat
    BY <2>3, <2>5, FirstAll, SMTT(30) DEF FileOK
  <2>9. k \in 0..Len(TheLog) /\ file'.log = First(TheLog, k)
    BY <2>5, <2>6, <2>8, SMTT(30)
  <2>10. ASSUME Strict PROVE Durably \in 0..Len(file.log) /\ Durably' \in Durably..k
    BY <2>2, <2>3, <2>5, <2>6, <2>8, <2>10, SMTT(30) DEF Strict, Durably, SyncInv
  <2>11. AckInv'
    BY <2>2, <2>3, <2>4, <2>6, <2>9, <2>10, <1>AckGrows, SMTT(30)
  <2>12. SyncInv'
    BY <2>2, <2>3, <2>4, <2>5, <2>6, <2>7, <2>8, SMTT(30) DEF SyncInv, Up
  <2> QED BY <2>4, <2>11, <2>12 DEF AInv, ShutdownKeepsAll
\* The machine stops.
<1>APowerLoss. ASSUME IInv, LInv, AInv, FaultsInv', powerLoss
               PROVE  AInv'
  <2> USE <1>APowerLoss
  <2>1. PICK buf \in Unwritten :
          \E n \in file.synced..Len(file.log \o buf), torn \in {FALSE, conf.torn} :
            file' = [file EXCEPT !.log = SubSeq(file.log \o buf, 1, n), !.torn = torn,
                                 !.synced = n]
    BY DEF powerLoss
  <2>2. PICK n \in file.synced..Len(file.log \o buf), torn \in {FALSE, conf.torn} :
          file' = [file EXCEPT !.log = SubSeq(file.log \o buf, 1, n), !.torn = torn,
                               !.synced = n]
    BY <2>1
  <2>3. /\ conf' = conf /\ acked' = acked /\ bio' = <<>> /\ conf.power /\ Spend("crashes")
        /\ server' = [server EXCEPT !.run = IF @ = "up" THEN "crashed" ELSE @]
    BY DEF powerLoss
  <2>4. /\ ServerOK(server) /\ FileOK(file) /\ SyncInv /\ AckInv /\ ShutdownKeepsAll
    BY DEF IInv, AInv
  <2>5. /\ server'.run # "up" /\ server'.data = server.data
        /\ server'.aof_state = server.aof_state
        /\ server'.run = "shutdown" => server.run = "shutdown"
    BY <2>3, <2>4 DEF ServerOK, ServerFields
  <2> DEFINE log == file.log \o buf
  <2>6. /\ log \in Seq(Entry) /\ buf \in Seq(Entry)
        /\ \A i \in 0..Len(log) : i \in 0..Len(TheLog) /\ First(log, i) = First(TheLog, i)
        /\ server.aof_state # AOF_ON \/ ~Up => buf = <<>>
    BY UnwrittenCut
  <2>7. server.aof_state # AOF_ON \/ ~Up => log = file.log
    BY <2>4, <2>6, SMTT(30) DEF FileOK
  <2>8. file.synced \in Nat /\ n \in file.synced..Len(log)
    BY <2>2, <2>4 DEF FileOK
  <2>9. file'.base = file.base /\ file'.synced = n /\ file'.log = First(log, n)
    BY <2>2, <2>4, SMTT(30) DEF FileOK, First
  <2> HIDE DEF log
  <2>10. n \in 0..Len(log) /\ Len(file'.log) = n
    BY <2>6, <2>8, <2>9, FirstProperties, SMTT(30)
  <2>11. n \in 0..Len(TheLog) /\ file'.log = First(TheLog, n)
    BY <2>6, <2>9, <2>10, SMTT(30)
  <2>12. ASSUME Strict PROVE Durably \in 0..Len(file.log) /\ Durably' \in Durably..n
    <3>1. conf.fsync = "always"
      BY <2>3, <2>12 DEF Strict
    <3>2. Durably = file.synced /\ Durably' = n /\ file.synced <= Len(file.log)
      BY <2>3, <2>4, <2>9, <3>1 DEF Durably, SyncInv
    <3>3. Len(file.log) \in Nat
      BY <2>4, SMTT(30) DEF FileOK
    <3> QED BY <2>8, <3>2, <3>3, SMTT(30)
  <2>13. AckInv'
    BY <2>3, <2>4, <2>5, <2>9, <2>11, <2>12, <1>AckGrows
  <2>14. SyncInv'
    BY <2>3, <2>5, <2>8, <2>9, <2>10, SMTT(30) DEF SyncInv, Up
  <2>15. ShutdownKeepsAll'
    <3> SUFFICES ASSUME server'.run = "shutdown", server'.aof_state = AOF_ON, ~Used("faults")'
                 PROVE  file'.synced = Len(file'.log) /\ Replayed(file').data = server'.data
      BY DEF ShutdownKeepsAll
    <3>1. left'.faults = left.faults
      <4>1. DOMAIN left = {"fsync", "no_fsync_on_rewrite", "dbs", "multi", "power", "torn",
                           "writes", "rewrites", "saves", "switches", "faults", "crashes"}
        BY SetupsAssumption DEF IInv, BudgetOK
      <4> QED BY <2>3, <4>1 DEF Spend
    <3>2. server.run = "shutdown" /\ server.aof_state = AOF_ON /\ ~Used("faults") /\ ~Up
      BY <2>3, <2>5, <3>1 DEF Used, Up
    <3>3. file.synced = Len(file.log) /\ Replayed(file).data = server.data
      BY <2>4, <3>2 DEF ShutdownKeepsAll
    <3>4. log = file.log
      BY <2>7, <3>2, SMTT(30)
    <3>5. n = Len(file.log)
      BY <2>8, <3>3, <3>4, SMTT(30)
    <3>6. file'.log = file.log
      BY <2>4, <2>9, <3>4, <3>5, FirstAll DEF FileOK
    <3>7. /\ Replayed(file) = Loaded(file.base, file.log)
          /\ Replayed(file') = Loaded(file'.base, file'.log)
      BY ReplayedIs
    <3> QED BY <2>5, <2>9, <2>10, <3>3, <3>6, <3>7, SMTT(30)
  <2> QED BY <2>13, <2>14, <2>15, SMTT(30) DEF AInv
\* What a start does to the file.
<1>RestartFile. ASSUME IInv, restart, file.synced <= Len(file.log)
                PROVE  /\ \E n \in 0..Len(file.log) : file'.log = First(file.log, n)
                       /\ file'.synced = IF file.synced < Len(file'.log) THEN file.synced
                                         ELSE Len(file'.log)
  <2> USE <1>RestartFile
  <2>1. FileOK(file) /\ file.log \in Seq(Entry) /\ Len(file.log) \in 0..Len(file.log)
    BY SMT DEF IInv, FileOK
  <2>2. file' = file \/ \E n \in 0..Len(file.log) : file' = truncate(file, n)
    BY <2>1, SMTT(30) DEF restart, loadAppendOnlyFile, BeforeMulti
  <2>3. CASE file' = file
    <3>1. file'.log = First(file.log, Len(file.log))
      BY <2>1, <2>3, FirstAll
    <3>2. file.synced \in Nat
      BY <2>1 DEF FileOK
    <3> QED BY <2>1, <2>3, <3>1, <3>2, SMTT(30)
  <2>4. CASE \E n \in 0..Len(file.log) : file' = truncate(file, n)
    <3>1. PICK n \in 0..Len(file.log) : file' = truncate(file, n)
      BY <2>4
    <3>2. /\ file'.log = First(file.log, n)
          /\ file'.synced = IF file.synced < n THEN file.synced ELSE n
      BY <3>1 DEF truncate, First
    <3>3. Len(First(file.log, n)) = n
      BY <2>1, FirstProperties
    <3> QED BY <3>2, <3>3
  <2> QED BY <2>2, <2>3, <2>4, SMTT(30)
\* The server starts again.
<1>ARestart. ASSUME IInv, IInv', LInv, LInv', AInv, FaultsInv', restart, file'.base = file.base
             PROVE  AInv'
  <2> USE <1>ARestart
  <2>1. /\ conf' = conf /\ bio' = <<>>
        /\ server'.run = "up" /\ server'.aof_state = AOF_ON /\ server'.pending = FALSE
        /\ server'.aof_buf = <<>>
        /\ acked' = IF acked < Len(server'.data) THEN acked ELSE Len(server'.data)
    BY DEF restart, NewServer
  <2>2. FileOK(file) /\ FileOK(file') /\ SyncInv /\ AckInv /\ acked \in Nat
    <3>1. FileOK(file) /\ FileOK(file') /\ SyncInv /\ AckInv
      BY DEF IInv, AInv
    <3>2. acked \in Nat
      BY <3>1, SMTT(30) DEF AckInv
    <3> QED BY <3>1, <3>2, SMTT(30)
  <2>3. Len(server'.data) \in Nat
    BY SMT DEF LInv, DataInv
  <2>4. acked' \in 0..Len(server'.data) /\ acked' <= acked /\ acked' \in Nat
    BY <2>1, <2>2, <2>3, SMTT(30)
  <2>5. Up' /\ TheLog' = file'.log
    <3>1. file'.log \o <<>> = file'.log
      BY <2>2, SMT DEF FileOK
    <3> QED BY <2>1, <3>1, SMTT(30) DEF Up, TheLog
  <2>6. Strict' = Strict
    BY <2>1 DEF Strict
  <2>7. CASE conf.fsync # "always"
    <3>1. Durably' = Len(file'.log)
      BY <2>1, <2>7, SMTT(30) DEF Durably
    <3>2. AckInv'
      BY <2>4, <2>5, <3>1, <1>AckWhole
    <3>3. SyncInv' /\ ShutdownKeepsAll'
      BY <2>1, <2>7, SMTT(30) DEF SyncInv, ShutdownKeepsAll
    <3> QED BY <3>2, <3>3 DEF AInv
  <2>8. CASE conf.fsync = "always"
    <3>1. /\ file.synced \in Nat /\ file.synced <= Len(file.log)
          /\ Len(file'.log) \in Nat /\ Len(file.log) \in Nat
      BY <2>2, <2>8, SMTT(30) DEF FileOK, SyncInv
    <3>2. PICK n \in 0..Len(file.log) : file'.log = First(file.log, n)
      BY <3>1, <1>RestartFile
    <3>3. file'.synced = IF file.synced < Len(file'.log) THEN file.synced ELSE Len(file'.log)
      BY <3>1, <1>RestartFile, SMTT(30)
    <3>4. Len(file'.log) = n
      BY <2>2, <3>2, FirstProperties, SMTT(30) DEF FileOK
    <3>5. Durably' = file'.synced /\ Durably = file.synced
      BY <2>1, <2>8 DEF Durably
    <3>6. AckInv'
      <4>1. CASE file'.synced = Len(file'.log)
        BY <2>4, <2>5, <3>5, <4>1, <1>AckWhole
      <4>2. CASE file'.synced # Len(file'.log)
        <5>1. file'.synced = file.synced /\ file.synced < n
          BY <3>3, <3>4, <4>2, SMTT(30)
        <5>2. server.aof_state = AOF_ON
          BY <2>2, <2>8, <3>1, <5>1, SMTT(30) DEF SyncInv
        <5>3. First(file'.log, file.synced) = First(file.log, file.synced)
          <6>1. file.synced \in 0..n
            BY <3>1, <5>1, SMTT(30)
          <6> QED BY <2>2, <3>2, <6>1, FirstOfFirst DEF FileOK
        <5>4. ASSUME Strict
              PROVE  acked' <= Len(Loaded(file'.base, First(file'.log, Durably')).data)
          <6> DEFINE kept == Loaded(file.base, First(file.log, file.synced)).data
          <6>1. acked <= Len(kept)
            BY <2>2, <3>5, <5>2, <5>4 DEF AckInv
          <6>2. Loaded(file'.base, First(file'.log, Durably')).data = kept
            BY <3>5, <5>1, <5>3, SMTT(30)
          <6>3. Len(kept) \in Nat
            <7>1. Regular(file.base, file.log, conf.multi)
              <8>1. ~Up
                BY DEF restart
              <8> QED BY <8>1 DEF LInv, FileInv, Kept, TheLog
            <7>2. file.synced \in 0..Len(file.log)
              BY <3>1, SMTT(30)
            <7>3. kept \in Seq(Write)
              BY <7>1, <7>2 DEF Regular, Fine
            <7> HIDE DEF kept
            <7> QED BY <7>3, SMTT(30)
          <6> HIDE DEF kept
          <6> QED BY <2>2, <2>4, <6>1, <6>2, <6>3, SMTT(30)
        <5> QED BY <2>4, <2>6, <5>4 DEF AckInv
      <4> QED BY <4>1, <4>2, SMTT(30)
    <3>7. SyncInv' /\ ShutdownKeepsAll'
      <4>1. file'.synced <= Len(file'.log)
        BY <3>1, <3>3, SMTT(30)
      <4> QED BY <2>1, <4>1 DEF SyncInv, ShutdownKeepsAll
    <3> QED BY <3>6, <3>7 DEF AInv
  <2> QED BY <2>7, <2>8
<1> SUFFICES ASSUME DurableInv, [Next]_vars PROVE DurableInv'
  BY SMTT(30)
<1>1. IInv /\ LInv /\ TornInv /\ Separate /\ LogInv /\ AInv /\ FaultsInv
  BY DEF DurableInv, LogInv, AInv
<1>2. LogInv' /\ IInv' /\ LInv' /\ FaultsInv'
  <2>1. LogInv'
    BY <1>1, LogNext
  <2>2. FaultsInv'
    BY <1>1, FaultsNext
  <2> QED BY <2>1, <2>2, SMTT(30) DEF LogInv
<1>3. CASE UNCHANGED vars
  <2>1. AInv'
    <3>1. UNCHANGED <<server, file, bio, acked, conf, left>>
      BY <1>3 DEF vars
    <3>2. Strict' = Strict /\ Durably' = Durably /\ Up' = Up /\ Used("faults")' = Used("faults")
      BY <3>1 DEF Strict, Durably, Up, Used
    <3>3. AckInv' /\ SyncInv'
      BY <1>1, <3>1, <3>2 DEF AInv, AckInv, SyncInv
    <3>4. ShutdownKeepsAll'
      BY <1>1, <3>1, <3>2 DEF AInv, ShutdownKeepsAll
    <3> QED BY <1>2, <3>3, <3>4 DEF AInv
  <2> QED BY <1>2, <2>1, SMTT(30) DEF DurableInv
<1>4. CASE Next
  <2>1. CASE \E d \in conf.dbs : command(d) \/ execCommand(d)
    BY <1>1, <1>2, <2>1, LCommand, <1>ACommand DEF DurableInv
  <2>2. CASE \/ tick \/ bgrewriteaofCommand \/ startScheduledRewrite \/ bgsaveCommand
             \/ backgroundSaveDoneHandler \/ aofChildWriteDiffData \/ aofReadDiffFromParent
             \/ askToStop \/ aofChildPipeReadable \/ finishRewrite \/ rewriteFails
             \/ startAppendOnly
    BY <1>1, <1>2, <2>2, <1>AOther, SMTT(30) DEF DurableInv
  <2>3. CASE beforeSleep
    BY <1>1, <1>2, <2>3, <1>ABeforeSleep DEF DurableInv
  <2>4. CASE bioProcessBackgroundJobs
    BY <1>1, <1>2, <2>4, <1>ABio, SMTT(30) DEF DurableInv
  <2>5. CASE backgroundRewriteDoneHandler
    BY <1>1, <1>2, <2>5, <1>ADone, SMTT(30) DEF DurableInv
  <2>6. CASE stopAppendOnly
    BY <1>1, <1>2, <2>6, <1>AStopAppendOnly DEF DurableInv
  <2>7. CASE prepareForShutdown
    BY <1>1, <1>2, <2>7, <1>AShutDown DEF DurableInv
  <2>8. CASE kill
    BY <1>1, <1>2, <2>8, <1>AKill, SMTT(30) DEF DurableInv
  <2>9. CASE powerLoss
    BY <1>1, <1>2, <2>9, <1>APowerLoss, SMTT(30) DEF DurableInv
  <2>10. CASE restart
    BY <1>1, <1>2, <2>10, LRestart, <1>ARestart, SMTT(30) DEF DurableInv
  <2> QED BY <1>4, <2>1, <2>2, <2>3, <2>4, <2>5, <2>6, <2>7, <2>8, <2>9, <2>10 DEF Next
<1> QED BY <1>3, <1>4, SMTT(30)

\* The invariant of the log, and of what was answered.
THEOREM DurableInvariance == Spec /\ Separate => []DurableInv
<1>1. Init /\ Separate => DurableInv
  BY InvInit, LInit, TornInit, AInit, SMTT(30) DEF DurableInv, LogInv
<1>2. DurableInv /\ [Next]_vars => DurableInv'
  BY DurableNext, SMTT(30)
<1> QED BY <1>1, <1>2, PTL DEF Spec

\* A server that shut down in order has all of its dataset on the disk.
THEOREM ShutdownKeepsAllAlways == Spec /\ Separate => []ShutdownKeepsAll
<1>1. DurableInv => ShutdownKeepsAll
  BY DEF DurableInv, AInv
<1> QED BY <1>1, DurableInvariance, PTL

-----------------------------------------------------------------------------
(* The refinement *)

\* A step of the server is a step of the durable log, or none.
LEMMA DurableStep == DurableInv /\ [Next]_vars => [Durable!Next]_(Durable!vars)
<1> SUFFICES ASSUME DurableInv, [Next]_vars PROVE [Durable!Next]_(Durable!vars)
  OBVIOUS
<1> DEFINE on == server.aof_state = AOF_ON
<1>1. IInv /\ LInv /\ TornInv /\ Separate /\ AckInv /\ SyncInv
  BY DEF DurableInv, LogInv, AInv
<1>2. conf' = conf
  BY ConfStays, SMTT(30)
<1>3. Strict' = Strict
  BY <1>2 DEF Strict
<1>4. ASSUME server'.data = server.data, acked' = acked,
             \/ server'.aof_state = server.aof_state
             \/ server.aof_state # AOF_ON /\ server'.aof_state # AOF_ON
      PROVE  UNCHANGED Durable!vars
  BY <1>3, <1>4 DEF Durable!vars
<1>5. ASSUME server'.data = server.data, acked' = acked, on' # on
      PROVE  Durable!Switch
  BY <1>3, <1>5 DEF Durable!Switch
<1>6. CASE UNCHANGED vars
  BY <1>4, <1>6 DEF vars
<1>7. ASSUME NEW d \in conf.dbs, command(d) \/ execCommand(d)
      PROVE  Durable!Execute
  <2>1. /\ LInv' /\ Prefix(server.data, server'.data) /\ server.data # server'.data
        /\ server'.aof_state = server.aof_state
    BY <1>1, <1>7, LCommand
  <2>2. acked' = acked
    BY <1>7 DEF command, execCommand, Executed
  <2>3. Durable!Whole(server'.data)
    BY <2>1 DEF LInv, DataInv, Whole
  <2>4. Durable!IsPrefix(server.data, server'.data)
    BY <2>1 DEF Prefix
  <2> QED BY <1>3, <2>1, <2>2, <2>3, <2>4, SMTT(30) DEF Durable!Execute
<1>8. CASE beforeSleep
  <2>1. /\ server'.data = server.data /\ server'.aof_state = server.aof_state
        /\ acked' \in {acked, Len(server.data)}
    BY <1>1, <1>8, LBeforeSleep
  <2>2. CASE acked' = acked
    BY <1>4, <2>1, <2>2
  <2>3. CASE acked' = Len(server.data)
    BY <1>3, <2>1, <2>3 DEF Durable!Next, Durable!Answer
  <2> QED BY <2>1, <2>2, <2>3
<1>9. CASE \/ tick \/ bioProcessBackgroundJobs \/ bgsaveCommand \/ backgroundSaveDoneHandler
           \/ bgrewriteaofCommand \/ startScheduledRewrite \/ aofChildWriteDiffData
           \/ aofReadDiffFromParent \/ askToStop \/ aofChildPipeReadable \/ finishRewrite
           \/ rewriteFails \/ prepareForShutdown \/ kill \/ powerLoss
  <2>1. NothingSeen
    BY <1>1, <1>9, LOther, LRewrite, LStop
  <2> QED BY <1>4, <2>1 DEF NothingSeen
<1>10. CASE backgroundRewriteDoneHandler
  <2>1. /\ server'.data = server.data /\ acked' = acked
        /\ \/ server'.aof_state = server.aof_state
           \/ server.aof_state # AOF_ON /\ server'.aof_state = AOF_ON
    BY <1>1, <1>10, LDone
  <2> QED BY <1>4, <1>5, <2>1, SMTT(30) DEF Durable!Next
<1>11. CASE stopAppendOnly \/ startAppendOnly
  <2>1. /\ server'.data = server.data /\ acked' = acked
        /\ \/ server'.aof_state = server.aof_state
           \/ server'.aof_state # AOF_ON
    BY <1>1, <1>11, LSwitch
  <2> QED BY <1>4, <1>5, <2>1 DEF Durable!Next
<1>12. CASE restart
  <2> DEFINE st == Loaded(file.base, file.log)
  <2>1. /\ server'.data = st.data /\ server'.aof_state = AOF_ON
        /\ Prefix(server'.data, server.data) /\ Whole(server'.data)
    BY <1>1, <1>12, LRestart
  <2>2. acked' = IF acked < Len(server'.data) THEN acked ELSE Len(server'.data)
    BY <1>12 DEF restart
  <2>3. on /\ Strict => Len(server'.data) >= acked
    <3> SUFFICES ASSUME on, Strict PROVE acked <= Len(st.data)
      BY <2>1
    <3> DEFINE D(i) == Loaded(file.base, First(file.log, i)).data
               m == Durably
    <3>1. Regular(file.base, file.log, conf.multi) /\ file.log \in Seq(Entry)
      <4>1. ~Up
        BY <1>12 DEF restart
      <4> QED BY <1>1, <4>1, LogTypes DEF LInv, FileInv, Kept, TheLog
    <3>2. m \in 0..Len(file.log) /\ Len(file.log) \in m..Len(file.log)
      <4>1. file.synced \in Nat /\ Len(file.log) \in Nat
        BY <1>1, SMTT(30) DEF IInv, FileOK
      <4>2. m \in 0..Len(file.log)
        BY <1>1, <4>1, SMTT(30) DEF Durably, SyncInv
      <4> QED BY <4>1, <4>2, SMTT(30)
    <3>3. acked <= Len(D(m)) /\ acked \in Int
      BY <1>1, SMT DEF AckInv
    <3> HIDE DEF m
    <3>4. Prefix(D(m), D(Len(file.log)))
      BY <3>1, <3>2, Monotone
    <3>5. D(Len(file.log)) = st.data
      BY <3>1, FirstAll
    <3>6. D(m) \in Seq(Write) /\ D(Len(file.log)) \in Seq(Write)
      <4>1. Len(file.log) \in 0..Len(file.log)
        BY <3>1, SMTT(30)
      <4> QED BY <3>1, <3>2, <4>1 DEF Regular, Fine
    <3> HIDE DEF D, st
    <3>7. Len(D(m)) <= Len(st.data)
      BY <3>4, <3>5, <3>6 DEF Prefix, Durable!IsPrefix
    <3> QED BY <3>3, <3>5, <3>6, <3>7, SMTT(30)
  <2>4. Durable!IsPrefix(server'.data, server.data) /\ Durable!Whole(server'.data)
    BY <2>1 DEF Prefix, Whole
  <2>5. Durable!Recover
    BY <1>3, <2>1, <2>2, <2>3, <2>4 DEF Durable!Recover
  <2> QED BY <2>5 DEF Durable!Next
<1> QED BY <1>6, <1>7, <1>8, <1>9, <1>10, <1>11, <1>12 DEF Next, Durable!Next

\* The server keeps the promise of a durable log.
THEOREM RefinesDurableLog == Spec /\ Separate => ImplementsDurableLog
<1>1. Init => Durable!Init
  BY SMT DEF Init, NewServer, Durable!Init, Strict
<1>2. DurableInv /\ [Next]_vars => [Durable!Next]_(Durable!vars)
  BY DurableStep
<1> QED BY <1>1, <1>2, DurableInvariance, PTL DEF Spec, ImplementsDurableLog, Durable!Spec
=============================================================================
