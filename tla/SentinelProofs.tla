--------------------------- MODULE SentinelProofs ---------------------------
(***************************************************************************)
(* Votes and elections of Sentinel, for any finite set of Sentinels, any   *)
(* quorum and any bounds.                                                  *)
(***************************************************************************)
EXTENDS Sentinel, FiniteSetTheorems, TLAPS

\* A leaf is left to Zenon unless it names SMTT (or PTL).
USE ZenonT(60)

\* r is a vote that x has cast, if it is one.
Cast(x, r, V) ==
  /\ r.leader \in Sentinel \cup {NULL}
  /\ r.leader_epoch \in Nat
  /\ r.leader # NULL => <<x, r.leader_epoch, r.leader>> \in V

\* What the votes rest on, in the state st of s: its own vote and those it has
\* been told of are in V.
SentinelOK(s, st, V) ==
  /\ {"current_epoch", "failover_epoch", "leader", "leader_epoch", "sentinels"} \subseteq DOMAIN st
  /\ st.current_epoch \in Nat
  /\ st.failover_epoch \in Nat
  /\ Cast(s, st, V)
  /\ DOMAIN st.sentinels = Sentinel \ {s}
  /\ \A t \in Sentinel \ {s} : Cast(t, st.sentinels[t], V)

FileOK(c, epoch) ==
  /\ c.current_epoch \in Nat
  /\ c.leader_epoch = epoch

\* A majority voted for s in an epoch.
Backed(s, epoch, V) ==
  \E Q \in SUBSET Sentinel :
    Cardinality(Q) >= Majority /\ \A t \in Q : <<t, epoch, s>> \in V

\* The inductive invariant.  A vote is not later than the last one its voter
\* remembers, in memory and on disk, so a vote in a later epoch is a first one.
IInv ==
  /\ DOMAIN sentinel = Sentinel /\ DOMAIN disk = Sentinel
  /\ votes \subseteq Sentinel \X Nat \X Sentinel
  /\ \A s \in Sentinel : SentinelOK(s, sentinel[s], votes)
  /\ \A s \in Sentinel : FileOK(disk[s], sentinel[s].leader_epoch)
  /\ \A s \in Sentinel, epoch \in Nat, c \in Sentinel :
       <<s, epoch, c>> \in votes => epoch <= sentinel[s].leader_epoch
  /\ VotesOnce
  /\ \A e \in elected : /\ e[1] \in Sentinel /\ e[2] \in Nat
                        /\ e[2] = e[3] => Backed(e[1], e[2], votes)

-----------------------------------------------------------------------------
\* A vote stays a vote.
LEMMA CastMonotone ==
  ASSUME NEW s, NEW st, NEW V, NEW W, V \subseteq W, SentinelOK(s, st, V)
  PROVE  SentinelOK(s, st, W)
BY DEF SentinelOK, Cast

\* What has the votes of st is as good as st.
LEMMA SameVotes ==
  ASSUME NEW s, NEW st, NEW new, NEW V, SentinelOK(s, st, V),
         {"current_epoch", "failover_epoch", "leader", "leader_epoch", "sentinels"} \subseteq DOMAIN new,
         new.current_epoch \in Nat, new.failover_epoch \in Nat,
         new.leader \in {st.leader, NULL}, new.leader_epoch = st.leader_epoch,
         new.sentinels = st.sentinels
  PROVE  SentinelOK(s, new, V)
BY DEF SentinelOK, Cast

\* NewEpoch keeps the vote of a Sentinel, and forgets replies at most.
LEMMA NewEpochOK ==
  ASSUME NEW s, NEW st, NEW V, SentinelOK(s, st, V), NEW epoch \in Nat
  PROVE  /\ SentinelOK(s, NewEpoch(st, epoch), V)
         /\ NewEpoch(st, epoch).leader = st.leader
         /\ NewEpoch(st, epoch).leader_epoch = st.leader_epoch
         /\ NewEpoch(st, epoch).failover_epoch = st.failover_epoch
         /\ DOMAIN NewEpoch(st, epoch) = DOMAIN st
<1>1. CASE epoch <= st.current_epoch
  BY <1>1 DEF NewEpoch
<1>2. CASE ~(epoch <= st.current_epoch)
  <2> DEFINE f == [t \in DOMAIN st.sentinels |->
                     IF st.sentinels[t].leader_epoch < epoch THEN NoReply ELSE st.sentinels[t]]
  <2>1. NewEpoch(st, epoch) = [st EXCEPT !.current_epoch = epoch, !.sentinels = f]
    BY <1>2 DEF NewEpoch
  <2>2. DOMAIN f = Sentinel \ {s} /\ \A t \in Sentinel \ {s} : Cast(t, f[t], V)
    BY DEF SentinelOK, Cast, NoReply
  <2> HIDE DEF f
  <2> DEFINE new == [st EXCEPT !.current_epoch = epoch, !.sentinels = f]
  <2>3. /\ DOMAIN new = DOMAIN st /\ new.current_epoch = epoch /\ new.sentinels = f
        /\ new.leader = st.leader /\ new.leader_epoch = st.leader_epoch
        /\ new.failover_epoch = st.failover_epoch
    BY DEF SentinelOK
  <2> HIDE DEF new
  <2>4. SentinelOK(s, new, V)
    BY <2>2, <2>3 DEF SentinelOK, Cast
  <2> QED BY <2>1, <2>3, <2>4 DEF new
<1> QED BY <1>1, <1>2

\* The votes after a request for one.
VotesAfter(s, st, epoch, c) ==
  IF Votes(st, epoch) THEN votes \cup {<<s, epoch, c>>} ELSE votes

\* sentinelVoteLeader: the vote the Sentinel remembers has been cast, and is the
\* new one if one was cast.
LEMMA VoteLeaderOK ==
  ASSUME NEW s \in Sentinel, NEW st, SentinelOK(s, st, votes), NEW epoch \in Nat, NEW c \in Sentinel
  PROVE  LET v == sentinelVoteLeader(s, st, epoch, c)
         IN /\ SentinelOK(s, v, VotesAfter(s, st, epoch, c))
            /\ v.leader_epoch = IF Votes(st, epoch) THEN epoch ELSE st.leader_epoch
            /\ v.failover_epoch = st.failover_epoch
            /\ DOMAIN v = DOMAIN st
<1> DEFINE u == NewEpoch(st, epoch)
<1>1. /\ SentinelOK(s, u, votes) /\ u.leader = st.leader /\ u.leader_epoch = st.leader_epoch
      /\ u.failover_epoch = st.failover_epoch /\ DOMAIN u = DOMAIN st
  BY NewEpochOK, SMTT(60)
<1>2. sentinelVoteLeader(s, st, epoch, c) =
        IF Votes(st, epoch)
        THEN [u EXCEPT !.leader = c, !.leader_epoch = epoch,
                       !.delay = IF c # s THEN TRUE ELSE @]
        ELSE u
  BY DEF sentinelVoteLeader
<1> HIDE DEF u
<1>3. CASE ~Votes(st, epoch)
  BY <1>1, <1>2, <1>3 DEF VotesAfter
<1>4. CASE Votes(st, epoch)
  <2> DEFINE d == IF c # s THEN TRUE ELSE u.delay
             v == [u EXCEPT !.leader = c, !.leader_epoch = epoch, !.delay = d]
             W == votes \cup {<<s, epoch, c>>}
  <2>1. sentinelVoteLeader(s, st, epoch, c) = v
    BY <1>2, <1>4
  <2> HIDE DEF d
  <2>2. /\ DOMAIN v = DOMAIN u /\ v.leader = c /\ v.leader_epoch = epoch
        /\ v.current_epoch = u.current_epoch /\ v.failover_epoch = u.failover_epoch
        /\ v.sentinels = u.sentinels
    BY <1>1 DEF SentinelOK
  <2> HIDE DEF v
  <2>3. SentinelOK(s, u, W)
    BY <1>1, CastMonotone
  <2>4. Cast(s, v, W)
    BY <2>2 DEF Cast
  <2>5. SentinelOK(s, v, W)
    BY <2>2, <2>3, <2>4 DEF SentinelOK
  <2> QED BY <1>1, <1>4, <2>1, <2>2, <2>5 DEF VotesAfter
<1> QED BY <1>3, <1>4

\* The part of IInv that is about votes alone.
VotesOK(V, S) ==
  /\ V \subseteq Sentinel \X Nat \X Sentinel
  /\ \A s \in Sentinel, epoch \in Nat, c \in Sentinel :
       <<s, epoch, c>> \in V => epoch <= S[s].leader_epoch
  /\ \A v, w \in V : v[1] = w[1] /\ v[2] = w[2] => v[3] = w[3]

\* A vote is a first one in its epoch: the one its voter remembers is older.
LEMMA FirstVote ==
  ASSUME IInv, NEW s \in Sentinel, NEW st, st.leader_epoch = sentinel[s].leader_epoch,
         NEW epoch \in Nat, NEW c \in Sentinel, NEW S,
         S[s].leader_epoch = (IF Votes(st, epoch) THEN epoch ELSE st.leader_epoch),
         \A t \in Sentinel \ {s} : S[t].leader_epoch = sentinel[t].leader_epoch
  PROVE  VotesOK(VotesAfter(s, st, epoch, c), S)
<1>1. \A t \in Sentinel : sentinel[t].leader_epoch \in Nat
  BY DEF IInv, SentinelOK, Cast
<1>2. CASE ~Votes(st, epoch)
  BY <1>1, <1>2 DEF IInv, VotesOnce, VotesOK, VotesAfter
<1>3. CASE Votes(st, epoch)
  <2> DEFINE W == votes \cup {<<s, epoch, c>>}
  <2>1. sentinel[s].leader_epoch < epoch
    BY <1>3 DEF Votes
  <2>2. W \subseteq Sentinel \X Nat \X Sentinel
    BY SMTT(60) DEF IInv
  <2>3. ASSUME NEW t \in Sentinel, NEW n \in Nat, NEW d \in Sentinel, <<t, n, d>> \in W
        PROVE  n <= S[t].leader_epoch
    <3>1. CASE <<t, n, d>> \in votes
      <4>1. n <= sentinel[t].leader_epoch
        BY <3>1 DEF IInv
      <4> QED BY <1>1, <1>3, <2>1, <4>1, SMTT(60)
    <3>2. CASE <<t, n, d>> = <<s, epoch, c>>
      BY <1>3, <3>2, SMTT(60)
    <3> QED BY <2>3, <3>1, <3>2
  <2>4. \A v \in votes : ~(v[1] = s /\ v[2] = epoch)
    <3> SUFFICES ASSUME NEW v \in votes, v[1] = s, v[2] = epoch PROVE FALSE
      OBVIOUS
    <3>1. v = <<v[1], v[2], v[3]>> /\ v[3] \in Sentinel
      BY SMTT(60) DEF IInv
    <3>2. epoch <= sentinel[s].leader_epoch
      BY <3>1 DEF IInv
    <3> QED BY <1>1, <2>1, <3>2, SMTT(60)
  <2>5. \A v, w \in W : v[1] = w[1] /\ v[2] = w[2] => v[3] = w[3]
    BY <2>4, SMTT(60) DEF IInv, VotesOnce
  <2> QED BY <1>3, <2>2, <2>3, <2>5 DEF VotesOK, VotesAfter
<1> QED BY <1>2, <1>3

\* Two majorities for an epoch have a voter in common.
LEMMA BackedOnce ==
  ASSUME NEW V, \A v, w \in V : v[1] = w[1] /\ v[2] = w[2] => v[3] = w[3],
         NEW s \in Sentinel, NEW t \in Sentinel, NEW epoch \in Nat,
         Backed(s, epoch, V), Backed(t, epoch, V)
  PROVE  s = t
<1>1. PICK P \in SUBSET Sentinel :
        Cardinality(P) >= Majority /\ \A x \in P : <<x, epoch, s>> \in V
  BY DEF Backed
<1>2. PICK Q \in SUBSET Sentinel :
        Cardinality(Q) >= Majority /\ \A x \in Q : <<x, epoch, t>> \in V
  BY DEF Backed
<1>3. /\ IsFiniteSet(Sentinel) /\ Cardinality(Sentinel) \in Nat
      /\ Cardinality(P) \in Nat /\ Cardinality(Q) \in Nat
  BY SentinelsFinite, FS_Subset, FS_CardinalityType
<1>4. Cardinality(P) + Cardinality(Q) > Cardinality(Sentinel)
  BY <1>1, <1>2, <1>3, SMTT(60) DEF Majority
<1>5. PICK x \in P : x \in Q
  BY <1>3, <1>4, FS_MajoritiesIntersect
<1>6. <<x, epoch, s>> \in V /\ <<x, epoch, t>> \in V
  BY <1>1, <1>2, <1>5
<1> QED BY <1>6

-----------------------------------------------------------------------------
\* A step of s that casts no vote keeps the invariant.
LEMMA PlainStep ==
  ASSUME IInv, NEW s \in Sentinel, NEW new, SentinelOK(s, new, votes),
         new.leader_epoch = sentinel[s].leader_epoch,
         sentinel' = [sentinel EXCEPT ![s] = new],
         disk' = disk \/ \E c : FileOK(c, new.leader_epoch) /\ disk' = [disk EXCEPT ![s] = c],
         votes' = votes, elected' = elected
  PROVE  IInv'
<1>1. DOMAIN sentinel' = Sentinel /\ DOMAIN disk' = Sentinel
  BY DEF IInv
<1>2. \A t \in Sentinel : sentinel'[t] = IF t = s THEN new ELSE sentinel[t]
  BY DEF IInv
<1>3. \A t \in Sentinel : sentinel'[t].leader_epoch = sentinel[t].leader_epoch
  BY <1>2
<1>4. \A t \in Sentinel : SentinelOK(t, sentinel'[t], votes')
  BY <1>2 DEF IInv
<1>5. \A t \in Sentinel : FileOK(disk'[t], sentinel'[t].leader_epoch)
  BY <1>2, <1>3, SMTT(60) DEF IInv
<1>6. VotesOnce'
  BY DEF IInv, VotesOnce
<1>7. \A e \in elected' : /\ e[1] \in Sentinel /\ e[2] \in Nat
                          /\ e[2] = e[3] => Backed(e[1], e[2], votes')
  BY DEF IInv
<1> QED BY <1>1, <1>3, <1>4, <1>5, <1>6, <1>7 DEF IInv

\* The file a Sentinel writes has the epoch of its vote.
LEMMA ConfigOK ==
  ASSUME NEW s, NEW st, NEW V, SentinelOK(s, st, V)
  PROVE  FileOK(Config(st), st.leader_epoch)
BY DEF SentinelOK, FileOK, Config

LEMMA BackedMonotone ==
  ASSUME NEW s, NEW epoch, NEW V, NEW W, V \subseteq W, Backed(s, epoch, V)
  PROVE  Backed(s, epoch, W)
BY DEF Backed

\* A step in which x votes or refuses to (Voted), and in which nothing else
\* happens to the votes the Sentinels remember, keeps the invariant.
LEMMA VoteStep ==
  ASSUME IInv, NEW x \in Sentinel, NEW st, SentinelOK(x, st, votes),
         st.leader_epoch = sentinel[x].leader_epoch,
         NEW epoch \in Nat, NEW c \in Sentinel, Voted(x, st, epoch, c),
         DOMAIN sentinel' = Sentinel,
         \A t \in Sentinel : SentinelOK(t, sentinel'[t], VotesAfter(x, st, epoch, c)),
         sentinel'[x].leader_epoch = sentinelVoteLeader(x, st, epoch, c).leader_epoch,
         \A t \in Sentinel \ {x} : sentinel'[t].leader_epoch = sentinel[t].leader_epoch,
         \A e \in elected' \ elected :
           /\ e[1] \in Sentinel /\ e[2] \in Nat
           /\ e[2] = e[3] => Backed(e[1], e[2], VotesAfter(x, st, epoch, c))
  PROVE  IInv'
<1> DEFINE v == sentinelVoteLeader(x, st, epoch, c)
           W == VotesAfter(x, st, epoch, c)
<1>1. /\ SentinelOK(x, v, W)
      /\ v.leader_epoch = IF Votes(st, epoch) THEN epoch ELSE st.leader_epoch
  BY VoteLeaderOK, SMTT(60)
<1>2. votes' = W /\ votes \subseteq W
  BY DEF Voted, VotesAfter
<1>3. VotesOK(W, sentinel')
  BY <1>1, FirstVote, SMTT(60)
<1>4. VotesOnce' /\ votes' \subseteq Sentinel \X Nat \X Sentinel
  BY <1>2, <1>3 DEF VotesOnce, VotesOK
<1>5. \A s \in Sentinel, n \in Nat, d \in Sentinel :
        <<s, n, d>> \in votes' => n <= sentinel'[s].leader_epoch
  BY <1>2, <1>3 DEF VotesOK
<1>6. DOMAIN disk' = Sentinel /\ \A t \in Sentinel : FileOK(disk'[t], sentinel'[t].leader_epoch)
  <2>1. CASE disk' = disk /\ ~Votes(st, epoch)
    BY <1>1, <2>1 DEF IInv
  <2>2. CASE disk' = [disk EXCEPT ![x] = Config(v)]
    <3>1. FileOK(Config(v), v.leader_epoch)
      BY <1>1, ConfigOK
    <3>2. \A t \in Sentinel : disk'[t] = IF t = x THEN Config(v) ELSE disk[t]
      BY <2>2 DEF IInv
    <3> HIDE DEF v
    <3>3. sentinel'[x].leader_epoch = v.leader_epoch
      BY DEF v
    <3> QED BY <2>2, <3>1, <3>2, <3>3 DEF IInv
  <2> QED BY <2>1, <2>2 DEF Voted, Flush
<1>7. \A e \in elected' : /\ e[1] \in Sentinel /\ e[2] \in Nat
                          /\ e[2] = e[3] => Backed(e[1], e[2], votes')
  <2> HIDE DEF W
  <2> SUFFICES ASSUME NEW e \in elected'
               PROVE  /\ e[1] \in Sentinel /\ e[2] \in Nat
                      /\ e[2] = e[3] => Backed(e[1], e[2], W)
    BY <1>2
  <2>1. CASE e \in elected
    <3>1. e[1] \in Sentinel /\ e[2] \in Nat /\ (e[2] = e[3] => Backed(e[1], e[2], votes))
      BY <2>1 DEF IInv
    <3> QED BY <1>2, <3>1, BackedMonotone
  <2>2. CASE e \notin elected
    BY <2>2 DEF W
  <2> QED BY <2>1, <2>2
<1> QED BY <1>2, <1>4, <1>5, <1>6, <1>7 DEF IInv

\* sentinelGetLeader: who wins in the current epoch has a majority in it.
LEMMA WinnerBacked ==
  ASSUME NEW s \in Sentinel, NEW st, SentinelOK(s, st, votes), NEW w \in Sentinel,
         st.failover_epoch = st.current_epoch, IsLeader(s, st, w)
  PROVE  Backed(s, st.failover_epoch, VotesAfter(s, st, st.failover_epoch, w))
<1> DEFINE epoch == st.failover_epoch
           v == sentinelVoteLeader(s, st, epoch, w)
           W == VotesAfter(s, st, epoch, w)
           R == {t \in DOMAIN st.sentinels : /\ st.sentinels[t].leader = s
                                             /\ st.sentinels[t].leader_epoch = st.current_epoch}
           own == v.leader = s /\ v.leader_epoch = epoch
<1>1. epoch \in Nat /\ SentinelOK(s, v, W)
  <2>1. epoch \in Nat
    BY DEF SentinelOK
  <2> QED BY <2>1, VoteLeaderOK
<1>2. votes \subseteq W
  BY DEF VotesAfter
<1>3. R \subseteq Sentinel \ {s} /\ \A t \in R : <<t, epoch, s>> \in W
  <2>1. R \subseteq Sentinel \ {s}
    BY DEF SentinelOK
  <2>2. ASSUME NEW t \in R PROVE <<t, epoch, s>> \in votes
    <3>1. Cast(t, st.sentinels[t], votes)
      BY <2>1 DEF SentinelOK
    <3> QED BY <3>1, SentinelsFinite DEF Cast
  <2> QED BY <1>2, <2>1, <2>2
<1>4. own => <<s, epoch, s>> \in W
  BY <1>1, SentinelsFinite DEF SentinelOK, Cast
<1>5. IsFiniteSet(R) /\ Cardinality(R) \in Nat
  BY <1>3, SentinelsFinite, FS_Subset, FS_CardinalityType
<1>6. Cardinality(R) + (IF own THEN 1 ELSE 0) >= Majority
  BY DEF IsLeader, VotesFor
<1> HIDE DEF v, W, R, epoch
<1>7. CASE own
  <2>1. Cardinality(R \cup {s}) = Cardinality(R) + 1
    BY <1>3, <1>5, FS_AddElement
  <2>2. R \cup {s} \in SUBSET Sentinel /\ Cardinality(R \cup {s}) >= Majority
    BY <1>3, <1>6, <1>7, <2>1
  <2>3. \A t \in R \cup {s} : <<t, epoch, s>> \in W
    BY <1>3, <1>4, <1>7
  <2> QED BY <2>2, <2>3 DEF Backed, epoch, W
<1>8. CASE ~own
  BY <1>3, <1>5, <1>6, <1>8, SMTT(60) DEF Backed, Majority, epoch, W
<1> QED BY <1>7, <1>8

-----------------------------------------------------------------------------
\* Counting the votes, and voting, in a failover of one's own.
LEMMA WaitStartStep ==
  ASSUME IInv, NEW s \in Sentinel, NEW st, SentinelOK(s, st, votes),
         st.leader_epoch = sentinel[s].leader_epoch, NEW giveup, WaitStart(s, st, giveup)
  PROVE  IInv'
<1> DEFINE epoch == st.failover_epoch
<1>1. PICK w \in Candidates(s, st) :
        LET v == sentinelVoteLeader(s, st, epoch, w)
            won == IsLeader(s, st, w)
        IN /\ Voted(s, st, epoch, w)
           /\ giveup => ~won
           /\ Becomes(s, IF won THEN [v EXCEPT !.failover_state = "SELECT_SLAVE"]
                         ELSE IF giveup THEN sentinelAbortFailover(v) ELSE v)
           /\ elected' = IF won THEN elected \cup {<<s, epoch, st.current_epoch>>} ELSE elected
  BY DEF WaitStart
<1>2. w \in Sentinel
  BY DEF Candidates, Favourites
<1>3. epoch \in Nat /\ st.current_epoch \in Nat
  BY DEF SentinelOK
<1> DEFINE v == sentinelVoteLeader(s, st, epoch, w)
           W == VotesAfter(s, st, epoch, w)
           won == IsLeader(s, st, w)
           new == IF won THEN [v EXCEPT !.failover_state = "SELECT_SLAVE"]
                  ELSE IF giveup THEN sentinelAbortFailover(v) ELSE v
<1>4. SentinelOK(s, v, W)
  BY <1>2, <1>3, VoteLeaderOK
<1>5. SentinelOK(s, new, W) /\ new.leader_epoch = v.leader_epoch
  <2> HIDE DEF v, W
  <2>1. /\ {"current_epoch", "failover_epoch", "leader", "leader_epoch", "sentinels"} \subseteq DOMAIN new
        /\ new.current_epoch = v.current_epoch /\ new.failover_epoch = v.failover_epoch
        /\ new.leader = v.leader /\ new.leader_epoch = v.leader_epoch
        /\ new.sentinels = v.sentinels
    BY <1>4 DEF SentinelOK, sentinelAbortFailover
  <2> HIDE DEF new
  <2>2. v.current_epoch \in Nat /\ v.failover_epoch \in Nat
    BY <1>4 DEF SentinelOK
  <2> QED BY <1>4, <2>1, <2>2, SameVotes
<1>6. sentinel' = [sentinel EXCEPT ![s] = new]
  BY <1>1 DEF Becomes
<1>7. votes \subseteq W
  BY DEF VotesAfter
<1>8. /\ DOMAIN sentinel' = Sentinel
      /\ \A t \in Sentinel : sentinel'[t] = IF t = s THEN new ELSE sentinel[t]
  <2> HIDE DEF new
  <2> QED BY <1>6 DEF IInv
<1>9. \A t \in Sentinel : SentinelOK(t, sentinel'[t], W)
  <2> HIDE DEF new, W
  <2>1. \A t \in Sentinel : SentinelOK(t, sentinel[t], W)
    BY <1>7, CastMonotone DEF IInv
  <2> QED BY <1>5, <1>8, <2>1
<1>10. \A e \in elected' \ elected :
         /\ e[1] \in Sentinel /\ e[2] \in Nat
         /\ e[2] = e[3] => Backed(e[1], e[2], W)
  <2> SUFFICES ASSUME won
               PROVE  epoch = st.current_epoch => Backed(s, epoch, W)
    BY <1>1, <1>3, SMTT(60)
  <2> QED BY <1>2, WinnerBacked
<1>11. /\ sentinel'[s].leader_epoch = v.leader_epoch
       /\ \A t \in Sentinel \ {s} : sentinel'[t].leader_epoch = sentinel[t].leader_epoch
  <2> HIDE DEF new, v
  <2> QED BY <1>5, <1>8
<1>12. Voted(s, st, epoch, w)
  BY <1>1
<1> QED BY <1>2, <1>3, <1>8, <1>9, <1>10, <1>11, <1>12, VoteStep

\* t is asked for its vote, and s may hear of it.
LEMMA AskStep ==
  ASSUME IInv, NEW s \in Sentinel, NEW t \in Sentinel, NEW lost,
         sentinelAskMasterStateToOtherSentinels(s, t, lost)
  PROVE  IInv'
<1> DEFINE epoch == sentinel[s].current_epoch
           tt == sentinelVoteLeader(t, sentinel[t], epoch, s)
           W == VotesAfter(t, sentinel[t], epoch, s)
           old == sentinel[s].sentinels[t]
           r == IF lost \/ tt.leader = NULL \/ tt.leader_epoch < epoch THEN old
                ELSE [leader |-> tt.leader, leader_epoch |-> tt.leader_epoch]
           f == [sentinel[s].sentinels EXCEPT ![t] = r]
           new == [sentinel[s] EXCEPT !.sentinels = f]
<1>1. t # s /\ SentinelOK(s, sentinel[s], votes) /\ SentinelOK(t, sentinel[t], votes) /\ epoch \in Nat
  BY DEF IInv, SentinelOK, sentinelAskMasterStateToOtherSentinels
<1>2. SentinelOK(t, tt, W) /\ votes \subseteq W
  BY <1>1, VoteLeaderOK DEF VotesAfter
<1>3. SentinelOK(s, sentinel[s], W)
  BY <1>1, <1>2, CastMonotone
<1>4. Cast(t, r, W)
  <2>1. Cast(t, old, W)
    BY <1>1, <1>3 DEF SentinelOK
  <2>2. Cast(t, [leader |-> tt.leader, leader_epoch |-> tt.leader_epoch], W)
    BY <1>2 DEF SentinelOK, Cast
  <2> HIDE DEF tt, old
  <2> QED BY <2>1, <2>2
<1>5. /\ DOMAIN sentinel' = Sentinel
      /\ \A x \in Sentinel : sentinel'[x] = IF x = s THEN new ELSE IF x = t THEN tt ELSE sentinel[x]
  <2>1. sentinel' = [sentinel EXCEPT ![t] = tt, ![s].sentinels[t] = r]
    BY DEF sentinelAskMasterStateToOtherSentinels
  <2> HIDE DEF tt, r
  <2> QED BY <1>1, <2>1 DEF IInv
<1> HIDE DEF tt, r, W
<1>6. SentinelOK(s, new, W) /\ new.leader_epoch = sentinel[s].leader_epoch
  <2>1. DOMAIN f = Sentinel \ {s} /\ \A x \in Sentinel \ {s} : Cast(x, f[x], W)
    BY <1>3, <1>4 DEF SentinelOK
  <2> HIDE DEF f
  <2>2. /\ DOMAIN new = DOMAIN sentinel[s] /\ new.sentinels = f
        /\ new.current_epoch = sentinel[s].current_epoch
        /\ new.failover_epoch = sentinel[s].failover_epoch
        /\ new.leader = sentinel[s].leader /\ new.leader_epoch = sentinel[s].leader_epoch
    BY <1>3 DEF SentinelOK
  <2> HIDE DEF new
  <2> QED BY <1>3, <2>1, <2>2 DEF SentinelOK, Cast
<1> HIDE DEF new
<1>7. \A x \in Sentinel : SentinelOK(x, sentinel'[x], W)
  <2>1. \A x \in Sentinel : SentinelOK(x, sentinel[x], W)
    BY <1>2, CastMonotone DEF IInv
  <2> QED BY <1>2, <1>5, <1>6, <2>1
<1>8. /\ sentinel'[t].leader_epoch = tt.leader_epoch
      /\ \A x \in Sentinel \ {t} : sentinel'[x].leader_epoch = sentinel[x].leader_epoch
  BY <1>1, <1>5, <1>6
<1>9. Voted(t, sentinel[t], epoch, s) /\ elected' = elected
  BY DEF sentinelAskMasterStateToOtherSentinels
<1> QED BY <1>1, <1>5, <1>7, <1>8, <1>9, VoteStep DEF tt, W

\* A step of s that changes none of the fields that votes are about.
LEMMA SameStep ==
  ASSUME IInv, NEW s \in Sentinel, NEW new, Becomes(s, new),
         DOMAIN new = DOMAIN sentinel[s],
         new.current_epoch = sentinel[s].current_epoch,
         new.failover_epoch = sentinel[s].failover_epoch,
         new.leader \in {sentinel[s].leader, NULL},
         new.leader_epoch = sentinel[s].leader_epoch,
         new.sentinels = sentinel[s].sentinels,
         disk' = disk \/ Flush(s, new), votes' = votes, elected' = elected
  PROVE  IInv'
<1>1. SentinelOK(s, sentinel[s], votes)
  BY DEF IInv
<1>2. SentinelOK(s, new, votes)
  <2>1. /\ {"current_epoch", "failover_epoch", "leader", "leader_epoch", "sentinels"} \subseteq DOMAIN new
        /\ new.current_epoch \in Nat /\ new.failover_epoch \in Nat
    BY <1>1 DEF SentinelOK
  <2> QED BY <1>1, <2>1, SameVotes
<1>3. FileOK(Config(new), new.leader_epoch)
  BY <1>2, ConfigOK
<1>4. sentinel' = [sentinel EXCEPT ![s] = new]
  BY DEF Becomes
<1>5. disk' = disk \/ \E c : FileOK(c, new.leader_epoch) /\ disk' = [disk EXCEPT ![s] = c]
  BY <1>3 DEF Flush
<1> QED BY <1>2, <1>4, <1>5, PlainStep

\* The timer of s, in its failover.
LEMMA TimerStep ==
  ASSUME IInv, NEW s \in Sentinel, Timer(s)
  PROVE  IInv'
<1> DEFINE st == sentinel[s]
<1>0. SentinelOK(s, st, votes)
  BY DEF IInv
<1>1. CASE sentinelStartFailover(s)
  <2> DEFINE epoch == st.current_epoch + 1
             u == NewEpoch(st, epoch)
             new == [u EXCEPT !.failover_state = "WAIT_START", !.delay = TRUE,
                              !.failover_epoch = epoch]
  <2>1. WaitStart(s, new, FALSE)
    BY <1>1 DEF sentinelStartFailover
  <2>2. epoch \in Nat
    BY <1>0, SMTT(60) DEF SentinelOK
  <2> HIDE DEF epoch
  <2>3. SentinelOK(s, u, votes) /\ u.leader_epoch = st.leader_epoch
    BY <1>0, <2>2, NewEpochOK, SMTT(60)
  <2> HIDE DEF u
  <2>4. /\ {"current_epoch", "failover_epoch", "leader", "leader_epoch", "sentinels"} \subseteq DOMAIN new
        /\ new.current_epoch \in Nat /\ new.failover_epoch \in Nat
        /\ new.leader = u.leader /\ new.leader_epoch = u.leader_epoch
        /\ new.sentinels = u.sentinels
    BY <2>2, <2>3 DEF SentinelOK
  <2> HIDE DEF new
  <2>5. SentinelOK(s, new, votes)
    BY <2>3, <2>4, SameVotes
  <2> QED BY <2>1, <2>3, <2>4, <2>5, WaitStartStep
<1>2. ASSUME NEW giveup \in BOOLEAN, sentinelFailoverWaitStart(s, giveup) PROVE IInv'
  BY <1>0, <1>2, WaitStartStep DEF sentinelFailoverWaitStart
<1>3. CASE delayOver(s)
  BY <1>0, <1>3, SameStep DEF delayOver, SentinelOK
<1>4. CASE sentinelFailoverSelectSlave(s)
  <2>1. CASE Becomes(s, sentinelAbortFailover(st))
    BY <1>0, <1>4, <2>1, SameStep DEF sentinelFailoverSelectSlave, sentinelAbortFailover, SentinelOK
  <2>2. ASSUME NEW i,
               Becomes(s, [st EXCEPT !.promoted = i, !.failover_state = "SEND_SLAVEOF_NOONE"])
        PROVE  IInv'
    BY <1>0, <1>4, <2>2, SameStep DEF sentinelFailoverSelectSlave, SentinelOK
  <2> QED BY <1>4, <2>1, <2>2 DEF sentinelFailoverSelectSlave
<1>5. CASE sentinelFailoverSendSlaveOfNoOne(s)
  BY <1>0, <1>5, SameStep DEF sentinelFailoverSendSlaveOfNoOne, SentinelOK
<1>6. CASE promotionTimeout(s)
  BY <1>0, <1>6, SameStep DEF promotionTimeout, sentinelAbortFailover, SentinelOK
<1>7. ASSUME NEW i \in Instance, sentinelFailoverReconfNextSlave(s, i) PROVE IInv'
  BY <1>0, <1>7, SameStep DEF sentinelFailoverReconfNextSlave, SentinelOK
<1>8. ASSUME NEW timeout \in BOOLEAN, sentinelFailoverDetectEnd(s, timeout) PROVE IInv'
  BY <1>0, <1>8, SameStep
     DEF sentinelFailoverDetectEnd, sentinelResetMasterAndChangeAddress, SentinelOK
<1> QED BY <1>1, <1>2, <1>3, <1>4, <1>5, <1>6, <1>7, <1>8 DEF Timer

\* What s hears.
LEMMA NewsStep ==
  ASSUME IInv, NEW s \in Sentinel, News(s)
  PROVE  IInv'
<1> DEFINE st == sentinel[s]
<1>0. SentinelOK(s, st, votes)
  BY SMTT(60) DEF IInv
<1>1. CASE sentinelCheckSubjectivelyDown(s)
  BY <1>0, <1>1, SameStep DEF sentinelCheckSubjectivelyDown, SentinelOK
<1>2. ASSUME NEW t \in Sentinel, NEW lost \in BOOLEAN, sentinelAskMasterStateToOtherSentinels(s, t, lost)
      PROVE  IInv'
  BY <1>2, AskStep
<1>3. CASE promotedSlave(s)
  BY <1>0, <1>3, SameStep DEF promotedSlave, SentinelOK
<1>4. ASSUME NEW i \in Instance, convertToSlave(s, i) PROVE IInv'
  BY <1>4 DEF convertToSlave, IInv, VotesOnce
<1>5. ASSUME NEW t \in Sentinel, sentinelProcessHelloMessage(s, t) PROVE IInv'
  <2> DEFINE epoch == sentinel[t].current_epoch
             h == Published(sentinel[t])
             n == NewEpoch(st, epoch)
             u == [n EXCEPT !.config_epoch = IF h.config_epoch > @ THEN h.config_epoch ELSE @]
             new == IF h.config_epoch > st.config_epoch /\ h.addr # st.addr
                    THEN sentinelResetMasterAndChangeAddress(u, h.addr) ELSE u
  <2>1. /\ Becomes(s, new)
        /\ disk' = disk \/ Flush(s, new) \/ Flush(s, n)
        /\ votes' = votes /\ elected' = elected
    BY <1>5 DEF sentinelProcessHelloMessage
  <2>2. epoch \in Nat
    BY DEF IInv, SentinelOK
  <2>3. SentinelOK(s, n, votes) /\ n.leader_epoch = st.leader_epoch
    BY <1>0, <2>2, NewEpochOK, SMTT(60)
  <2> HIDE DEF n, h
  <2>4. SentinelOK(s, new, votes) /\ new.leader_epoch = st.leader_epoch
    <3>1. /\ {"current_epoch", "failover_epoch", "leader", "leader_epoch", "sentinels"} \subseteq DOMAIN new
          /\ new.current_epoch = n.current_epoch /\ new.failover_epoch = n.failover_epoch
          /\ new.leader \in {n.leader, NULL} /\ new.leader_epoch = n.leader_epoch
          /\ new.sentinels = n.sentinels
      BY <2>3 DEF SentinelOK, sentinelResetMasterAndChangeAddress
    <3> HIDE DEF new
    <3>2. n.current_epoch \in Nat /\ n.failover_epoch \in Nat
      BY <2>3 DEF SentinelOK
    <3> QED BY <2>3, <3>1, <3>2, SameVotes
  <2> HIDE DEF new
  <2>5. FileOK(Config(new), new.leader_epoch) /\ FileOK(Config(n), new.leader_epoch)
    BY <2>3, <2>4, ConfigOK
  <2>6. disk' = disk \/ \E c : FileOK(c, new.leader_epoch) /\ disk' = [disk EXCEPT ![s] = c]
    BY <2>1, <2>5 DEF Flush
  <2>7. sentinel' = [sentinel EXCEPT ![s] = new]
    BY <2>1 DEF Becomes
  <2> QED BY <2>1, <2>4, <2>6, <2>7, PlainStep
<1> QED BY <1>1, <1>2, <1>3, <1>4, <1>5 DEF News

-----------------------------------------------------------------------------
LEMMA InvInit ==
  ASSUME Init
  PROVE  IInv
<1>1. PICK m : disk = [s \in Sentinel |->
                         [current_epoch |-> 0, config_epoch |-> 0, leader_epoch |-> 0, addr |-> m]]
  BY DEF Init
<1>2. /\ sentinel = [s \in Sentinel |-> Started(s, disk[s])] /\ votes = {} /\ elected = {}
  BY DEF Init
<1>3. \A s \in Sentinel : SentinelOK(s, sentinel[s], votes) /\ FileOK(disk[s], sentinel[s].leader_epoch)
  BY <1>1, <1>2 DEF Started, SentinelOK, Cast, FileOK, NoReply
<1> QED BY <1>1, <1>2, <1>3 DEF IInv, VotesOnce

LEMMA InvNext ==
  ASSUME IInv, [Next]_vars
  PROVE  IInv'
<1>1. ASSUME NEW s \in Sentinel, restartSentinel(s) PROVE IInv'
  <2> DEFINE new == Started(s, disk[s])
  <2>1. FileOK(disk[s], sentinel[s].leader_epoch) /\ sentinel[s].leader_epoch \in Nat
    BY DEF IInv, SentinelOK, Cast
  <2>2. SentinelOK(s, new, votes) /\ new.leader_epoch = sentinel[s].leader_epoch
    BY <2>1 DEF Started, SentinelOK, Cast, FileOK, NoReply
  <2> HIDE DEF new
  <2>3. sentinel' = [sentinel EXCEPT ![s] = new] /\ disk' = disk /\ votes' = votes /\ elected' = elected
    BY <1>1 DEF restartSentinel, Becomes, new
  <2> QED BY <2>2, <2>3, PlainStep
<1>2. ASSUME NEW i \in Instance, crash(i) \/ recover(i) PROVE IInv'
  BY <1>2 DEF crash, recover, IInv, VotesOnce
<1>3. CASE UNCHANGED vars
  BY <1>3 DEF vars, IInv, VotesOnce
<1> QED BY <1>1, <1>2, <1>3, TimerStep, NewsStep DEF Next

\* The inductive invariant holds in every reachable state.
THEOREM Invariance == Spec => []IInv
<1>1. Init => IInv
  BY InvInit
<1>2. IInv /\ [Next]_vars => IInv'
  BY InvNext
<1> QED BY <1>1, <1>2, PTL DEF Spec

\* A Sentinel casts one vote per epoch (sentinelVoteLeader), restarts included.
THEOREM VotesOnceAlways == Spec => []VotesOnce
<1>1. IInv => VotesOnce
  BY DEF IInv
<1> QED BY <1>1, Invariance, PTL

\* An election counted in the epoch its failover began in has one winner
\* (sentinelGetLeader), however many Sentinels there are.
THEOREM OneLeaderAlways == Spec => []OneLeaderPerEpoch
<1>1. ASSUME IInv PROVE OneLeaderPerEpoch
  <2> SUFFICES ASSUME NEW e \in elected, NEW f \in elected,
                      e[2] = e[3], f[2] = f[3], e[2] = f[2]
               PROVE  e[1] = f[1]
    BY DEF OneLeaderPerEpoch
  <2>1. /\ e[1] \in Sentinel /\ f[1] \in Sentinel /\ e[2] \in Nat
        /\ Backed(e[1], e[2], votes) /\ Backed(f[1], e[2], votes)
    BY <1>1 DEF IInv
  <2>2. \A v, w \in votes : v[1] = w[1] /\ v[2] = w[2] => v[3] = w[3]
    BY <1>1 DEF IInv, VotesOnce
  <2> QED BY <2>1, <2>2, BackedOnce
<1> QED BY <1>1, Invariance, PTL

-----------------------------------------------------------------------------
(* Configurations. *)

\* The fields that say which master a Sentinel announces.
MasterFields == {"addr", "failover_state", "promoted", "config_epoch"}

\* new announces what st does.
SameMaster(st, new) ==
  /\ MasterFields \subseteq DOMAIN new
  /\ new.addr = st.addr /\ new.failover_state = st.failover_state
  /\ new.promoted = st.promoted /\ new.config_epoch = st.config_epoch

\* The master a Sentinel would start with is the one it announces: every step
\* that changes it writes the file.
MInv ==
  \A s \in Sentinel : /\ MasterFields \subseteq DOMAIN sentinel[s]
                      /\ disk[s].addr = CurrentMaster(sentinel[s])

Forward ==
  \A s \in Sentinel : CurrentMaster(sentinel'[s]) # CurrentMaster(sentinel[s])
                        => \/ sentinel'[s].config_epoch > sentinel[s].config_epoch
                           \/ promotedSlave(s)

\* A new epoch, and a vote, leave the master alone.
LEMMA NewEpochMaster ==
  ASSUME NEW st, NEW epoch, MasterFields \subseteq DOMAIN st
  PROVE  SameMaster(st, NewEpoch(st, epoch))
BY DEF NewEpoch, SameMaster, MasterFields

LEMMA VoteMaster ==
  ASSUME NEW s, NEW st, NEW epoch, NEW c, MasterFields \subseteq DOMAIN st
  PROVE  SameMaster(st, sentinelVoteLeader(s, st, epoch, c))
<1> DEFINE u == NewEpoch(st, epoch)
<1>1. SameMaster(st, u)
  BY NewEpochMaster
<1>2. \/ sentinelVoteLeader(s, st, epoch, c) = u
      \/ sentinelVoteLeader(s, st, epoch, c) =
           [u EXCEPT !.leader = c, !.leader_epoch = epoch,
                     !.delay = IF c # s THEN TRUE ELSE @]
  BY DEF sentinelVoteLeader
<1> HIDE DEF u
<1> QED BY <1>1, <1>2 DEF SameMaster, MasterFields

LEMMA SameCurrentMaster ==
  ASSUME NEW st, NEW new, SameMaster(st, new)
  PROVE  CurrentMaster(new) = CurrentMaster(st)
BY DEF SameMaster, CurrentMaster

\* A step that gives the state new to s alone: it is enough to look at s.
LEMMA MasterStep ==
  ASSUME IInv, MInv, NEW s \in Sentinel, NEW new, Becomes(s, new),
         MasterFields \subseteq DOMAIN new,
         \/ disk' = disk /\ CurrentMaster(new) = CurrentMaster(sentinel[s])
         \/ \E c : c.addr = CurrentMaster(new) /\ disk' = [disk EXCEPT ![s] = c],
         CurrentMaster(new) # CurrentMaster(sentinel[s])
           => new.config_epoch > sentinel[s].config_epoch \/ promotedSlave(s)
  PROVE  MInv' /\ Forward
<1>1. \A t \in Sentinel : sentinel'[t] = IF t = s THEN new ELSE sentinel[t]
  BY DEF IInv, Becomes
<1>2. \A t \in Sentinel : t # s => disk'[t] = disk[t]
  BY DEF IInv
<1>3. disk'[s].addr = CurrentMaster(new)
  BY DEF IInv, MInv
<1>4. \A t \in Sentinel : /\ MasterFields \subseteq DOMAIN sentinel'[t]
                          /\ disk'[t].addr = CurrentMaster(sentinel'[t])
  BY <1>1, <1>2, <1>3 DEF MInv
<1>5. Forward
  BY <1>1 DEF Forward
<1> QED BY <1>4, <1>5 DEF MInv

LEMMA FlushedMaster ==
  ASSUME NEW st
  PROVE  Config(st).addr = CurrentMaster(st)
BY DEF Config

\* Counting the votes: a failover that has not begun to reconfigure announces
\* the old master.
LEMMA WaitStartMaster ==
  ASSUME IInv, MInv, NEW s \in Sentinel, NEW st, NEW giveup, WaitStart(s, st, giveup),
         MasterFields \subseteq DOMAIN st, st.addr = CurrentMaster(sentinel[s]),
         st.failover_state = "WAIT_START"
  PROVE  MInv' /\ Forward
<1> DEFINE epoch == st.failover_epoch
<1>1. PICK w \in Candidates(s, st) :
        LET v == sentinelVoteLeader(s, st, epoch, w)
            won == IsLeader(s, st, w)
        IN /\ Voted(s, st, epoch, w)
           /\ Becomes(s, IF won THEN [v EXCEPT !.failover_state = "SELECT_SLAVE"]
                         ELSE IF giveup THEN sentinelAbortFailover(v) ELSE v)
  BY DEF WaitStart
<1> DEFINE v == sentinelVoteLeader(s, st, epoch, w)
           won == IsLeader(s, st, w)
           new == IF won THEN [v EXCEPT !.failover_state = "SELECT_SLAVE"]
                  ELSE IF giveup THEN sentinelAbortFailover(v) ELSE v
<1>2. SameMaster(st, v)
  BY VoteMaster
<1>3. disk' = disk \/ disk' = [disk EXCEPT ![s] = Config(v)]
  BY <1>1 DEF Voted, Flush
<1>4. Becomes(s, new)
  BY <1>1
<1> HIDE DEF v, won
<1>5. /\ MasterFields \subseteq DOMAIN new /\ new.addr = st.addr
      /\ new.failover_state \in {"SELECT_SLAVE", "NONE", "WAIT_START"}
  BY <1>2 DEF SameMaster, MasterFields, sentinelAbortFailover
<1> HIDE DEF new
<1>6. CurrentMaster(new) = st.addr /\ CurrentMaster(v) = st.addr
  BY <1>2, <1>5 DEF CurrentMaster, SameMaster
<1>7. Config(v).addr = CurrentMaster(new)
  BY <1>6, FlushedMaster
<1> QED BY <1>3, <1>4, <1>5, <1>6, <1>7, MasterStep

\* t is asked for its vote: neither t nor s announces anything else.
LEMMA AskMaster ==
  ASSUME IInv, MInv, NEW s \in Sentinel, NEW t \in Sentinel, NEW lost,
         sentinelAskMasterStateToOtherSentinels(s, t, lost)
  PROVE  MInv' /\ Forward
<1> DEFINE epoch == sentinel[s].current_epoch
           tt == sentinelVoteLeader(t, sentinel[t], epoch, s)
           old == sentinel[s].sentinels[t]
           r == IF lost \/ tt.leader = NULL \/ tt.leader_epoch < epoch THEN old
                ELSE [leader |-> tt.leader, leader_epoch |-> tt.leader_epoch]
           f == [sentinel[s].sentinels EXCEPT ![t] = r]
           new == [sentinel[s] EXCEPT !.sentinels = f]
<1>1. t # s /\ (disk' = disk \/ disk' = [disk EXCEPT ![t] = Config(tt)])
  BY DEF sentinelAskMasterStateToOtherSentinels, Voted, Flush
<1>2. SameMaster(sentinel[t], tt)
  BY VoteMaster DEF MInv
<1>3. \A x \in Sentinel : sentinel'[x] = IF x = s THEN new ELSE IF x = t THEN tt ELSE sentinel[x]
  <2>1. sentinel' = [sentinel EXCEPT ![t] = tt, ![s].sentinels[t] = r]
    BY DEF sentinelAskMasterStateToOtherSentinels
  <2> HIDE DEF tt, r
  <2> QED BY <1>1, <2>1 DEF IInv
<1> HIDE DEF tt, f
<1>4. SameMaster(sentinel[s], new)
  BY DEF MInv, SameMaster, MasterFields
<1> HIDE DEF new
<1>5. \A x \in Sentinel : SameMaster(sentinel[x], sentinel'[x])
  BY <1>2, <1>3, <1>4 DEF MInv, SameMaster
<1>6. \A x \in Sentinel : /\ MasterFields \subseteq DOMAIN sentinel'[x]
                          /\ CurrentMaster(sentinel'[x]) = CurrentMaster(sentinel[x])
  BY <1>5, SameCurrentMaster DEF SameMaster
<1>7. \A x \in Sentinel : disk'[x].addr = disk[x].addr
  <2>1. Config(tt).addr = disk[t].addr
    BY <1>2, SameCurrentMaster, FlushedMaster DEF MInv
  <2> QED BY <1>1, <2>1 DEF IInv
<1> QED BY <1>6, <1>7 DEF MInv, Forward

\* A hello is followed only if its configuration is newer.
LEMMA HelloMaster ==
  ASSUME IInv, MInv, NEW s \in Sentinel, NEW t \in Sentinel, sentinelProcessHelloMessage(s, t)
  PROVE  MInv' /\ Forward
<1> DEFINE st == sentinel[s]
           epoch == sentinel[t].current_epoch
           h == Published(sentinel[t])
           n == NewEpoch(st, epoch)
           u == [n EXCEPT !.config_epoch = IF h.config_epoch > @ THEN h.config_epoch ELSE @]
           moves == h.config_epoch > st.config_epoch /\ h.addr # st.addr
           new == IF moves THEN sentinelResetMasterAndChangeAddress(u, h.addr) ELSE u
<1>1. /\ Becomes(s, new)
      /\ IF moves THEN Flush(s, new) ELSE disk' = disk \/ Flush(s, n)
  BY DEF sentinelProcessHelloMessage
<1>2. SameMaster(st, n)
  BY NewEpochMaster DEF MInv
<1> HIDE DEF h, n
<1>3. /\ MasterFields \subseteq DOMAIN u /\ u.addr = st.addr
      /\ u.failover_state = st.failover_state /\ u.promoted = st.promoted
      /\ h.config_epoch > st.config_epoch => u.config_epoch = h.config_epoch
  BY <1>2 DEF SameMaster, MasterFields
<1> HIDE DEF u
<1>4. /\ MasterFields \subseteq DOMAIN new
      /\ moves => new.config_epoch = u.config_epoch
  BY <1>3 DEF sentinelResetMasterAndChangeAddress, MasterFields
<1>5. CASE moves
  <2>1. new.config_epoch > st.config_epoch
    BY <1>3, <1>4, <1>5
  <2>2. Config(new).addr = CurrentMaster(new) /\ disk' = [disk EXCEPT ![s] = Config(new)]
    BY <1>1, <1>5, FlushedMaster DEF Flush
  <2> HIDE DEF new
  <2> QED BY <1>1, <1>4, <2>1, <2>2, MasterStep
<1>6. CASE ~moves
  <2>1. new = u
    BY <1>6
  <2>2. CurrentMaster(u) = CurrentMaster(st) /\ CurrentMaster(n) = CurrentMaster(st)
    BY <1>2, <1>3 DEF CurrentMaster, SameMaster
  <2>3. Config(n).addr = CurrentMaster(u)
    BY <2>2, FlushedMaster
  <2>4. disk' = disk \/ disk' = [disk EXCEPT ![s] = Config(n)]
    BY <1>1, <1>6 DEF Flush
  <2> HIDE DEF new, moves
  <2> QED BY <1>1, <1>4, <2>1, <2>2, <2>3, <2>4, MasterStep
<1> QED BY <1>5, <1>6

\* The timer of s: only the end of a failover writes the file, and by then the
\* promoted replica is announced already.
LEMMA TimerMaster ==
  ASSUME IInv, MInv, NEW s \in Sentinel, Timer(s)
  PROVE  MInv' /\ Forward
<1> DEFINE st == sentinel[s]
<1>0. MasterFields \subseteq DOMAIN st
  BY DEF MInv
<1>1. CASE sentinelStartFailover(s)
  <2> DEFINE epoch == st.current_epoch + 1
             u == NewEpoch(st, epoch)
             new == [u EXCEPT !.failover_state = "WAIT_START", !.delay = TRUE,
                              !.failover_epoch = epoch]
  <2>1. WaitStart(s, new, FALSE) /\ st.failover_state = "NONE"
    BY <1>1 DEF sentinelStartFailover
  <2>2. SameMaster(st, u)
    BY <1>0, NewEpochMaster
  <2> HIDE DEF u
  <2>3. MasterFields \subseteq DOMAIN new /\ new.addr = st.addr /\ new.failover_state = "WAIT_START"
    BY <2>2 DEF SameMaster, MasterFields
  <2>4. CurrentMaster(st) = st.addr
    BY <2>1 DEF CurrentMaster
  <2> HIDE DEF new
  <2> QED BY <2>1, <2>3, <2>4, WaitStartMaster
<1>2. ASSUME NEW giveup \in BOOLEAN, sentinelFailoverWaitStart(s, giveup) PROVE MInv' /\ Forward
  <2>1. WaitStart(s, st, giveup) /\ st.failover_state = "WAIT_START"
    BY <1>2 DEF sentinelFailoverWaitStart
  <2>2. CurrentMaster(st) = st.addr
    BY <2>1 DEF CurrentMaster
  <2> QED BY <1>0, <2>1, <2>2, WaitStartMaster
<1>3. CASE delayOver(s)
  <2> DEFINE new == [st EXCEPT !.delay = FALSE]
  <2>1. Becomes(s, new) /\ disk' = disk
    BY <1>3 DEF delayOver
  <2>2. SameMaster(st, new)
    BY <1>0 DEF SameMaster, MasterFields
  <2> HIDE DEF new
  <2> QED BY <2>1, <2>2, SameCurrentMaster, MasterStep DEF SameMaster
<1>4. ASSUME NEW new, Becomes(s, new), disk' = disk, MasterFields \subseteq DOMAIN new,
             new.addr = st.addr, st.failover_state # "RECONF_SLAVES",
             new.failover_state # "RECONF_SLAVES"
      PROVE  MInv' /\ Forward
  <2>1. CurrentMaster(new) = CurrentMaster(st)
    BY <1>4 DEF CurrentMaster
  <2> QED BY <1>4, <2>1, MasterStep
<1>5. /\ MasterFields \subseteq DOMAIN sentinelAbortFailover(st)
      /\ sentinelAbortFailover(st).addr = st.addr
      /\ sentinelAbortFailover(st).failover_state = "NONE"
  BY <1>0 DEF sentinelAbortFailover, MasterFields
<1>6. CASE sentinelFailoverSelectSlave(s)
  <2>1. CASE Becomes(s, sentinelAbortFailover(st))
    BY <1>4, <1>5, <1>6, <2>1 DEF sentinelFailoverSelectSlave
  <2>2. ASSUME NEW i,
               Becomes(s, [st EXCEPT !.promoted = i, !.failover_state = "SEND_SLAVEOF_NOONE"])
        PROVE  MInv' /\ Forward
    <3> DEFINE new == [st EXCEPT !.promoted = i, !.failover_state = "SEND_SLAVEOF_NOONE"]
    <3>1. /\ MasterFields \subseteq DOMAIN new /\ new.addr = st.addr
          /\ new.failover_state = "SEND_SLAVEOF_NOONE"
      BY <1>0 DEF MasterFields
    <3>2. Becomes(s, new) /\ disk' = disk /\ st.failover_state = "SELECT_SLAVE"
      BY <1>6, <2>2 DEF sentinelFailoverSelectSlave
    <3> HIDE DEF new
    <3> QED BY <1>4, <3>1, <3>2
  <2> QED BY <1>6, <2>1, <2>2 DEF sentinelFailoverSelectSlave
<1>7. CASE sentinelFailoverSendSlaveOfNoOne(s)
  <2> DEFINE new == [st EXCEPT !.failover_state = "WAIT_PROMOTION"]
  <2>1. /\ MasterFields \subseteq DOMAIN new /\ new.addr = st.addr
        /\ new.failover_state = "WAIT_PROMOTION"
    BY <1>0 DEF MasterFields
  <2>2. Becomes(s, new) /\ disk' = disk /\ st.failover_state = "SEND_SLAVEOF_NOONE"
    BY <1>7 DEF sentinelFailoverSendSlaveOfNoOne
  <2> HIDE DEF new
  <2> QED BY <1>4, <2>1, <2>2
<1>8. CASE promotionTimeout(s)
  BY <1>4, <1>5, <1>8 DEF promotionTimeout
<1>9. ASSUME NEW i \in Instance, sentinelFailoverReconfNextSlave(s, i) PROVE MInv' /\ Forward
  <2> DEFINE new == [st EXCEPT !.reconf = @ \cup {i}]
  <2>1. Becomes(s, new) /\ disk' = disk
    BY <1>9 DEF sentinelFailoverReconfNextSlave
  <2>2. SameMaster(st, new)
    BY <1>0 DEF SameMaster, MasterFields
  <2> HIDE DEF new
  <2> QED BY <2>1, <2>2, SameCurrentMaster, MasterStep DEF SameMaster
<1>10. ASSUME NEW timeout \in BOOLEAN, sentinelFailoverDetectEnd(s, timeout) PROVE MInv' /\ Forward
  <2> DEFINE new == sentinelResetMasterAndChangeAddress(st, st.promoted)
  <2>1. Becomes(s, new) /\ Flush(s, new) /\ st.failover_state = "RECONF_SLAVES"
    BY <1>10 DEF sentinelFailoverDetectEnd
  <2>2. MasterFields \subseteq DOMAIN new /\ new.addr = st.promoted /\ new.failover_state = "NONE"
    BY <1>0 DEF sentinelResetMasterAndChangeAddress, MasterFields
  <2> HIDE DEF new
  <2>3. CurrentMaster(new) = CurrentMaster(st)
    BY <2>1, <2>2 DEF CurrentMaster
  <2>4. Config(new).addr = CurrentMaster(new) /\ disk' = [disk EXCEPT ![s] = Config(new)]
    BY <2>1, FlushedMaster DEF Flush
  <2> QED BY <2>1, <2>2, <2>3, <2>4, MasterStep
<1> QED BY <1>1, <1>2, <1>3, <1>6, <1>7, <1>8, <1>9, <1>10 DEF Timer

LEMMA NewsMaster ==
  ASSUME IInv, MInv, NEW s \in Sentinel, News(s)
  PROVE  MInv' /\ Forward
<1> DEFINE st == sentinel[s]
<1>0. MasterFields \subseteq DOMAIN st
  BY SMTT(60) DEF MInv
<1>1. CASE sentinelCheckSubjectivelyDown(s)
  <2> DEFINE new == [st EXCEPT !.s_down = ~@]
  <2>1. Becomes(s, new) /\ disk' = disk
    BY <1>1 DEF sentinelCheckSubjectivelyDown
  <2>2. SameMaster(st, new)
    BY <1>0 DEF SameMaster, MasterFields
  <2> HIDE DEF new
  <2> QED BY <2>1, <2>2, SameCurrentMaster, MasterStep, SMTT(60) DEF SameMaster
<1>2. ASSUME NEW t \in Sentinel, NEW lost \in BOOLEAN, sentinelAskMasterStateToOtherSentinels(s, t, lost)
      PROVE  MInv' /\ Forward
  BY <1>2, AskMaster
<1>3. CASE promotedSlave(s)
  <2> DEFINE new == [st EXCEPT !.config_epoch = st.failover_epoch, !.failover_state = "RECONF_SLAVES"]
  <2>1. Becomes(s, new) /\ Flush(s, new)
    BY <1>3 DEF promotedSlave
  <2>2. MasterFields \subseteq DOMAIN new
    BY <1>0 DEF MasterFields
  <2> HIDE DEF new
  <2>3. Config(new).addr = CurrentMaster(new) /\ disk' = [disk EXCEPT ![s] = Config(new)]
    BY <2>1, FlushedMaster DEF Flush
  <2> QED BY <1>3, <2>1, <2>2, <2>3, MasterStep
<1>4. ASSUME NEW i \in Instance, convertToSlave(s, i) PROVE MInv' /\ Forward
  BY <1>4 DEF convertToSlave, MInv, Forward
<1>5. ASSUME NEW t \in Sentinel, sentinelProcessHelloMessage(s, t) PROVE MInv' /\ Forward
  BY <1>5, HelloMaster
<1> QED BY <1>1, <1>2, <1>3, <1>4, <1>5 DEF News

LEMMA NextMaster ==
  ASSUME IInv, MInv, [Next]_vars
  PROVE  MInv' /\ Forward
<1>1. ASSUME NEW s \in Sentinel, restartSentinel(s) PROVE MInv' /\ Forward
  <2> DEFINE new == Started(s, disk[s])
  <2>1. Becomes(s, new) /\ disk' = disk
    BY <1>1 DEF restartSentinel
  <2>2. MasterFields \subseteq DOMAIN new /\ CurrentMaster(new) = disk[s].addr
    BY DEF Started, MasterFields, CurrentMaster
  <2> HIDE DEF new
  <2> QED BY <2>1, <2>2, MasterStep DEF MInv
<1>2. ASSUME NEW i \in Instance, crash(i) \/ recover(i) PROVE MInv' /\ Forward
  BY <1>2 DEF crash, recover, MInv, Forward
<1>3. CASE UNCHANGED vars
  BY <1>3 DEF vars, MInv, Forward
<1> QED BY <1>1, <1>2, <1>3, TimerMaster, NewsMaster DEF Next

\* No older configuration replaces a newer one, for any number of Sentinels,
\* hellos in any order and restarts at any time; only a promotion of one's own
\* is announced without a comparison.
THEOREM ConfigForward == Spec => ConfigMovesForward
<1>1. Init => MInv
  <2> SUFFICES ASSUME Init, NEW s \in Sentinel
               PROVE  /\ MasterFields \subseteq DOMAIN sentinel[s]
                      /\ disk[s].addr = CurrentMaster(sentinel[s])
    BY DEF MInv
  <2>1. sentinel[s] = Started(s, disk[s])
    BY DEF Init
  <2> QED BY <2>1, SMTT(60) DEF Started, MasterFields, CurrentMaster
<1>2. IInv /\ MInv /\ [Next]_vars => MInv' /\ [Forward]_vars
  BY NextMaster
<1>3. Spec => [][Forward]_vars
  BY <1>1, <1>2, Invariance, PTL DEF Spec
<1> QED BY <1>3, PTL DEF ConfigMovesForward, Forward
=============================================================================
