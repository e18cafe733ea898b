------------------------------ MODULE Sentinel ------------------------------
(***************************************************************************)
(* Redis Sentinel (src/redis-stable/src/sentinel.c): Sentinels that watch  *)
(* one master and its replicas, agree that the master is down, elect a     *)
(* leader among themselves, and let it promote a replica, point the others *)
(* to it and publish the new configuration under a new epoch.              *)
(*                                                                         *)
(* sentinel[s] has the fields of the C structs for the one master it       *)
(* monitors.  A timer handler that is called for a state of the failover   *)
(* is an action; what waits for a time to pass may happen at any time the  *)
(* bounds of the timeouts allow.                                           *)
(***************************************************************************)
EXTENDS Integers, FiniteSets

CONSTANTS
  Sentinel,      \* the Sentinels, all known to each other
  Instance,      \* the Redis instances
  Quorum,        \* the configured quorum
  Bounds,        \* of runs: [instances, epoch, fault, recovery, restart, loss]
  NULL

ASSUME SentinelsFinite == IsFiniteSet(Sentinel) /\ NULL \notin Sentinel

VARIABLES
  sentinel,      \* the state of each Sentinel
  disk,          \* what it last flushed to its configuration file
  redis,         \* the instances: up or not, and what they replicate from
  votes,         \* the votes cast so far: <<voter, epoch, candidate>>
  elected,       \* the elections won so far: <<leader, failover_epoch, current_epoch>>
  left           \* the last epoch of a run, and the faults it may still have

vars == <<sentinel, disk, redis, votes, elected, left>>

\* The vote a Sentinel has been told of by another one.
NoReply == [leader |-> NULL, leader_epoch |-> 0]

\* Mutant: the epoch of the last vote is not read back.
Started_X(s, c) ==
  [current_epoch |-> c.current_epoch, config_epoch |-> c.config_epoch, addr |-> c.addr,
   leader |-> NULL, leader_epoch |-> 0, s_down |-> FALSE,
   failover_state |-> "NONE", failover_epoch |-> 0, promoted |-> NULL, delay |-> FALSE,
   reconf |-> {},
   sentinels |-> [t \in Sentinel \ {s} |-> NoReply]]

\* The state after a start with the configuration file c.
Started(s, c) ==
  [current_epoch |-> c.current_epoch, config_epoch |-> c.config_epoch, addr |-> c.addr,
   leader |-> NULL, leader_epoch |-> c.leader_epoch, s_down |-> FALSE,
   failover_state |-> "NONE", failover_epoch |-> 0, promoted |-> NULL, delay |-> FALSE,
   reconf |-> {},
   sentinels |-> [t \in Sentinel \ {s} |-> NoReply]]

\* sentinelGetCurrentMasterAddress: the promoted replica, once it is a master.
CurrentMaster(st) ==
  IF st.failover_state = "RECONF_SLAVES" THEN st.promoted ELSE st.addr

\* Mutant: the address of the master that is failed over is written.
Config_X(st) ==
  [current_epoch |-> st.current_epoch, config_epoch |-> st.config_epoch,
   leader_epoch |-> st.leader_epoch, addr |-> st.addr]

\* sentinelFlushConfig.
Config(st) ==
  [current_epoch |-> st.current_epoch, config_epoch |-> st.config_epoch,
   leader_epoch |-> st.leader_epoch, addr |-> CurrentMaster(st)]

\* What sentinelSendHello publishes, besides the current epoch.
Published(st) == [config_epoch |-> st.config_epoch, addr |-> CurrentMaster(st)]

Init ==
  \E I \in SUBSET Instance : \E m \in I :
    /\ disk = [s \in Sentinel |->
                 [current_epoch |-> 0, config_epoch |-> 0, leader_epoch |-> 0, addr |-> m]]
    /\ sentinel = [s \in Sentinel |-> Started(s, disk[s])]
    /\ redis = [i \in I |-> [up |-> TRUE, masterhost |-> IF i = m THEN NULL ELSE m]]
    /\ votes = {} /\ elected = {}
    /\ left \in Bounds /\ left.instances = Cardinality(I)

\* One of the faults f (faults of instances or links, restarts, ...) happens.
Fault(f) == left[f] > 0 /\ left' = [left EXCEPT ![f] = @ - 1]

\* A Sentinel moves to a later epoch.  What the others replied counts in its
\* own epoch only, so a reply of an earlier one need not be kept.
NewEpoch(st, epoch) ==
  IF epoch <= st.current_epoch THEN st
  ELSE [st EXCEPT !.current_epoch = epoch,
                  !.sentinels = [t \in DOMAIN @ |-> IF @[t].leader_epoch < epoch
                                                    THEN NoReply ELSE @[t]]]

\* s has the state st from now on.
Becomes(s, st) == sentinel' = [sentinel EXCEPT ![s] = st]

\* The file is assumed to be written.  (If it cannot be, the code logs a warning
\* and goes on with a state that a restart would lose.)
Flush(s, st) == disk' = [disk EXCEPT ![s] = Config(st)]

-----------------------------------------------------------------------------
(* Votes. *)

\* Mutant: a vote in the epoch of the last one.
Votes_X(st, epoch) ==
  st.leader_epoch <= epoch /\ st.current_epoch <= epoch

\* sentinelVoteLeader: one vote per epoch, and none for an epoch that is over.
\* Voting for another Sentinel delays a failover of one's own.
Votes(st, epoch) ==
  st.leader_epoch < epoch /\ st.current_epoch <= epoch

sentinelVoteLeader(s, st, epoch, candidate) ==
  LET u == NewEpoch(st, epoch)
  IN IF Votes(st, epoch)
     THEN [u EXCEPT !.leader = candidate, !.leader_epoch = epoch,
                    !.delay = IF candidate # s THEN TRUE ELSE @]
     ELSE u

\* A vote, and a new epoch, are on disk before they are told.
Voted(s, st, epoch, candidate) ==
  /\ votes' = IF Votes(st, epoch) THEN votes \cup {<<s, epoch, candidate>>} ELSE votes
  /\ IF Votes(st, epoch) \/ epoch > st.current_epoch
     THEN Flush(s, sentinelVoteLeader(s, st, epoch, candidate)) ELSE UNCHANGED disk

\* sentinelGetLeader: the votes of the others in the current epoch, ...
VotesFor(st, c) ==
  Cardinality({t \in DOMAIN st.sentinels : /\ st.sentinels[t].leader = c
                                          /\ st.sentinels[t].leader_epoch = st.current_epoch})

Favourites(st) ==
  {c \in Sentinel : VotesFor(st, c) > 0 /\ \A d \in Sentinel : VotesFor(st, d) <= VotesFor(st, c)}

\* ... the vote of s, for the first of them or for itself, ...
Candidates(s, st) == IF Favourites(st) = {} THEN {s} ELSE Favourites(st)

\* ... which counts when it was cast in the epoch of the failover: is s the
\* leader then, w being the favourite of the others?
Majority == Cardinality(Sentinel) \div 2 + 1

IsLeader(s, st, w) ==
  LET v == sentinelVoteLeader(s, st, st.failover_epoch, w)
      mine(c) == IF v.leader = c /\ v.leader_epoch = st.failover_epoch THEN 1 ELSE 0
      count(c) == VotesFor(st, c) + mine(c)
  IN /\ count(s) >= Majority /\ count(s) >= Quorum
     /\ \/ s = w
        \/ count(s) > VotesFor(st, w)

-----------------------------------------------------------------------------
(* Who is down. *)

\* sentinelCheckSubjectivelyDown: the master does not answer, or says it is a
\* replica; s may also just have lost its link to it.
Silent(i) == ~redis[i].up \/ redis[i].masterhost # NULL

sentinelCheckSubjectivelyDown(s) ==
  LET st == sentinel[s]
  IN /\ \/ st.s_down /\ ~Silent(st.addr) /\ UNCHANGED left
        \/ ~st.s_down /\ Silent(st.addr) /\ UNCHANGED left
        \/ ~st.s_down /\ ~Silent(st.addr) /\ Fault("fault")
     /\ Becomes(s, [st EXCEPT !.s_down = ~@])
     /\ UNCHANGED <<disk, redis, votes, elected>>

\* sentinelCheckObjectivelyDown: it is down for others too.  (The code counts
\* what they told within the last five seconds, and so may count one that has
\* changed its mind since; here they are asked at once.)
ObjectivelyDown(st) ==
  st.s_down /\ Cardinality({t \in Sentinel : sentinel[t].s_down /\ sentinel[t].addr = st.addr}) >= Quorum

\* SENTINEL is-master-down-by-addr, in a failover: s asks t for its vote in the
\* current epoch; sentinelReceiveIsMasterDownReply.  The reply may get lost.
sentinelAskMasterStateToOtherSentinels(s, t, lost) ==
  LET st == sentinel[s]
      tt == sentinelVoteLeader(t, sentinel[t], st.current_epoch, s)
  IN /\ t # s /\ st.s_down /\ st.failover_state # "NONE" /\ sentinel[t].addr = st.addr
     /\ sentinel' = [sentinel EXCEPT ![t] = tt,
          ![s].sentinels[t] = IF lost \/ tt.leader = NULL \/ tt.leader_epoch < st.current_epoch THEN @
                              ELSE [leader |-> tt.leader, leader_epoch |-> tt.leader_epoch]]
     /\ Voted(t, sentinel[t], st.current_epoch, s)
     /\ IF lost THEN Fault("loss") ELSE UNCHANGED left
     /\ UNCHANGED <<redis, elected>>

-----------------------------------------------------------------------------
(* The failover. *)

sentinelAbortFailover(st) == [st EXCEPT !.failover_state = "NONE", !.promoted = NULL]

\* sentinelFailoverWaitStart: is s the leader by now?  If not, it may be time
\* to give up.
WaitStart(s, st, giveup) ==
  \E w \in Candidates(s, st) :
    LET v == sentinelVoteLeader(s, st, st.failover_epoch, w)
        won == IsLeader(s, st, w)
    IN /\ Voted(s, st, st.failover_epoch, w)
       /\ giveup => ~won
       /\ Becomes(s, IF won THEN [v EXCEPT !.failover_state = "SELECT_SLAVE"]
                     ELSE IF giveup THEN sentinelAbortFailover(v) ELSE v)
       /\ elected' = IF won THEN elected \cup {<<s, st.failover_epoch, st.current_epoch>>} ELSE elected

\* sentinelStartFailoverIfNeeded, and the state machine in the same timer: s
\* votes before it can be asked to.
sentinelStartFailover(s) ==
  LET st == sentinel[s]
  IN /\ ObjectivelyDown(st) /\ st.failover_state = "NONE" /\ ~st.delay
     /\ st.current_epoch < left.epoch
     /\ WaitStart(s, [NewEpoch(st, st.current_epoch + 1) EXCEPT
                        !.failover_state = "WAIT_START", !.delay = TRUE,
                        !.failover_epoch = st.current_epoch + 1],
                  FALSE)
     /\ UNCHANGED <<redis, left>>

sentinelFailoverWaitStart(s, giveup) ==
  /\ sentinel[s].failover_state = "WAIT_START"
  /\ WaitStart(s, sentinel[s], giveup)
  /\ UNCHANGED <<redis, left>>

\* failover_start_time is long ago.  The delay, which the last vote began, is
\* longer than an election may last: those of that epoch are over.
delayOver(s) ==
  /\ sentinel[s].delay /\ sentinel[s].failover_state = "NONE"
  /\ \A t \in Sentinel : sentinel[t].failover_state = "WAIT_START"
                         => sentinel[t].failover_epoch > sentinel[s].leader_epoch
  /\ Becomes(s, [sentinel[s] EXCEPT !.delay = FALSE])
  /\ UNCHANGED <<disk, redis, votes, elected, left>>

\* The replica with the best offset s knows of, or NULL.  A replica that is up
\* may be passed over: it has priority 0, its link is down, or what it told s is
\* too old.
sentinelSelectSlave(st) == {i \in DOMAIN redis \ {st.addr} : redis[i].up} \cup {NULL}

sentinelFailoverSelectSlave(s) ==
  LET st == sentinel[s]
  IN /\ st.failover_state = "SELECT_SLAVE"
     /\ \E i \in sentinelSelectSlave(st) :
          Becomes(s, IF i = NULL THEN sentinelAbortFailover(st)
                     ELSE [st EXCEPT !.promoted = i, !.failover_state = "SEND_SLAVEOF_NOONE"])
     /\ UNCHANGED <<disk, redis, votes, elected, left>>

sentinelFailoverSendSlaveOfNoOne(s) ==
  LET st == sentinel[s]
  IN /\ st.failover_state = "SEND_SLAVEOF_NOONE" /\ redis[st.promoted].up
     /\ redis' = [redis EXCEPT ![st.promoted].masterhost = NULL]
     /\ Becomes(s, [st EXCEPT !.failover_state = "WAIT_PROMOTION"])
     /\ UNCHANGED <<disk, votes, elected, left>>

\* sentinelFailoverSendSlaveOfNoOne and sentinelFailoverWaitPromotion time out.
promotionTimeout(s) ==
  LET st == sentinel[s]
  IN /\ \/ st.failover_state = "SEND_SLAVEOF_NOONE" /\ ~redis[st.promoted].up
        \/ st.failover_state = "WAIT_PROMOTION"
     /\ Becomes(s, sentinelAbortFailover(st))
     /\ UNCHANGED <<disk, redis, votes, elected, left>>

\* sentinelResetMasterAndChangeAddress: everything about the master starts
\* over, except the epochs and what the other Sentinels replied.
sentinelResetMasterAndChangeAddress(st, addr) ==
  [st EXCEPT !.addr = addr, !.leader = NULL, !.s_down = FALSE, !.failover_state = "NONE",
             !.promoted = NULL, !.delay = FALSE, !.reconf = {}]

\* sentinelFailoverReconfNextSlave, and the INFO that shows that it worked.
Others(st) == DOMAIN redis \ {st.addr, st.promoted}

sentinelFailoverReconfNextSlave(s, i) ==
  LET st == sentinel[s]
  IN /\ st.failover_state = "RECONF_SLAVES" /\ i \in Others(st) \ st.reconf /\ redis[i].up
     /\ redis' = [redis EXCEPT ![i].masterhost = st.promoted]
     /\ Becomes(s, [st EXCEPT !.reconf = @ \cup {i}])
     /\ UNCHANGED <<disk, votes, elected, left>>

\* sentinelFailoverDetectEnd: every replica that answers is configured, or
\* time is over and they are all told at once; the configuration is switched.
sentinelFailoverDetectEnd(s, timeout) ==
  LET st == sentinel[s]
      late == {i \in Others(st) \ st.reconf : redis[i].up}
  IN /\ st.failover_state = "RECONF_SLAVES" /\ redis[st.promoted].up
     /\ timeout \/ late = {}
     /\ redis' = [i \in DOMAIN redis |->
                    IF i \in late THEN [redis[i] EXCEPT !.masterhost = st.promoted]
                    ELSE redis[i]]
     /\ LET new == sentinelResetMasterAndChangeAddress(st, st.promoted)
        IN Becomes(s, new) /\ Flush(s, new)
     /\ UNCHANGED <<votes, elected, left>>

-----------------------------------------------------------------------------
(* News of instances and of other Sentinels. *)

\* sentinelMasterLooksSane.
Sane(st) == ~st.s_down /\ ~Silent(st.addr)

\* sentinelRefreshInstanceInfo: the promoted replica is a master now, ...
promotedSlave(s) ==
  LET st == sentinel[s]
      new == [st EXCEPT !.config_epoch = st.failover_epoch, !.failover_state = "RECONF_SLAVES"]
  IN /\ st.failover_state = "WAIT_PROMOTION"
     /\ redis[st.promoted].up /\ redis[st.promoted].masterhost = NULL
     /\ Becomes(s, new) /\ Flush(s, new)
     /\ UNCHANGED <<redis, votes, elected, left>>

\* Mutant: only an instance that is a master is reconfigured.
convertToSlave_X(s, i) ==
  LET st == sentinel[s]
  IN /\ i \in DOMAIN redis \ {st.addr, st.promoted} /\ redis[i].up /\ redis[i].masterhost = NULL
     /\ Sane(st)
     /\ redis' = [redis EXCEPT ![i].masterhost = st.addr]
     /\ UNCHANGED <<sentinel, disk, votes, elected, left>>

\* ... or an instance does not replicate from the master s knows.
convertToSlave(s, i) ==
  LET st == sentinel[s]
  IN /\ i \in DOMAIN redis \ {st.addr} /\ redis[i].up /\ redis[i].masterhost # st.addr
     /\ redis[i].masterhost = NULL => i # st.promoted
     /\ Sane(st)
     /\ redis' = [redis EXCEPT ![i].masterhost = st.addr]
     /\ UNCHANGED <<sentinel, disk, votes, elected, left>>

\* sentinelProcessHelloMessage, from t.
sentinelProcessHelloMessage(s, t) ==
  LET st == sentinel[s]
      epoch == sentinel[t].current_epoch
      h == Published(sentinel[t])
      u == [NewEpoch(st, epoch) EXCEPT
              !.config_epoch = IF h.config_epoch > @ THEN h.config_epoch ELSE @]
      moves == h.config_epoch > st.config_epoch /\ h.addr # st.addr
      new == IF moves THEN sentinelResetMasterAndChangeAddress(u, h.addr) ELSE u
  IN /\ epoch > st.current_epoch \/ h.config_epoch > st.config_epoch
     /\ Becomes(s, new)
     /\ IF moves THEN Flush(s, new)
        ELSE IF epoch > st.current_epoch THEN Flush(s, NewEpoch(st, epoch))
        ELSE UNCHANGED disk
     /\ UNCHANGED <<redis, votes, elected, left>>

-----------------------------------------------------------------------------
(* Crashes. *)

restartSentinel(s) ==
  /\ Fault("restart")
  /\ Becomes(s, Started(s, disk[s]))
  /\ UNCHANGED <<disk, redis, votes, elected>>

crash(i) ==
  /\ i \in DOMAIN redis /\ redis[i].up /\ Fault("fault")
  /\ redis' = [redis EXCEPT ![i].up = FALSE]
  /\ UNCHANGED <<sentinel, disk, votes, elected>>

\* It comes back as what SLAVEOF and CONFIG REWRITE made it.
recover(i) ==
  /\ i \in DOMAIN redis /\ ~redis[i].up /\ Fault("recovery")
  /\ redis' = [redis EXCEPT ![i].up = TRUE]
  /\ UNCHANGED <<sentinel, disk, votes, elected>>

-----------------------------------------------------------------------------
Timer(s) ==
  \/ sentinelStartFailover(s)
  \/ \E giveup \in BOOLEAN : sentinelFailoverWaitStart(s, giveup)
  \/ delayOver(s) \/ sentinelFailoverSelectSlave(s) \/ sentinelFailoverSendSlaveOfNoOne(s)
  \/ promotionTimeout(s)
  \/ \E i \in Instance : sentinelFailoverReconfNextSlave(s, i)
  \/ \E timeout \in BOOLEAN : sentinelFailoverDetectEnd(s, timeout)

News(s) ==
  \/ sentinelCheckSubjectivelyDown(s)
  \/ \E t \in Sentinel, lost \in BOOLEAN : sentinelAskMasterStateToOtherSentinels(s, t, lost)
  \/ promotedSlave(s)
  \/ \E i \in Instance : convertToSlave(s, i)
  \/ \E t \in Sentinel : sentinelProcessHelloMessage(s, t)

Next ==
  \/ \E s \in Sentinel : Timer(s) \/ News(s) \/ restartSentinel(s)
  \/ \E i \in Instance : crash(i) \/ recover(i)

Spec == Init /\ [][Next]_vars

-----------------------------------------------------------------------------
\* A Sentinel casts one vote per epoch (sentinelVoteLeader), whether it was asked
\* for it or voted in a failover of its own, and whether or not it crashed and
\* restarted in between.
VotesOnce ==
  \A v, w \in votes : v[1] = w[1] /\ v[2] = w[2] => v[3] = w[3]

\* At most one Sentinel wins the election of an epoch (sentinelGetLeader), as
\* long as the epoch its failover began in is still the current one when the
\* votes are counted.
OneLeaderPerEpoch ==
  \A e, f \in elected : e[2] = e[3] /\ f[2] = f[3] /\ e[2] = f[2] => e[1] = f[1]

\* The master a Sentinel announces (sentinelGetCurrentMasterAddress) changes only
\* together with a greater configuration epoch, so no older configuration ever
\* replaces a newer one: not at the end of a failover, not when hellos of several
\* Sentinels arrive in any order, not when it restarts with its file.  The one
\* exception is a promotion of its own: it is announced under the epoch of that
\* failover, even if a hello has brought a newer one meanwhile (promotedSlave).
ConfigMovesForward ==
  [][\A s \in Sentinel : CurrentMaster(sentinel'[s]) # CurrentMaster(sentinel[s])
                           => \/ sentinel'[s].config_epoch > sentinel[s].config_epoch
                              \/ promotedSlave(s)]_vars

\* When no Sentinel has anything left to do (and none is waiting for an epoch the
\* bounds do not have), they all know the same master, it is up and a master, and
\* every instance that is up replicates from it, whatever crashed, came back or
\* was lost on the way; unless two masters were announced under one epoch, as
\* three failovers that overlap can do: hellos no longer tell them apart then.
Internal == \E s \in Sentinel : Timer(s) \/ News(s)

OneMasterPerEpoch ==
  \A s, t \in Sentinel : sentinel[s].config_epoch = sentinel[t].config_epoch
                           => CurrentMaster(sentinel[s]) = CurrentMaster(sentinel[t])

OutOfEpochs(st) == ObjectivelyDown(st) /\ st.current_epoch = left.epoch

AllFollowTheMaster ==
  /\ left.fault = 0 /\ \A s \in Sentinel : ~OutOfEpochs(sentinel[s])
  /\ OneMasterPerEpoch /\ ~ENABLED <<Internal>>_vars
  => \E m \in DOMAIN redis :
       /\ \A s \in Sentinel : sentinel[s].addr = m
       /\ redis[m] = [up |-> TRUE, masterhost |-> NULL]
       /\ \A i \in DOMAIN redis \ {m} : redis[i].up => redis[i].masterhost = m

\* What the comment above sentinelGetLeader says: the leader for an epoch has a
\* majority of the Sentinels that reported it as leader for the same epoch.
ElectedInOneEpoch ==
  \A e \in elected :
    \E epoch \in 1..left.epoch :
      Cardinality({s \in Sentinel : <<s, epoch, e[1]>> \in votes}) >= Majority
=============================================================================
