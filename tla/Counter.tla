------------------------------ MODULE Counter ------------------------------
(***************************************************************************)
(* counterService.getSequence: one document of dqw_counters hands out the  *)
(* numeric ids of a collection.  A call is two database operations, a      *)
(* findOne and then an updateOne or a create, and other calls may run      *)
(* between them.  Ids are counted from 100000000000000, so that the first  *)
(* one, 100000000000001, is 1 here.                                        *)
(***************************************************************************)
EXTENDS Integers

CONSTANTS
  Callers,   \* calls of getSequence that may be in progress together
  Null       \* no counter document

VARIABLES
  seq,       \* the seq field of the counter document, or Null
  seen,      \* what findOne returned to each call in progress
  issued     \* history: the ids that calls have resolved to

counterVars == <<seq, seen, issued>>

First == 1

CounterInit == seq = Null /\ seen = [c \in {} |-> Null] /\ issued = {}

Finish(c) == seen' = [d \in DOMAIN seen \ {c} |-> seen[d]]

findOne(c) ==
  /\ c \notin DOMAIN seen
  /\ seen' = [d \in DOMAIN seen \cup {c} |-> IF d = c THEN seq ELSE seen[d]]
  /\ UNCHANGED <<seq, issued>>

newId(c) == IF seen[c] = Null THEN First ELSE seen[c] + 1

\* Mutation: the document is advanced once more than the id.
resolve_Ahead(c) ==
  /\ c \in DOMAIN seen
  /\ seen[c] = Null => seq = Null
  /\ seq' = newId(c) + 1
  /\ issued' = issued \cup {newId(c)}
  /\ Finish(c)

\* $set the successor of what was read, whatever the counter holds by now;
\* or create the counter, which fails on its unique _id when another call
\* has created it since.
resolve(c) ==
  /\ c \in DOMAIN seen
  /\ seen[c] = Null => seq = Null
  /\ seq' = newId(c)
  /\ issued' = issued \cup {newId(c)}
  /\ Finish(c)

\* A database operation of the call fails, a create that lost the race
\* included.
reject(c) ==
  /\ c \in DOMAIN seen
  /\ Finish(c)
  /\ UNCHANGED <<seq, issued>>

CounterNext ==
  \E c \in Callers : findOne(c) \/ resolve(c) \/ reject(c)

CounterSpec == CounterInit /\ [][CounterNext]_counterVars

-----------------------------------------------------------------------------
\* The ids handed out have no gap: whatever calls overlap, and although the
\* counter may go back, every id below one that was handed out was handed
\* out too, and the counter always holds an id that was.
NoGaps ==
  /\ \A id \in issued : First .. id \subseteq issued
  /\ seq # Null => seq \in issued
=============================================================================
