----------------------------- MODULE DurableLog -----------------------------
(***************************************************************************)
(* What the append only file promises the clients of the server: the       *)
(* dataset is the sequence of the writes executed, and a crash only takes  *)
(* writes from its end.                                                    *)
(***************************************************************************)
EXTENDS Integers, Sequences

VARIABLES history,  \* the writes executed, <<db, write, part>>
          acked,    \* how many of them were answered
          logging,  \* the append only file is on
          strict    \* the policy covers every write that is answered

vars == <<history, acked, logging, strict>>

IsPrefix(s, t) == Len(s) <= Len(t) /\ \A i \in 1..Len(s) : s[i] = t[i]

\* No transaction is there in part.
Whole(h) == \A i \in DOMAIN h : h[i][3] = 1 =>
              i < Len(h) /\ h[i + 1] = <<h[i][1], h[i][2], 2>>

Init == history = <<>> /\ acked = 0 /\ logging = TRUE /\ strict \in BOOLEAN

Execute == /\ IsPrefix(history, history') /\ history # history' /\ Whole(history')
           /\ UNCHANGED <<acked, logging, strict>>

Answer == acked' = Len(history) /\ UNCHANGED <<history, logging, strict>>

Switch == logging' = ~logging /\ UNCHANGED <<history, acked, strict>>

Recover ==
  /\ IsPrefix(history', history) /\ Whole(history')
  /\ logging /\ strict => Len(history') >= acked
  /\ acked' = IF acked < Len(history') THEN acked ELSE Len(history')
  /\ logging' = TRUE
  /\ UNCHANGED strict

Next == Execute \/ Answer \/ Switch \/ Recover

Spec == Init /\ [][Next]_vars
=============================================================================
