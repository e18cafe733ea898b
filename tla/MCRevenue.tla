----------------------------- MODULE MCRevenue -----------------------------
(* A small instance of Revenue: fifteen months with two changes of the year *)
(* and the February of a leap year.                                         *)
EXTENDS Revenue

StartDate == [year |-> 2023, month |-> 10, day |-> 1]

EndDate == [year |-> 2025, month |-> 0, day |-> 31]
=============================================================================
