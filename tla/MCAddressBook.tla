--------------------------- MODULE MCAddressBook ---------------------------
(* A small instance of AddressBook. *)
EXTENDS AddressBook, TLC

Symmetry ==
  Permutations(Users) \cup Permutations(Requests) \cup Permutations(Contents)
=============================================================================
