------------------------------ MODULE MCInbox ------------------------------
(* The inbox on small instances. *)
EXTENDS Inbox, TLC

CONSTANTS alice, bob, p1, p2

Symmetry == Permutations(Requests) \cup Permutations(Users)
============================================================================
