----------------------------- MODULE MCPresence -----------------------------
(* Two programs of one or two users.                                       *)
EXTENDS Presence, TLC

Symmetry ==
  Permutations(Programs) \cup Permutations(Names) \cup Permutations(Passwords) \cup Permutations(Rooms)
============================================================================
