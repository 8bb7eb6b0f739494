---------------------------- MODULE MCTranscript ----------------------------
(* Chats with one or two rooms and conversations.                          *)
EXTENDS Transcript, TLC

Symmetry == Permutations(Rooms) \cup Permutations(Convs)
============================================================================
