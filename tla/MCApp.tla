------------------------------- MODULE MCApp -------------------------------
(* The application with one room and one conversation.                     *)
EXTENDS App

CONSTANTS r1, c1

NoneOrBoth == {<<>>, <<c1, r1>>}
============================================================================
