----------------------------- MODULE MCClientWS -----------------------------
(* The WebSocket client on small instances: its bounds are in the .cfg     *)
(* files.                                                                  *)
EXTENDS ClientWS
============================================================================
