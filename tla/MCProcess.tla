----------------------------- MODULE MCProcess -----------------------------
(* Process on small instances: a few pids, an image of two or three pages. *)
EXTENDS Process
============================================================================
