----------------------------- MODULE MCSelfUpdate -----------------------------
(* A small instance of SelfUpdate. *)
EXTENDS SelfUpdate

CONSTANTS u1, u2, u3
===============================================================================
