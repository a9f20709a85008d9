------------------------------ MODULE MCLiveFeed ------------------------------
(* Instances of LiveFeed for TLC. *)
EXTENDS LiveFeed

CONSTANTS p1, p2
===============================================================================
