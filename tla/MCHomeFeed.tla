------------------------------ MODULE MCHomeFeed -----------------------------
(* A small instance of HomeFeed for TLC.                                   *)
EXTENDS HomeFeed

CONSTANTS a, b, p, q

\* User a reads two posts.
Feeds == [u \in {a, b} |-> IF u = a THEN {p, q} ELSE {q}]
=============================================================================
