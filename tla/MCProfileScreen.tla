--------------------------- MODULE MCProfileScreen ---------------------------
(* A small instance of ProfileScreen for TLC.                              *)
EXTENDS ProfileScreen

CONSTANTS a, b, f, g

\* User a follows nobody, or the author and then another person.
Starts == {[u \in {a, b} |-> IF u = a THEN list ELSE <<>>] :
             list \in {<<>>, <<f, g>>}}
=============================================================================
