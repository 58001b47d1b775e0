------------------------------- MODULE MCFeed -------------------------------
(* A small instance of Feed for TLC: u1 may follow u2 and itself.          *)
EXTENDS Feed, TLC

CONSTANTS u1, u2

Readers == {<<u1, u2>>, <<u1, u1>>}

\* No guard and no property but the types reads the marks of the follow and
\* unfollow requests, so states that differ in them only are one state.
View == <<users, accounts, req, raced, posts, feed>>

Symmetry == Permutations(Workers)
=============================================================================
