------------------------------ MODULE Delivery -------------------------------
(***************************************************************************)
(* What a path promises that takes things in at one end and hands them on  *)
(* at the other, in several steps that may fail: a thing is taken in once; *)
(* while it is under way it is delivered once or lost once; and what was   *)
(* delivered or lost stays so, nothing comes back, twice, or from nowhere. *)
(*                                                                         *)
(* Three paths of the program implement this: a sign-up on its way to a    *)
(* document in Users (WebSession), an answer with a file on its way to     *)
(* Solution (AnswerUpload), a video on its way to Videos (VideoUpload).    *)
(***************************************************************************)
CONSTANT Items        \* the things that can be handed in

VARIABLES pending,    \* those under way
          delivered,  \* those that arrived
          lost        \* those that never will

vars == <<pending, delivered, lost>>

New == Items \ (pending \union delivered \union lost)

Init ==
  /\ pending = {}
  /\ delivered = {}
  /\ lost = {}

Take(i) ==
  /\ i \in New
  /\ pending' = pending \union {i}
  /\ UNCHANGED <<delivered, lost>>

\* It is lost at once.
Refuse(i) ==
  /\ i \in New
  /\ lost' = lost \union {i}
  /\ UNCHANGED <<pending, delivered>>

Deliver(i) ==
  /\ i \in pending
  /\ pending' = pending \ {i}
  /\ delivered' = delivered \union {i}
  /\ UNCHANGED lost

\* A process or a machine that dies loses all it had.
Lose(some) ==
  /\ pending' = pending \ some
  /\ lost' = lost \union some
  /\ UNCHANGED delivered

Next ==
  \/ \E i \in Items : Take(i) \/ Refuse(i) \/ Deliver(i)
  \/ \E some \in SUBSET pending : Lose(some)

Spec == Init /\ [][Next]_vars
=============================================================================
