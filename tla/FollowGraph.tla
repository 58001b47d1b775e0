----------------------------- MODULE FollowGraph -----------------------------
(***************************************************************************)
(* What one of the two lists behind follow and unfollow promises: a set of *)
(* edges that changes one edge at a time, and only on behalf of a request  *)
(* that names this edge.  A request may take effect when it is received,   *)
(* or later, or never (it may be lost with the worker that serves it), but *)
(* it never takes effect twice and never touches another edge.             *)
(* UserStore implements this twice: once with its `follow' lists as the    *)
(* edges, once with its `follower' lists.                                  *)
(***************************************************************************)
CONSTANTS Nodes,     \* the users
          Servers    \* the processes that serve requests

VARIABLES edges,     \* pairs <<x, y>>: x follows y
          serving    \* server -> request it has received and not answered

vars == <<edges, serving>>

Request == [op : {"follow", "unfollow"}, uuid : Nodes, foreign : Nodes]

\* A request that took effect ("done") or has yet to ("waiting").
Received(r, stage) == [request |-> r, stage |-> stage]
Nothing == [request |-> [op |-> "nothing"], stage |-> "done"]

Edge(r) == <<r.uuid, r.foreign>>

\* The edges after request r has taken effect on E.
Effect(E, r) == IF r.op = "follow" THEN E \union {Edge(r)} ELSE E \ {Edge(r)}

Init == /\ edges = {}
        /\ serving = [s \in Servers |-> Nothing]

\* The request takes effect as it is received.
Serve(s, r) == /\ serving[s] = Nothing
               /\ edges' = Effect(edges, r)
               /\ serving' = [serving EXCEPT ![s] = Received(r, "done")]

\* The request is received and takes effect later.
Accept(s, r) == /\ serving[s] = Nothing
                /\ serving' = [serving EXCEPT ![s] = Received(r, "waiting")]
                /\ UNCHANGED edges

\* It takes effect and is answered.
Apply(s) == /\ serving[s].stage = "waiting"
            /\ edges' = Effect(edges, serving[s].request)
            /\ serving' = [serving EXCEPT ![s] = Nothing]

\* It is answered after it took effect, or lost before.
Return(s) == /\ serving[s] # Nothing
             /\ serving' = [serving EXCEPT ![s] = Nothing]
             /\ UNCHANGED edges

Next == \E s \in Servers : \/ \E r \in Request : Serve(s, r) \/ Accept(s, r)
                           \/ Apply(s)
                           \/ Return(s)

Spec == Init /\ [][Next]_vars
=============================================================================
