------------------------------ MODULE UserStore ------------------------------
(***************************************************************************)
(* The Users collection and the handlers of server.py that write it:       *)
(* /api/new/user, /api/follow, /api/unfollow and the web form /signup.     *)
(*                                                                         *)
(* gunicorn runs several workers; each serves one request at a time and    *)
(* all share one MongoDB.  A MongoDB call on one document is atomic, a     *)
(* handler that makes two calls is not: every call is a step of its own    *)
(* and the steps of the workers interleave.  A worker can be killed, or a  *)
(* call can raise, between two calls.                                      *)
(***************************************************************************)
EXTENDS Naturals, Sequences

CONSTANTS Uuids,      \* Firebase user ids
          Workers,    \* gunicorn workers of all machines
          Names,      \* user names
          Pairs,      \* the pairs <<x, y>> clients follow and unfollow
          NoField     \* value of a field the document does not have

ASSUME NoFieldAssumption == \A S \in SUBSET Uuids : NoField # S
ASSUME NamesAssumption == NoField \notin Names
ASSUME PairsAssumption == Pairs \subseteq Uuids \X Uuids

VARIABLES users,      \* uuid -> documents of that uuid, in natural order
          accounts,   \* uuids for which Firebase has an account
          req         \* worker -> request it serves, between two calls

(***************************************************************************)
(* History variables: no handler reads them.                               *)
(*   contended  workers whose request overlapped, at some time of its      *)
(*              life, an opposite request on the same pair of users        *)
(*   settled    pairs whose requests begun last include a finished one     *)
(*              that nothing opposed                                       *)
(*   raced      uuids whose first document appeared while a worker had     *)
(*              already decided to insert one                              *)
(***************************************************************************)
VARIABLES contended, settled, raced

storeVars == <<users, accounts, req, contended, settled, raced>>

Doc == [username : Names \union {NoField},
        follow   : (SUBSET Uuids) \union {NoField},
        follower : (SUBSET Uuids) \union {NoField}]

GraphOps    == {"follow", "unfollow"}
RegisterOps == {"new_user", "sign"}

Idle == [op |-> "idle"]
GraphReq    == [op : GraphOps, uuid : Uuids, foreign : Uuids]
RegisterReq == [op : RegisterOps, uuid : Uuids, name : Names]

-----------------------------------------------------------------------------
(* Documents.                                                              *)

\* What an upsert that matches nothing inserts before it applies its operator.
Stub == [username |-> NoField, follow |-> NoField, follower |-> NoField]

\* The document new_user inserts, and the one the web form inserts: the web
\* form leaves the two lists out.
AppDoc(name) == [username |-> name, follow |-> {}, follower |-> {}]
WebDoc(name) == [username |-> name, follow |-> NoField, follower |-> NoField]

Members(list) == IF list = NoField THEN {} ELSE list

\* Faulty variant: the user is wrapped in a list, which $addToSet adds whole.
AddListToSet(list, y) == Members(list) \union {{y}}

\* $addToSet and $pull on a list field, present or not.
AddToSet(list, y) == Members(list) \union {y}
Pull(list, y) == IF list = NoField THEN NoField ELSE list \ {y}

\* The document that find_one and update reach: the first one of u.
FirstDoc(u) == IF users[u] = <<>> THEN Stub ELSE users[u][1]

\* update with upsert: d replaces the first document of u or becomes it.
PutFirst(u, d) ==
  [users EXCEPT ![u] = IF @ = <<>> THEN <<d>> ELSE [@ EXCEPT ![1] = d]]

\* Faulty variant: the new document comes first.
InsertFront(u, d) == [users EXCEPT ![u] = <<d>> \o @]

Insert(u, d) == [users EXCEPT ![u] = Append(@, d)]

\* The two views of the social graph the collection stores.
OutEdges == {p \in Uuids \X Uuids : p[2] \in Members(FirstDoc(p[1]).follow)}
InEdges  == {p \in Uuids \X Uuids : p[1] \in Members(FirstDoc(p[2]).follower)}

-----------------------------------------------------------------------------
(* Bookkeeping of requests.                                                *)

\* Worker v is between the two updates of a request on the pair <<x, y>>.
OnPair(v, x, y) == /\ req[v].op \in GraphOps
                   /\ req[v].uuid = x
                   /\ req[v].foreign = y

Opposed(op, x, y) == {v \in Workers : OnPair(v, x, y) /\ req[v].op # op}

\* Worker v has decided to insert a document for u and has not done it yet.
WillInsert(v, u) == req[v].op \in RegisterOps /\ req[v].uuid = u

NoteRace(w, u) ==
  raced' = IF users[u] = <<>> /\ \E v \in Workers \ {w} : WillInsert(v, u)
             THEN raced \union {u}
             ELSE raced

Begin(w, op, x, y) ==
  /\ req[w] = Idle
  /\ <<x, y>> \in Pairs
  /\ x \in accounts /\ y \in accounts
  /\ req' = [req EXCEPT ![w] = [op |-> op, uuid |-> x, foreign |-> y]]
  /\ settled' = settled \ {<<x, y>>}
  /\ contended' = IF Opposed(op, x, y) = {}
                    THEN contended
                    ELSE contended \union Opposed(op, x, y) \union {w}

Finish(w) ==
  /\ req' = [req EXCEPT ![w] = Idle]
  /\ contended' = contended \ {w}
  /\ settled' = IF w \in contended
                  THEN settled
                  ELSE settled \union {<<req[w].uuid, req[w].foreign>>}

-----------------------------------------------------------------------------
(* follow and unfollow: one update of the follower, one of the followed.   *)

\* Faulty variant: an update without $ operator replaces the document.
FollowFirstReplaces(w, x, y) ==
  /\ Begin(w, "follow", x, y)
  /\ users' = PutFirst(x, [Stub EXCEPT !.follow = AddToSet(@, y)])
  /\ NoteRace(w, x)
  /\ UNCHANGED accounts

FollowFirst(w, x, y) ==
  /\ Begin(w, "follow", x, y)
  /\ users' = PutFirst(x, [FirstDoc(x) EXCEPT !.follow = AddToSet(@, y)])
  /\ NoteRace(w, x)
  /\ UNCHANGED accounts

\* Faulty variant: the two users are swapped.
FollowSecondSwapped(w) ==
  /\ req[w].op = "follow"
  /\ LET x == req[w].foreign
         y == req[w].uuid
     IN  /\ users' = PutFirst(y, [FirstDoc(y) EXCEPT !.follower = AddToSet(@, x)])
         /\ NoteRace(w, y)
  /\ Finish(w)
  /\ UNCHANGED accounts

FollowSecond(w) ==
  /\ req[w].op = "follow"
  /\ LET x == req[w].uuid
         y == req[w].foreign
     IN  /\ users' = PutFirst(y, [FirstDoc(y) EXCEPT !.follower = AddToSet(@, x)])
         /\ NoteRace(w, y)
  /\ Finish(w)
  /\ UNCHANGED accounts

UnfollowFirst(w, x, y) ==
  /\ Begin(w, "unfollow", x, y)
  /\ users' = PutFirst(x, [FirstDoc(x) EXCEPT !.follow = Pull(@, y)])
  /\ NoteRace(w, x)
  /\ UNCHANGED accounts

\* Faulty variant: the wrong list of the followed user.
UnfollowSecondWrongList(w) ==
  /\ req[w].op = "unfollow"
  /\ LET x == req[w].uuid
         y == req[w].foreign
     IN  /\ users' = PutFirst(y, [FirstDoc(y) EXCEPT !.follow = Pull(@, x)])
         /\ NoteRace(w, y)
  /\ Finish(w)
  /\ UNCHANGED accounts

UnfollowSecond(w) ==
  /\ req[w].op = "unfollow"
  /\ LET x == req[w].uuid
         y == req[w].foreign
     IN  /\ users' = PutFirst(y, [FirstDoc(y) EXCEPT !.follower = Pull(@, x)])
         /\ NoteRace(w, y)
  /\ Finish(w)
  /\ UNCHANGED accounts

-----------------------------------------------------------------------------
(* Registration.                                                           *)

\* The iOS app creates the Firebase account; its call of /api/new/user is a
\* separate request that may come late, twice or never.
AppRegister(u) ==
  /\ u \notin accounts
  /\ accounts' = accounts \union {u}
  /\ UNCHANGED <<users, req, contended, settled, raced>>

\* Faulty variant: new_user does not look first.
NewUserBlind(w, u, name) ==
  /\ req[w] = Idle
  /\ u \in accounts
  /\ req' = [req EXCEPT ![w] = [op |-> "new_user", uuid |-> u, name |-> name]]
  /\ UNCHANGED <<users, accounts, contended, settled, raced>>

\* new_user finds no document of u.  (When it finds one it answers `uuid is
\* already exist' and changes nothing.)
NewUserCheck(w, u, name) ==
  /\ req[w] = Idle
  /\ u \in accounts
  /\ users[u] = <<>>
  /\ req' = [req EXCEPT ![w] = [op |-> "new_user", uuid |-> u, name |-> name]]
  /\ UNCHANGED <<users, accounts, contended, settled, raced>>

NewUserInsert(w) ==
  /\ req[w].op = "new_user"
  /\ users' = Insert(req[w].uuid, AppDoc(req[w].name))
  /\ NoteRace(w, req[w].uuid)
  /\ req' = [req EXCEPT ![w] = Idle]
  /\ UNCHANGED <<accounts, contended, settled>>

\* The web form: Firebase hands out a new uuid, add_user inserts unchecked.
SignCreate(w, u, name) ==
  /\ req[w] = Idle
  /\ u \notin accounts
  /\ accounts' = accounts \union {u}
  /\ req' = [req EXCEPT ![w] = [op |-> "sign", uuid |-> u, name |-> name]]
  /\ UNCHANGED <<users, contended, settled, raced>>

SignInsert(w) ==
  /\ req[w].op = "sign"
  /\ users' = Insert(req[w].uuid, WebDoc(req[w].name))
  /\ NoteRace(w, req[w].uuid)
  /\ req' = [req EXCEPT ![w] = Idle]
  /\ UNCHANGED <<accounts, contended, settled>>

\* The worker is killed, or its second call raises, between two calls.
Abort(w) ==
  /\ req[w] # Idle
  /\ req' = [req EXCEPT ![w] = Idle]
  /\ contended' = contended \ {w}
  /\ UNCHANGED <<users, accounts, settled, raced>>

-----------------------------------------------------------------------------
Init ==
  /\ users = [u \in Uuids |-> <<>>]
  /\ accounts = {}
  /\ req = [w \in Workers |-> Idle]
  /\ contended = {}
  /\ settled = {}
  /\ raced = {}

Step(w) ==
  \/ \E x, y \in Uuids : FollowFirst(w, x, y) \/ UnfollowFirst(w, x, y)
  \/ FollowSecond(w)
  \/ UnfollowSecond(w)
  \/ \E u \in Uuids, name \in Names :
       NewUserCheck(w, u, name) \/ SignCreate(w, u, name)
  \/ NewUserInsert(w)
  \/ SignInsert(w)
  \/ Abort(w)

Next == (\E w \in Workers : Step(w)) \/ (\E u \in Uuids : AppRegister(u))

Spec == Init /\ [][Next]_storeVars

-----------------------------------------------------------------------------
(* Properties.                                                             *)

\* Type invariant: the shape of documents and requests, fields that may be
\* missing included.
TypeOK ==
  /\ users \in [Uuids -> Seq(Doc)]
  /\ accounts \subseteq Uuids
  /\ req \in [Workers -> {Idle} \union GraphReq \union RegisterReq]
  /\ contended \subseteq Workers
  /\ settled \subseteq Uuids \X Uuids
  /\ raced \subseteq Uuids

\* follow and unfollow write two documents one after the other.  Once a
\* request that no opposite request overlapped has finished, and until the
\* next request on that pair begins, the two documents tell the same story:
\* x lists y as followed exactly when y lists x as follower.  Stragglers of
\* the same kind, kills of other requests, stubs and late registrations in
\* between do not disturb it.
SettledSymmetric == \A p \in settled : p \in OutEdges <=> p \in InEdges

\* new_user checks and inserts in two calls, the web form does not check: a
\* uuid has two documents only if its first one appeared while another worker
\* had already decided to insert.
UniqueUnlessRaced == \A u \in Uuids \ raced : Len(users[u]) <= 1

\* No handler loses or replaces a profile: documents stay, in their order, and
\* a document that was inserted with a name, or as a stub without one, keeps
\* its name field.  The upserts of follow and unfollow and the late inserts of
\* the two registrations are what could break it.
ProfilesKept ==
  [][\A u \in Uuids :
       /\ Len(users'[u]) >= Len(users[u])
       /\ \A i \in 1 .. Len(users[u]) :
            users'[u][i].username = users[u][i].username]_users

\* Each of the two lists taken alone is an atomic set of edges.  The `follow'
\* lists change as a request begins, the `follower' lists when its second
\* update runs, and then only by the edge the request names; stubs, late
\* registrations and second documents never add or hide an edge.
Serving(stage) == [w \in Workers |-> IF req[w].op \in GraphOps
                                       THEN [request |-> req[w], stage |-> stage]
                                       ELSE [request |-> [op |-> "nothing"], stage |-> "done"]]

Out == INSTANCE FollowGraph
         WITH Nodes <- Uuids, Servers <- Workers,
              edges <- OutEdges, serving <- Serving("done")

In == INSTANCE FollowGraph
        WITH Nodes <- Uuids, Servers <- Workers,
             edges <- InEdges, serving <- Serving("waiting")

\* The `follow' lists implement the abstract set of edges.
OutSpec == Out!Spec

\* The `follower' lists implement the abstract set of edges.
InSpec == In!Spec
=============================================================================
