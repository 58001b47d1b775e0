----------------------------- MODULE FeedProofs ------------------------------
(***************************************************************************)
(* Proofs about the store of users and about the posts beside it, for any  *)
(* number of users, workers, names and posts: first the theorems of        *)
(* UserStore, then those of Feed, which reuse their lemmas.                *)
(***************************************************************************)
EXTENDS Feed, SequenceTheorems, TLAPS

-----------------------------------------------------------------------------
(* Lemmas about documents and the calls that write them.                   *)

List == (SUBSET Uuids) \union {NoField}

\* $addToSet and $pull keep a list field well formed and do to its members
\* what their names say, whether the field is present or not.
LEMMA ListOps ==
  ASSUME NEW list \in List, NEW y \in Uuids
  PROVE  /\ AddToSet(list, y) \in List
         /\ Members(AddToSet(list, y)) = Members(list) \union {y}
         /\ Pull(list, y) \in List
         /\ Members(Pull(list, y)) = Members(list) \ {y}
         /\ Members(list) \subseteq Uuids
BY NoFieldAssumption DEF List, AddToSet, Pull, Members

\* Replacing or creating the first element of a sequence of documents.
LEMMA PutSeq ==
  ASSUME NEW S, NEW s \in Seq(S), NEW d \in S, NEW t,
         t = IF s = <<>> THEN <<d>> ELSE [s EXCEPT ![1] = d]
  PROVE  /\ t \in Seq(S)
         /\ t # <<>>
         /\ t[1] = d
         /\ Len(t) = IF s = <<>> THEN 1 ELSE Len(s)
         /\ \A i \in 2 .. Len(s) : t[i] = s[i]
<1>1. CASE s = <<>>
  BY <1>1
<1>2. CASE s # <<>>
  <2>1. Len(s) \in Nat \ {0}
    BY <1>2, EmptySeq
  <2>2. 1 \in 1 .. Len(s)
    BY <2>1
  <2>3. /\ t \in Seq(S)
        /\ Len(t) = Len(s)
        /\ \A j \in 1 .. Len(s) : t[j] = IF j = 1 THEN d ELSE s[j]
    BY <1>2, <2>2, ExceptSeq
  <2>4. t # <<>>
    BY <2>1, <2>3, EmptySeq
  <2> QED
    BY <1>2, <2>1, <2>2, <2>3, <2>4
<1> QED
  BY <1>1, <1>2

\* The first document of a uuid is a document.
LEMMA FirstDocType ==
  ASSUME TypeOK, NEW u \in Uuids
  PROVE  FirstDoc(u) \in Doc
<1>1. CASE users[u] = <<>>
  BY <1>1 DEF FirstDoc, Stub, Doc
<1>2. CASE users[u] # <<>>
  <2>1. users[u] \in Seq(Doc)
    BY DEF TypeOK
  <2>2. 1 \in 1 .. Len(users[u])
    BY <1>2, <2>1, EmptySeq
  <2> QED
    BY <1>2, <2>1, <2>2, ElementOfSeq DEF FirstDoc
<1> QED
  BY <1>1, <1>2

\* An upsert touches the first document of one uuid, or creates it.
LEMMA PutFirstEffect ==
  ASSUME TypeOK, NEW u \in Uuids, NEW d \in Doc, users' = PutFirst(u, d)
  PROVE  /\ users' \in [Uuids -> Seq(Doc)]
         /\ users'[u] # <<>>
         /\ FirstDoc(u)' = d
         /\ Len(users'[u]) = IF users[u] = <<>> THEN 1 ELSE Len(users[u])
         /\ \A i \in 2 .. Len(users[u]) : users'[u][i] = users[u][i]
         /\ \A v \in Uuids \ {u} : /\ users'[v] = users[v]
                                   /\ FirstDoc(v)' = FirstDoc(v)
<1>1. users \in [Uuids -> Seq(Doc)]
  BY DEF TypeOK
<1>2. /\ users'[u] = IF users[u] = <<>> THEN <<d>> ELSE [users[u] EXCEPT ![1] = d]
      /\ \A v \in Uuids \ {u} : users'[v] = users[v]
  BY <1>1 DEF PutFirst
<1>3. /\ users'[u] \in Seq(Doc)
      /\ users'[u] # <<>>
      /\ users'[u][1] = d
      /\ Len(users'[u]) = IF users[u] = <<>> THEN 1 ELSE Len(users[u])
      /\ \A i \in 2 .. Len(users[u]) : users'[u][i] = users[u][i]
  <2>1. users[u] \in Seq(Doc)
    BY <1>1
  <2> QED
    BY <1>2, <2>1, PutSeq
<1>4. users' \in [Uuids -> Seq(Doc)]
  BY <1>1, <1>3 DEF PutFirst
<1> QED
  BY <1>2, <1>3, <1>4 DEF FirstDoc

\* An insert puts a document behind those the uuid has.
LEMMA InsertEffect ==
  ASSUME TypeOK, NEW u \in Uuids, NEW d \in Doc, users' = Insert(u, d)
  PROVE  /\ users' \in [Uuids -> Seq(Doc)]
         /\ users'[u] # <<>>
         /\ FirstDoc(u)' = IF users[u] = <<>> THEN d ELSE FirstDoc(u)
         /\ Len(users'[u]) = Len(users[u]) + 1
         /\ \A i \in 1 .. Len(users[u]) : users'[u][i] = users[u][i]
         /\ \A v \in Uuids \ {u} : /\ users'[v] = users[v]
                                   /\ FirstDoc(v)' = FirstDoc(v)
<1>1. users \in [Uuids -> Seq(Doc)]
  BY DEF TypeOK
<1>2. /\ users'[u] = Append(users[u], d)
      /\ \A v \in Uuids \ {u} : users'[v] = users[v]
  BY <1>1 DEF Insert
<1>3. users[u] \in Seq(Doc) /\ Len(users[u]) \in Nat
  BY <1>1, LenProperties
<1>4. /\ users'[u] \in Seq(Doc)
      /\ Len(users'[u]) = Len(users[u]) + 1
      /\ \A i \in 1 .. Len(users[u]) : users'[u][i] = users[u][i]
      /\ users'[u][Len(users[u]) + 1] = d
  BY <1>2, <1>3, AppendProperties
<1>5. users'[u] # <<>>
  BY <1>3, <1>4, EmptySeq
<1>6. users' \in [Uuids -> Seq(Doc)]
  BY <1>1, <1>4 DEF Insert
<1>7. FirstDoc(u)' = IF users[u] = <<>> THEN d ELSE FirstDoc(u)
  <2>1. CASE users[u] = <<>>
    BY <1>4, <1>5, <2>1, EmptySeq DEF FirstDoc
  <2>2. CASE users[u] # <<>>
    <3>1. 1 \in 1 .. Len(users[u])
      BY <1>3, <2>2, EmptySeq
    <3> QED
      BY <1>4, <1>5, <2>2, <3>1 DEF FirstDoc
  <2> QED
    BY <2>1, <2>2
<1> QED
  BY <1>2, <1>4, <1>5, <1>6, <1>7 DEF FirstDoc

-----------------------------------------------------------------------------
(* Lemmas about the two views of the graph.                                *)

\* Rewriting the `follow' list of x changes the outgoing edges of x to the
\* members of the new list and leaves everything else alone.
LEMMA FollowListEffect ==
  ASSUME TypeOK, NEW x \in Uuids, NEW list \in List,
         users' = PutFirst(x, [FirstDoc(x) EXCEPT !.follow = list])
  PROVE  /\ users' \in [Uuids -> Seq(Doc)]
         /\ InEdges' = InEdges
         /\ OutEdges' = {p \in Uuids \X Uuids :
                           IF p[1] = x THEN p[2] \in Members(list)
                                       ELSE p \in OutEdges}
<1> DEFINE d == [FirstDoc(x) EXCEPT !.follow = list]
<1>1. FirstDoc(x) \in Doc
  BY FirstDocType
<1>2. d \in Doc /\ d.follow = list /\ d.follower = FirstDoc(x).follower
  BY <1>1 DEF Doc, List
<1>3. /\ users' \in [Uuids -> Seq(Doc)]
      /\ FirstDoc(x)' = d
      /\ \A v \in Uuids \ {x} : FirstDoc(v)' = FirstDoc(v)
  BY <1>2, PutFirstEffect
<1>4. \A v \in Uuids : FirstDoc(v)'.follower = FirstDoc(v).follower
  BY <1>2, <1>3
<1>5. \A v \in Uuids : FirstDoc(v)'.follow = IF v = x THEN list
                                             ELSE FirstDoc(v).follow
  BY <1>2, <1>3
<1>6. InEdges' = InEdges
  BY <1>4 DEF InEdges
<1>7. \A p \in Uuids \X Uuids : p \in OutEdges' <=>
        IF p[1] = x THEN p[2] \in Members(list) ELSE p \in OutEdges
  BY <1>5 DEF OutEdges
<1>8. OutEdges' \subseteq Uuids \X Uuids
  BY DEF OutEdges
<1> QED
  BY <1>3, <1>6, <1>7, <1>8

\* The same for the `follower' list of y and the edges that come in.
LEMMA FollowerListEffect ==
  ASSUME TypeOK, NEW y \in Uuids, NEW list \in List,
         users' = PutFirst(y, [FirstDoc(y) EXCEPT !.follower = list])
  PROVE  /\ users' \in [Uuids -> Seq(Doc)]
         /\ OutEdges' = OutEdges
         /\ InEdges' = {p \in Uuids \X Uuids :
                          IF p[2] = y THEN p[1] \in Members(list)
                                      ELSE p \in InEdges}
<1> DEFINE d == [FirstDoc(y) EXCEPT !.follower = list]
<1>1. FirstDoc(y) \in Doc
  BY FirstDocType
<1>2. d \in Doc /\ d.follower = list /\ d.follow = FirstDoc(y).follow
  BY <1>1 DEF Doc, List
<1>3. /\ users' \in [Uuids -> Seq(Doc)]
      /\ FirstDoc(y)' = d
      /\ \A v \in Uuids \ {y} : FirstDoc(v)' = FirstDoc(v)
  BY <1>2, PutFirstEffect
<1>4. \A v \in Uuids : FirstDoc(v)'.follow = FirstDoc(v).follow
  BY <1>2, <1>3
<1>5. \A v \in Uuids : FirstDoc(v)'.follower = IF v = y THEN list
                                               ELSE FirstDoc(v).follower
  BY <1>2, <1>3
<1>6. OutEdges' = OutEdges
  BY <1>4 DEF OutEdges
<1>7. \A p \in Uuids \X Uuids : p \in InEdges' <=>
        IF p[2] = y THEN p[1] \in Members(list) ELSE p \in InEdges
  BY <1>5 DEF InEdges
<1>8. InEdges' \subseteq Uuids \X Uuids
  BY DEF InEdges
<1> QED
  BY <1>3, <1>6, <1>7, <1>8

\* The first update of follow adds one outgoing edge.
LEMMA FollowFirstEdges ==
  ASSUME TypeOK, NEW x \in Uuids, NEW y \in Uuids,
         users' = PutFirst(x, [FirstDoc(x) EXCEPT !.follow = AddToSet(@, y)])
  PROVE  /\ users' \in [Uuids -> Seq(Doc)]
         /\ OutEdges' = OutEdges \union {<<x, y>>}
         /\ InEdges' = InEdges
<1> DEFINE list == AddToSet(FirstDoc(x).follow, y)
<1>1. FirstDoc(x) \in Doc
  BY FirstDocType
<1>2. FirstDoc(x).follow \in List
  BY <1>1 DEF Doc, List
<1>3. list \in List /\ Members(list) = Members(FirstDoc(x).follow) \union {y}
  BY <1>2, ListOps
<1>4. users' = PutFirst(x, [FirstDoc(x) EXCEPT !.follow = list])
  OBVIOUS
<1> HIDE DEF list
<1>5. /\ users' \in [Uuids -> Seq(Doc)]
      /\ InEdges' = InEdges
      /\ OutEdges' = {p \in Uuids \X Uuids :
                        IF p[1] = x THEN p[2] \in Members(list)
                                    ELSE p \in OutEdges}
  BY <1>3, <1>4, FollowListEffect
<1>6. \A p \in Uuids \X Uuids : p \in OutEdges' <=> p \in OutEdges \union {<<x, y>>}
  BY <1>3, <1>5 DEF OutEdges
<1>7. OutEdges \subseteq Uuids \X Uuids
  BY DEF OutEdges
<1> QED
  BY <1>5, <1>6, <1>7

\* The first update of unfollow removes one outgoing edge.
LEMMA UnfollowFirstEdges ==
  ASSUME TypeOK, NEW x \in Uuids, NEW y \in Uuids,
         users' = PutFirst(x, [FirstDoc(x) EXCEPT !.follow = Pull(@, y)])
  PROVE  /\ users' \in [Uuids -> Seq(Doc)]
         /\ OutEdges' = OutEdges \ {<<x, y>>}
         /\ InEdges' = InEdges
<1> DEFINE list == Pull(FirstDoc(x).follow, y)
<1>1. FirstDoc(x) \in Doc
  BY FirstDocType
<1>2. FirstDoc(x).follow \in List
  BY <1>1 DEF Doc, List
<1>3. list \in List /\ Members(list) = Members(FirstDoc(x).follow) \ {y}
  BY <1>2, ListOps
<1>4. users' = PutFirst(x, [FirstDoc(x) EXCEPT !.follow = list])
  OBVIOUS
<1> HIDE DEF list
<1>5. /\ users' \in [Uuids -> Seq(Doc)]
      /\ InEdges' = InEdges
      /\ OutEdges' = {p \in Uuids \X Uuids :
                        IF p[1] = x THEN p[2] \in Members(list)
                                    ELSE p \in OutEdges}
  BY <1>3, <1>4, FollowListEffect
<1>6. \A p \in Uuids \X Uuids : p \in OutEdges' <=> p \in OutEdges \ {<<x, y>>}
  BY <1>3, <1>5 DEF OutEdges
<1>7. OutEdges \subseteq Uuids \X Uuids
  BY DEF OutEdges
<1> QED
  BY <1>5, <1>6, <1>7

\* The second update of follow adds one incoming edge.
LEMMA FollowSecondEdges ==
  ASSUME TypeOK, NEW x \in Uuids, NEW y \in Uuids,
         users' = PutFirst(y, [FirstDoc(y) EXCEPT !.follower = AddToSet(@, x)])
  PROVE  /\ users' \in [Uuids -> Seq(Doc)]
         /\ InEdges' = InEdges \union {<<x, y>>}
         /\ OutEdges' = OutEdges
<1> DEFINE list == AddToSet(FirstDoc(y).follower, x)
<1>1. FirstDoc(y) \in Doc
  BY FirstDocType
<1>2. FirstDoc(y).follower \in List
  BY <1>1 DEF Doc, List
<1>3. list \in List /\ Members(list) = Members(FirstDoc(y).follower) \union {x}
  BY <1>2, ListOps
<1>4. users' = PutFirst(y, [FirstDoc(y) EXCEPT !.follower = list])
  OBVIOUS
<1> HIDE DEF list
<1>5. /\ users' \in [Uuids -> Seq(Doc)]
      /\ OutEdges' = OutEdges
      /\ InEdges' = {p \in Uuids \X Uuids :
                       IF p[2] = y THEN p[1] \in Members(list)
                                   ELSE p \in InEdges}
  BY <1>3, <1>4, FollowerListEffect
<1>6. \A p \in Uuids \X Uuids : p \in InEdges' <=> p \in InEdges \union {<<x, y>>}
  BY <1>3, <1>5 DEF InEdges
<1>7. InEdges \subseteq Uuids \X Uuids
  BY DEF InEdges
<1> QED
  BY <1>5, <1>6, <1>7

\* The second update of unfollow removes one incoming edge.
LEMMA UnfollowSecondEdges ==
  ASSUME TypeOK, NEW x \in Uuids, NEW y \in Uuids,
         users' = PutFirst(y, [FirstDoc(y) EXCEPT !.follower = Pull(@, x)])
  PROVE  /\ users' \in [Uuids -> Seq(Doc)]
         /\ InEdges' = InEdges \ {<<x, y>>}
         /\ OutEdges' = OutEdges
<1> DEFINE list == Pull(FirstDoc(y).follower, x)
<1>1. FirstDoc(y) \in Doc
  BY FirstDocType
<1>2. FirstDoc(y).follower \in List
  BY <1>1 DEF Doc, List
<1>3. list \in List /\ Members(list) = Members(FirstDoc(y).follower) \ {x}
  BY <1>2, ListOps
<1>4. users' = PutFirst(y, [FirstDoc(y) EXCEPT !.follower = list])
  OBVIOUS
<1> HIDE DEF list
<1>5. /\ users' \in [Uuids -> Seq(Doc)]
      /\ OutEdges' = OutEdges
      /\ InEdges' = {p \in Uuids \X Uuids :
                       IF p[2] = y THEN p[1] \in Members(list)
                                   ELSE p \in InEdges}
  BY <1>3, <1>4, FollowerListEffect
<1>6. \A p \in Uuids \X Uuids : p \in InEdges' <=> p \in InEdges \ {<<x, y>>}
  BY <1>3, <1>5 DEF InEdges
<1>7. InEdges \subseteq Uuids \X Uuids
  BY DEF InEdges
<1> QED
  BY <1>5, <1>6, <1>7

\* The document of a registration has no edges, so inserting it changes none.
LEMMA InsertEdges ==
  ASSUME TypeOK, NEW u \in Uuids, NEW d \in Doc,
         Members(d.follow) = {}, Members(d.follower) = {},
         users' = Insert(u, d)
  PROVE  OutEdges' = OutEdges /\ InEdges' = InEdges
<1>1. /\ FirstDoc(u)' = IF users[u] = <<>> THEN d ELSE FirstDoc(u)
      /\ \A v \in Uuids \ {u} : FirstDoc(v)' = FirstDoc(v)
  BY InsertEffect
<1>2. users[u] = <<>> => /\ Members(FirstDoc(u).follow) = {}
                         /\ Members(FirstDoc(u).follower) = {}
  BY DEF FirstDoc, Stub, Members
<1>3. \A v \in Uuids : /\ Members(FirstDoc(v)'.follow) = Members(FirstDoc(v).follow)
                       /\ Members(FirstDoc(v)'.follower) = Members(FirstDoc(v).follower)
  BY <1>1, <1>2
<1> QED
  BY <1>3 DEF OutEdges, InEdges

-----------------------------------------------------------------------------
(* Type correctness.                                                       *)

\* The kind of a request determines its fields.
LEMMA ReqFields ==
  ASSUME TypeOK, NEW w \in Workers
  PROVE  /\ req[w].op \in GraphOps =>
              req[w] \in GraphReq /\ req[w].uuid \in Uuids /\ req[w].foreign \in Uuids
         /\ req[w].op \in RegisterOps =>
              req[w] \in RegisterReq /\ req[w].uuid \in Uuids /\ req[w].name \in Names
         /\ req[w] # Idle => req[w].op \in GraphOps \union RegisterOps
         /\ req[w] = Idle => req[w].op \notin GraphOps \union RegisterOps
<1>1. req[w] \in {Idle} \union GraphReq \union RegisterReq
  BY DEF TypeOK
<1>2. CASE req[w] = Idle
  BY <1>2 DEF Idle, GraphOps, RegisterOps
<1>3. CASE req[w] \in GraphReq
  BY <1>3 DEF GraphReq, GraphOps, RegisterOps, Idle
<1>4. CASE req[w] \in RegisterReq
  BY <1>4 DEF RegisterReq, GraphOps, RegisterOps, Idle
<1> QED
  BY <1>1, <1>2, <1>3, <1>4

\* The documents that the handlers insert are documents without edges.
LEMMA NewDocs ==
  ASSUME NEW name \in Names
  PROVE  /\ AppDoc(name) \in Doc
         /\ Members(AppDoc(name).follow) = {} /\ Members(AppDoc(name).follower) = {}
         /\ WebDoc(name) \in Doc
         /\ Members(WebDoc(name).follow) = {} /\ Members(WebDoc(name).follower) = {}
BY NoFieldAssumption DEF AppDoc, WebDoc, Doc, Members

LEMMA RaceType ==
  ASSUME TypeOK, NEW w, NEW u \in Uuids, NoteRace(w, u)
  PROVE  raced' \subseteq Uuids
BY DEF TypeOK, NoteRace

LEMMA BeginType ==
  ASSUME TypeOK, NEW w \in Workers, NEW op \in GraphOps,
         NEW x \in Uuids, NEW y \in Uuids, Begin(w, op, x, y)
  PROVE  /\ req' \in [Workers -> {Idle} \union GraphReq \union RegisterReq]
         /\ contended' \subseteq Workers
         /\ settled' \subseteq Uuids \X Uuids
<1>1. [op |-> op, uuid |-> x, foreign |-> y] \in GraphReq
  BY DEF GraphReq
<1>2. Opposed(op, x, y) \subseteq Workers
  BY DEF Opposed
<1> QED
  BY <1>1, <1>2 DEF Begin, TypeOK

LEMMA FinishType ==
  ASSUME TypeOK, NEW w \in Workers, req[w].op \in GraphOps, Finish(w)
  PROVE  /\ req' \in [Workers -> {Idle} \union GraphReq \union RegisterReq]
         /\ contended' \subseteq Workers
         /\ settled' \subseteq Uuids \X Uuids
<1>1. req[w].uuid \in Uuids /\ req[w].foreign \in Uuids
  BY ReqFields
<1> QED
  BY <1>1 DEF Finish, TypeOK

\* Every step keeps the types: one case per action.
LEMMA TypeStep == TypeOK /\ [Next]_storeVars => TypeOK'
<1> SUFFICES ASSUME TypeOK, [Next]_storeVars
             PROVE  TypeOK'
  OBVIOUS
<1> USE DEF GraphOps, RegisterOps
<1>1. ASSUME NEW w \in Workers, NEW x \in Uuids, NEW y \in Uuids,
             FollowFirst(w, x, y)
      PROVE  TypeOK'
  BY <1>1, BeginType, FollowFirstEdges, RaceType DEF FollowFirst, TypeOK
<1>2. ASSUME NEW w \in Workers, NEW x \in Uuids, NEW y \in Uuids,
             UnfollowFirst(w, x, y)
      PROVE  TypeOK'
  BY <1>2, BeginType, UnfollowFirstEdges, RaceType DEF UnfollowFirst, TypeOK
<1>3. ASSUME NEW w \in Workers, FollowSecond(w)
      PROVE  TypeOK'
  <2>1. req[w].uuid \in Uuids /\ req[w].foreign \in Uuids
    BY <1>3, ReqFields DEF FollowSecond
  <2> QED
    BY <1>3, <2>1, FinishType, FollowSecondEdges, RaceType DEF FollowSecond, TypeOK
<1>4. ASSUME NEW w \in Workers, UnfollowSecond(w)
      PROVE  TypeOK'
  <2>1. req[w].uuid \in Uuids /\ req[w].foreign \in Uuids
    BY <1>4, ReqFields DEF UnfollowSecond
  <2> QED
    BY <1>4, <2>1, FinishType, UnfollowSecondEdges, RaceType DEF UnfollowSecond, TypeOK
<1>5. ASSUME NEW w \in Workers, NEW u \in Uuids, NEW name \in Names,
             NewUserCheck(w, u, name)
      PROVE  TypeOK'
  BY <1>5 DEF NewUserCheck, TypeOK, RegisterReq
<1>6. ASSUME NEW w \in Workers, NEW u \in Uuids, NEW name \in Names,
             SignCreate(w, u, name)
      PROVE  TypeOK'
  BY <1>6 DEF SignCreate, TypeOK, RegisterReq
<1>7. ASSUME NEW w \in Workers, NewUserInsert(w)
      PROVE  TypeOK'
  <2>1. req[w].uuid \in Uuids /\ AppDoc(req[w].name) \in Doc
    BY <1>7, ReqFields, NewDocs DEF NewUserInsert
  <2> QED
    BY <1>7, <2>1, InsertEffect, RaceType DEF NewUserInsert, TypeOK
<1>8. ASSUME NEW w \in Workers, SignInsert(w)
      PROVE  TypeOK'
  <2>1. req[w].uuid \in Uuids /\ WebDoc(req[w].name) \in Doc
    BY <1>8, ReqFields, NewDocs DEF SignInsert
  <2> QED
    BY <1>8, <2>1, InsertEffect, RaceType DEF SignInsert, TypeOK
<1>9. ASSUME NEW w \in Workers, Abort(w)
      PROVE  TypeOK'
  BY <1>9 DEF Abort, TypeOK
<1>10. ASSUME NEW u \in Uuids, AppRegister(u)
       PROVE  TypeOK'
  BY <1>10 DEF AppRegister, TypeOK
<1>11. CASE UNCHANGED storeVars
  BY <1>11 DEF storeVars, TypeOK
<1> QED
  BY <1>1, <1>2, <1>3, <1>4, <1>5, <1>6, <1>7, <1>8, <1>9, <1>10, <1>11
     DEF Next, Step

LEMMA TypeInit == Init => TypeOK
BY EmptySeq DEF Init, TypeOK

\* The collection and the requests always have the declared shape.
THEOREM TypeCorrect == Spec => []TypeOK
BY TypeInit, TypeStep, PTL DEF Spec

-----------------------------------------------------------------------------
(***************************************************************************)
(* The two lists of a settled pair agree.  SettledSymmetric alone is not   *)
(* inductive: a finishing request must know that the `follow' list still   *)
(* is what its first update made it (Agree), and that it leaves no request *)
(* of the other kind behind that could undo one half (Alike).              *)
(***************************************************************************)
InFlight(w) == req[w].op \in GraphOps
PairOf(w) == <<req[w].uuid, req[w].foreign>>

\* The `follow' list shows what the request of w wants.
Agrees(w) == req[w].op = "follow" <=> PairOf(w) \in OutEdges

Agree == \A w \in Workers :
           InFlight(w) /\ (w \notin contended \/ PairOf(w) \in settled) => Agrees(w)

Alike == \A v, w \in Workers :
           /\ InFlight(v) /\ InFlight(w)
           /\ PairOf(v) = PairOf(w)
           /\ w \notin contended
           => req[v].op = req[w].op

GraphInv == TypeOK /\ Agree /\ Alike /\ SettledSymmetric

\* Changing a request of one worker leaves those of the others alone.
LEMMA OtherRequests ==
  ASSUME TypeOK, NEW w \in Workers, NEW r, req' = [req EXCEPT ![w] = r]
  PROVE  /\ req'[w] = r
         /\ \A v \in Workers \ {w} : /\ req'[v] = req[v]
                                     /\ InFlight(v)' = InFlight(v)
                                     /\ PairOf(v)' = PairOf(v)
BY DEF TypeOK, InFlight, PairOf

\* A first update that makes the `follow' list show what the request wants.
LEMMA BeginGraph ==
  ASSUME GraphInv, NEW w \in Workers, NEW op \in GraphOps,
         NEW x \in Uuids, NEW y \in Uuids, Begin(w, op, x, y),
         InEdges' = InEdges,
         <<x, y>> \in OutEdges' <=> op = "follow",
         \A p \in (Uuids \X Uuids) \ {<<x, y>>} : p \in OutEdges' <=> p \in OutEdges
  PROVE  Agree' /\ Alike' /\ SettledSymmetric'
<1> DEFINE r == [op |-> op, uuid |-> x, foreign |-> y]
<1>0. TypeOK /\ Agree /\ Alike /\ SettledSymmetric
  BY DEF GraphInv
<1>1. /\ req'[w] = r
      /\ \A v \in Workers \ {w} : /\ req'[v] = req[v]
                                  /\ InFlight(v)' = InFlight(v)
                                  /\ PairOf(v)' = PairOf(v)
  BY <1>0, OtherRequests DEF Begin
<1>2. PairOf(w)' = <<x, y>> /\ InFlight(w)' /\ req'[w].op = op
  BY <1>1 DEF PairOf, InFlight
<1>3. settled' = settled \ {<<x, y>>}
  BY DEF Begin
<1>4. contended \subseteq contended' /\ Opposed(op, x, y) \subseteq contended'
      /\ (w \notin contended' => Opposed(op, x, y) = {})
  BY DEF Begin
<1>5. \A v \in Workers \ {w} : InFlight(v) => PairOf(v) \in Uuids \X Uuids
  BY <1>0, ReqFields DEF InFlight, PairOf
<1>6. \A v \in Workers \ {w} :
        InFlight(v) /\ PairOf(v) = <<x, y>> /\ v \notin Opposed(op, x, y)
          => req[v].op = op
  BY DEF Opposed, OnPair, InFlight, PairOf
<1>7. Agree'
  <2> SUFFICES ASSUME NEW v \in Workers, InFlight(v)',
                      v \notin contended' \/ PairOf(v)' \in settled'
               PROVE  Agrees(v)'
    BY DEF Agree
  <2>1. CASE v = w
    BY <1>2, <2>1 DEF Agrees
  <2>2. CASE v # w /\ PairOf(v) = <<x, y>>
    <3>1. v \notin contended'
      BY <1>1, <1>3, <2>2
    <3>2. req[v].op = op
      BY <1>1, <1>4, <1>6, <2>2, <3>1
    <3> QED
      BY <1>1, <2>2, <3>2 DEF Agrees
  <2>3. CASE v # w /\ PairOf(v) # <<x, y>>
    <3>1. InFlight(v) /\ (v \notin contended \/ PairOf(v) \in settled)
      BY <1>1, <1>3, <1>4, <2>3
    <3>2. Agrees(v)
      BY <1>0, <3>1 DEF Agree
    <3>3. PairOf(v) \in (Uuids \X Uuids) \ {<<x, y>>}
      BY <1>5, <2>3, <3>1
    <3>4. PairOf(v)' \in OutEdges' <=> PairOf(v) \in OutEdges
      BY <1>1, <2>3, <3>3
    <3>5. req'[v].op = req[v].op
      BY <1>1, <2>3
    <3> QED
      BY <3>2, <3>4, <3>5 DEF Agrees
  <2> QED
    BY <2>1, <2>2, <2>3
<1>8. Alike'
  <2> SUFFICES ASSUME NEW v \in Workers, NEW z \in Workers,
                      InFlight(v)', InFlight(z)', PairOf(v)' = PairOf(z)',
                      z \notin contended'
               PROVE  req'[v].op = req'[z].op
    BY DEF Alike
  <2>1. CASE v = w /\ z # w
    <3>1. InFlight(z) /\ PairOf(z) = <<x, y>> /\ z \notin Opposed(op, x, y)
      BY <1>1, <1>2, <1>4, <2>1
    <3> QED
      BY <1>1, <1>2, <1>6, <2>1, <3>1
  <2>2. CASE v # w /\ z = w
    <3>1. InFlight(v) /\ PairOf(v) = <<x, y>> /\ v \notin Opposed(op, x, y)
      BY <1>1, <1>2, <1>4, <2>2
    <3> QED
      BY <1>1, <1>2, <1>6, <2>2, <3>1
  <2>3. CASE v # w /\ z # w
    <3>1. /\ InFlight(v) /\ InFlight(z) /\ PairOf(v) = PairOf(z)
          /\ z \notin contended
      BY <1>1, <1>4, <2>3
    <3> QED
      BY <1>0, <1>1, <2>3, <3>1 DEF Alike
  <2>4. CASE v = w /\ z = w
    BY <2>4
  <2> QED
    BY <2>1, <2>2, <2>3, <2>4
<1>9. SettledSymmetric'
  <2> SUFFICES ASSUME NEW p \in settled'
               PROVE  p \in OutEdges' <=> p \in InEdges'
    BY DEF SettledSymmetric
  <2>1. p \in settled /\ p \in (Uuids \X Uuids) \ {<<x, y>>}
    BY <1>0, <1>3 DEF TypeOK
  <2> QED
    BY <1>0, <2>1 DEF SettledSymmetric
<1> QED
  BY <1>7, <1>8, <1>9

\* A second update that makes the `follower' list show what the request wants.
LEMMA FinishGraph ==
  ASSUME GraphInv, NEW w \in Workers, InFlight(w), Finish(w),
         OutEdges' = OutEdges,
         PairOf(w) \in InEdges' <=> req[w].op = "follow",
         \A p \in (Uuids \X Uuids) \ {PairOf(w)} : p \in InEdges' <=> p \in InEdges
  PROVE  Agree' /\ Alike' /\ SettledSymmetric'
<1>0. TypeOK /\ Agree /\ Alike /\ SettledSymmetric
  BY DEF GraphInv
<1>1. /\ req'[w] = Idle
      /\ \A v \in Workers \ {w} : /\ req'[v] = req[v]
                                  /\ InFlight(v)' = InFlight(v)
                                  /\ PairOf(v)' = PairOf(v)
  BY <1>0, OtherRequests DEF Finish
<1>2. ~ InFlight(w)'
  BY <1>1 DEF InFlight, Idle, GraphOps
<1>3. /\ contended' = contended \ {w}
      /\ settled' = IF w \in contended THEN settled ELSE settled \union {PairOf(w)}
  BY DEF Finish, PairOf
<1>4. PairOf(w) \in settled' => Agrees(w)
  BY <1>0, <1>3 DEF Agree
<1>5. Agree'
  <2> SUFFICES ASSUME NEW v \in Workers, InFlight(v)',
                      v \notin contended' \/ PairOf(v)' \in settled'
               PROVE  Agrees(v)'
    BY DEF Agree
  <2>1. v # w /\ InFlight(v) /\ req'[v] = req[v] /\ PairOf(v)' = PairOf(v)
    BY <1>1, <1>2
  <2>2. Agrees(v)' <=> Agrees(v)
    BY <2>1 DEF Agrees
  <2>3. CASE v \notin contended \/ PairOf(v) \in settled
    BY <1>0, <2>1, <2>2, <2>3 DEF Agree
  <2>4. CASE v \in contended /\ PairOf(v) \notin settled
    <3>1. w \notin contended /\ PairOf(v) = PairOf(w)
      BY <1>3, <2>1, <2>4
    <3>2. req[v].op = req[w].op
      BY <1>0, <2>1, <3>1 DEF Alike
    <3>3. Agrees(w)
      BY <1>0, <3>1 DEF Agree
    <3> QED
      BY <2>2, <3>1, <3>2, <3>3 DEF Agrees
  <2> QED
    BY <2>3, <2>4
<1>6. Alike'
  <2> SUFFICES ASSUME NEW v \in Workers, NEW z \in Workers,
                      InFlight(v)', InFlight(z)', PairOf(v)' = PairOf(z)',
                      z \notin contended'
               PROVE  req'[v].op = req'[z].op
    BY DEF Alike
  <2>1. v # w /\ z # w
    BY <1>2
  <2> QED
    BY <1>0, <1>1, <1>3, <2>1 DEF Alike
<1>7. SettledSymmetric'
  <2> SUFFICES ASSUME NEW p \in settled'
               PROVE  p \in OutEdges' <=> p \in InEdges'
    BY DEF SettledSymmetric
  <2>1. CASE p = PairOf(w)
    BY <1>4, <2>1 DEF Agrees
  <2>2. CASE p # PairOf(w)
    <3>1. p \in settled /\ p \in (Uuids \X Uuids) \ {PairOf(w)}
      BY <1>0, <1>3, <2>2 DEF TypeOK
    <3> QED
      BY <1>0, <3>1 DEF SettledSymmetric
  <2> QED
    BY <2>1, <2>2
<1> QED
  BY <1>5, <1>6, <1>7

\* A step that leaves the graph alone and starts no request on a pair.
LEMMA QuietGraph ==
  ASSUME GraphInv, NEW w \in Workers, NEW r, r.op \notin GraphOps,
         req' = [req EXCEPT ![w] = r],
         OutEdges' = OutEdges, InEdges' = InEdges,
         settled' = settled, contended \ {w} \subseteq contended'
  PROVE  Agree' /\ Alike' /\ SettledSymmetric'
<1>0. TypeOK /\ Agree /\ Alike /\ SettledSymmetric
  BY DEF GraphInv
<1>1. /\ req'[w] = r
      /\ \A v \in Workers \ {w} : /\ req'[v] = req[v]
                                  /\ InFlight(v)' = InFlight(v)
                                  /\ PairOf(v)' = PairOf(v)
  BY <1>0, OtherRequests
<1>2. ~ InFlight(w)'
  BY <1>1 DEF InFlight
<1>3. Agree'
  BY <1>0, <1>1, <1>2 DEF Agree, Agrees
<1>4. Alike'
  BY <1>0, <1>1, <1>2 DEF Alike
<1>5. SettledSymmetric'
  BY <1>0 DEF SettledSymmetric
<1> QED
  BY <1>3, <1>4, <1>5

LEMMA GraphStep == GraphInv /\ [Next]_storeVars => GraphInv'
<1> SUFFICES ASSUME GraphInv, [Next]_storeVars
             PROVE  GraphInv'
  OBVIOUS
<1>0. TypeOK /\ TypeOK'
  BY TypeStep DEF GraphInv
<1> SUFFICES Agree' /\ Alike' /\ SettledSymmetric'
  BY <1>0 DEF GraphInv
<1>1. ASSUME NEW w \in Workers, NEW x \in Uuids, NEW y \in Uuids,
             FollowFirst(w, x, y)
      PROVE  Agree' /\ Alike' /\ SettledSymmetric'
  <2>1. OutEdges' = OutEdges \union {<<x, y>>} /\ InEdges' = InEdges
    BY <1>0, <1>1, FollowFirstEdges DEF FollowFirst
  <2>2. Begin(w, "follow", x, y) /\ "follow" \in GraphOps
    BY <1>1 DEF FollowFirst, GraphOps
  <2> QED
    BY <2>1, <2>2, BeginGraph
<1>2. ASSUME NEW w \in Workers, NEW x \in Uuids, NEW y \in Uuids,
             UnfollowFirst(w, x, y)
      PROVE  Agree' /\ Alike' /\ SettledSymmetric'
  <2>1. OutEdges' = OutEdges \ {<<x, y>>} /\ InEdges' = InEdges
    BY <1>0, <1>2, UnfollowFirstEdges DEF UnfollowFirst
  <2>2. Begin(w, "unfollow", x, y) /\ "unfollow" \in GraphOps
    BY <1>2 DEF UnfollowFirst, GraphOps
  <2> QED
    BY <2>1, <2>2, BeginGraph
<1>3. ASSUME NEW w \in Workers, FollowSecond(w)
      PROVE  Agree' /\ Alike' /\ SettledSymmetric'
  <2>1. InFlight(w) /\ req[w].op = "follow" /\ Finish(w)
    BY <1>3 DEF FollowSecond, InFlight, GraphOps
  <2>2. req[w].uuid \in Uuids /\ req[w].foreign \in Uuids
    BY <1>0, <2>1, ReqFields DEF InFlight
  <2>3. InEdges' = InEdges \union {PairOf(w)} /\ OutEdges' = OutEdges
    BY <1>0, <1>3, <2>2, FollowSecondEdges DEF FollowSecond, PairOf
  <2> QED
    BY <2>1, <2>3, FinishGraph
<1>4. ASSUME NEW w \in Workers, UnfollowSecond(w)
      PROVE  Agree' /\ Alike' /\ SettledSymmetric'
  <2>1. InFlight(w) /\ req[w].op = "unfollow" /\ Finish(w)
    BY <1>4 DEF UnfollowSecond, InFlight, GraphOps
  <2>2. req[w].uuid \in Uuids /\ req[w].foreign \in Uuids
    BY <1>0, <2>1, ReqFields DEF InFlight
  <2>3. InEdges' = InEdges \ {PairOf(w)} /\ OutEdges' = OutEdges
    BY <1>0, <1>4, <2>2, UnfollowSecondEdges DEF UnfollowSecond, PairOf
  <2> QED
    BY <2>1, <2>3, FinishGraph
<1>5. ASSUME NEW w \in Workers, NEW u \in Uuids, NEW name \in Names,
             NewUserCheck(w, u, name) \/ SignCreate(w, u, name)
      PROVE  Agree' /\ Alike' /\ SettledSymmetric'
  <2>1. OutEdges' = OutEdges /\ InEdges' = InEdges
    BY <1>5 DEF NewUserCheck, SignCreate, OutEdges, InEdges, FirstDoc
  <2> QED
    BY <1>5, <2>1, QuietGraph DEF NewUserCheck, SignCreate, GraphOps
<1>6. ASSUME NEW w \in Workers, NewUserInsert(w)
      PROVE  Agree' /\ Alike' /\ SettledSymmetric'
  <2>1. req[w].uuid \in Uuids /\ req[w].name \in Names
    BY <1>0, <1>6, ReqFields DEF NewUserInsert, RegisterOps
  <2>2. OutEdges' = OutEdges /\ InEdges' = InEdges
    BY <1>0, <1>6, <2>1, NewDocs, InsertEdges DEF NewUserInsert
  <2> QED
    BY <1>6, <2>2, QuietGraph DEF NewUserInsert, Idle, GraphOps
<1>7. ASSUME NEW w \in Workers, SignInsert(w)
      PROVE  Agree' /\ Alike' /\ SettledSymmetric'
  <2>1. req[w].uuid \in Uuids /\ req[w].name \in Names
    BY <1>0, <1>7, ReqFields DEF SignInsert, RegisterOps
  <2>2. OutEdges' = OutEdges /\ InEdges' = InEdges
    BY <1>0, <1>7, <2>1, NewDocs, InsertEdges DEF SignInsert
  <2> QED
    BY <1>7, <2>2, QuietGraph DEF SignInsert, Idle, GraphOps
<1>8. ASSUME NEW w \in Workers, Abort(w)
      PROVE  Agree' /\ Alike' /\ SettledSymmetric'
  <2>1. OutEdges' = OutEdges /\ InEdges' = InEdges
    BY <1>8 DEF Abort, OutEdges, InEdges, FirstDoc
  <2> QED
    BY <1>8, <2>1, QuietGraph DEF Abort, Idle, GraphOps
<1>9. CASE UNCHANGED <<users, req, contended, settled>>
  <2>1. OutEdges' = OutEdges /\ InEdges' = InEdges
    BY <1>9 DEF OutEdges, InEdges, FirstDoc
  <2> QED
    BY <1>9, <2>1 DEF GraphInv, Agree, Alike, SettledSymmetric, Agrees, InFlight, PairOf
<1> QED
  BY <1>1, <1>2, <1>3, <1>4, <1>5, <1>6, <1>7, <1>8, <1>9
     DEF Next, Step, AppRegister, storeVars

LEMMA GraphInit == Init => GraphInv
<1> SUFFICES ASSUME Init PROVE GraphInv
  OBVIOUS
<1>1. TypeOK
  BY TypeInit
<1>2. \A w \in Workers : ~ InFlight(w)
  BY DEF Init, InFlight, Idle, GraphOps
<1> QED
  BY <1>1, <1>2 DEF Init, GraphInv, Agree, Alike, SettledSymmetric

\* A pair whose last request nothing opposed is stored the same way twice.
THEOREM SettledSymmetry == Spec => []SettledSymmetric
<1>1. GraphInv => SettledSymmetric
  BY DEF GraphInv
<1> QED
  BY <1>1, GraphInit, GraphStep, PTL DEF Spec

-----------------------------------------------------------------------------
(***************************************************************************)
(* A uuid that no registration raced for has one document.  Inductive with *)
(* two more facts: as long as somebody will still insert for such a uuid   *)
(* there is no document yet, and documents and requests only name uuids    *)
(* with an account (so the uuid the web form is given is unused).          *)
(***************************************************************************)
NoDocYet == \A u \in Uuids \ raced, w \in Workers :
              WillInsert(w, u) => users[u] = <<>>

KnownUuids ==
  /\ \A u \in Uuids : users[u] # <<>> => u \in accounts
  /\ \A w \in Workers : req[w] # Idle => req[w].uuid \in accounts
  /\ \A w \in Workers : req[w].op \in GraphOps => req[w].foreign \in accounts

UniqueInv == TypeOK /\ UniqueUnlessRaced /\ NoDocYet /\ KnownUuids

\* A step of worker w that writes documents of one known uuid.
LEMMA WriteUnique ==
  ASSUME UniqueInv, NEW w \in Workers, NEW u \in accounts, NEW r,
         NoteRace(w, u),
         users'[u] # <<>>,
         u \notin raced => Len(users'[u]) <= 1,
         \A v \in Uuids \ {u} : users'[v] = users[v],
         req' = [req EXCEPT ![w] = r],
         r.op \notin RegisterOps,
         r # Idle => r.uuid \in accounts,
         r.op \in GraphOps => r.foreign \in accounts,
         UNCHANGED accounts
  PROVE  UniqueUnlessRaced' /\ NoDocYet' /\ KnownUuids'
<1>0. TypeOK /\ UniqueUnlessRaced /\ NoDocYet /\ KnownUuids
  BY DEF UniqueInv
<1>1. /\ raced \subseteq raced'
      /\ (u \notin raced' /\ users[u] = <<>>) =>
           \A v \in Workers \ {w} : ~ WillInsert(v, u)
  BY DEF NoteRace
<1>2. /\ req'[w] = r
      /\ \A v \in Workers \ {w} : req'[v] = req[v]
  BY <1>0 DEF TypeOK
<1>3. \A z : ~ WillInsert(w, z)'
  BY <1>2 DEF WillInsert
<1>4. \A v \in Workers \ {w}, z \in Uuids : WillInsert(v, z)' <=> WillInsert(v, z)
  BY <1>2 DEF WillInsert
<1>5. UniqueUnlessRaced'
  BY <1>0, <1>1 DEF UniqueUnlessRaced
<1>6. NoDocYet'
  <2> SUFFICES ASSUME NEW z \in Uuids \ raced', NEW v \in Workers,
                      WillInsert(v, z)'
               PROVE  users'[z] = <<>>
    BY DEF NoDocYet
  <2>1. v # w /\ WillInsert(v, z)
    BY <1>3, <1>4
  <2>2. users[z] = <<>>
    BY <1>0, <1>1, <2>1 DEF NoDocYet
  <2>3. z # u
    BY <1>1, <2>1, <2>2
  <2> QED
    BY <2>2, <2>3
<1>7. KnownUuids'
  BY <1>0, <1>2 DEF KnownUuids
<1> QED
  BY <1>5, <1>6, <1>7

\* The same for an upsert and for an insert.
LEMMA UpsertUnique ==
  ASSUME UniqueInv, NEW u \in Uuids, NEW d \in Doc, users' = PutFirst(u, d)
  PROVE  /\ users'[u] # <<>>
         /\ u \notin raced => Len(users'[u]) <= 1
         /\ \A v \in Uuids \ {u} : users'[v] = users[v]
BY PutFirstEffect DEF UniqueInv, UniqueUnlessRaced

LEMMA InsertUnique ==
  ASSUME UniqueInv, NEW w \in Workers, NEW u \in Uuids, NEW d \in Doc,
         WillInsert(w, u), users' = Insert(u, d)
  PROVE  /\ users'[u] # <<>>
         /\ u \notin raced => Len(users'[u]) <= 1
         /\ \A v \in Uuids \ {u} : users'[v] = users[v]
<1>1. u \notin raced => Len(users[u]) = 0
  BY EmptySeq DEF UniqueInv, NoDocYet
<1> QED
  BY <1>1, InsertEffect DEF UniqueInv

\* The document an update of a list field writes.
LEMMA UpdatedDocs ==
  ASSUME TypeOK, NEW x \in Uuids, NEW y \in Uuids
  PROVE  /\ [FirstDoc(x) EXCEPT !.follow = AddToSet(@, y)] \in Doc
         /\ [FirstDoc(x) EXCEPT !.follow = Pull(@, y)] \in Doc
         /\ [FirstDoc(x) EXCEPT !.follower = AddToSet(@, y)] \in Doc
         /\ [FirstDoc(x) EXCEPT !.follower = Pull(@, y)] \in Doc
<1>1. FirstDoc(x) \in Doc
  BY FirstDocType
<1>2. FirstDoc(x).follow \in List /\ FirstDoc(x).follower \in List
  BY <1>1 DEF Doc, List
<1>3. /\ AddToSet(FirstDoc(x).follow, y) \in List
      /\ Pull(FirstDoc(x).follow, y) \in List
      /\ AddToSet(FirstDoc(x).follower, y) \in List
      /\ Pull(FirstDoc(x).follower, y) \in List
  BY <1>2, ListOps
<1> QED
  BY <1>1, <1>3 DEF Doc, List

LEMMA UniqueStep == UniqueInv /\ [Next]_storeVars => UniqueInv'
<1> SUFFICES ASSUME UniqueInv, [Next]_storeVars
             PROVE  UniqueInv'
  OBVIOUS
<1>0. TypeOK /\ TypeOK' /\ UniqueUnlessRaced /\ NoDocYet /\ KnownUuids
  BY TypeStep DEF UniqueInv
<1> SUFFICES UniqueUnlessRaced' /\ NoDocYet' /\ KnownUuids'
  BY <1>0 DEF UniqueInv
<1>1. ASSUME NEW w \in Workers, NEW x \in Uuids, NEW y \in Uuids,
             FollowFirst(w, x, y) \/ UnfollowFirst(w, x, y)
      PROVE  UniqueUnlessRaced' /\ NoDocYet' /\ KnownUuids'
  <2>1. PICK op \in GraphOps : Begin(w, op, x, y)
    BY <1>1 DEF FollowFirst, UnfollowFirst, GraphOps
  <2>2. PICK d \in Doc : users' = PutFirst(x, d)
    BY <1>0, <1>1, UpdatedDocs DEF FollowFirst, UnfollowFirst
  <2>3. NoteRace(w, x) /\ UNCHANGED accounts
    BY <1>1 DEF FollowFirst, UnfollowFirst
  <2>4. x \in accounts /\ y \in accounts
    BY <2>1 DEF Begin
  <2>5. req' = [req EXCEPT ![w] = [op |-> op, uuid |-> x, foreign |-> y]]
    BY <2>1 DEF Begin
  <2>6. op \notin RegisterOps
    BY DEF GraphOps, RegisterOps
  <2>7. /\ users'[x] # <<>>
        /\ x \notin raced => Len(users'[x]) <= 1
        /\ \A v \in Uuids \ {x} : users'[v] = users[v]
    BY <2>2, UpsertUnique
  <2> DEFINE r == [op |-> op, uuid |-> x, foreign |-> y]
  <2>8. /\ req' = [req EXCEPT ![w] = r]
        /\ r.op \notin RegisterOps /\ r.uuid \in accounts /\ r.foreign \in accounts
    BY <2>4, <2>5, <2>6
  <2> HIDE DEF r
  <2> QED
    BY <2>3, <2>4, <2>7, <2>8, WriteUnique
<1>2. ASSUME NEW w \in Workers, FollowSecond(w) \/ UnfollowSecond(w)
      PROVE  UniqueUnlessRaced' /\ NoDocYet' /\ KnownUuids'
  <2> DEFINE y == req[w].foreign
  <2>1. req[w].op \in GraphOps /\ req' = [req EXCEPT ![w] = Idle]
    BY <1>2 DEF FollowSecond, UnfollowSecond, GraphOps, Finish
  <2>2. req[w].uuid \in Uuids /\ y \in Uuids /\ y \in accounts
    BY <1>0, <2>1, ReqFields DEF KnownUuids
  <2>3. PICK d \in Doc : users' = PutFirst(y, d)
    BY <1>0, <1>2, <2>2, UpdatedDocs DEF FollowSecond, UnfollowSecond
  <2>4. NoteRace(w, y) /\ UNCHANGED accounts
    BY <1>2 DEF FollowSecond, UnfollowSecond
  <2>5. Idle.op \notin RegisterOps /\ Idle.op \notin GraphOps
    BY DEF Idle, RegisterOps, GraphOps
  <2> QED
    BY <2>1, <2>2, <2>3, <2>4, <2>5, UpsertUnique, WriteUnique
<1>3. ASSUME NEW w \in Workers, NEW u \in Uuids, NEW name \in Names,
             NewUserCheck(w, u, name) \/ SignCreate(w, u, name)
      PROVE  UniqueUnlessRaced' /\ NoDocYet' /\ KnownUuids'
  <2>1. /\ users' = users /\ raced' = raced
        /\ accounts \subseteq accounts' /\ u \in accounts'
        /\ users[u] = <<>>
    BY <1>0, <1>3 DEF NewUserCheck, SignCreate, KnownUuids
  <2>2. PICK op \in RegisterOps :
          req' = [req EXCEPT ![w] = [op |-> op, uuid |-> u, name |-> name]]
    BY <1>3 DEF NewUserCheck, SignCreate, RegisterOps
  <2>3. /\ req'[w] = [op |-> op, uuid |-> u, name |-> name]
        /\ \A v \in Workers \ {w} : req'[v] = req[v]
    BY <1>0, <2>2 DEF TypeOK
  <2>4. req'[w].op \notin GraphOps /\ req'[w].uuid = u
    BY <2>3 DEF RegisterOps, GraphOps
  <2>5. NoDocYet'
    BY <1>0, <2>1, <2>3, <2>4 DEF NoDocYet, WillInsert
  <2>6. KnownUuids'
    BY <1>0, <2>1, <2>3, <2>4 DEF KnownUuids
  <2> QED
    BY <1>0, <2>1, <2>5, <2>6 DEF UniqueUnlessRaced
<1>4. ASSUME NEW w \in Workers, NewUserInsert(w) \/ SignInsert(w)
      PROVE  UniqueUnlessRaced' /\ NoDocYet' /\ KnownUuids'
  <2> DEFINE u == req[w].uuid
  <2>1. req[w].op \in RegisterOps /\ req' = [req EXCEPT ![w] = Idle]
    BY <1>4 DEF NewUserInsert, SignInsert, RegisterOps
  <2>2. req[w].name \in Names /\ u \in Uuids /\ u \in accounts
    BY <1>0, <2>1, ReqFields DEF KnownUuids, Idle, RegisterOps
  <2>3. PICK d \in Doc : users' = Insert(u, d)
    BY <1>4, <2>2, NewDocs DEF NewUserInsert, SignInsert
  <2>4. NoteRace(w, u) /\ UNCHANGED accounts
    BY <1>4 DEF NewUserInsert, SignInsert
  <2>5. Idle.op \notin RegisterOps /\ Idle.op \notin GraphOps
    BY DEF Idle, RegisterOps, GraphOps
  <2>6. WillInsert(w, u)
    BY <2>1 DEF WillInsert
  <2>7. /\ users'[u] # <<>>
        /\ u \notin raced => Len(users'[u]) <= 1
        /\ \A v \in Uuids \ {u} : users'[v] = users[v]
    BY <2>2, <2>3, <2>6, InsertUnique
  <2> HIDE DEF u
  <2> QED
    BY <2>1, <2>2, <2>4, <2>5, <2>7, WriteUnique
<1>5. ASSUME NEW w \in Workers, Abort(w)
      PROVE  UniqueUnlessRaced' /\ NoDocYet' /\ KnownUuids'
  <2>1. /\ req'[w] = Idle
        /\ \A v \in Workers \ {w} : req'[v] = req[v]
    BY <1>0, <1>5 DEF Abort, TypeOK
  <2>2. req'[w].op \notin GraphOps /\ req'[w].op \notin RegisterOps
    BY <2>1 DEF Idle, GraphOps, RegisterOps
  <2>3. UNCHANGED <<users, accounts, raced>>
    BY <1>5 DEF Abort
  <2>4. NoDocYet'
    BY <1>0, <2>1, <2>2, <2>3 DEF NoDocYet, WillInsert
  <2>5. KnownUuids'
    BY <1>0, <2>1, <2>2, <2>3 DEF KnownUuids
  <2> QED
    BY <1>0, <2>3, <2>4, <2>5 DEF UniqueUnlessRaced
<1>6. ASSUME NEW u \in Uuids, AppRegister(u)
      PROVE  UniqueUnlessRaced' /\ NoDocYet' /\ KnownUuids'
  BY <1>0, <1>6 DEF AppRegister, UniqueUnlessRaced, NoDocYet, KnownUuids, WillInsert
<1>7. CASE UNCHANGED storeVars
  BY <1>0, <1>7 DEF storeVars, UniqueUnlessRaced, NoDocYet, KnownUuids, WillInsert
<1> QED
  BY <1>1, <1>2, <1>3, <1>4, <1>5, <1>6, <1>7 DEF Next, Step

LEMMA UniqueInit == Init => UniqueInv
<1> SUFFICES ASSUME Init PROVE UniqueInv
  OBVIOUS
<1>1. TypeOK
  BY TypeInit
<1>2. \A u \in Uuids : users[u] = <<>> /\ Len(users[u]) = 0
  BY EmptySeq DEF Init
<1>3. \A w \in Workers : req[w] = Idle /\ req[w].op \notin RegisterOps
                                       /\ req[w].op \notin GraphOps
  BY DEF Init, Idle, RegisterOps, GraphOps
<1> QED
  BY <1>1, <1>2, <1>3
     DEF UniqueInv, UniqueUnlessRaced, NoDocYet, KnownUuids, WillInsert

\* A uuid has a second document only after a registration raced for it.
THEOREM OneDocument == Spec => []UniqueUnlessRaced
<1>1. UniqueInv => UniqueUnlessRaced
  BY DEF UniqueInv
<1> QED
  BY <1>1, UniqueInit, UniqueStep, PTL DEF Spec

-----------------------------------------------------------------------------
(* No profile is lost.                                                     *)

Kept == \A u \in Uuids :
          /\ Len(users'[u]) >= Len(users[u])
          /\ \A i \in 1 .. Len(users[u]) :
               users'[u][i].username = users[u][i].username

\* An upsert that keeps the name of the first document keeps all names.
LEMMA UpsertKeeps ==
  ASSUME TypeOK, NEW u \in Uuids, NEW d \in Doc,
         d.username = FirstDoc(u).username, users' = PutFirst(u, d)
  PROVE  Kept
<1>1. /\ Len(users'[u]) = IF users[u] = <<>> THEN 1 ELSE Len(users[u])
      /\ users'[u] # <<>> /\ FirstDoc(u)' = d
      /\ \A i \in 2 .. Len(users[u]) : users'[u][i] = users[u][i]
      /\ \A v \in Uuids \ {u} : users'[v] = users[v]
  BY PutFirstEffect
<1>2. users'[u][1] = d
  BY <1>1 DEF FirstDoc
<1>3. \A v \in Uuids : users[v] \in Seq(Doc) /\ Len(users[v]) \in Nat
  BY LenProperties DEF TypeOK
<1>4. CASE users[u] = <<>>
  <2>1. Len(users[u]) = 0
    BY <1>4, EmptySeq
  <2> QED
    BY <1>1, <1>3, <2>1 DEF Kept
<1>5. CASE users[u] # <<>>
  <2>1. users[u][1].username = d.username
    BY <1>5 DEF FirstDoc
  <2>2. \A i \in 1 .. Len(users[u]) : i = 1 \/ i \in 2 .. Len(users[u])
    BY <1>3
  <2> QED
    BY <1>1, <1>2, <1>3, <1>5, <2>1, <2>2 DEF Kept
<1> QED
  BY <1>4, <1>5

LEMMA InsertKeeps ==
  ASSUME TypeOK, NEW u \in Uuids, NEW d \in Doc, users' = Insert(u, d)
  PROVE  Kept
<1>1. \A v \in Uuids : Len(users[v]) \in Nat
  BY LenProperties DEF TypeOK
<1> QED
  BY <1>1, InsertEffect DEF Kept

LEMMA SameKeeps ==
  ASSUME TypeOK, UNCHANGED users
  PROVE  Kept
<1>1. \A v \in Uuids : Len(users[v]) \in Nat
  BY LenProperties DEF TypeOK
<1> QED
  BY <1>1 DEF Kept

\* The update of a list field leaves the name alone.
LEMMA UpdatedNames ==
  ASSUME TypeOK, NEW x \in Uuids, NEW list
  PROVE  /\ [FirstDoc(x) EXCEPT !.follow = list].username = FirstDoc(x).username
         /\ [FirstDoc(x) EXCEPT !.follower = list].username = FirstDoc(x).username
BY FirstDocType DEF Doc

LEMMA KeptStep == TypeOK /\ [Next]_storeVars => [Kept]_users
<1> SUFFICES ASSUME TypeOK, [Next]_storeVars PROVE Kept
  OBVIOUS
<1>1. ASSUME NEW w \in Workers, NEW x \in Uuids, NEW y \in Uuids,
             FollowFirst(w, x, y) \/ UnfollowFirst(w, x, y)
      PROVE  Kept
  <2>1. PICK list \in {AddToSet(FirstDoc(x).follow, y), Pull(FirstDoc(x).follow, y)} :
          users' = PutFirst(x, [FirstDoc(x) EXCEPT !.follow = list])
    BY <1>1 DEF FollowFirst, UnfollowFirst
  <2> DEFINE d == [FirstDoc(x) EXCEPT !.follow = list]
  <2>2. d \in Doc
    BY UpdatedDocs
  <2>3. d.username = FirstDoc(x).username
    BY UpdatedNames
  <2>4. users' = PutFirst(x, d)
    BY <2>1
  <2> HIDE DEF d
  <2> QED
    BY <2>2, <2>3, <2>4, UpsertKeeps
<1>2. ASSUME NEW w \in Workers, FollowSecond(w) \/ UnfollowSecond(w)
      PROVE  Kept
  <2> DEFINE y == req[w].foreign
  <2>1. req[w].uuid \in Uuids /\ y \in Uuids
    BY <1>2, ReqFields DEF FollowSecond, UnfollowSecond, GraphOps
  <2>2. PICK list \in {AddToSet(FirstDoc(y).follower, req[w].uuid),
                       Pull(FirstDoc(y).follower, req[w].uuid)} :
          users' = PutFirst(y, [FirstDoc(y) EXCEPT !.follower = list])
    BY <1>2 DEF FollowSecond, UnfollowSecond
  <2> DEFINE d == [FirstDoc(y) EXCEPT !.follower = list]
  <2>3. d \in Doc
    BY <2>1, UpdatedDocs
  <2>4. d.username = FirstDoc(y).username
    BY <2>1, UpdatedNames
  <2>5. users' = PutFirst(y, d)
    BY <2>2
  <2> HIDE DEF d, y
  <2> QED
    BY <2>1, <2>3, <2>4, <2>5, UpsertKeeps
<1>3. ASSUME NEW w \in Workers, NewUserInsert(w) \/ SignInsert(w)
      PROVE  Kept
  <2> DEFINE u == req[w].uuid
  <2>1. req[w].name \in Names /\ u \in Uuids
    BY <1>3, ReqFields DEF NewUserInsert, SignInsert, RegisterOps
  <2>2. PICK d \in Doc : users' = Insert(u, d)
    BY <1>3, <2>1, NewDocs DEF NewUserInsert, SignInsert
  <2> QED
    BY <2>1, <2>2, InsertKeeps
<1>4. CASE UNCHANGED users
  BY <1>4, SameKeeps
<1> QED
  BY <1>1, <1>2, <1>3, <1>4
     DEF Next, Step, NewUserCheck, SignCreate, Abort, AppRegister, storeVars

\* Documents stay, in their order and with their names.
THEOREM NamesKept == Spec => ProfilesKept
<1>1. TypeOK /\ [Next]_storeVars => [Kept]_users
  BY KeptStep
<1>2. Kept <=> \A u \in Uuids :
                 /\ Len(users'[u]) >= Len(users[u])
                 /\ \A i \in 1 .. Len(users[u]) :
                      users'[u][i].username = users[u][i].username
  BY DEF Kept
<1>3. ProfilesKept <=> [][Kept]_users
  BY DEF ProfilesKept, Kept
<1> QED
  BY <1>1, <1>3, TypeCorrect, PTL DEF Spec

-----------------------------------------------------------------------------
(* Each list alone implements the abstract set of edges.                   *)

\* The edges start empty.
LEMMA NoEdges == Init => OutEdges = {} /\ InEdges = {}
BY DEF Init, OutEdges, InEdges, FirstDoc, Stub, Members

\* A step that is no update of follow or unfollow changes no edge.
LEMMA OtherSteps ==
  ASSUME TypeOK, NEW w \in Workers,
         \/ \E u \in Uuids, name \in Names :
              NewUserCheck(w, u, name) \/ SignCreate(w, u, name)
         \/ NewUserInsert(w) \/ SignInsert(w) \/ Abort(w)
  PROVE  OutEdges' = OutEdges /\ InEdges' = InEdges
<1>1. ASSUME NewUserInsert(w) \/ SignInsert(w)
      PROVE  OutEdges' = OutEdges /\ InEdges' = InEdges
  <2>1. req[w].uuid \in Uuids /\ req[w].name \in Names
    BY <1>1, ReqFields DEF NewUserInsert, SignInsert, RegisterOps
  <2> QED
    BY <1>1, <2>1, NewDocs, InsertEdges DEF NewUserInsert, SignInsert
<1>2. CASE UNCHANGED users
  BY <1>2 DEF OutEdges, InEdges, FirstDoc
<1> QED
  BY <1>1, <1>2 DEF NewUserCheck, SignCreate, Abort

\* How the requests in service change.
LEMMA ServingChange ==
  ASSUME TypeOK, NEW stage, NEW w \in Workers, NEW r, req' = [req EXCEPT ![w] = r]
  PROVE  Serving(stage)' = [Serving(stage) EXCEPT ![w] =
                             IF r.op \in GraphOps
                               THEN [request |-> r, stage |-> stage]
                               ELSE [request |-> [op |-> "nothing"], stage |-> "done"]]
BY DEF TypeOK, Serving

\* What a worker serves, seen from the abstract specification.
LEMMA ServingValue ==
  ASSUME TypeOK, NEW stage, NEW w \in Workers
  PROVE  /\ req[w].op \in GraphOps =>
              /\ Serving(stage)[w] = [request |-> req[w], stage |-> stage]
              /\ Serving(stage)[w] # [request |-> [op |-> "nothing"], stage |-> "done"]
         /\ req[w].op \notin GraphOps =>
              Serving(stage)[w] = [request |-> [op |-> "nothing"], stage |-> "done"]
<1>1. req[w].op \in GraphOps =>
        Serving(stage)[w] = [request |-> req[w], stage |-> stage]
  BY DEF Serving
<1>2. req[w].op \notin GraphOps =>
        Serving(stage)[w] = [request |-> [op |-> "nothing"], stage |-> "done"]
  BY DEF Serving
<1>3. req[w].op \in GraphOps => Serving(stage)[w].request.op # "nothing"
  BY <1>1 DEF GraphOps
<1> QED
  BY <1>1, <1>2, <1>3

\* Every step of UserStore is a step of Out or leaves its edges alone.
LEMMA OutStep == TypeOK /\ [Next]_storeVars => [Out!Next]_(Out!vars)
<1> DEFINE S == Serving("done")
<1> SUFFICES ASSUME TypeOK, [Next]_storeVars
             PROVE  \/ OutEdges' = OutEdges /\ S' = S
                    \/ \E s \in Workers : \/ \E r \in Out!Request : Out!Serve(s, r)
                                          \/ Out!Return(s)
  BY DEF Out!Next, Out!vars
<1>1. ASSUME NEW w \in Workers, NEW x \in Uuids, NEW y \in Uuids, NEW op \in GraphOps,
             Begin(w, op, x, y),
             OutEdges' = IF op = "follow" THEN OutEdges \union {<<x, y>>}
                                          ELSE OutEdges \ {<<x, y>>}
      PROVE  \E r \in Out!Request : Out!Serve(w, r)
  <2> DEFINE r == [op |-> op, uuid |-> x, foreign |-> y]
  <2>1. r \in Out!Request
    BY DEF Out!Request, GraphOps
  <2>2. OutEdges' = Out!Effect(OutEdges, r)
    BY <1>1 DEF Out!Effect, Out!Edge
  <2>3. S[w] = Out!Nothing
    BY <1>1, ServingValue, ReqFields DEF Begin, Out!Nothing
  <2>4. req' = [req EXCEPT ![w] = r] /\ r.op \in GraphOps
    BY <1>1 DEF Begin
  <2> HIDE DEF r
  <2>5. S' = [S EXCEPT ![w] = Out!Received(r, "done")]
    BY <2>4, ServingChange DEF Out!Received
  <2> QED
    BY <2>1, <2>2, <2>3, <2>5 DEF Out!Serve
<1>2. ASSUME NEW w \in Workers, NEW r, req' = [req EXCEPT ![w] = r],
             r.op \notin GraphOps, OutEdges' = OutEdges
      PROVE  (OutEdges' = OutEdges /\ S' = S) \/ Out!Return(w)
  <2>1. S' = [S EXCEPT ![w] = Out!Nothing]
    BY <1>2, ServingChange DEF Out!Nothing
  <2>2. CASE S[w] = Out!Nothing
    BY <1>2, <2>1, <2>2 DEF Serving
  <2>3. CASE S[w] # Out!Nothing
    BY <1>2, <2>1, <2>3 DEF Out!Return
  <2> QED
    BY <2>2, <2>3
<1>3. ASSUME NEW w \in Workers, NEW x \in Uuids, NEW y \in Uuids,
             FollowFirst(w, x, y) \/ UnfollowFirst(w, x, y)
      PROVE  \E r \in Out!Request : Out!Serve(w, r)
  <2>1. CASE FollowFirst(w, x, y)
    BY <1>1, <2>1, FollowFirstEdges DEF FollowFirst, GraphOps
  <2>2. CASE UnfollowFirst(w, x, y)
    BY <1>1, <2>2, UnfollowFirstEdges DEF UnfollowFirst, GraphOps
  <2> QED
    BY <1>3, <2>1, <2>2
<1>4. ASSUME NEW w \in Workers, FollowSecond(w) \/ UnfollowSecond(w)
      PROVE  (OutEdges' = OutEdges /\ S' = S) \/ Out!Return(w)
  <2>1. req[w].uuid \in Uuids /\ req[w].foreign \in Uuids
    BY <1>4, ReqFields DEF FollowSecond, UnfollowSecond, GraphOps
  <2>2. OutEdges' = OutEdges
    BY <1>4, <2>1, FollowSecondEdges, UnfollowSecondEdges
       DEF FollowSecond, UnfollowSecond
  <2>3. req' = [req EXCEPT ![w] = Idle] /\ Idle.op \notin GraphOps
    BY <1>4 DEF FollowSecond, UnfollowSecond, Finish, Idle, GraphOps
  <2> QED
    BY <1>2, <2>2, <2>3
<1>5. ASSUME NEW w \in Workers,
             \/ \E u \in Uuids, name \in Names :
                  NewUserCheck(w, u, name) \/ SignCreate(w, u, name)
             \/ NewUserInsert(w) \/ SignInsert(w) \/ Abort(w)
      PROVE  (OutEdges' = OutEdges /\ S' = S) \/ Out!Return(w)
  <2>1. OutEdges' = OutEdges
    BY <1>5, OtherSteps
  <2>2. PICK r : req' = [req EXCEPT ![w] = r] /\ r.op \notin GraphOps
    BY <1>5 DEF NewUserCheck, SignCreate, NewUserInsert, SignInsert, Abort,
                Idle, GraphOps
  <2> QED
    BY <1>2, <2>1, <2>2
<1>6. CASE UNCHANGED <<users, req>>
  BY <1>6 DEF OutEdges, FirstDoc, Serving
<1> QED
  BY <1>3, <1>4, <1>5, <1>6 DEF Next, Step, AppRegister, storeVars

\* The `follow' lists implement the abstract set of edges.
THEOREM OutRefinement == Spec => OutSpec
<1>1. Init => Out!Init
  <2> SUFFICES ASSUME Init PROVE Out!Init
    OBVIOUS
  <2>1. \A w \in Workers : req[w].op \notin GraphOps
    BY DEF Init, Idle, GraphOps
  <2> QED
    BY <2>1, NoEdges DEF Out!Init, Out!Nothing, Serving
<1> QED
  BY <1>1, OutStep, TypeCorrect, PTL DEF Spec, OutSpec, Out!Spec

\* A first update is accepted by In, a second one applied, a kill loses it.
LEMMA InStep == TypeOK /\ [Next]_storeVars => [In!Next]_(In!vars)
<1> DEFINE S == Serving("waiting")
<1> SUFFICES ASSUME TypeOK, [Next]_storeVars
             PROVE  \/ InEdges' = InEdges /\ S' = S
                    \/ \E s \in Workers : \/ \E r \in In!Request : In!Accept(s, r)
                                          \/ In!Apply(s)
                                          \/ In!Return(s)
  BY DEF In!Next, In!vars
<1>1. ASSUME NEW w \in Workers, NEW x \in Uuids, NEW y \in Uuids,
             FollowFirst(w, x, y) \/ UnfollowFirst(w, x, y)
      PROVE  \E r \in In!Request : In!Accept(w, r)
  <2>1. PICK op \in GraphOps : Begin(w, op, x, y)
    BY <1>1 DEF FollowFirst, UnfollowFirst, GraphOps
  <2> DEFINE r == [op |-> op, uuid |-> x, foreign |-> y]
  <2>2. r \in In!Request
    BY DEF In!Request, GraphOps
  <2>3. InEdges' = InEdges
    BY <1>1, FollowFirstEdges, UnfollowFirstEdges DEF FollowFirst, UnfollowFirst
  <2>4. S[w] = In!Nothing
    BY <2>1, ServingValue, ReqFields DEF Begin, In!Nothing
  <2>5. req' = [req EXCEPT ![w] = r] /\ r.op \in GraphOps
    BY <2>1 DEF Begin
  <2> HIDE DEF r
  <2>6. S' = [S EXCEPT ![w] = In!Received(r, "waiting")]
    BY <2>5, ServingChange DEF In!Received
  <2> QED
    BY <2>2, <2>3, <2>4, <2>6 DEF In!Accept
<1>2. ASSUME NEW w \in Workers, FollowSecond(w) \/ UnfollowSecond(w)
      PROVE  In!Apply(w)
  <2>1. req[w].op \in GraphOps
    BY <1>2 DEF FollowSecond, UnfollowSecond, GraphOps
  <2>2. req[w].uuid \in Uuids /\ req[w].foreign \in Uuids
    BY <2>1, ReqFields
  <2>3. S[w] = [request |-> req[w], stage |-> "waiting"]
    BY <2>1, ServingValue
  <2>4. InEdges' = In!Effect(InEdges, req[w])
    BY <1>2, <2>2, FollowSecondEdges, UnfollowSecondEdges
       DEF FollowSecond, UnfollowSecond, In!Effect, In!Edge
  <2>5. req' = [req EXCEPT ![w] = Idle] /\ Idle.op \notin GraphOps
    BY <1>2 DEF FollowSecond, UnfollowSecond, Finish, Idle, GraphOps
  <2>6. S' = [S EXCEPT ![w] = In!Nothing]
    BY <2>5, ServingChange DEF In!Nothing
  <2>7. S[w].stage = "waiting"
    BY <2>3
  <2>8. S[w].request = req[w]
    BY <2>3
  <2> HIDE DEF S
  <2> QED
    BY <2>4, <2>6, <2>7, <2>8 DEF In!Apply, S
<1>3. ASSUME NEW w \in Workers,
             \/ \E u \in Uuids, name \in Names :
                  NewUserCheck(w, u, name) \/ SignCreate(w, u, name)
             \/ NewUserInsert(w) \/ SignInsert(w) \/ Abort(w)
      PROVE  (InEdges' = InEdges /\ S' = S) \/ In!Return(w)
  <2>1. InEdges' = InEdges
    BY <1>3, OtherSteps
  <2>2. PICK r : req' = [req EXCEPT ![w] = r] /\ r.op \notin GraphOps
    BY <1>3 DEF NewUserCheck, SignCreate, NewUserInsert, SignInsert, Abort,
                Idle, GraphOps
  <2>3. S' = [S EXCEPT ![w] = In!Nothing]
    BY <2>2, ServingChange DEF In!Nothing
  <2>4. CASE S[w] = In!Nothing
    BY <2>1, <2>3, <2>4 DEF Serving
  <2>5. CASE S[w] # In!Nothing
    BY <2>1, <2>3, <2>5 DEF In!Return
  <2> QED
    BY <2>4, <2>5
<1>4. CASE UNCHANGED <<users, req>>
  BY <1>4 DEF InEdges, FirstDoc, Serving
<1> QED
  BY <1>1, <1>2, <1>3, <1>4 DEF Next, Step, AppRegister, storeVars

\* The `follower' lists implement the abstract set of edges.
THEOREM InRefinement == Spec => InSpec
<1>1. Init => In!Init
  <2> SUFFICES ASSUME Init PROVE In!Init
    OBVIOUS
  <2>1. \A w \in Workers : req[w].op \notin GraphOps
    BY DEF Init, Idle, GraphOps
  <2> QED
    BY <2>1, NoEdges DEF In!Init, In!Nothing, Serving
<1> QED
  BY <1>1, InStep, TypeCorrect, PTL DEF Spec, InSpec, In!Spec


-----------------------------------------------------------------------------
(* Posts and the requests about them: type correctness.                    *)

\* The kind of a request determines its fields.
LEMMA FeedFields ==
  ASSUME FeedTypeOK, NEW w \in Workers
  PROVE  /\ feed[w].op = "post" =>
              feed[w] \in PostReq /\ feed[w].uuid \in Uuids /\ feed[w].created_by \in Names
         /\ feed[w].op = "timeline" =>
              /\ feed[w] \in TimelineReq
              /\ feed[w].todo \subseteq Uuids
              /\ feed[w].got \subseteq 1 .. MaxPosts
<1>1. feed[w] \in {NoFeed} \union PostReq \union TimelineReq
  BY DEF FeedTypeOK
<1>2. CASE feed[w] = NoFeed
  BY <1>2 DEF NoFeed
<1>3. CASE feed[w] \in PostReq
  BY <1>3 DEF PostReq
<1>4. CASE feed[w] \in TimelineReq
  BY <1>4 DEF TimelineReq
<1> QED
  BY <1>1, <1>2, <1>3, <1>4

\* The posts of some authors are posts within the bound.
LEMMA PostsType ==
  ASSUME FeedTypeOK, NEW authors
  PROVE  PostsBy(authors) \subseteq 1 .. MaxPosts
<1>1. Len(posts) \in Nat /\ Len(posts) <= MaxPosts
  BY LenProperties DEF FeedTypeOK
<1> QED
  BY <1>1, MaxPostsAssumption DEF PostsBy

\* The list the loop over the reader's documents ends with.
LEMMA LastFollowType ==
  ASSUME TypeOK, NEW u \in Uuids,
         \A i \in 1 .. Len(users[u]) : users[u][i].follow # NoField
  PROVE  LastFollow(u) \subseteq Uuids
<1>1. CASE users[u] = <<>>
  BY <1>1 DEF LastFollow
<1>2. CASE users[u] # <<>>
  <2>1. users[u] \in Seq(Doc)
    BY DEF TypeOK
  <2>2. Len(users[u]) \in 1 .. Len(users[u])
    BY <1>2, <2>1, EmptySeq
  <2>3. users[u][Len(users[u])] \in Doc
    BY <2>1, <2>2, ElementOfSeq
  <2>4. users[u][Len(users[u])].follow # NoField
    BY <2>2
  <2> QED
    BY <1>2, <2>3, <2>4 DEF LastFollow, Doc
<1> QED
  BY <1>1, <1>2

\* The first document of a user with a name has that name.
LEMMA NameType ==
  ASSUME TypeOK, NEW u \in Uuids, FirstDoc(u).username # NoField
  PROVE  FirstDoc(u).username \in Names
BY FirstDocType DEF Doc

LEMMA FeedTypeStep == FeedTypeOK /\ [FeedNext]_allVars => FeedTypeOK'
<1> SUFFICES ASSUME FeedTypeOK, [FeedNext]_allVars PROVE FeedTypeOK'
  OBVIOUS
<1>0. TypeOK
  BY DEF FeedTypeOK
<1>1. ASSUME NEW w \in Workers, NEW u \in Uuids, PostRead(w, u)
      PROVE  FeedTypeOK'
  <2>1. [op |-> "post", uuid |-> u, created_by |-> FirstDoc(u).username] \in PostReq
    BY <1>0, <1>1, NameType DEF PostRead, PostReq
  <2>2. TypeOK'
    BY <1>0, <1>1 DEF PostRead, storeVars, TypeOK
  <2> QED
    BY <1>1, <2>1, <2>2 DEF PostRead, FeedTypeOK
<1>2. ASSUME NEW w \in Workers, PostInsert(w)
      PROVE  FeedTypeOK'
  <2>1. [uuid |-> feed[w].uuid, created_by |-> feed[w].created_by] \in Post
    BY <1>2, FeedFields DEF PostInsert, Post
  <2>2. posts \in Seq(Post) /\ Len(posts) \in Nat
    BY LenProperties DEF FeedTypeOK
  <2>3. posts' \in Seq(Post) /\ Len(posts') = Len(posts) + 1
    BY <1>2, <2>1, <2>2, AppendProperties DEF PostInsert
  <2>4. Len(posts') <= MaxPosts
    BY <1>2, <2>2, <2>3, MaxPostsAssumption DEF PostInsert
  <2>5. TypeOK'
    BY <1>0, <1>2 DEF PostInsert, storeVars, TypeOK
  <2> QED
    BY <1>2, <2>3, <2>4, <2>5 DEF PostInsert, FeedTypeOK
<1>3. ASSUME NEW w \in Workers, NEW u \in Uuids, TimelineRead(w, u)
      PROVE  FeedTypeOK'
  <2> DEFINE ff == Members(FirstDoc(u).follow)
             r == [op |-> "timeline", todo |-> LastFollow(u), got |-> {},
                   due |-> PostsBy(ff), uuid |-> u, followed |-> ff]
  <2>1. FirstDoc(u) \in Doc
    BY <1>0, FirstDocType
  <2>2. FirstDoc(u).follow \in List
    BY <2>1 DEF Doc, List
  <2>3. ff \subseteq Uuids
    BY <2>2, NoFieldAssumption DEF Members, List
  <2>4. LastFollow(u) \subseteq Uuids
    BY <1>0, <1>3, LastFollowType DEF TimelineRead
  <2>5. PostsBy(ff) \subseteq 1 .. MaxPosts
    BY PostsType
  <2> HIDE DEF ff
  <2>6. r \in TimelineReq
    BY <2>3, <2>4, <2>5 DEF TimelineReq
  <2>7. feed' = [feed EXCEPT ![w] = r]
    BY <1>3 DEF TimelineRead, ff
  <2>8. TypeOK'
    BY <1>0, <1>3 DEF TimelineRead, storeVars, TypeOK
  <2> HIDE DEF r
  <2> QED
    BY <1>3, <2>6, <2>7, <2>8 DEF TimelineRead, FeedTypeOK
<1>4. ASSUME NEW w \in Workers, TimelineFetch(w)
      PROVE  FeedTypeOK'
  <2>1. PICK n \in feed[w].todo :
          feed' = [feed EXCEPT ![w].todo = @ \ {n}, ![w].got = @ \union PostsBy({n})]
    BY <1>4 DEF TimelineFetch
  <2>2. feed[w] \in TimelineReq
    BY <1>4, FeedFields DEF TimelineFetch
  <2>3. PostsBy({n}) \subseteq 1 .. MaxPosts
    BY PostsType
  <2> DEFINE r == [feed[w] EXCEPT !.todo = @ \ {n}, !.got = @ \union PostsBy({n})]
  <2>4. r \in TimelineReq
    BY <2>2, <2>3 DEF TimelineReq
  <2>5. feed' = [feed EXCEPT ![w] = r]
    BY <2>1
  <2>6. TypeOK'
    BY <1>0, <1>4 DEF TimelineFetch, storeVars, TypeOK
  <2> HIDE DEF r
  <2> QED
    BY <1>4, <2>4, <2>5, <2>6 DEF TimelineFetch, FeedTypeOK
<1>5. ASSUME NEW w \in Workers, TimelineReply(w) \/ FeedAbort(w)
      PROVE  FeedTypeOK'
  <2>1. TypeOK'
    BY <1>0, <1>5 DEF TimelineReply, FeedAbort, storeVars, TypeOK
  <2> QED
    BY <1>5, <2>1 DEF TimelineReply, FeedAbort, FeedTypeOK
<1>6. CASE [Next]_storeVars /\ UNCHANGED feedVars
  <2>1. TypeOK'
    BY <1>0, <1>6, TypeStep
  <2> QED
    BY <1>6, <2>1 DEF feedVars, FeedTypeOK
<1> QED
  BY <1>1, <1>2, <1>3, <1>4, <1>5, <1>6
     DEF FeedNext, FeedStep, StoreStep, Next, allVars

LEMMA FeedTypeInit == FeedInit => FeedTypeOK
BY TypeInit, EmptySeq, MaxPostsAssumption DEF FeedInit, FeedTypeOK

\* Posts and the requests about them always have the declared shape.
THEOREM FeedTypeCorrect == FeedSpec => []FeedTypeOK
BY FeedTypeInit, FeedTypeStep, PTL DEF FeedSpec

-----------------------------------------------------------------------------
(***************************************************************************)
(* The name in a post is the name of its author's first document.  The     *)
(* post request carries a copy of the name between its two calls, so the   *)
(* invariant has to hold of the copies in flight as well; that no other    *)
(* worker changes the name of a first document is Kept, above.           *)
(***************************************************************************)
CopiesNamed == \A w \in Workers : feed[w].op = "post" =>
                 feed[w].created_by = FirstDoc(feed[w].uuid).username

NamedInv == FeedTypeOK /\ AuthorNamed /\ CopiesNamed

\* A name, once there, stays.
LEMMA FirstNameKept ==
  ASSUME TypeOK, Kept, NEW u \in Uuids, FirstDoc(u).username # NoField
  PROVE  FirstDoc(u)'.username = FirstDoc(u).username
<1>1. users[u] # <<>>
  BY DEF FirstDoc, Stub
<1>2. users[u] \in Seq(Doc)
  BY DEF TypeOK
<1>3. Len(users[u]) \in Nat \ {0} /\ 1 \in 1 .. Len(users[u])
  BY <1>1, <1>2, EmptySeq
<1>4. Len(users'[u]) >= Len(users[u]) /\ users'[u][1].username = users[u][1].username
  BY <1>3 DEF Kept
<1>5. users'[u] # <<>>
  BY <1>3, <1>4, EmptySeq
<1> QED
  BY <1>1, <1>4, <1>5 DEF FirstDoc

\* A step of the user handlers.
LEMMA StoreNamed ==
  ASSUME NamedInv, [Next]_storeVars, UNCHANGED feedVars
  PROVE  AuthorNamed' /\ CopiesNamed'
<1>0. FeedTypeOK /\ TypeOK /\ AuthorNamed /\ CopiesNamed
  BY DEF NamedInv, FeedTypeOK
<1>1. Kept
  <2>1. [Kept]_users
    BY <1>0, KeptStep
  <2> QED
    BY <1>0, <2>1, SameKeeps
<1>2. posts' = posts /\ feed' = feed
  BY DEF feedVars
<1>3. ASSUME NEW i \in 1 .. Len(posts)
      PROVE  posts[i].created_by = FirstDoc(posts[i].uuid)'.username
  <2>1. posts[i] \in Post
    BY <1>0, ElementOfSeq DEF FeedTypeOK
  <2>2. PICK u \in Uuids, name \in Names : u = posts[i].uuid /\ name = posts[i].created_by
    BY <2>1 DEF Post
  <2>3. FirstDoc(u).username = name
    BY <1>0, <2>2 DEF AuthorNamed
  <2>4. FirstDoc(u)'.username = name
    BY <1>0, <1>1, <2>3, FirstNameKept, NamesAssumption
  <2> QED
    BY <1>2, <2>2, <2>4 DEF FirstDoc
<1>4. AuthorNamed'
  BY <1>2, <1>3 DEF AuthorNamed, FirstDoc
<1>5. ASSUME NEW w \in Workers, feed[w].op = "post"
      PROVE  feed[w].created_by = FirstDoc(feed[w].uuid)'.username
  <2>1. PICK u \in Uuids, name \in Names : u = feed[w].uuid /\ name = feed[w].created_by
    BY <1>0, <1>5, FeedFields
  <2>2. FirstDoc(u).username = name
    BY <1>0, <1>5, <2>1 DEF CopiesNamed
  <2>3. FirstDoc(u)'.username = name
    BY <1>0, <1>1, <2>2, FirstNameKept, NamesAssumption
  <2> QED
    BY <1>2, <2>1, <2>3 DEF FirstDoc
<1>6. CopiesNamed'
  BY <1>2, <1>5 DEF CopiesNamed, FirstDoc
<1> QED
  BY <1>4, <1>6

LEMMA NamedStep == NamedInv /\ [FeedNext]_allVars => NamedInv'
<1> SUFFICES ASSUME NamedInv, [FeedNext]_allVars PROVE NamedInv'
  OBVIOUS
<1>0. FeedTypeOK /\ FeedTypeOK' /\ TypeOK /\ AuthorNamed /\ CopiesNamed
  BY FeedTypeStep DEF NamedInv, FeedTypeOK
<1> SUFFICES AuthorNamed' /\ CopiesNamed'
  BY <1>0 DEF NamedInv
<1>1. ASSUME NEW w \in Workers, NEW u \in Uuids, PostRead(w, u)
      PROVE  AuthorNamed' /\ CopiesNamed'
  <2>1. users' = users /\ posts' = posts
    BY <1>1 DEF PostRead, storeVars
  <2>2. \A v \in Workers \ {w} : feed'[v] = feed[v]
    BY <1>0, <1>1 DEF PostRead, FeedTypeOK
  <2>3. feed'[w] = [op |-> "post", uuid |-> u, created_by |-> FirstDoc(u).username]
    BY <1>0, <1>1 DEF PostRead, FeedTypeOK
  <2>4. AuthorNamed'
    BY <1>0, <2>1 DEF AuthorNamed, FirstDoc
  <2>5. CopiesNamed'
    BY <1>0, <2>1, <2>2, <2>3 DEF CopiesNamed, FirstDoc
  <2> QED
    BY <2>4, <2>5
<1>2. ASSUME NEW w \in Workers, PostInsert(w)
      PROVE  AuthorNamed' /\ CopiesNamed'
  <2> DEFINE p == [uuid |-> feed[w].uuid, created_by |-> feed[w].created_by]
  <2>1. users' = users
    BY <1>2 DEF PostInsert, storeVars
  <2>2. p \in Post
    BY <1>0, <1>2, FeedFields DEF PostInsert, Post
  <2>3. posts \in Seq(Post) /\ Len(posts) \in Nat
    BY <1>0, LenProperties DEF FeedTypeOK
  <2>4. posts' = Append(posts, p)
    BY <1>2 DEF PostInsert
  <2>5. p.created_by = FirstDoc(p.uuid).username
    BY <1>0, <1>2 DEF PostInsert, CopiesNamed
  <2> HIDE DEF p
  <2>6. /\ Len(posts') = Len(posts) + 1
        /\ \A i \in 1 .. Len(posts) : posts'[i] = posts[i]
        /\ posts'[Len(posts) + 1] = p
    BY <2>2, <2>3, <2>4, AppendProperties
  <2>7. \A i \in 1 .. Len(posts') : i \in 1 .. Len(posts) \/ i = Len(posts) + 1
    BY <2>3, <2>6
  <2>8. AuthorNamed'
    BY <1>0, <2>1, <2>5, <2>6, <2>7 DEF AuthorNamed, FirstDoc
  <2>9. \A v \in Workers : feed'[v] = IF v = w THEN NoFeed ELSE feed[v]
    BY <1>0, <1>2 DEF PostInsert, FeedTypeOK
  <2>10. CopiesNamed'
    BY <1>0, <2>1, <2>9 DEF CopiesNamed, FirstDoc, NoFeed
  <2> QED
    BY <2>8, <2>10
<1>3. ASSUME NEW w \in Workers, NEW r, r.op # "post",
             feed' = [feed EXCEPT ![w] = r], UNCHANGED <<users, posts>>
      PROVE  AuthorNamed' /\ CopiesNamed'
  <2>1. \A v \in Workers : feed'[v] = IF v = w THEN r ELSE feed[v]
    BY <1>0, <1>3 DEF FeedTypeOK
  <2>2. AuthorNamed'
    BY <1>0, <1>3 DEF AuthorNamed, FirstDoc
  <2>3. CopiesNamed'
    BY <1>0, <1>3, <2>1 DEF CopiesNamed, FirstDoc
  <2> QED
    BY <2>2, <2>3
<1>4. ASSUME NEW w \in Workers, NEW u \in Uuids, TimelineRead(w, u)
      PROVE  AuthorNamed' /\ CopiesNamed'
  BY <1>3, <1>4 DEF TimelineRead, storeVars
<1>5. ASSUME NEW w \in Workers, TimelineFetch(w)
      PROVE  AuthorNamed' /\ CopiesNamed'
  <2>1. PICK n \in feed[w].todo :
          feed' = [feed EXCEPT ![w].todo = @ \ {n}, ![w].got = @ \union PostsBy({n})]
    BY <1>5 DEF TimelineFetch
  <2> DEFINE r == [feed[w] EXCEPT !.todo = @ \ {n}, !.got = @ \union PostsBy({n})]
  <2>2. feed[w] \in TimelineReq
    BY <1>0, <1>5, FeedFields DEF TimelineFetch
  <2>3. r.op # "post"
    BY <1>5, <2>2 DEF TimelineFetch, TimelineReq
  <2>4. feed' = [feed EXCEPT ![w] = r]
    BY <2>1
  <2> HIDE DEF r
  <2> QED
    BY <1>3, <1>5, <2>3, <2>4 DEF TimelineFetch, storeVars
<1>6. ASSUME NEW w \in Workers, TimelineReply(w) \/ FeedAbort(w)
      PROVE  AuthorNamed' /\ CopiesNamed'
  BY <1>3, <1>6 DEF TimelineReply, FeedAbort, storeVars, NoFeed
<1>7. CASE [Next]_storeVars /\ UNCHANGED feedVars
  BY <1>7, StoreNamed
<1> QED
  BY <1>1, <1>2, <1>4, <1>5, <1>6, <1>7
     DEF FeedNext, FeedStep, StoreStep, Next, allVars

LEMMA NamedInit == FeedInit => NamedInv
<1> SUFFICES ASSUME FeedInit PROVE NamedInv
  OBVIOUS
<1>1. Len(posts) = 0
  BY EmptySeq DEF FeedInit
<1> QED
  BY <1>1, FeedTypeInit DEF FeedInit, NamedInv, AuthorNamed, CopiesNamed, NoFeed

\* The name copied into a post never goes stale.
THEOREM NamesFresh == FeedSpec => []AuthorNamed
<1>1. NamedInv => AuthorNamed
  BY DEF NamedInv
<1> QED
  BY <1>1, NamedInit, NamedStep, PTL DEF FeedSpec

-----------------------------------------------------------------------------
(***************************************************************************)
(* A timeline without gaps and without strangers.  Until its last query a  *)
(* request has every post it owes in hand or its author still to ask, and  *)
(* asks nobody but the people followed when it began (OnCourse).  That the *)
(* list of the last document is the list of the first is UniqueInv.        *)
(***************************************************************************)
OnCourse(w) ==
  /\ feed[w].todo \subseteq feed[w].followed
  /\ \A i \in feed[w].due : i \in 1 .. Len(posts)
       /\ (posts[i].uuid \in feed[w].todo \/ i \in feed[w].got)
  /\ \A i \in feed[w].got : i \in 1 .. Len(posts) /\ posts[i].uuid \in feed[w].followed

TimelineInv ==
  /\ FeedTypeOK
  /\ UniqueInv
  /\ \A w \in Workers :
       feed[w].op = "timeline" /\ feed[w].uuid \notin raced => OnCourse(w)

\* A race is never forgotten.
LEMMA RacedGrows ==
  ASSUME [Next]_storeVars
  PROVE  raced \subseteq raced'
BY DEF Next, Step, FollowFirst, FollowSecond, UnfollowFirst, UnfollowSecond,
       NewUserCheck, NewUserInsert, SignCreate, SignInsert, Abort, AppRegister,
       NoteRace, storeVars

\* The user handlers leave the timelines alone.
LEMMA StoreCourse ==
  ASSUME TimelineInv, [Next]_storeVars, UNCHANGED feedVars
  PROVE  TimelineInv'
<1>1. FeedTypeOK'
  <2>1. TypeOK'
    BY TypeStep DEF TimelineInv, FeedTypeOK
  <2> QED BY <2>1 DEF TimelineInv, FeedTypeOK, feedVars
<1>2. UniqueInv'
  BY UniqueStep DEF TimelineInv
<1>3. raced \subseteq raced'
  BY RacedGrows
<1> QED BY <1>1, <1>2, <1>3 DEF TimelineInv, OnCourse, feedVars

\* With one document at most the loop ends with the list of the first one.
LEMMA OneList ==
  ASSUME UniqueInv, NEW u \in Uuids \ raced,
         \A i \in 1 .. Len(users[u]) : users[u][i].follow # NoField
  PROVE  LastFollow(u) = Members(FirstDoc(u).follow)
<1>1. users[u] \in Seq(Doc) /\ Len(users[u]) <= 1
  BY DEF UniqueInv, TypeOK, UniqueUnlessRaced
<1>2. CASE users[u] = <<>>
  BY <1>2 DEF LastFollow, FirstDoc, Stub, Members
<1>3. CASE users[u] # <<>>
  <2>1. Len(users[u]) = 1
    <3>1. Len(users[u]) \in Nat /\ Len(users[u]) # 0
      BY <1>1, <1>3, EmptySeq, LenProperties
    <3>2. Len(users[u]) <= 1
      BY <1>1
    <3> DEFINE n == Len(users[u])
    <3> HIDE DEF n
    <3>3. n \in Nat /\ n # 0 /\ n <= 1
      BY <3>1, <3>2 DEF n
    <3>4. n = 1
      BY <3>3
    <3> QED BY <3>4 DEF n
  <2>2. users[u][1].follow # NoField
    BY <2>1
  <2> QED BY <1>3, <2>1, <2>2 DEF LastFollow, FirstDoc, Members
<1> QED BY <1>2, <1>3

\* A step about posts that touches no document, and one request.
LEMMA OneTimeline ==
  ASSUME TimelineInv, FeedTypeOK', UNCHANGED <<storeVars, posts>>,
         NEW w \in Workers, NEW r, feed' = [feed EXCEPT ![w] = r],
         r.op = "timeline" /\ r.uuid \notin raced => OnCourse(w)'
  PROVE  TimelineInv'
<1>1. feed'[w] = r /\ \A v \in Workers \ {w} : feed'[v] = feed[v]
  BY DEF TimelineInv, FeedTypeOK
<1>2. UniqueInv'
  BY UniqueStep DEF TimelineInv, Next
<1>3. raced' = raced
  BY DEF storeVars
<1> QED BY <1>1, <1>2, <1>3 DEF TimelineInv, OnCourse

LEMMA TimelineStep == TimelineInv /\ [FeedNext]_allVars => TimelineInv'
<1> SUFFICES ASSUME TimelineInv, [FeedNext]_allVars PROVE TimelineInv'
  OBVIOUS
<1>0. FeedTypeOK /\ FeedTypeOK' /\ UniqueInv
  BY FeedTypeStep DEF TimelineInv
<1>1. ASSUME NEW w \in Workers, NEW u \in Uuids, PostRead(w, u)
      PROVE  TimelineInv'
  <2> DEFINE r == [op |-> "post", uuid |-> u, created_by |-> FirstDoc(u).username]
  <2>1. feed' = [feed EXCEPT ![w] = r] /\ UNCHANGED <<storeVars, posts>>
    BY <1>1 DEF PostRead
  <2>2. r.op # "timeline"
    OBVIOUS
  <2> HIDE DEF r
  <2> QED BY <1>0, <2>1, <2>2, OneTimeline
<1>2. ASSUME NEW w \in Workers, PostInsert(w)
      PROVE  TimelineInv'
  <2>1. posts \in Seq(Post) /\ Len(posts) \in Nat
    BY <1>0, LenProperties DEF FeedTypeOK
  <2>2. [uuid |-> feed[w].uuid, created_by |-> feed[w].created_by] \in Post
    BY <1>0, <1>2, FeedFields DEF PostInsert, Post
  <2>3. /\ Len(posts') = Len(posts) + 1
        /\ \A i \in 1 .. Len(posts) : posts'[i] = posts[i]
    BY <1>2, <2>1, <2>2, AppendProperties DEF PostInsert
  <2>4. \A v \in Workers : feed'[v].op = "timeline" => feed'[v] = feed[v]
    BY <1>0, <1>2 DEF PostInsert, FeedTypeOK, NoFeed
  <2>5. UNCHANGED storeVars /\ UniqueInv' /\ raced' = raced
    BY <1>0, <1>2, UniqueStep DEF PostInsert, storeVars
  <2>6. \A i \in 1 .. Len(posts) : i \in 1 .. Len(posts')
    BY <2>1, <2>3
  <2>7. \A v \in Workers : feed'[v].op = "timeline" /\ feed'[v].uuid \notin raced'
          => OnCourse(v)'
    BY <2>3, <2>4, <2>5, <2>6 DEF TimelineInv, OnCourse
  <2> QED BY <1>0, <2>5, <2>7 DEF TimelineInv
<1>3. ASSUME NEW w \in Workers, NEW u \in Uuids, TimelineRead(w, u)
      PROVE  TimelineInv'
  <2> DEFINE ff == Members(FirstDoc(u).follow)
             r == [op |-> "timeline", todo |-> LastFollow(u), got |-> {},
                   due |-> PostsBy(ff), uuid |-> u, followed |-> ff]
  <2>1. feed' = [feed EXCEPT ![w] = r] /\ UNCHANGED <<storeVars, posts>>
    BY <1>3 DEF TimelineRead
  <2>2. /\ r.uuid = u /\ r.todo = LastFollow(u) /\ r.got = {}
        /\ r.due = PostsBy(ff) /\ r.followed = ff
    OBVIOUS
  <2>3. u \notin raced => LastFollow(u) = ff
    BY <1>0, <1>3, OneList DEF TimelineRead
  <2>4. \A i \in PostsBy(ff) : i \in 1 .. Len(posts) /\ posts[i].uuid \in ff
    BY DEF PostsBy
  <2> HIDE DEF ff, r
  <2>5. feed'[w] = r /\ posts' = posts
    BY <1>0, <2>1 DEF FeedTypeOK
  <2>6. r.uuid \notin raced => OnCourse(w)'
    BY <2>2, <2>3, <2>4, <2>5 DEF OnCourse
  <2> QED BY <1>0, <2>1, <2>6, OneTimeline
<1>4. ASSUME NEW w \in Workers, TimelineFetch(w)
      PROVE  TimelineInv'
  <2>1. PICK n \in feed[w].todo :
          feed' = [feed EXCEPT ![w].todo = @ \ {n}, ![w].got = @ \union PostsBy({n})]
    BY <1>4 DEF TimelineFetch
  <2>2. feed[w] \in TimelineReq /\ feed[w].op = "timeline"
    BY <1>0, <1>4, FeedFields DEF TimelineFetch
  <2> DEFINE r == [feed[w] EXCEPT !.todo = @ \ {n}, !.got = @ \union PostsBy({n})]
  <2>3. /\ r.uuid = feed[w].uuid /\ r.todo = feed[w].todo \ {n}
        /\ r.got = feed[w].got \union PostsBy({n})
        /\ r.due = feed[w].due /\ r.followed = feed[w].followed
    BY <2>2 DEF TimelineReq
  <2>4. feed' = [feed EXCEPT ![w] = r] /\ UNCHANGED <<storeVars, posts>>
    BY <1>4, <2>1 DEF TimelineFetch
  <2> HIDE DEF r
  <2>5. feed'[w] = r /\ posts' = posts
    BY <1>0, <2>4 DEF FeedTypeOK
  <2>6. \A i : i \in PostsBy({n}) <=> i \in 1 .. Len(posts) /\ posts[i].uuid = n
    BY DEF PostsBy
  <2>7. r.uuid \notin raced => OnCourse(w)
    BY <2>2, <2>3 DEF TimelineInv
  <2>8. r.uuid \notin raced => OnCourse(w)'
    BY <2>1, <2>3, <2>5, <2>6, <2>7 DEF OnCourse
  <2> QED BY <1>0, <2>4, <2>8, OneTimeline
<1>5. ASSUME NEW w \in Workers, TimelineReply(w) \/ FeedAbort(w)
      PROVE  TimelineInv'
  <2>1. NoFeed.op # "timeline"
    BY DEF NoFeed
  <2>2. feed' = [feed EXCEPT ![w] = NoFeed] /\ UNCHANGED <<storeVars, posts>>
    BY <1>5 DEF TimelineReply, FeedAbort
  <2> QED BY <1>0, <2>1, <2>2, OneTimeline
<1>6. CASE [Next]_storeVars /\ UNCHANGED feedVars
  BY <1>6, StoreCourse
<1> QED
  BY <1>1, <1>2, <1>3, <1>4, <1>5, <1>6
     DEF FeedNext, FeedStep, StoreStep, Next, allVars

LEMMA TimelineInit == FeedInit => TimelineInv
BY FeedTypeInit, UniqueInit DEF FeedInit, TimelineInv, NoFeed

\* get_timeline misses no post of the people followed when it began and shows
\* no other, whatever runs between its queries, for a reader with one document.
THEOREM TimelineComplete == FeedSpec => []TimelineExact
<1>1. TimelineInv => TimelineExact
  BY DEF TimelineInv, TimelineExact, OnCourse
<1> QED
  BY <1>1, TimelineInit, TimelineStep, PTL DEF FeedSpec

-----------------------------------------------------------------------------
(* The store next to the handlers of posts.                                *)

\* new_feed_post and get_timeline only read Users and a worker that serves one
\* of them serves nothing else: next to them the store behaves as it does alone.
THEOREM StoreUndisturbed == FeedSpec => Spec
<1>1. FeedInit => Init
  BY DEF FeedInit
<1>2. [FeedNext]_allVars => [Next]_storeVars
  <2> SUFFICES ASSUME FeedNext PROVE [Next]_storeVars
    BY DEF allVars
  <2>1. ASSUME NEW w \in Workers, FeedStep(w)
        PROVE  UNCHANGED storeVars
    BY <2>1 DEF FeedStep, PostRead, PostInsert, TimelineRead, TimelineFetch,
       TimelineReply, FeedAbort
  <2>2. ASSUME NEW w \in Workers, StoreStep(w)
        PROVE  Next
    BY <2>2 DEF StoreStep, Next
  <2> QED
    BY <2>1, <2>2 DEF FeedNext, Next
<1> QED
  BY <1>1, <1>2, PTL DEF FeedSpec, Spec

\* So what is proved of follow, unfollow and the registrations holds in the whole
\* server: settled lists agree, documents stay single unless raced and keep
\* their names, and either list is the set of edges of FollowGraph.
COROLLARY StoreInServer ==
  FeedSpec => /\ [](SettledSymmetric /\ UniqueUnlessRaced)
              /\ ProfilesKept /\ OutSpec /\ InSpec
BY StoreUndisturbed, SettledSymmetry, OneDocument, NamesKept, OutRefinement,
   InRefinement, PTL
=============================================================================
