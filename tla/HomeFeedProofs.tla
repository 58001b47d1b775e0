--------------------------- MODULE HomeFeedProofs ----------------------------
(***************************************************************************)
(* Proofs about HomeFeed, for any users, posts, timelines and bounds: the  *)
(* type invariant, that the feed is exact, that the table follows the      *)
(* array, and that only a sign-in repeats a post.  FeedExact is inductive  *)
(* once every entry is known to have one place: its fetch is due, or its   *)
(* timeline is awaited, or its photo is, or it is in the array (OnePlace). *)
(***************************************************************************)
EXTENDS HomeFeed, FiniteSetTheorems, TLAPS

\* Where the parts of the state refer to each other.
Linked ==
  /\ stage # "none" => atHome
  /\ atHome => signedIn \in Users
  /\ stage = "none" => waiting = {} /\ postsArray = {}
  /\ Len(block) <= MaxListeners
  /\ \A i \in DOMAIN block : block[i].home <= home
  /\ IsFiniteSet(postsArray)

WellTyped == TypeOK /\ Linked

Photos == {r.entry : r \in {q \in waiting : q.of = "photo"}}

\* An entry is in one place, and its fetch is over when it has left the first.
OnePlace ==
  /\ \A e \in postsArray \union Photos :
       /\ e.from \in DOMAIN block \ DueFetches
       /\ e.post \in Timeline[signedIn]
  /\ \A r \in waiting : r.of = "timeline" =>
       /\ r.from \in DOMAIN block \ DueFetches
       /\ \A e \in postsArray \union Photos : e.from # r.from
  /\ postsArray \intersect Photos = {}

\* What is owed is there or to come.
Accounted ==
  stage # "none" =>
    /\ postsArray \union ToCome \subseteq owed
    /\ calm => owed \subseteq postsArray \union ToCome

Owed(i) == IF signedIn # NoUser /\ Due(i) THEN 1 ELSE 0

\* What a block has sent and still owes is paid for by its press and the
\* sign-ins after it.
Debts ==
  \A i \in DOMAIN block :
    /\ block[i].at <= signIns
    /\ block[i].sent + Owed(i) <= 1 + signIns - block[i].at

-----------------------------------------------------------------------------
(* Requests, entries, blocks.                                              *)

LEMMA EmptySeq == \A S : <<>> \in Seq(S) /\ Len(<<>>) = 0 /\ DOMAIN <<>> = {}
OBVIOUS

LEMMA SeqExcept ==
  ASSUME NEW S, NEW q \in Seq(S), NEW i \in DOMAIN q, NEW v \in S
  PROVE  /\ [q EXCEPT ![i] = v] \in Seq(S)
         /\ Len([q EXCEPT ![i] = v]) = Len(q)
         /\ DOMAIN [q EXCEPT ![i] = v] = DOMAIN q
         /\ \A j \in DOMAIN q : [q EXCEPT ![i] = v][j] = IF j = i THEN v ELSE q[j]
OBVIOUS

LEMMA SeqAppend ==
  ASSUME NEW S, NEW q \in Seq(S), NEW v \in S
  PROVE  /\ Append(q, v) \in Seq(S)
         /\ Len(Append(q, v)) = Len(q) + 1
         /\ DOMAIN Append(q, v) = DOMAIN q \union {Len(q) + 1}
         /\ Len(q) + 1 \notin DOMAIN q
         /\ \A j \in DOMAIN q : Append(q, v)[j] = q[j]
         /\ Append(q, v)[Len(q) + 1] = v
OBVIOUS

LEMMA BlockFields ==
  ASSUME NEW x \in Block
  PROVE  /\ [x EXCEPT !.sent = @ + 1] \in Block
         /\ [x EXCEPT !.sent = @ + 1].sent = x.sent + 1
         /\ [x EXCEPT !.sent = @ + 1].home = x.home
         /\ [x EXCEPT !.sent = @ + 1].kind = x.kind
         /\ [x EXCEPT !.sent = @ + 1].at = x.at
BY DEF Block

LEMMA BlockNat == \A x \in Block : x.sent \in Nat /\ x.at \in Nat /\ x.home \in Nat
<1>1. 0 .. MaxSignIns \subseteq Nat /\ 0 .. MaxHomes \subseteq Nat
  BY UsersAssumption, PostsAssumption
<1> QED BY <1>1 DEF Block

\* A request is for a timeline or for a photo.
LEMMA RequestKinds ==
  ASSUME TypeOK, NEW r \in waiting
  PROVE  /\ r.of = "timeline" => r \in TimelineGet /\ r.from \in 1 .. MaxListeners
         /\ r.of = "photo" => r \in PhotoGet /\ r.entry \in Entry
BY DEF TypeOK, TimelineGet, PhotoGet

LEMMA EntriesType ==
  ASSUME signedIn \in Users, NEW i \in 1 .. MaxListeners
  PROVE  /\ Entries(i) \subseteq Entry
         /\ \A e \in Entries(i) : e.from = i /\ e.post \in Timeline[signedIn]
<1>1. Timeline[signedIn] \subseteq Posts
  BY PostsAssumption
<1> QED BY <1>1 DEF Entries, Entry

LEMMA InToCome ==
  \A e : e \in ToCome <=>
    \/ \E i \in DueFetches : e \in Entries(i)
    \/ \E r \in waiting : r.of = "timeline" /\ e \in Entries(r.from)
    \/ e \in Photos
<1> DEFINE D == UNION {Entries(i) : i \in DueFetches}
           T == UNION {Entries(r.from) : r \in {q \in waiting : q.of = "timeline"}}
<1>1. \A e : e \in D <=> \E i \in DueFetches : e \in Entries(i)
  BY Zenon
<1>2. \A e : e \in T <=> \E r \in waiting : r.of = "timeline" /\ e \in Entries(r.from)
  OBVIOUS
<1>3. ToCome = D \union T \union Photos
  BY DEF ToCome, Photos
<1> HIDE DEF D, T
<1> QED BY <1>1, <1>2, <1>3

LEMMA ToComeType ==
  ASSUME WellTyped, signedIn \in Users
  PROVE  ToCome \subseteq Entry
<1>1. \A i \in DueFetches : Entries(i) \subseteq Entry
  BY EntriesType, PostsAssumption DEF WellTyped, TypeOK, Linked, DueFetches
<1>2. \A r \in waiting : r.of = "timeline" => Entries(r.from) \subseteq Entry
  BY EntriesType, RequestKinds DEF WellTyped
<1>3. Photos \subseteq Entry
  BY RequestKinds DEF WellTyped, Photos
<1> QED BY <1>1, <1>2, <1>3, InToCome

\* A new block: its parts, and what it makes due.
LEMMA AddedBlock ==
  ASSUME WellTyped, signedIn \in Users, NEW kind \in {"fetch", "post"}, AddBlock(kind)
  PROVE  /\ block' \in Seq(Block)
         /\ told' \in Seq(MaybeUser \union {Never})
         /\ Len(block') = Len(told')
         /\ Len(block') = Len(block) + 1
         /\ Len(block') \in 1 .. MaxListeners
         /\ DOMAIN block' = DOMAIN block \union {Len(block')}
         /\ Len(block') \notin DOMAIN block
         /\ \A i \in DOMAIN block : block'[i] = block[i] /\ told'[i] = told[i]
         /\ block'[Len(block')].kind = kind
         /\ block'[Len(block')].home = home
         /\ block'[Len(block')].at = signIns
         /\ block'[Len(block')].sent = 0
         /\ told'[Len(block')] = Never
<1> USE DEF WellTyped, TypeOK, AuthTypeOK, Linked
<1> DEFINE b == [kind |-> kind, home |-> home, by |-> signedIn, at |-> signIns,
                 sent |-> 0]
<1>1. /\ b \in Block /\ b.kind = kind /\ b.home = home /\ b.at = signIns
      /\ b.sent = 0
  BY DEF Block
<1>2. block' = Append(block, b) /\ told' = Append(told, Never)
  BY DEF AddBlock, AddListener
<1> HIDE DEF b
<1>3. /\ block' \in Seq(Block)
      /\ Len(block') = Len(block) + 1
      /\ DOMAIN block' = DOMAIN block \union {Len(block) + 1}
      /\ Len(block) + 1 \notin DOMAIN block
      /\ \A i \in DOMAIN block : block'[i] = block[i]
      /\ block'[Len(block) + 1] = b
  BY <1>1, <1>2, SeqAppend
<1>4. /\ told' \in Seq(MaybeUser \union {Never})
      /\ Len(told') = Len(told) + 1
      /\ \A i \in DOMAIN told : told'[i] = told[i]
      /\ told'[Len(told) + 1] = Never
  BY <1>2, SeqAppend
<1>5. DOMAIN told = DOMAIN block /\ Len(block) \in Nat
  OBVIOUS
<1>6. Len(block) + 1 \in 1 .. MaxListeners
  BY <1>5, PostsAssumption DEF AddBlock
<1> QED BY <1>1, <1>3, <1>4, <1>5, <1>6

-----------------------------------------------------------------------------
(* Types.                                                                  *)

LEMMA TypeInit == Init => WellTyped
<1> SUFFICES ASSUME Init PROVE WellTyped
  OBVIOUS
<1> USE DEF Init, AuthInit
<1>1. atHome \in BOOLEAN /\ calm \in BOOLEAN
  BY Zenon
<1>2. MaxSignIns \in Nat /\ MaxHomes \in Nat /\ MaxListeners \in Nat
  BY UsersAssumption, PostsAssumption
<1>3. AuthTypeOK
  BY <1>1, <1>2, EmptySeq DEF AuthTypeOK, MaybeUser
<1>4. Linked
  BY <1>2, EmptySeq, FS_EmptySet DEF Linked
<1> QED BY <1>1, <1>2, <1>3, <1>4, EmptySeq DEF WellTyped, TypeOK

\* A new home screen, or none, in place of the old one.
LEMMA ReplacedTypes ==
  ASSUME NEW next \in {"none", "shown"}, Replace(next)
  PROVE  /\ stage' \in {"none", "shown"} /\ stage' = next
         /\ waiting' = {} /\ postsArray' = {} /\ owed' = {}
         /\ rows' \in Nat /\ reloads' \in Nat
         /\ calm' \in BOOLEAN
         /\ IsFiniteSet(postsArray')
<1>1. calm' \in BOOLEAN
  BY Zenon DEF Replace
<1> QED BY <1>1, FS_EmptySet DEF Replace

LEMMA SignTypes ==
  ASSUME WellTyped, (\E u \in Users : SignIn(u)) \/ SignOut
  PROVE  WellTyped'
<1> USE DEF WellTyped, TypeOK, AuthTypeOK, Linked
<1>1. ASSUME NEW u \in Users, SignIn(u) PROVE WellTyped'
  <2>1. /\ atHome' = (u \in Verified) /\ signedIn' = u
        /\ signIns' = signIns + 1 /\ signIns < MaxSignIns
        /\ UNCHANGED <<told, block>>
    BY <1>1 DEF SignIn, LoginClick
  <2>2. atHome' \in BOOLEAN
    <3>1. (u \in Verified) \in BOOLEAN
      OBVIOUS
    <3> QED BY <2>1, <3>1
  <2>3. /\ home' \in 0 .. MaxHomes /\ home <= home'
        /\ signIns' \in 0 .. MaxSignIns
    BY <1>1, <2>1, UsersAssumption, PostsAssumption DEF SignIn
  <2> DEFINE next == IF u \in Verified THEN "shown" ELSE "none"
  <2>4. next \in {"none", "shown"} /\ Replace(next) /\ (next # "none" => u \in Verified)
    BY <1>1 DEF SignIn
  <2> HIDE DEF next
  <2>5. /\ stage' \in {"none", "shown"} /\ stage' = next
        /\ waiting' = {} /\ postsArray' = {} /\ owed' = {}
        /\ rows' \in Nat /\ reloads' \in Nat
        /\ calm' \in BOOLEAN
        /\ IsFiniteSet(postsArray')
    BY <2>4, ReplacedTypes
  <2>6. \A i \in DOMAIN block : block[i].home \in Nat
    BY BlockNat
  <2>7. Linked'
    <3>1. stage' # "none" => atHome'
      BY <2>1, <2>4, <2>5, Zenon
    <3>2. \A i \in DOMAIN block' : block'[i].home <= home'
      BY <2>1, <2>3, <2>6
    <3> QED BY <2>1, <2>5, <3>1, <3>2
  <2>8. AuthTypeOK'
    BY <2>1, <2>2, <2>3 DEF MaybeUser
  <2> QED BY <2>1, <2>3, <2>5, <2>7, <2>8
<1>2. CASE SignOut
  <2>1. /\ atHome' = FALSE /\ signedIn' = NoUser
        /\ UNCHANGED <<told, block, home, signIns>>
    BY <1>2 DEF SignOut, logOutPressed
  <2>2. atHome' \in BOOLEAN
    BY <2>1, Zenon
  <2>3. /\ stage' = "none"
        /\ waiting' = {} /\ postsArray' = {} /\ owed' = {}
        /\ rows' \in Nat /\ reloads' \in Nat
        /\ calm' \in BOOLEAN
        /\ IsFiniteSet(postsArray')
    BY <1>2, ReplacedTypes DEF SignOut
  <2> QED BY <2>1, <2>2, <2>3 DEF MaybeUser
<1> QED BY <1>1, <1>2

LEMMA AddTypes ==
  ASSUME WellTyped, viewDidLoad \/ viewDidAppear \/ confirmPost
  PROVE  WellTyped'
<1> USE DEF WellTyped, TypeOK, AuthTypeOK, Linked
<1>1. atHome /\ signedIn \in Users
  BY DEF viewDidLoad, viewDidAppear, confirmPost
<1>2. PICK kind \in {"fetch", "post"} : AddBlock(kind)
  BY DEF viewDidLoad, viewDidAppear, confirmPost
<1>3. /\ block' \in Seq(Block)
      /\ told' \in Seq(MaybeUser \union {Never})
      /\ Len(block') = Len(told')
      /\ Len(block') \in 1 .. MaxListeners
      /\ \A i \in DOMAIN block' : block'[i].home <= home
  BY <1>1, <1>2, AddedBlock
<1>4. UNCHANGED <<signedIn, atHome, signIns>>
  BY DEF viewDidLoad, viewDidAppear, confirmPost
<1>5. AuthTypeOK'
  BY <1>3, <1>4
<1>6. CASE viewDidLoad \/ viewDidAppear
  <2>1. /\ UNCHANGED <<home, waiting, rows, reloads>>
        /\ stage' \in {"loaded", "visible"}
        /\ stage # "none"
        /\ postsArray' = postsArray \/ postsArray' = {}
        /\ owed' \subseteq owed \union ToCome \union Entries(Len(block'))
    BY <1>6 DEF viewDidLoad, viewDidAppear
  <2>2. calm' \in BOOLEAN
    <3>1. calm' = calm \/ calm' = TRUE
      BY <1>6 DEF viewDidLoad, viewDidAppear
    <3> QED BY <3>1, Zenon
  <2>3. IsFiniteSet(postsArray')
    BY <2>1, FS_EmptySet
  <2>4. owed' \subseteq Entry
    BY <1>1, <1>3, <2>1, EntriesType, ToComeType
  <2> QED BY <1>1, <1>3, <1>4, <1>5, <2>1, <2>2, <2>3, <2>4
<1>7. CASE confirmPost
  <2>1. home < MaxHomes /\ home' = home + 1 /\ Replace("shown")
    BY <1>7 DEF confirmPost
  <2>2. /\ stage' = "shown"
        /\ waiting' = {} /\ postsArray' = {} /\ owed' = {}
        /\ rows' \in Nat /\ reloads' \in Nat
        /\ calm' \in BOOLEAN
        /\ IsFiniteSet(postsArray')
    BY <2>1, ReplacedTypes
  <2>3. home' \in 0 .. MaxHomes /\ home < home' /\ home \in Nat
    BY <2>1, PostsAssumption
  <2>4. \A i \in DOMAIN block' : block'[i].home <= home'
    BY <1>3, <2>3, BlockNat
  <2> QED BY <1>1, <1>3, <1>4, <1>5, <2>2, <2>3, <2>4
<1> QED BY <1>6, <1>7

LEMMA ScreenTypes ==
  ASSUME WellTyped, Cover \/ didReceiveMemoryWarning \/ reloadData \/ EndOfProcess
  PROVE  WellTyped'
<1> USE DEF WellTyped, TypeOK, AuthTypeOK, Linked, authVars
<1>1. CASE Cover
  BY <1>1 DEF Cover
<1>2. CASE didReceiveMemoryWarning
  <2>1. calm' = FALSE
    BY <1>2 DEF didReceiveMemoryWarning
  <2>2. calm' \in BOOLEAN
    BY <2>1, Zenon
  <2> QED BY <1>2, <2>2, FS_EmptySet DEF didReceiveMemoryWarning
<1>3. CASE reloadData
  <2>1. rows' \in Nat /\ reloads' \in Nat
    BY <1>3, FS_CardinalityType DEF reloadData
  <2> QED BY <1>3, <2>1 DEF reloadData
<1>4. CASE EndOfProcess
  <2>1. /\ told' = <<>> /\ block' = <<>> /\ atHome' = FALSE
        /\ UNCHANGED <<signedIn, signIns, home>>
    BY <1>4 DEF EndOfProcess, Relaunch
  <2>2. atHome' \in BOOLEAN
    BY <2>1, Zenon
  <2>3. /\ stage' = "none"
        /\ waiting' = {} /\ postsArray' = {} /\ owed' = {}
        /\ rows' \in Nat /\ reloads' \in Nat
        /\ calm' \in BOOLEAN
        /\ IsFiniteSet(postsArray')
    BY <1>4, ReplacedTypes DEF EndOfProcess
  <2> QED BY <2>1, <2>2, <2>3, EmptySeq, PostsAssumption
<1> QED BY <1>1, <1>2, <1>3, <1>4

LEMMA CallTypes ==
  ASSUME WellTyped, NEW i \in 1 .. MaxListeners, Call(i)
  PROVE  WellTyped'
<1> USE DEF WellTyped, TypeOK, AuthTypeOK, Linked
<1>1. i \in DOMAIN block /\ i \in DOMAIN told
  BY DEF Call
<1>2. /\ UNCHANGED <<signedIn, atHome, signIns, home, stage, postsArray, rows,
                     reloads, owed, calm>>
      /\ told' = [told EXCEPT ![i] = signedIn]
  BY DEF Call, Called
<1>3. told' \in Seq(MaybeUser \union {Never}) /\ Len(told') = Len(told)
  BY <1>1, <1>2, SeqExcept
<1>4. /\ block' \in Seq(Block) /\ Len(block') = Len(block)
      /\ DOMAIN block' = DOMAIN block
      /\ \A j \in DOMAIN block : block'[j].home = block[j].home
  <2> DEFINE x == [block[i] EXCEPT !.sent = @ + 1]
  <2>1. x \in Block /\ x.home = block[i].home
    BY <1>1, BlockFields
  <2>2. block' = block \/ block' = [block EXCEPT ![i] = x]
    BY DEF Call
  <2> HIDE DEF x
  <2> QED BY <1>1, <2>1, <2>2, SeqExcept
<1>5. waiting' \subseteq TimelineGet \union PhotoGet
  BY DEF Call, TimelineGet
<1>6. stage = "none" => waiting' = {}
  BY DEF Call
<1> QED BY <1>2, <1>3, <1>4, <1>5, <1>6

LEMMA AnswerTypes ==
  ASSUME WellTyped, NEW r \in waiting, Answer(r)
  PROVE  WellTyped'
<1> USE DEF WellTyped, TypeOK, AuthTypeOK, Linked
<1>1. stage # "none" /\ signedIn \in Users
  OBVIOUS
<1>2. /\ UNCHANGED <<authVars, home, block, stage, rows, owed>>
      /\ reloads' \in Nat
  BY DEF Answer, TimelineAnswer, PhotoAnswer, TimelineLost, PhotoLost
<1>3. calm' \in BOOLEAN
  <2>1. calm' = calm \/ calm' = FALSE
    BY DEF Answer, TimelineAnswer, PhotoAnswer, TimelineLost, PhotoLost
  <2> QED BY <2>1, Zenon
<1>4. \/ postsArray' = postsArray
      \/ r.of = "photo" /\ postsArray' = postsArray \union {r.entry}
  BY DEF Answer, TimelineAnswer, PhotoAnswer, TimelineLost, PhotoLost
<1>5. postsArray' \subseteq Entry /\ IsFiniteSet(postsArray')
  <2>1. CASE postsArray' = postsArray
    BY <2>1
  <2>2. CASE r.of = "photo" /\ postsArray' = postsArray \union {r.entry}
    <3>1. r.entry \in Entry
      BY <2>2, RequestKinds
    <3>2. IsFiniteSet(postsArray \union {r.entry})
      BY FS_AddElement
    <3> QED BY <2>2, <3>1, <3>2
  <2> QED BY <1>4, <2>1, <2>2
<1>6. waiting' \subseteq TimelineGet \union PhotoGet
  <2>1. CASE TimelineAnswer(r)
    <3>1. Entries(r.from) \subseteq Entry
      BY <1>1, <2>1, RequestKinds, EntriesType DEF TimelineAnswer
    <3> QED BY <2>1, <3>1 DEF TimelineAnswer, PhotoGet
  <2>2. CASE PhotoAnswer(r) \/ TimelineLost(r) \/ PhotoLost(r)
    BY <2>2 DEF PhotoAnswer, TimelineLost, PhotoLost
  <2> QED BY <2>1, <2>2 DEF Answer
<1> QED BY <1>1, <1>2, <1>3, <1>5, <1>6 DEF authVars

LEMMA TypeStep ==
  ASSUME WellTyped, [Next]_vars
  PROVE  WellTyped'
<1>1. ASSUME UNCHANGED vars PROVE WellTyped'
  BY <1>1 DEF vars, screenVars, authVars, WellTyped, TypeOK, AuthTypeOK, Linked
<1> QED
  BY <1>1, SignTypes, AddTypes, ScreenTypes, CallTypes, AnswerTypes
  DEF Next, ScrollBeyond

-----------------------------------------------------------------------------
(* The feed.                                                               *)

ComesBy(e) ==
  \/ \E i \in DueFetches : e \in Entries(i)
  \/ \E r \in waiting : r.of = "timeline" /\ e \in Entries(r.from)
  \/ e \in Photos

LEMMA Coming == \A e : e \in ToCome <=> ComesBy(e)
BY InToCome DEF ComesBy

LEMMA ComingNext == (\A e : e \in ToCome <=> ComesBy(e))'
BY Coming, PTL

FeedInv == OnePlace /\ Accounted

LEMMA FeedInit == Init => FeedInv
BY DEF Init, FeedInv, OnePlace, Accounted, Photos

\* A new home screen starts from nothing.
LEMMA ReplacedFeed ==
  ASSUME waiting' = {}, postsArray' = {}, owed' = {},
         stage' = "none" \/ DueFetches' = {}
  PROVE  FeedInv'
<1>1. Photos' = {}
  BY DEF Photos
<1>2. stage' # "none" => ToCome' = {}
  BY <1>1, ComingNext DEF ComesBy
<1> QED BY <1>1, <1>2 DEF FeedInv, OnePlace, Accounted

LEMMA SignFeed ==
  ASSUME WellTyped, (\E u \in Users : SignIn(u)) \/ SignOut
  PROVE  FeedInv'
<1>1. ASSUME NEW u \in Users, SignIn(u) PROVE FeedInv'
  <2>1. /\ waiting' = {} /\ postsArray' = {} /\ owed' = {}
        /\ stage' = "none" \/ home' = home + 1
        /\ block' = block
    BY <1>1 DEF SignIn, Replace
  <2>2. home' = home + 1 => DueFetches' = {}
    BY <2>1, BlockNat DEF DueFetches, WellTyped, TypeOK, Linked
  <2> QED BY <2>1, <2>2, ReplacedFeed
<1>2. CASE SignOut
  BY <1>2, ReplacedFeed DEF SignOut, Replace
<1> QED BY <1>1, <1>2

\* A step that changes neither the requests nor what is due.
LEMMA QuietFeed ==
  ASSUME FeedInv, UNCHANGED <<signedIn, home, block, told, waiting, owed>>,
         stage' # "none" => stage # "none",
         \/ postsArray' = postsArray /\ calm' = calm
         \/ postsArray' = {} /\ calm' = FALSE
  PROVE  FeedInv'
<1>1. DueFetches' = DueFetches /\ Photos' = Photos /\ ToCome' = ToCome
  BY DEF DueFetches, Due, Photos, ToCome, Entries
<1> QED BY <1>1 DEF FeedInv, OnePlace, Accounted

LEMMA AddFeed ==
  ASSUME WellTyped, FeedInv, viewDidLoad \/ viewDidAppear
  PROVE  FeedInv'
<1> DEFINE n == Len(block')
<1>1. /\ AddBlock("fetch") /\ signedIn \in Users /\ stage # "none"
      /\ UNCHANGED <<signedIn, home, waiting>>
  BY DEF viewDidLoad, viewDidAppear, WellTyped, Linked
<1>2. /\ DOMAIN block' = DOMAIN block \union {n}
      /\ n \notin DOMAIN block /\ n \in 1 .. MaxListeners
      /\ \A i \in DOMAIN block : block'[i] = block[i] /\ told'[i] = told[i]
      /\ block'[n].kind = "fetch" /\ block'[n].home = home /\ told'[n] = Never
  BY <1>1, AddedBlock
<1> HIDE DEF n
<1>3. DueFetches' = DueFetches \union {n}
  BY <1>1, <1>2, UsersAssumption DEF DueFetches, Due
<1>4. Photos' = Photos /\ \A i : Entries(i)' = Entries(i)
  BY <1>1 DEF Photos, Entries
<1>5. \A e : e \in ToCome' <=> e \in ToCome \/ e \in Entries(n)
  BY <1>1, <1>3, <1>4, Coming, ComingNext DEF ComesBy
<1>6. \/ postsArray' = postsArray /\ owed' = owed \union Entries(n) /\ calm' = calm
      \/ postsArray' = {} /\ owed' = ToCome \union Entries(n)
  BY DEF viewDidLoad, viewDidAppear, n
<1>7. OnePlace'
  BY <1>1, <1>2, <1>3, <1>4, <1>6 DEF FeedInv, OnePlace
<1>8. Accounted'
  BY <1>1, <1>5, <1>6 DEF FeedInv, Accounted
<1> QED BY <1>7, <1>8 DEF FeedInv

\* The post form's own listener is no fetch, and the new screen has none yet.
LEMMA PostFeed ==
  ASSUME WellTyped, confirmPost
  PROVE  FeedInv'
<1>1. /\ AddBlock("post") /\ signedIn \in Users /\ home' = home + 1
      /\ waiting' = {} /\ postsArray' = {} /\ owed' = {}
  BY DEF confirmPost, Replace, WellTyped, Linked
<1>2. \A i \in DOMAIN block' : block'[i].home <= home /\ home \in Nat
                               /\ block'[i].home \in Nat
  BY <1>1, AddedBlock, PostsAssumption, BlockNat DEF WellTyped, TypeOK, Linked
<1>3. DueFetches' = {}
  BY <1>1, <1>2 DEF DueFetches
<1> QED BY <1>1, <1>3, ReplacedFeed

\* The call moves the entries of a fetch from due to awaited.
LEMMA CallFeed ==
  ASSUME WellTyped, FeedInv, NEW i \in 1 .. MaxListeners, Call(i)
  PROVE  FeedInv'
<1>1. /\ i \in DOMAIN block /\ Due(i) /\ told' = [told EXCEPT ![i] = signedIn]
      /\ UNCHANGED <<signedIn, home, stage, postsArray, owed, calm>>
  BY DEF Call, Called
<1>2. /\ DOMAIN block' = DOMAIN block
      /\ \A j \in DOMAIN block : /\ block'[j].kind = block[j].kind
                                 /\ block'[j].home = block[j].home
  <2> DEFINE x == [block[i] EXCEPT !.sent = @ + 1]
  <2>1. x \in Block /\ x.home = block[i].home /\ x.kind = block[i].kind
    BY <1>1, BlockFields DEF WellTyped, TypeOK
  <2>2. block' = block \/ block' = [block EXCEPT ![i] = x]
    BY DEF Call
  <2> HIDE DEF x
  <2> QED BY <1>1, <2>1, <2>2, SeqExcept DEF WellTyped, TypeOK
<1>3. DueFetches' = DueFetches \ {i}
  BY <1>1, <1>2 DEF DueFetches, Due, WellTyped, TypeOK, AuthTypeOK
<1>4. \A e : Entries(e)' = Entries(e)
  BY <1>1 DEF Entries
<1>5. CASE i \in DueFetches /\ stage # "none"
  <2> DEFINE r == [of |-> "timeline", from |-> i]
  <2>1. waiting' = waiting \union {r} /\ r.of = "timeline" /\ r.from = i
    BY <1>5 DEF Call
  <2> HIDE DEF r
  <2>2. Photos' = Photos
    BY <2>1 DEF Photos
  <2>3. OnePlace'
    BY <1>1, <1>2, <1>3, <1>5, <2>1, <2>2 DEF FeedInv, OnePlace
  <2>4. \A e : e \in ToCome' <=> e \in ToCome
    BY <1>3, <1>4, <1>5, <2>1, <2>2, Coming, ComingNext DEF ComesBy
  <2> QED BY <1>1, <2>3, <2>4 DEF FeedInv, Accounted
<1>6. CASE ~ (i \in DueFetches /\ stage # "none")
  <2>1. waiting' = waiting /\ Photos' = Photos
    BY <1>6 DEF Call, Photos
  <2>2. OnePlace'
    BY <1>1, <1>2, <1>3, <2>1 DEF FeedInv, OnePlace
  <2>3. stage # "none" => \A e : e \in ToCome' <=> e \in ToCome
    BY <1>3, <1>4, <1>6, <2>1, Coming, ComingNext DEF ComesBy
  <2> QED BY <1>1, <2>2, <2>3 DEF FeedInv, Accounted
<1> QED BY <1>5, <1>6

\* The parts of a request determine it.
LEMMA SameRequest ==
  ASSUME TypeOK, NEW q \in waiting, NEW r \in waiting, q.of = r.of
  PROVE  /\ r.of = "timeline" /\ q.from = r.from => q = r
         /\ r.of = "photo" /\ q.entry = r.entry => q = r
BY DEF TypeOK, TimelineGet, PhotoGet

\* An answered timeline moves its entries to the photos; a photo's answer
\* moves its entry to the array.
LEMMA AnswerFeed ==
  ASSUME WellTyped, FeedInv, NEW r \in waiting, Answer(r)
  PROVE  FeedInv'
<1>1. /\ UNCHANGED <<authVars, home, block, stage, owed>>
      /\ signedIn \in Users
  BY DEF Answer, TimelineAnswer, PhotoAnswer, TimelineLost, PhotoLost, WellTyped, Linked
<1>2. DueFetches' = DueFetches /\ (\A i : Entries(i)' = Entries(i))
  BY <1>1 DEF DueFetches, Due, Entries, authVars
<1>3. signedIn' = signedIn /\ DOMAIN block' = DOMAIN block
  BY <1>1 DEF authVars
<1>4. CASE TimelineAnswer(r)
  <2>1. /\ r.of = "timeline" /\ UNCHANGED <<postsArray, calm>>
        /\ waiting' = (waiting \ {r})
                        \union {[of |-> "photo", entry |-> e] : e \in Entries(r.from)}
        /\ r.from \in 1 .. MaxListeners
    BY <1>4, RequestKinds DEF TimelineAnswer, WellTyped
  <2>2. Photos' = Photos \union Entries(r.from)
    <3> DEFINE get(e) == [of |-> "photo", entry |-> e]
    <3>1. \A e : get(e).of = "photo" /\ get(e).entry = e
      OBVIOUS
    <3>2. waiting' = (waiting \ {r}) \union {get(e) : e \in Entries(r.from)}
      BY <2>1
    <3> HIDE DEF get
    <3>3. \A q \in waiting : q.of = "photo" => q \in waiting'
      BY <2>1, <3>2
    <3> QED BY <3>1, <3>2, <3>3 DEF Photos
  <2>3. \A e \in Entries(r.from) : e.from = r.from /\ e.post \in Timeline[signedIn]
    BY <1>1, <2>1, EntriesType
  <2>4. \A q \in waiting' : q.of = "timeline" =>
          q \in waiting /\ q # r /\ q.from # r.from
    BY <2>1, SameRequest DEF WellTyped
  <2>5. \A q \in waiting : q.of = "timeline" => q = r \/ q \in waiting'
    BY <2>1
  <2>6. OnePlace'
    BY <1>2, <1>3, <2>1, <2>2, <2>3, <2>4 DEF FeedInv, OnePlace
  <2>7. \A e : e \in ToCome' <=> e \in ToCome
    BY <1>2, <2>1, <2>2, <2>4, <2>5, Coming, ComingNext DEF ComesBy
  <2> QED BY <1>1, <2>1, <2>6, <2>7 DEF FeedInv, Accounted
<1>5. CASE PhotoAnswer(r)
  <2>1. /\ r.of = "photo" /\ UNCHANGED calm /\ waiting' = waiting \ {r}
        /\ postsArray' = postsArray \union {r.entry}
    BY <1>5 DEF PhotoAnswer
  <2>2. \A q \in waiting : q.of = "photo" /\ q.entry = r.entry => q = r
    BY <2>1, SameRequest DEF WellTyped
  <2>3. Photos' = Photos \ {r.entry} /\ r.entry \in Photos
    BY <2>1, <2>2 DEF Photos
  <2>4. OnePlace'
    BY <1>2, <1>3, <2>1, <2>3 DEF FeedInv, OnePlace
  <2>5. \A e : e \in postsArray' \union ToCome' <=> e \in postsArray \union ToCome
    BY <1>2, <2>1, <2>3, Coming, ComingNext DEF ComesBy
  <2> QED BY <1>1, <2>1, <2>4, <2>5 DEF FeedInv, Accounted
<1>6. CASE TimelineLost(r) \/ PhotoLost(r)
  <2>1. waiting' = waiting \ {r} /\ postsArray' = postsArray /\ ~ calm'
    BY <1>6 DEF TimelineLost, PhotoLost
  <2>2. Photos' \subseteq Photos
    BY <2>1 DEF Photos
  <2>3. OnePlace'
    BY <1>2, <1>3, <2>1, <2>2 DEF FeedInv, OnePlace
  <2>4. \A e : e \in ToCome' => e \in ToCome
    BY <1>2, <2>1, <2>2, Coming, ComingNext DEF ComesBy
  <2> QED BY <1>1, <2>1, <2>3, <2>4 DEF FeedInv, Accounted
<1> QED BY <1>4, <1>5, <1>6 DEF Answer

LEMMA FeedStep ==
  ASSUME WellTyped, FeedInv, [Next]_vars
  PROVE  FeedInv'
<1>1. CASE UNCHANGED vars \/ Cover \/ didReceiveMemoryWarning \/ reloadData
  BY <1>1, QuietFeed DEF vars, screenVars, authVars, Cover, didReceiveMemoryWarning,
                         reloadData
<1>2. CASE ScrollBeyond \/ EndOfProcess
  BY <1>2, ReplacedFeed DEF ScrollBeyond, EndOfProcess, Replace
<1> QED BY <1>1, <1>2, SignFeed, AddFeed, PostFeed, CallFeed, AnswerFeed DEF Next

LEMMA FeedImplies == WellTyped /\ FeedInv => FeedExact
<1> SUFFICES ASSUME WellTyped, FeedInv, stage # "none"
             PROVE  /\ postsArray \subseteq owed
                    /\ \A e \in postsArray : e.post \in Timeline[signedIn]
                    /\ postsArray \intersect ToCome = {}
                    /\ (calm /\ ToCome = {}) => postsArray = owed
  BY DEF FeedExact
<1>1. signedIn \in Users
  BY DEF WellTyped, Linked
<1>2. \A i \in DueFetches : \A e \in Entries(i) : e.from = i
  BY <1>1, EntriesType, PostsAssumption DEF DueFetches, WellTyped, TypeOK, Linked
<1>3. \A r \in waiting : r.of = "timeline" => \A e \in Entries(r.from) : e.from = r.from
  BY <1>1, EntriesType, RequestKinds DEF WellTyped
<1>4. postsArray \intersect ToCome = {}
  BY <1>2, <1>3, Coming DEF ComesBy, FeedInv, OnePlace
<1> QED BY <1>4 DEF FeedInv, OnePlace, Accounted

-----------------------------------------------------------------------------
(* Repeated posts.                                                         *)

LEMMA DebtsInit == Init => Debts
BY DEF Init, AuthInit, Debts

LEMMA DebtsAdd ==
  ASSUME WellTyped, Debts, signedIn \in Users, NEW kind \in {"fetch", "post"},
         AddBlock(kind), UNCHANGED <<signedIn, signIns>>
  PROVE  Debts'
<1>1. /\ DOMAIN block' = DOMAIN block \union {Len(block')}
      /\ \A i \in DOMAIN block : block'[i] = block[i] /\ told'[i] = told[i]
      /\ block'[Len(block')].at = signIns /\ block'[Len(block')].sent = 0
  BY AddedBlock
<1>2. \A i \in DOMAIN block : Owed(i)' = Owed(i)
  BY <1>1 DEF Owed, Due
<1>3. \A i : Owed(i)' \in {0, 1}
  BY DEF Owed
<1>4. signIns \in Nat
  BY UsersAssumption DEF WellTyped, TypeOK, AuthTypeOK
<1>5. ASSUME NEW i \in DOMAIN block
      PROVE  /\ block'[i].at <= signIns'
             /\ block'[i].sent + Owed(i)' <= 1 + signIns' - block'[i].at
  BY <1>1, <1>2, <1>5 DEF Debts
<1>6. ASSUME NEW i, i = Len(block')
      PROVE  /\ block'[i].at <= signIns'
             /\ block'[i].sent + Owed(i)' <= 1 + signIns' - block'[i].at
  <2>1. Owed(i)' \in {0, 1}
    BY <1>3
  <2> QED BY <1>1, <1>4, <1>6, <2>1
<1> QED BY <1>1, <1>5, <1>6 DEF Debts

LEMMA DebtsSign ==
  ASSUME WellTyped, Debts, (\E u \in Users : SignIn(u)) \/ SignOut
  PROVE  Debts'
<1>1. /\ UNCHANGED <<told, block>>
      /\ \/ signedIn' = NoUser /\ signIns' = signIns
         \/ signIns' = signIns + 1
  BY DEF SignIn, SignOut, LoginClick, logOutPressed
<1>2. \A i \in DOMAIN block : /\ block[i].sent \in Nat /\ block[i].at \in Nat
                              /\ Owed(i) \in {0, 1} /\ Owed(i)' \in {0, 1}
                              /\ signedIn' = NoUser => Owed(i)' = 0
  BY BlockNat DEF WellTyped, TypeOK, Owed
<1>3. signIns \in Nat
  BY UsersAssumption DEF WellTyped, TypeOK, AuthTypeOK
<1> QED BY <1>1, <1>2, <1>3 DEF Debts

\* A call pays what the block owes.
LEMMA DebtsCall ==
  ASSUME WellTyped, Debts, NEW i \in 1 .. MaxListeners, Call(i)
  PROVE  Debts'
<1> USE DEF WellTyped, TypeOK, AuthTypeOK
<1>1. /\ i \in DOMAIN block /\ i \in DOMAIN told /\ Due(i)
      /\ told' = [told EXCEPT ![i] = signedIn]
      /\ UNCHANGED <<signedIn, signIns>>
  BY DEF Call, Called
<1> DEFINE x == [block[i] EXCEPT !.sent = @ + 1]
<1>2. x \in Block /\ x.sent = block[i].sent + 1 /\ x.at = block[i].at
  BY <1>1, BlockFields
<1>3. block' = IF signedIn = NoUser THEN block ELSE [block EXCEPT ![i] = x]
  BY DEF Call
<1> HIDE DEF x
<1>4. \A j \in DOMAIN block \ {i} : Owed(j)' = Owed(j)
  BY <1>1 DEF Owed, Due
<1>5. Owed(i)' = 0 /\ Owed(i) = IF signedIn = NoUser THEN 0 ELSE 1
  BY <1>1 DEF Owed, Due
<1>6. block[i].sent \in Nat /\ block[i].at \in Nat
  BY <1>1, BlockNat
<1>7. CASE signedIn = NoUser
  BY <1>1, <1>3, <1>4, <1>5, <1>7 DEF Debts
<1>8. CASE signedIn # NoUser
  <2>1. /\ DOMAIN block' = DOMAIN block
        /\ \A j \in DOMAIN block : block'[j] = IF j = i THEN x ELSE block[j]
    BY <1>1, <1>2, <1>3, <1>8, SeqExcept
  <2> QED BY <1>1, <1>2, <1>4, <1>5, <1>6, <1>8, <2>1 DEF Debts
<1> QED BY <1>7, <1>8

LEMMA DebtsStep ==
  ASSUME WellTyped, Debts, [Next]_vars
  PROVE  Debts'
<1>1. ASSUME UNCHANGED <<authVars, block>> PROVE Debts'
  BY <1>1 DEF authVars, Debts, Owed, Due
<1>2. CASE viewDidLoad \/ viewDidAppear \/ confirmPost
  BY <1>2, DebtsAdd DEF viewDidLoad, viewDidAppear, confirmPost, WellTyped, Linked
<1>3. CASE \E r \in waiting : Answer(r)
  BY <1>1, <1>3 DEF Answer, TimelineAnswer, PhotoAnswer, TimelineLost, PhotoLost
<1>4. CASE ScrollBeyond \/ EndOfProcess
  BY <1>4, EmptySeq DEF ScrollBeyond, EndOfProcess, Debts
<1>5. CASE UNCHANGED vars \/ Cover \/ didReceiveMemoryWarning \/ reloadData
  BY <1>1, <1>5 DEF vars, Cover, didReceiveMemoryWarning, reloadData
<1> QED BY <1>2, <1>3, <1>4, <1>5, DebtsSign, DebtsCall DEF Next

LEMMA DebtsImply == WellTyped /\ Debts => RepostNeedsSignIn
<1> SUFFICES ASSUME WellTyped, Debts PROVE RepostNeedsSignIn
  OBVIOUS
<1>1. \A i \in DOMAIN block : /\ block[i].sent \in Nat /\ block[i].at \in Nat
                              /\ Owed(i) \in {0, 1}
  BY BlockNat DEF WellTyped, TypeOK, Owed
<1>2. signIns \in Nat
  BY UsersAssumption DEF WellTyped, TypeOK, AuthTypeOK
<1> QED BY <1>1, <1>2 DEF Debts, RepostNeedsSignIn

-----------------------------------------------------------------------------
(* The table and the array.                                                *)

\* What changes the array without emptying it leaves a reload to come.
LEMMA RowsStep ==
  ASSUME WellTyped, RowsTold, [Next]_vars
  PROVE  RowsTold'
<1> USE DEF RowsTold
<1>1. reloads \in Nat
  BY DEF WellTyped, TypeOK
<1>2. CASE UNCHANGED <<postsArray, rows, reloads>>
  BY <1>2
<1>3. CASE postsArray' = {}
  BY <1>3
<1>4. CASE \/ viewDidLoad \/ Cover \/ \E i \in 1 .. MaxListeners : Call(i)
           \/ UNCHANGED vars
  BY <1>2, <1>4 DEF viewDidLoad, Cover, Call, vars, screenVars
<1>5. CASE \/ \E u \in Users : SignIn(u)
           \/ SignOut \/ confirmPost \/ viewDidAppear \/ didReceiveMemoryWarning
           \/ ScrollBeyond \/ EndOfProcess
  BY <1>3, <1>5 DEF SignIn, SignOut, confirmPost, viewDidAppear,
       didReceiveMemoryWarning, ScrollBeyond, EndOfProcess, Replace
<1>6. ASSUME NEW r \in waiting, Answer(r)
      PROVE  RowsTold'
  <2>1. CASE TimelineAnswer(r) \/ TimelineLost(r)
    BY <1>2, <2>1 DEF TimelineAnswer, TimelineLost
  <2>2. CASE PhotoAnswer(r) \/ PhotoLost(r)
    <3>1. reloads' = reloads + 1
      BY <2>2 DEF PhotoAnswer, PhotoLost
    <3> QED BY <1>1, <3>1
  <2> QED BY <1>6, <2>1, <2>2 DEF Answer
<1>7. CASE reloadData
  BY <1>7 DEF reloadData
<1> QED BY <1>4, <1>5, <1>6, <1>7 DEF Next

-----------------------------------------------------------------------------
\* TypeOK holds in every reachable state: listeners and requests of the home
\* screen keep their shape through sign-ins, posts and crashes.
THEOREM HomeTypeCorrect == Spec => []TypeOK
<1>1. WellTyped => TypeOK
  BY DEF WellTyped
<1> QED BY <1>1, TypeInit, TypeStep, PTL DEF Spec

\* FeedExact holds in every reachable state: the array of HomeViewController
\* has each post once for every fetch it owes, however the answers of
\* overlapping fetches interleave.
THEOREM FeedExactAlways == Spec => []FeedExact
<1> QED BY TypeInit, TypeStep, FeedInit, FeedStep, FeedImplies, PTL DEF Spec

\* RowsTold holds in every reachable state: whatever answers, warnings and screens
\* come in whatever order, the last reload that waits brings the table and a
\* non-empty array together.
THEOREM RowsToldAlways == Spec => []RowsTold
<1>1. Init => RowsTold
  BY DEF Init, RowsTold
<1> QED BY <1>1, TypeInit, TypeStep, RowsStep, PTL DEF Spec

\* RepostNeedsSignIn holds in every reachable state: without a sign-in the
\* listener of the post form sends its post once.
THEOREM RepostNeedsSignInAlways == Spec => []RepostNeedsSignIn
<1> QED BY TypeInit, TypeStep, DebtsInit, DebtsStep, DebtsImply, PTL DEF Spec
=============================================================================
