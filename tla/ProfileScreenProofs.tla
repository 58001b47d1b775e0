------------------------- MODULE ProfileScreenProofs -------------------------
(***************************************************************************)
(* Proofs about ProfileScreen, for any users, authors, lists and bounds.   *)
(* A block whose call is due owes one more request than it has sent; with  *)
(* this debt counted, ReplayNeedsSignIn is inductive (Debts).  ButtonTruth *)
(* rests on where the list and the last press of the open screen are       *)
(* (ButtonInv).                                                            *)
(***************************************************************************)
EXTENDS ProfileScreen, TLAPS

\* Where the parts of the state refer to each other.
Linked ==
  /\ atHome => signedIn # NoUser
  /\ \A s \in DOMAIN screen : IsOpen(s) => atHome
  /\ \A i \in DOMAIN block : block[i].screen \in DOMAIN screen
  /\ \A a \in answers : a.screen \in DOMAIN screen
  /\ \A r \in net : /\ r.screen \in DOMAIN screen
                    /\ r.kind \in Edits => r.foreign # NoAuthor

WellTyped == TypeOK /\ Linked

Owed(i) == IF signedIn # NoUser /\ Due(i) THEN 1 ELSE 0

\* What a block has sent and still owes is paid for by its press and the
\* sign-ins after it; another name needs a sign-in as well.
Debts ==
  /\ \A i \in DOMAIN block :
       /\ block[i].at <= signIns
       /\ block[i].sent + Owed(i) <= 1 + signIns - block[i].at
       /\ signedIn \notin {NoUser, block[i].by} => block[i].at < signIns
  /\ \A r \in net : r.uuid # r.by => r.at < signIns

-----------------------------------------------------------------------------
(* Lists and titles.                                                       *)

\* The title of a button has one of two values.
LEMMA TitleType == \A x \in BOOLEAN : Title(x) \in {"Follow", "Following"}
BY DEF Title

\* $addToSet makes a list of people without repetitions, with f.
LEMMA AddToSetList ==
  ASSUME NEW list \in Seq(People), NoRepeats(list), NEW f \in People
  PROVE  /\ AddToSet(list, f) \in Seq(People)
         /\ NoRepeats(AddToSet(list, f))
         /\ Holds(AddToSet(list, f), f)
<1>1. CASE Holds(list, f)
  BY <1>1 DEF AddToSet
<1>2. CASE ~ Holds(list, f)
  <2>1. AddToSet(list, f) = Append(list, f)
    BY <1>2 DEF AddToSet
  <2>2. \A i \in 1 .. Len(list) : list[i] # f
    BY <1>2 DEF Holds
  <2> QED BY <2>1, <2>2 DEF NoRepeats, Holds
<1> QED BY <1>1, <1>2

\* $pull makes a list of people without repetitions, without f.
LEMMA PullList ==
  ASSUME NEW list \in Seq(People), NoRepeats(list), NEW f
  PROVE  /\ Pull(list, f) \in Seq(People)
         /\ NoRepeats(Pull(list, f))
         /\ ~ Holds(Pull(list, f), f)
<1>1. CASE ~ Holds(list, f)
  BY <1>1 DEF Pull
<1>2. CASE Holds(list, f)
  <2> DEFINE n == CHOOSE i \in DOMAIN list : list[i] = f
             short == [i \in 1 .. Len(list) - 1 |->
                         IF i < n THEN list[i] ELSE list[i + 1]]
  <2>1. n \in 1 .. Len(list) /\ list[n] = f
    BY <1>2 DEF Holds
  <2>2. Pull(list, f) = short
    BY <1>2 DEF Pull
  <2> HIDE DEF n
  <2>3. Len(list) - 1 \in Nat
    BY <2>1
  <2>4. \A i \in 1 .. Len(list) - 1 : short[i] \in People
    BY <2>1
  <2>5. short \in [1 .. Len(list) - 1 -> People]
    BY <2>4
  <2>6. short \in Seq(People) /\ DOMAIN short = 1 .. Len(list) - 1
    BY <2>3, <2>5, SMTT(20)
  <2>7. \A i \in 1 .. Len(list) - 1 :
          \E k \in DOMAIN list : /\ short[i] = list[k]
                                 /\ k # n
                                 /\ (i < n => k = i) /\ (~ (i < n) => k = i + 1)
    BY <2>1
  <2>8. NoRepeats(short)
    BY <2>1, <2>6, <2>7 DEF NoRepeats
  <2>9. ~ Holds(short, f)
    BY <2>1, <2>6, <2>7 DEF NoRepeats, Holds
  <2> QED BY <2>2, <2>6, <2>8, <2>9
<1> QED BY <1>1, <1>2

\* The lists on the server stay lists of people without repetitions.
LEMMA ListAfterType ==
  ASSUME WellTyped, NEW r \in net
  PROVE  /\ r.uuid \in Users
         /\ ListAfter(r) \in Seq(People)
         /\ NoRepeats(ListAfter(r))
<1>1. /\ r \in Request
      /\ follow[r.uuid] \in Seq(People)
      /\ NoRepeats(follow[r.uuid])
      /\ r.uuid \in Users
  BY DEF WellTyped, TypeOK, Request
<1>2. CASE r.kind = "follow"
  <2>1. r.foreign \in People
    BY <1>1, <1>2, ScreensAssumption
       DEF WellTyped, Linked, Edits, Request, MaybeAuthor
  <2> QED BY <1>1, <1>2, <2>1, AddToSetList DEF ListAfter
<1>3. CASE r.kind = "unfollow"
  BY <1>1, <1>3, PullList DEF ListAfter
<1>4. CASE r.kind \notin {"follow", "unfollow"}
  BY <1>1, <1>4 DEF ListAfter
<1> QED BY <1>1, <1>2, <1>3, <1>4

-----------------------------------------------------------------------------
(* Updates of one entry.                                                   *)

LEMMA EmptySeq == \A S : <<>> \in Seq(S) /\ Len(<<>>) = 0 /\ DOMAIN <<>> = {}
OBVIOUS

LEMMA SeqExcept ==
  ASSUME NEW S, NEW q \in Seq(S), NEW i \in DOMAIN q, NEW v \in S
  PROVE  /\ [q EXCEPT ![i] = v] \in Seq(S)
         /\ Len([q EXCEPT ![i] = v]) = Len(q)
         /\ DOMAIN [q EXCEPT ![i] = v] = DOMAIN q
         /\ \A j \in DOMAIN q : [q EXCEPT ![i] = v][j] = IF j = i THEN v ELSE q[j]
OBVIOUS

LEMMA ScreenFields ==
  ASSUME NEW x \in Screen
  PROVE  /\ [x EXCEPT !.stage = "dismissed"] \in Screen
         /\ [x EXCEPT !.stage = "dismissed"].stage = "dismissed"
         /\ \A v \in {"Follow", "Following"} :
              /\ [x EXCEPT !.button = v] \in Screen
              /\ [x EXCEPT !.button = v].stage = x.stage
         /\ \A uid \in MaybeAuthor :
              /\ [x EXCEPT !.foreignUid = uid] \in Screen
              /\ [x EXCEPT !.foreignUid = uid].stage = x.stage
BY DEF Screen

LEMMA BlockNat == \A x \in Block : x.sent \in Nat /\ x.at \in Nat
<1>1. 0 .. MaxSignIns \subseteq Nat
  BY UsersAssumption
<1> QED BY <1>1 DEF Block

LEMMA BlockFields ==
  ASSUME NEW x \in Block
  PROVE  /\ [x EXCEPT !.sent = @ + 1] \in Block
         /\ [x EXCEPT !.sent = @ + 1].sent = x.sent + 1
         /\ [x EXCEPT !.sent = @ + 1].screen = x.screen
         /\ [x EXCEPT !.sent = @ + 1].kind = x.kind
         /\ [x EXCEPT !.sent = @ + 1].at = x.at
         /\ [x EXCEPT !.sent = @ + 1].by = x.by
BY DEF Block

-----------------------------------------------------------------------------
(* The type invariant.                                                     *)

LEMMA TypeInit == Init => WellTyped
<1> SUFFICES ASSUME Init PROVE WellTyped
  OBVIOUS
<1> USE DEF Init, AuthInit
<1>0. <<>> \in Seq(MaybeUser \union {Never}) /\ MaxSignIns \in Nat
  BY UsersAssumption
<1>1. atHome \in BOOLEAN
  BY Zenon
<1>1a. signIns \in 0 .. MaxSignIns /\ signedIn \in MaybeUser
  BY <1>0 DEF MaybeUser
<1>1b. told \in Seq(MaybeUser \union {Never})
  BY <1>0
<1>2. follow \in [Users -> Seq(People)] /\ \A u \in Users : NoRepeats(follow[u])
  BY ScreensAssumption
<1>3. Linked
  BY DEF Linked
<1>4. screen \in Seq(Screen) /\ Len(screen) <= MaxScreens
  BY ScreensAssumption
<1>5. block = <<>> /\ Len(block) = Len(told) /\ net = {} /\ answers = {} /\ blurred = {}
  OBVIOUS
<1> QED BY <1>1, <1>1a, <1>1b, <1>2, <1>3, <1>4, <1>5 DEF WellTyped, TypeOK, AuthTypeOK

LEMMA OpenTypes ==
  ASSUME WellTyped, NEW uid \in MaybeAuthor, Open(uid)
  PROVE  WellTyped'
<1> USE DEF WellTyped, TypeOK, AuthTypeOK, Linked
<1>1. signedIn \in Users /\ signIns \in 0 .. MaxSignIns
  BY DEF Open, MaybeUser
<1>2. NewScreen \in Screen /\ NewScreen.stage = "open"
  BY DEF NewScreen, Screen, MaybeAuthor
<1>3. /\ screen' = Append(screen, NewScreen)
      /\ Len(screen') = Len(screen) + 1
      /\ Len(screen') \in 1 .. MaxScreens
      /\ \A s \in DOMAIN screen : screen'[s] = screen[s]
      /\ screen'[Len(screen')] = NewScreen
      /\ DOMAIN screen' = DOMAIN screen \union {Len(screen')}
      /\ screen' \in Seq(Screen)
  BY <1>2, ScreensAssumption DEF Open
<1> DEFINE b == [kind |-> "getFollowing", screen |-> Len(screen'),
                 by |-> signedIn, at |-> signIns, sent |-> 0]
<1>4. b \in Block /\ b.screen = Len(screen')
  BY <1>1, <1>3 DEF Block, Kinds
<1>5. /\ block' = Append(block, b)
      /\ told' = Append(told, Never)
      /\ UNCHANGED <<signedIn, atHome, signIns, net, follow, blurred>>
  BY DEF Open, AddBlock, AddListener
<1> HIDE DEF b
<1>6. /\ block' \in Seq(Block)
      /\ Len(block') = Len(told')
      /\ told' \in Seq(MaybeUser \union {Never})
      /\ \A i \in DOMAIN block' : block'[i] = b \/ (i \in DOMAIN block /\ block'[i] = block[i])
  BY <1>4, <1>5
<1>7. \A a \in answers' : \/ a \in answers
                          \/ /\ a \in PostsAnswer
                             /\ a.screen = Len(screen')
  BY <1>3 DEF Open, PostsAnswer, MaybeAuthor
<1>8. atHome
  BY DEF Open
<1>9. AuthTypeOK'
  BY <1>5, <1>6
<1>10. Linked'
  BY <1>3, <1>4, <1>5, <1>6, <1>7, <1>8 DEF IsOpen, Edits
<1>11. answers' \subseteq PostsAnswer \union ListAnswer
  BY <1>7
<1> QED BY <1>3, <1>5, <1>6, <1>9, <1>10, <1>11

LEMMA PressTypes ==
  ASSUME WellTyped, NEW s \in DOMAIN screen, profileViewFollowBtn(s)
  PROVE  WellTyped'
<1> USE DEF WellTyped, TypeOK, AuthTypeOK, Linked
<1>1. signedIn \in Users /\ signIns \in 0 .. MaxSignIns
  BY DEF profileViewFollowBtn, MaybeUser
<1> DEFINE kind == IF isFollowing(s) THEN "unfollow" ELSE "follow"
           b == [kind |-> kind, screen |-> s, by |-> signedIn, at |-> signIns,
                 sent |-> 0]
<1>2. s \in 1 .. MaxScreens
  BY ScreensAssumption
<1>3. b \in Block /\ b.screen = s
  BY <1>1, <1>2 DEF Block, Kinds, Edits
<1>4. /\ block' = Append(block, b)
      /\ told' = Append(told, Never)
      /\ UNCHANGED <<signedIn, atHome, signIns, net, answers, follow>>
      /\ screen' = [screen EXCEPT ![s].button = Title(~ isFollowing(s))]
      /\ blurred' \subseteq blurred \union DOMAIN screen
  BY DEF profileViewFollowBtn, AddBlock, AddListener, BlurIf
<1> HIDE DEF b, kind
<1> DEFINE x == [screen[s] EXCEPT !.button = Title(~ isFollowing(s))]
<1>5. x \in Screen /\ x.stage = screen[s].stage
  <2>1. screen[s] \in Screen
    OBVIOUS
  <2> QED BY <2>1, ScreenFields, TitleType
<1>5a. screen' = [screen EXCEPT ![s] = x]
  BY <1>4
<1> HIDE DEF x
<1>6. /\ screen' \in Seq(Screen)
      /\ Len(screen') = Len(screen)
      /\ \A t \in DOMAIN screen : screen'[t].stage = screen[t].stage
      /\ DOMAIN screen' = DOMAIN screen
  BY <1>5, <1>5a, SeqExcept
<1>7. /\ block' \in Seq(Block)
      /\ Len(block') = Len(told')
      /\ told' \in Seq(MaybeUser \union {Never})
      /\ \A i \in DOMAIN block' : block'[i] = b \/ (i \in DOMAIN block /\ block'[i] = block[i])
  BY <1>3, <1>4
<1>8. Linked'
  BY <1>3, <1>4, <1>6, <1>7 DEF IsOpen
<1>9. blurred' \subseteq 1 .. MaxScreens
  BY <1>4, ScreensAssumption
<1> QED BY <1>4, <1>6, <1>7, <1>8, <1>9

LEMMA BackTypes ==
  ASSUME WellTyped, NEW s \in DOMAIN screen, backBtn(s)
  PROVE  WellTyped'
<1> USE DEF WellTyped, TypeOK, AuthTypeOK, Linked
<1>1. /\ UNCHANGED <<authVars, block, net, answers, follow>>
      /\ screen' = [screen EXCEPT ![s].stage = "dismissed"]
      /\ blurred' \subseteq blurred
  BY DEF backBtn
<1> DEFINE x == [screen[s] EXCEPT !.stage = "dismissed"]
<1>3. x \in Screen /\ x.stage = "dismissed"
  <2>1. screen[s] \in Screen
    OBVIOUS
  <2> QED BY <2>1, ScreenFields
<1>4. screen' = [screen EXCEPT ![s] = x]
  BY <1>1
<1> HIDE DEF x
<1>2. /\ screen' \in Seq(Screen)
      /\ Len(screen') = Len(screen)
      /\ \A t \in DOMAIN screen : screen'[t].stage = "open" => screen[t].stage = "open"
      /\ DOMAIN screen' = DOMAIN screen
  BY <1>3, <1>4, SeqExcept
<1> QED BY <1>1, <1>2 DEF IsOpen, authVars

\* A block that is called sends a well-typed request.
LEMMA RequestType ==
  ASSUME WellTyped, NEW i \in DOMAIN block, CallSend(i)
  PROVE  /\ RequestOf(i) \in Request
         /\ RequestOf(i).screen = block[i].screen
         /\ RequestOf(i).kind = block[i].kind
         /\ RequestOf(i).kind \in Edits => RequestOf(i).foreign # NoAuthor
<1> USE DEF WellTyped, TypeOK, AuthTypeOK, Linked
<1>1. block[i] \in Block /\ block[i].screen \in DOMAIN screen
  OBVIOUS
<1>2. screen[block[i].screen] \in Screen
  BY <1>1
<1>3. ForeignOf(i) \in MaybeAuthor
  BY <1>2 DEF ForeignOf, Screen, MaybeAuthor
<1>4. signedIn \in Users
  BY DEF CallSend, MaybeUser
<1>5. block[i].sent + 1 \in Nat /\ i \in Nat
  BY <1>1 DEF Block
<1>6. block[i].kind \in Edits => ForeignOf(i) # NoAuthor
  BY DEF CallSend
<1> QED BY <1>1, <1>3, <1>4, <1>5, <1>6 DEF RequestOf, Request, Block

\* The end of the process: the listeners and answers are gone, and no screen is
\* open.
LEMMA EndTypes ==
  ASSUME WellTyped, EndOfProcess
  PROVE  WellTyped'
<1> USE DEF WellTyped, TypeOK, AuthTypeOK, Linked
<1>1. /\ told' = <<>> /\ block' = <<>> /\ answers' = {} /\ blurred' = {}
      /\ atHome' = FALSE
      /\ UNCHANGED <<signedIn, signIns, net, follow>>
  BY DEF EndOfProcess, Relaunch
<1>2. screen' = [s \in DOMAIN screen |->
                   IF IsOpen(s) THEN [screen[s] EXCEPT !.stage = "dismissed"]
                                ELSE screen[s]]
  BY DEF EndOfProcess
<1>3. \A s \in DOMAIN screen :
         /\ screen'[s] \in Screen
         /\ screen'[s].stage # "open"
  <2> SUFFICES ASSUME NEW s \in DOMAIN screen
               PROVE  screen'[s] \in Screen /\ screen'[s].stage # "open"
    OBVIOUS
  <2>1. screen[s] \in Screen
    OBVIOUS
  <2> QED BY <1>2, <2>1, ScreenFields DEF IsOpen
<1> DEFINE n == Len(screen)
<1>4. DOMAIN screen = 1 .. n /\ n \in Nat
  OBVIOUS
<1> HIDE DEF n
<1>5. screen' \in [1 .. n -> Screen]
  BY <1>2, <1>3, <1>4
<1>6. screen' \in Seq(Screen) /\ Len(screen') = n
  BY <1>4, <1>5, SMTT(20)
<1>7. Len(screen') = Len(screen)
  BY <1>6 DEF n
<1>8. /\ told' \in Seq(MaybeUser \union {Never}) /\ block' \in Seq(Block)
      /\ Len(told') = Len(block') /\ DOMAIN block' = {}
  BY <1>1, EmptySeq
<1>9. atHome' \in BOOLEAN
  BY <1>1, Zenon
<1>10. AuthTypeOK'
  BY <1>1, <1>8, <1>9
<1>11. DOMAIN screen' = DOMAIN screen
  BY <1>2
<1>12. Linked'
  BY <1>1, <1>3, <1>8, <1>11 DEF IsOpen
<1> QED BY <1>1, <1>6, <1>7, <1>8, <1>10, <1>12

LEMMA CallTypes ==
  ASSUME WellTyped, NEW i \in 1 .. MaxListeners, Call(i)
  PROVE  WellTyped'
<1> USE DEF WellTyped, TypeOK, AuthTypeOK, Linked
<1>0. i \in DOMAIN block /\ i \in DOMAIN told
  BY DEF Call
<1>1. ASSUME Called(i)
      PROVE  /\ told' \in Seq(MaybeUser \union {Never})
             /\ Len(told') = Len(told)
             /\ UNCHANGED <<signedIn, atHome, signIns>>
  BY <1>0, <1>1 DEF Called
<1>2. CASE CallSend(i)
  <2>1. RequestOf(i) \in Request
    BY <1>0, <1>2, RequestType
  <2>2. /\ net' = net \union {RequestOf(i)}
        /\ block' = [block EXCEPT ![i].sent = @ + 1]
        /\ blurred' \subseteq blurred \union DOMAIN screen
        /\ UNCHANGED <<screen, answers, follow>>
        /\ Called(i)
    BY <1>2 DEF CallSend, BlurIf
  <2> DEFINE x == [block[i] EXCEPT !.sent = @ + 1]
  <2>3. x \in Block /\ x.screen = block[i].screen
    BY <1>0, BlockFields
  <2>3a. block' = [block EXCEPT ![i] = x]
    BY <2>2
  <2> HIDE DEF x
  <2>4. /\ block' \in Seq(Block)
        /\ Len(block') = Len(block)
        /\ \A j \in DOMAIN block : block'[j].screen = block[j].screen
    BY <1>0, <2>3, <2>3a, SeqExcept
  <2>5. Linked'
    BY <1>0, <1>1, <1>2, <2>2, <2>4, RequestType DEF IsOpen
  <2>6. blurred' \subseteq 1 .. MaxScreens
    BY <2>2, ScreensAssumption
  <2> QED BY <1>1, <2>1, <2>2, <2>4, <2>5, <2>6
<1>3. CASE CallNobody(i)
  BY <1>1, <1>3 DEF CallNobody, IsOpen
<1>4. CASE CallCrash(i)
  BY <1>4, EndTypes DEF CallCrash
<1> QED BY <1>2, <1>3, <1>4 DEF Call

LEMMA NetTypes ==
  ASSUME WellTyped, NEW r \in net, Serve(r) \/ Lose(r)
  PROVE  WellTyped'
<1> USE DEF WellTyped, TypeOK, AuthTypeOK, Linked
<1>1. CASE Serve(r)
  <2>1. /\ r \in Request
        /\ r.uuid \in Users
        /\ r.screen \in DOMAIN screen
        /\ follow[r.uuid] \in Seq(People)
    BY DEF Request
  <2>2. /\ follow' \in [Users -> Seq(People)]
        /\ \A u \in Users : NoRepeats(follow'[u])
    BY <1>1, <2>1, ListAfterType DEF Serve
  <2>3. \A a \in answers' : a \in answers \/ (a \in ListAnswer /\ a.screen = r.screen)
    BY <1>1, <2>1 DEF Serve, ListAnswer, Request
  <2> QED BY <1>1, <2>1, <2>2, <2>3 DEF Serve, IsOpen, authVars
<1>2. CASE Lose(r)
  <2>0. blurred' \subseteq blurred \union DOMAIN screen
    BY <1>2 DEF Lose, BlurIf
  <2>1. blurred' \subseteq 1 .. MaxScreens
    BY <2>0, ScreensAssumption
  <2> QED BY <1>2, <2>1 DEF Lose, IsOpen, authVars
<1> QED BY <1>1, <1>2

LEMMA AnswerTypes ==
  ASSUME WellTyped, NEW a \in answers,
         DeliverPosts(a) \/ DeliverList(a) \/ LoseAnswer(a)
  PROVE  WellTyped'
<1> USE DEF WellTyped, TypeOK, AuthTypeOK, Linked
<1>1. a.screen \in DOMAIN screen
  OBVIOUS
<1>1a. screen[a.screen] \in Screen
  BY <1>1
<1>2. UNCHANGED <<signedIn, atHome, told, signIns, block, net, follow>>
  BY DEF DeliverPosts, DeliverList, LoseAnswer, authVars
<1>3. answers' = answers \ {a}
  BY DEF DeliverPosts, DeliverList, LoseAnswer
<1>4. blurred' \subseteq 1 .. MaxScreens
  BY ScreensAssumption DEF DeliverPosts, DeliverList, LoseAnswer, BlurIf
<1>5. /\ screen' \in Seq(Screen)
      /\ Len(screen') = Len(screen)
      /\ \A s \in DOMAIN screen : screen'[s].stage = screen[s].stage
  <2>1. CASE DeliverPosts(a)
    <3>1. a \in PostsAnswer
      BY <2>1 DEF DeliverPosts, ListAnswer
    <3>2. a.uid \in MaybeAuthor
      BY <3>1 DEF PostsAnswer, MaybeAuthor
    <3>3. screen' = [screen EXCEPT ![a.screen].foreignUid = a.uid]
      BY <2>1 DEF DeliverPosts
    <3> DEFINE x == [screen[a.screen] EXCEPT !.foreignUid = a.uid]
    <3>4. x \in Screen /\ x.stage = screen[a.screen].stage
      BY <1>1a, <3>2, ScreenFields
    <3>5. screen' = [screen EXCEPT ![a.screen] = x]
      BY <3>3
    <3> HIDE DEF x
    <3> QED BY <1>1, <3>4, <3>5, SeqExcept
  <2>2. CASE DeliverList(a)
    <3>1. CASE UNCHANGED screen
      BY <3>1
    <3>2. CASE screen' # screen
      <4> DEFINE v == Title(a.list[Len(a.list)] = screen[a.screen].foreignUid)
                 x == [screen[a.screen] EXCEPT !.button = v]
      <4>1. v \in {"Follow", "Following"}
        BY DEF Title
      <4>2. screen' = [screen EXCEPT ![a.screen] = x]
        BY <2>2, <3>2 DEF DeliverList
      <4> HIDE DEF v
      <4>3. x \in Screen /\ x.stage = screen[a.screen].stage
        BY <1>1a, <4>1, ScreenFields
      <4> HIDE DEF x
      <4> QED BY <1>1, <4>2, <4>3, SeqExcept
    <3> QED BY <3>1, <3>2
  <2>3. CASE LoseAnswer(a)
    BY <2>3 DEF LoseAnswer
  <2> QED BY <2>1, <2>2, <2>3
<1>6. Linked'
  <2>1. DOMAIN screen' = DOMAIN screen
    BY <1>5
  <2>2. \A s \in DOMAIN screen' : IsOpen(s)' => IsOpen(s)
    BY <1>5, <2>1 DEF IsOpen
  <2>3. \A b \in answers' : b.screen \in DOMAIN screen'
    BY <1>3, <2>1
  <2> QED BY <1>2, <2>1, <2>2, <2>3
<1>7. AuthTypeOK'
  BY <1>2
<1> QED BY <1>2, <1>3, <1>4, <1>5, <1>6, <1>7

LEMMA TypeStep ==
  ASSUME WellTyped, [Next]_vars
  PROVE  WellTyped'
<1>1. ASSUME UNCHANGED vars PROVE WellTyped'
  BY <1>1 DEF vars, authVars, WellTyped, TypeOK, AuthTypeOK, Linked, IsOpen
<1>2. ASSUME SignInOrOut PROVE WellTyped'
  <2> USE DEF WellTyped, TypeOK, AuthTypeOK, Linked
  <2>1. UNCHANGED <<told, screen, block, net, answers, follow, blurred>>
    BY <1>2 DEF SignInOrOut, LoginClick, logOutPressed
  <2>2. \A s \in DOMAIN screen' : ~ IsOpen(s)'
    BY <1>2, <2>1 DEF SignInOrOut, AllDismissed, IsOpen
  <2>3. /\ signedIn' \in MaybeUser /\ signIns' \in 0 .. MaxSignIns
        /\ atHome' \in BOOLEAN /\ (atHome' => signedIn' # NoUser)
    <3>1. CASE logOutPressed
      <4>1. atHome' = FALSE
        BY <3>1 DEF logOutPressed
      <4>2. atHome' \in BOOLEAN
        BY <4>1, Zenon
      <4> QED BY <3>1, <4>1, <4>2 DEF logOutPressed, MaybeUser
    <3>2. ASSUME NEW u \in Users, LoginClick(u)
          PROVE  /\ signedIn' \in MaybeUser /\ signIns' \in 0 .. MaxSignIns
                 /\ atHome' \in BOOLEAN /\ (atHome' => signedIn' # NoUser)
      <4>1. atHome' = (u \in Verified)
        BY <3>2 DEF LoginClick
      <4>2. atHome' \in BOOLEAN
        <5>1. (u \in Verified) \in BOOLEAN
          OBVIOUS
        <5> QED BY <4>1, <5>1
      <4>3. signedIn' = u /\ u # NoUser
        BY <3>2, UsersAssumption DEF LoginClick
      <4>4. signIns' = signIns + 1 /\ signIns < MaxSignIns /\ MaxSignIns \in Nat
        BY <3>2, UsersAssumption DEF LoginClick
      <4> QED BY <4>2, <4>3, <4>4 DEF MaybeUser
    <3> QED BY <1>2, <3>1, <3>2 DEF SignInOrOut
  <2> QED BY <2>1, <2>2, <2>3
<1> QED BY <1>1, <1>2, OpenTypes, PressTypes, BackTypes, CallTypes, EndTypes,
           NetTypes, AnswerTypes DEF Next

-----------------------------------------------------------------------------
(* Replays.                                                                *)

LEMMA DebtsInit == Init => Debts
BY DEF Init, AuthInit, Debts

\* A press, or a new screen, adds a block that owes its first request.
LEMMA DebtsAdd ==
  ASSUME WellTyped, Debts, NEW kind, NEW s, AddBlock(kind, s), signedIn # NoUser,
         UNCHANGED net
  PROVE  Debts'
<1> USE DEF WellTyped, TypeOK, AuthTypeOK
<1> DEFINE b == [kind |-> kind, screen |-> s, by |-> signedIn, at |-> signIns,
                 sent |-> 0]
<1>1. /\ block' = Append(block, b)
      /\ told' = Append(told, Never)
      /\ UNCHANGED <<signedIn, atHome, signIns>>
  BY DEF AddBlock, AddListener
<1>2. b.at = signIns /\ b.sent = 0 /\ b.by = signedIn
  OBVIOUS
<1> HIDE DEF b
<1>3. DOMAIN block' = DOMAIN block \union {Len(block) + 1}
  BY <1>1
<1>4. \A i \in DOMAIN block : /\ block'[i] = block[i]
                              /\ told'[i] = told[i]
  BY <1>1
<1>5. block'[Len(block) + 1] = b
  BY <1>1
<1>6. ASSUME NEW i \in DOMAIN block
      PROVE  /\ block'[i].at <= signIns'
             /\ block'[i].sent + Owed(i)' <= 1 + signIns' - block'[i].at
             /\ signedIn' \notin {NoUser, block'[i].by} => block'[i].at < signIns'
  BY <1>1, <1>4, <1>6 DEF Debts, Owed, Due
<1>7. ASSUME NEW i, i = Len(block) + 1
      PROVE  /\ block'[i].at <= signIns'
             /\ block'[i].sent + Owed(i)' <= 1 + signIns' - block'[i].at
             /\ signedIn' \notin {NoUser, block'[i].by} => block'[i].at < signIns'
  <2>1. Owed(i)' \in {0, 1}
    BY DEF Owed
  <2> QED BY <1>1, <1>2, <1>5, <1>7, <2>1
<1>8. \A r \in net' : r.uuid # r.by => r.at < signIns'
  BY <1>1 DEF Debts
<1> QED BY <1>3, <1>6, <1>7, <1>8 DEF Debts

\* Without listeners nothing is owed.
LEMMA DebtsEnd == Debts /\ EndOfProcess => Debts'
BY EmptySeq DEF EndOfProcess, Relaunch, Debts

\* A call pays what the block owes.
LEMMA DebtsCall ==
  ASSUME WellTyped, Debts, NEW i \in 1 .. MaxListeners, Call(i)
  PROVE  Debts'
<1> USE DEF WellTyped, TypeOK, AuthTypeOK
<1>0. i \in DOMAIN block /\ i \in DOMAIN told
  BY DEF Call
<1>1. CASE CallSend(i)
  <2>1. /\ Due(i)
        /\ told' = [told EXCEPT ![i] = signedIn]
        /\ UNCHANGED <<signedIn, atHome, signIns>>
        /\ signedIn # NoUser
        /\ net' = net \union {RequestOf(i)}
        /\ block' = [block EXCEPT ![i].sent = @ + 1]
    BY <1>1 DEF CallSend, Called
  <2> DEFINE x == [block[i] EXCEPT !.sent = @ + 1]
  <2>2. /\ x \in Block /\ x.sent = block[i].sent + 1
        /\ x.at = block[i].at /\ x.by = block[i].by
    BY <1>0, BlockFields
  <2>3. block' = [block EXCEPT ![i] = x]
    BY <2>1
  <2> HIDE DEF x
  <2>4. /\ DOMAIN block' = DOMAIN block
        /\ \A j \in DOMAIN block : block'[j] = IF j = i THEN x ELSE block[j]
    BY <1>0, <2>2, <2>3, SeqExcept
  <2>5. \A j \in DOMAIN block : told'[j] = IF j = i THEN signedIn ELSE told[j]
    BY <1>0, <2>1
  <2>6. Owed(i)' = 0 /\ Owed(i) = 1
    BY <1>0, <2>1, <2>5 DEF Owed, Due
  <2>7. \A j \in DOMAIN block \ {i} : Owed(j)' = Owed(j)
    BY <2>1, <2>5 DEF Owed, Due
  <2>8. block[i].sent \in Nat /\ block[i].at \in Nat
    BY <1>0, BlockNat
  <2>9. \A j \in DOMAIN block' :
          /\ block'[j].at <= signIns'
          /\ block'[j].sent + Owed(j)' <= 1 + signIns' - block'[j].at
          /\ signedIn' \notin {NoUser, block'[j].by} => block'[j].at < signIns'
    BY <1>0, <2>1, <2>2, <2>4, <2>6, <2>7, <2>8 DEF Debts
  <2>10. RequestOf(i).uuid # RequestOf(i).by => RequestOf(i).at < signIns
    BY <1>0, <2>1 DEF Debts, RequestOf
  <2> QED BY <2>1, <2>9, <2>10 DEF Debts
<1>2. CASE CallNobody(i)
  BY <1>0, <1>2 DEF CallNobody, Called, Debts, Owed, Due
<1>3. CASE CallCrash(i)
  BY <1>3, DebtsEnd DEF CallCrash
<1> QED BY <1>1, <1>2, <1>3 DEF Call

LEMMA DebtsStep ==
  ASSUME WellTyped, Debts, [Next]_vars
  PROVE  Debts'
<1>1. ASSUME UNCHANGED vars PROVE Debts'
  BY <1>1 DEF vars, authVars, Debts, Owed, Due
<1>2. ASSUME SignInOrOut PROVE Debts'
  <2> USE DEF WellTyped, TypeOK, AuthTypeOK
  <2>1. UNCHANGED <<told, block, net>>
    BY <1>2 DEF SignInOrOut, LoginClick, logOutPressed
  <2>2. \/ signedIn' = NoUser /\ signIns' = signIns
        \/ signIns' = signIns + 1
    BY <1>2 DEF SignInOrOut, LoginClick, logOutPressed
  <2>3. \A i \in DOMAIN block : block[i].sent \in Nat /\ block[i].at \in Nat
    BY BlockNat
  <2>4. \A i \in DOMAIN block : /\ Owed(i) \in {0, 1} /\ Owed(i)' \in {0, 1}
                                /\ signedIn' = NoUser => Owed(i)' = 0
    BY DEF Owed
  <2>5. \A r \in net : r.at \in Nat
    BY UsersAssumption DEF Request
  <2>6. \A i \in DOMAIN block :
          /\ block[i].at <= signIns'
          /\ block[i].sent + Owed(i)' <= 1 + signIns' - block[i].at
          /\ signedIn' \notin {NoUser, block[i].by} => block[i].at < signIns'
    BY <2>2, <2>3, <2>4 DEF Debts
  <2>7. \A r \in net : r.uuid # r.by => r.at < signIns'
    BY <2>2, <2>5 DEF Debts
  <2> QED BY <2>1, <2>6, <2>7 DEF Debts
<1>3. ASSUME NEW uid \in MaybeAuthor, Open(uid) PROVE Debts'
  BY <1>3, DebtsAdd DEF Open, WellTyped, Linked
<1>4. ASSUME NEW s \in DOMAIN screen, profileViewFollowBtn(s) PROVE Debts'
  BY <1>4, DebtsAdd DEF profileViewFollowBtn, WellTyped, Linked
<1>5. ASSUME NEW s \in DOMAIN screen, backBtn(s) PROVE Debts'
  BY <1>5 DEF backBtn, authVars, Debts, Owed, Due
<1>6. ASSUME NEW r \in net, Serve(r) \/ Lose(r) PROVE Debts'
  BY <1>6 DEF Serve, Lose, authVars, Debts, Owed, Due
<1>7. ASSUME NEW a \in answers, DeliverPosts(a) \/ DeliverList(a) \/ LoseAnswer(a)
      PROVE  Debts'
  BY <1>7 DEF DeliverPosts, DeliverList, LoseAnswer, authVars, Debts, Owed, Due
<1> QED BY <1>1, <1>2, <1>3, <1>4, <1>5, <1>6, <1>7, DebtsCall, DebtsEnd DEF Next

LEMMA DebtsImply == WellTyped /\ Debts => ReplayNeedsSignIn
<1> SUFFICES ASSUME WellTyped, Debts PROVE ReplayNeedsSignIn
  OBVIOUS
<1>1. \A i \in DOMAIN block : block[i].sent \in Nat /\ block[i].at \in Nat
  BY BlockNat DEF WellTyped, TypeOK
<1>2. \A i \in DOMAIN block : Owed(i) \in {0, 1}
  BY DEF Owed
<1> QED BY <1>1, <1>2 DEF Debts, ReplayNeedsSignIn, WellTyped, TypeOK, AuthTypeOK

-----------------------------------------------------------------------------
(* The follow button.  At most one profile is open.  While its list is on  *)
(* the way nobody has pressed its button and no edit passes the list; after *)
(* that the edits on the way are the one it asked for last.                *)

Sharp(s) == s \in DOMAIN screen \ blurred /\ IsOpen(s)

ListBlock(i, s) == block[i].kind = "getFollowing" /\ block[i].screen = s
EditBlock(i, s) == block[i].kind \in Edits /\ block[i].screen = s
Asked(r, s)     == r.kind = "getFollowing" /\ r.screen = s
Answered(a, s)  == a.of = "list" /\ a.screen = s

ListDue(s) == \E i \in DOMAIN block : ListBlock(i, s) /\ Due(i)
EditDue(s) == \E i \in DOMAIN block : EditBlock(i, s) /\ Due(i)
EditSent   == \E r \in net : r.kind \in Edits

\* The author of a screen is known or in one answer.
Author(s, g) ==
  \/ screen[s].foreignUid = g
  \/ \E a \in answers : a.of = "posts" /\ a.screen = s /\ a.uid = g

OneOpen == \A s, t \in DOMAIN screen : IsOpen(s) /\ IsOpen(t) => s = t

OneAuthor ==
  \A a \in answers : a.of = "posts" =>
    /\ screen[a.screen].foreignUid = NoAuthor
    /\ \A b \in answers : b.of = "posts" /\ b.screen = a.screen => b = a

\* The list of an open screen is asked for once: it waits in the main queue,
\* or is on its way, or its answer is, or none of these.
OneList ==
  /\ \A i, j \in DOMAIN block, s \in DOMAIN screen :
       ListBlock(i, s) /\ ListBlock(j, s) => i = j
  /\ \A s \in DOMAIN screen : IsOpen(s) =>
       /\ \A r \in net : Asked(r, s) =>
            /\ ~ ListDue(s)
            /\ \A q \in net : Asked(q, s) => q = r
       /\ \A a \in answers : Answered(a, s) =>
            /\ ~ ListDue(s)
            /\ \A r \in net : ~ Asked(r, s)
            /\ \A b \in answers : Answered(b, s) => b = a

\* Before the list has come.
Untouched(s) ==
  ListOnTheWay(s) =>
    /\ ~ isFollowing(s)
    /\ \A i \in DOMAIN block : ~ EditBlock(i, s)
    /\ \A r \in net : r.kind \in Edits => r.screen # s

Travelling(s) ==
  /\ \A r \in net : Asked(r, s) => r.uuid = signedIn /\ ~ EditSent
  /\ \A a \in answers : Answered(a, s) =>
       a.list = follow[signedIn] /\ ~ EditSent

\* A press that waits, and one that is on its way.
Pressed(s) ==
  \A i \in DOMAIN block : EditBlock(i, s) /\ Due(i) =>
    /\ isFollowing(s) = (block[i].kind = "follow")
    /\ ~ EditSent
    /\ \A j \in DOMAIN block : EditBlock(j, s) /\ Due(j) => j = i

Sent(s) ==
  ~ ListDue(s) =>
    \A r \in net : r.kind \in Edits =>
      /\ r.screen = s
      /\ r.uuid = signedIn
      /\ r.foreign = screen[s].foreignUid
      /\ isFollowing(s) = (r.kind = "follow")

Settled(s) ==
  ~ ListOnTheWay(s) /\ ~ EditDue(s) /\ ~ EditSent =>
    \A g \in Authors : Author(s, g) => isFollowing(s) = Holds(follow[signedIn], g)

ButtonInv ==
  /\ OneOpen
  /\ OneAuthor
  /\ OneList
  /\ \A s \in DOMAIN screen : Sharp(s) =>
       Untouched(s) /\ Travelling(s) /\ Pressed(s) /\ Sent(s) /\ Settled(s)

LEMMA ButtonInit == Init => ButtonInv
BY DEF Init, ButtonInv, OneOpen, OneAuthor, OneList, Sharp

\* Without an open screen only the authors and the lists of all screens count.
LEMMA NoneOpen ==
  ASSUME \A s \in DOMAIN screen' : ~ IsOpen(s)',
         OneAuthor',
         (\A i, j \in DOMAIN block, s \in DOMAIN screen :
            ListBlock(i, s) /\ ListBlock(j, s) => i = j)'
  PROVE  ButtonInv'
BY DEF ButtonInv, OneOpen, OneList, Sharp

LEMMA SignInButton ==
  ASSUME WellTyped, ButtonInv, SignInOrOut
  PROVE  ButtonInv'
<1>1. UNCHANGED <<screen, block, answers>>
  BY DEF SignInOrOut
<1>2. \A s \in DOMAIN screen' : ~ IsOpen(s)'
  BY <1>1 DEF SignInOrOut, AllDismissed, IsOpen
<1>3. OneAuthor'
  BY <1>1 DEF ButtonInv, OneAuthor
<1>4. (\A i, j \in DOMAIN block, s \in DOMAIN screen :
         ListBlock(i, s) /\ ListBlock(j, s) => i = j)'
  BY <1>1 DEF ButtonInv, OneList, ListBlock
<1> QED BY <1>2, <1>3, <1>4, NoneOpen

LEMMA BackButton ==
  ASSUME WellTyped, ButtonInv, NEW s \in DOMAIN screen, backBtn(s)
  PROVE  ButtonInv'
<1>0. screen \in Seq(Screen) /\ screen[s] \in Screen
  BY DEF WellTyped, TypeOK
<1>1. /\ UNCHANGED <<block, answers>>
      /\ screen' = [screen EXCEPT ![s].stage = "dismissed"]
      /\ IsOpen(s)
  BY DEF backBtn
<1>2. /\ DOMAIN screen' = DOMAIN screen
      /\ screen'[s].stage = "dismissed"
      /\ \A t \in DOMAIN screen : screen'[t].foreignUid = screen[t].foreignUid
      /\ \A t \in DOMAIN screen : t # s => screen'[t] = screen[t]
  BY <1>0, <1>1 DEF Screen
<1>3. \A t \in DOMAIN screen' : ~ IsOpen(t)'
  BY <1>1, <1>2 DEF ButtonInv, OneOpen, IsOpen
<1>4. OneAuthor'
  BY <1>1, <1>2 DEF ButtonInv, OneAuthor, WellTyped, Linked
<1>5. (\A i, j \in DOMAIN block, t \in DOMAIN screen :
         ListBlock(i, t) /\ ListBlock(j, t) => i = j)'
  BY <1>1, <1>2 DEF ButtonInv, OneList, ListBlock
<1> QED BY <1>3, <1>4, <1>5, NoneOpen

LEMMA CrashButton ==
  ASSUME WellTyped, ButtonInv, EndOfProcess
  PROVE  ButtonInv'
<1>1. block' = <<>> /\ answers' = {}
  BY DEF EndOfProcess
<1>2. screen' = [s \in DOMAIN screen |-> IF IsOpen(s)
                                    THEN [screen[s] EXCEPT !.stage = "dismissed"]
                                    ELSE screen[s]]
  BY DEF EndOfProcess
<1>3. \A s \in DOMAIN screen : screen[s] \in Screen
  BY DEF WellTyped, TypeOK
<1>4. \A s \in DOMAIN screen' : ~ IsOpen(s)'
  BY <1>2, <1>3 DEF IsOpen, Screen
<1> QED BY <1>1, <1>4, NoneOpen, EmptySeq DEF OneAuthor

\* With every open screen blurred nothing is said of a button.
LEMMA AllBlurred ==
  ASSUME OneOpen', OneAuthor', OneList',
         \A s \in DOMAIN screen' : IsOpen(s)' => s \in blurred'
  PROVE  ButtonInv'
BY DEF ButtonInv, Sharp

\* Requests and answers that disappear.
LEMMA FewerMessages ==
  ASSUME ButtonInv, UNCHANGED <<screen, block, told, signedIn>>,
         net' \subseteq net, answers' \subseteq answers
  PROVE  OneOpen' /\ OneAuthor' /\ OneList'
<1>1. OneOpen' /\ OneAuthor'
  BY DEF ButtonInv, OneOpen, OneAuthor, IsOpen
<1>2. \A s \in DOMAIN screen : ListDue(s)' <=> ListDue(s)
  BY DEF ListDue, ListBlock, Due
<1>3. \A s \in DOMAIN screen : IsOpen(s)' <=> IsOpen(s)
  BY DEF IsOpen
<1>4. \A i, j \in DOMAIN block', s \in DOMAIN screen' :
        ListBlock(i, s)' /\ ListBlock(j, s)' => i = j
  BY DEF ButtonInv, OneList, ListBlock
<1>5. ASSUME NEW s \in DOMAIN screen, IsOpen(s)
      PROVE  /\ \A r \in net' : Asked(r, s) =>
                  /\ ~ ListDue(s)'
                  /\ \A q \in net' : Asked(q, s) => q = r
             /\ \A a \in answers' : Answered(a, s) =>
                  /\ ~ ListDue(s)'
                  /\ \A r \in net' : ~ Asked(r, s)
                  /\ \A b \in answers' : Answered(b, s) => b = a
  BY <1>2, <1>5 DEF ButtonInv, OneList
<1> QED BY <1>1, <1>3, <1>4, <1>5 DEF OneList, Asked, Answered

LEMMA LoseButton ==
  ASSUME WellTyped, ButtonInv,
         (\E r \in net : Lose(r)) \/ (\E a \in answers : LoseAnswer(a))
  PROVE  ButtonInv'
<1>1. /\ UNCHANGED <<screen, block, told, signedIn>>
      /\ net' \subseteq net /\ answers' \subseteq answers
      /\ BlurIf(TRUE)
  BY DEF Lose, LoseAnswer, authVars
<1>2. \A s \in DOMAIN screen' : IsOpen(s)' => s \in blurred'
  BY <1>1 DEF BlurIf, IsOpen
<1> QED BY <1>1, <1>2, FewerMessages, AllBlurred

\* A new screen: its list is due, and nothing refers to it yet.
LEMMA OpenButton ==
  ASSUME WellTyped, ButtonInv, NEW uid \in MaybeAuthor, Open(uid)
  PROVE  ButtonInv'
<1> PICK n, k : n = Len(screen) + 1 /\ k = Len(block) + 1
  OBVIOUS
<1> DEFINE b == [kind |-> "getFollowing", screen |-> n, by |-> signedIn,
                 at |-> signIns, sent |-> 0]
<1>1. /\ screen \in Seq(Screen) /\ block \in Seq(Block)
      /\ Len(block) = Len(told) /\ told \in Seq(MaybeUser \union {Never})
      /\ signedIn \in Users
  BY DEF Open, WellTyped, TypeOK, AuthTypeOK, Linked, MaybeUser
<1>2. /\ screen' = Append(screen, NewScreen)
      /\ Len(screen') = n
      /\ block' = Append(block, b)
      /\ told' = Append(told, Never)
      /\ UNCHANGED <<signedIn, net, blurred>>
  BY <1>1 DEF Open, AddBlock, AddListener
<1>3. /\ b.kind = "getFollowing" /\ b.screen = n
  OBVIOUS
<1> HIDE DEF b
<1>4. /\ DOMAIN screen' = DOMAIN screen \union {n}
      /\ n \notin DOMAIN screen
      /\ screen'[n] = NewScreen
      /\ \A s \in DOMAIN screen : screen'[s] = screen[s] /\ ~ IsOpen(s)'
  BY <1>1, <1>2 DEF Open, AllDismissed, IsOpen
<1>5. /\ DOMAIN block' = DOMAIN block \union {k}
      /\ block'[k] = b /\ told'[k] = Never
      /\ \A i \in DOMAIN block : /\ block'[i] = block[i]
                                 /\ block'[i].screen \in DOMAIN screen
  BY <1>1, <1>2 DEF WellTyped, Linked
<1>6. \A a \in answers' : \/ a \in answers /\ a.screen \in DOMAIN screen
                          \/ a = [of |-> "posts", screen |-> n, uid |-> uid]
  BY <1>2 DEF Open, WellTyped, Linked
<1>7. \A r \in net' : r.screen \in DOMAIN screen
  BY <1>2 DEF WellTyped, Linked
<1>8. IsOpen(n)' /\ ~ isFollowing(n)' /\ screen'[n].foreignUid = NoAuthor
  BY <1>4 DEF IsOpen, isFollowing, NewScreen
<1>9. ListDue(n)'
  BY <1>1, <1>2, <1>3, <1>5, UsersAssumption DEF ListDue, ListBlock, Due
<1>10. OneOpen'
  BY <1>4 DEF OneOpen
<1>11. OneAuthor'
  <2>1. ASSUME NEW a \in answers', a.of = "posts"
        PROVE  /\ screen'[a.screen].foreignUid = NoAuthor
               /\ \A c \in answers' : c.of = "posts" /\ c.screen = a.screen => c = a
    BY <1>4, <1>6, <1>8, <2>1 DEF ButtonInv, OneAuthor
  <2> QED BY <2>1 DEF OneAuthor
<1>12. OneList'
  <2>1. \A i, j \in DOMAIN block', s \in DOMAIN screen' :
          ListBlock(i, s)' /\ ListBlock(j, s)' => i = j
    BY <1>3, <1>4, <1>5 DEF ButtonInv, OneList, ListBlock
  <2>2. \A s \in DOMAIN screen' : IsOpen(s)' => s = n
    BY <1>4
  <2>3. \A r \in net' : ~ Asked(r, n)
    BY <1>4, <1>7 DEF Asked
  <2>4. \A a \in answers' : ~ Answered(a, n)
    BY <1>4, <1>6 DEF Answered
  <2> QED BY <2>1, <2>2, <2>3, <2>4 DEF OneList, Asked, Answered
<1>13. ASSUME NEW s \in DOMAIN screen', Sharp(s)'
       PROVE  (Untouched(s) /\ Travelling(s) /\ Pressed(s) /\ Sent(s) /\ Settled(s))'
  <2>1. s = n
    BY <1>4, <1>13 DEF Sharp
  <2>2. \A i \in DOMAIN block' : ~ EditBlock(i, s)'
    BY <2>1, <1>3, <1>4, <1>5 DEF EditBlock, Edits
  <2>3. Untouched(s)'
    BY <2>1, <2>2, <1>4, <1>7, <1>8 DEF Untouched
  <2>4. Travelling(s)'
    BY <2>1, <1>4, <1>6, <1>7 DEF Travelling, Asked, Answered
  <2>5. Pressed(s)'
    BY <2>2 DEF Pressed
  <2>6. Sent(s)'
    BY <2>1, <1>9 DEF Sent
  <2>7. ListOnTheWay(s)'
    BY <2>1, <1>9 DEF ListOnTheWay, ListDue, ListBlock
  <2>8. Settled(s)'
    BY <2>7 DEF Settled
  <2> QED BY <2>3, <2>4, <2>5, <2>6, <2>8
<1> QED BY <1>10, <1>11, <1>12, <1>13 DEF ButtonInv


LEMMA PressButton ==
  ASSUME WellTyped, ButtonInv, NEW s \in DOMAIN screen, profileViewFollowBtn(s)
  PROVE  ButtonInv'
<1> PICK k : k = Len(block) + 1
  OBVIOUS
<1> DEFINE kind == IF isFollowing(s) THEN "unfollow" ELSE "follow"
           b == [kind |-> kind, screen |-> s, by |-> signedIn, at |-> signIns,
                 sent |-> 0]
<1>1. /\ screen \in Seq(Screen) /\ block \in Seq(Block)
      /\ Len(block) = Len(told) /\ told \in Seq(MaybeUser \union {Never})
      /\ signedIn \in MaybeUser
      /\ screen[s] \in Screen
  BY DEF WellTyped, TypeOK, AuthTypeOK
<1>2. /\ screen' = [screen EXCEPT ![s].button = Title(~ isFollowing(s))]
      /\ block' = Append(block, b)
      /\ told' = Append(told, Never)
      /\ UNCHANGED <<signedIn, net, answers, follow>>
      /\ BlurIf(EditOnTheWay \/ ListOnTheWay(s))
      /\ IsOpen(s)
  BY DEF profileViewFollowBtn, AddBlock, AddListener
<1>3. /\ b.screen = s
      /\ b.kind = "follow" <=> ~ isFollowing(s)
      /\ b.kind \in Edits /\ b.kind # "getFollowing"
  BY DEF Edits
<1> HIDE DEF b, kind
<1>4. /\ DOMAIN screen' = DOMAIN screen
      /\ \A t \in DOMAIN screen : /\ screen'[t].stage = screen[t].stage
                                  /\ screen'[t].foreignUid = screen[t].foreignUid
      /\ screen'[s].button = Title(~ isFollowing(s))
  BY <1>1, <1>2 DEF Screen
<1>5. /\ DOMAIN block' = DOMAIN block \union {k} /\ k \notin DOMAIN block
      /\ block'[k] = b
      /\ \A i \in DOMAIN block : block'[i] = block[i] /\ told'[i] = told[i]
  BY <1>1, <1>2
<1>6. isFollowing(s)' <=> ~ isFollowing(s)
  BY <1>4 DEF isFollowing, Title
<1>7. \A t \in DOMAIN screen : ListDue(t)' <=> ListDue(t)
  BY <1>2, <1>3, <1>5 DEF ListDue, ListBlock, Due
<1>8. OneOpen' /\ OneAuthor'
  BY <1>2, <1>4 DEF ButtonInv, OneOpen, OneAuthor, IsOpen, WellTyped, Linked
<1>9. OneList'
  <2>1. \A i, j \in DOMAIN block', t \in DOMAIN screen' :
          ListBlock(i, t)' /\ ListBlock(j, t)' => i = j
    BY <1>3, <1>4, <1>5 DEF ButtonInv, OneList, ListBlock
  <2>2. \A t \in DOMAIN screen : IsOpen(t)' <=> IsOpen(t)
    BY <1>4 DEF IsOpen
  <2> QED BY <2>1, <2>2, <1>2, <1>4, <1>7 DEF ButtonInv, OneList, Asked, Answered
<1>10. ASSUME NEW t \in DOMAIN screen', Sharp(t)'
       PROVE  (Untouched(t) /\ Travelling(t) /\ Pressed(t) /\ Sent(t) /\ Settled(t))'
  <2>1. t = s
    BY <1>2, <1>4, <1>10 DEF Sharp, IsOpen, ButtonInv, OneOpen
  <2>2. ~ EditOnTheWay /\ ~ ListOnTheWay(s)
    BY <1>2, <1>4, <1>10, <2>1 DEF Sharp, BlurIf
  <2>3. /\ ~ EditSent' /\ ~ EditSent
        /\ \A i \in DOMAIN block : ~ (EditBlock(i, s)' /\ Due(i)')
    BY <1>2, <1>5, <2>2 DEF EditSent, EditOnTheWay, EditBlock, Due
  <2>4. ~ ListOnTheWay(s)'
    BY <1>2, <1>3, <1>5, <2>2 DEF ListOnTheWay, Due
  <2>5. Untouched(t)'
    BY <2>1, <2>4 DEF Untouched
  <2>6. Travelling(t)'
    BY <2>1, <2>4 DEF Travelling, ListOnTheWay, Asked, Answered
  <2>7. Pressed(t)'
    <3>1. ASSUME NEW i \in DOMAIN block', EditBlock(i, t)', Due(i)'
          PROVE  i = k
      BY <1>5, <2>1, <2>3, <3>1
    <3>2. (isFollowing(t) = (block[k].kind = "follow"))'
      BY <1>3, <1>5, <1>6, <2>1 DEF isFollowing
    <3> QED BY <2>3, <3>1, <3>2 DEF Pressed
  <2>8. Sent(t)'
    BY <2>3 DEF Sent, EditSent
  <2>9. EditDue(s)'
    <3>1. told'[k] = Never /\ signedIn' # Never
      BY <1>1, <1>2, UsersAssumption DEF MaybeUser
    <3> QED BY <1>3, <1>5, <3>1 DEF EditDue, EditBlock, Due
  <2>10. Settled(t)'
    BY <2>1, <2>9 DEF Settled
  <2> QED BY <2>5, <2>6, <2>7, <2>8, <2>10
<1> QED BY <1>8, <1>9, <1>10 DEF ButtonInv


\* With nobody signed in no profile is open.
LEMMA NobodyButton ==
  ASSUME WellTyped, ButtonInv, NEW i \in DOMAIN block, CallNobody(i)
  PROVE  ButtonInv'
<1>1. UNCHANGED <<screen, block, answers>> /\ signedIn = NoUser
  BY DEF CallNobody
<1>2. \A s \in DOMAIN screen' : ~ IsOpen(s)'
  BY <1>1 DEF WellTyped, Linked, IsOpen
<1>3. OneAuthor'
  BY <1>1 DEF ButtonInv, OneAuthor
<1>4. (\A j, k \in DOMAIN block, s \in DOMAIN screen :
         ListBlock(j, s) /\ ListBlock(k, s) => j = k)'
  BY <1>1 DEF ButtonInv, OneList, ListBlock
<1> QED BY <1>2, <1>3, <1>4, NoneOpen

\* What a call that sends its request changes.
LEMMA SendFacts ==
  ASSUME WellTyped, NEW i \in DOMAIN block, CallSend(i)
  PROVE  /\ UNCHANGED <<signedIn, screen, answers, follow>>
         /\ DOMAIN block' = DOMAIN block
         /\ \A j \in DOMAIN block : /\ block'[j].kind = block[j].kind
                                    /\ block'[j].screen = block[j].screen
         /\ Due(i) /\ ~ Due(i)'
         /\ \A j \in DOMAIN block : j # i => (Due(j)' <=> Due(j))
         /\ \E r : /\ net' = net \union {r}
                   /\ r.kind = block[i].kind /\ r.screen = block[i].screen
                   /\ r.uuid = signedIn /\ r.foreign = ForeignOf(i)
         /\ BlurIf(Disturbs(i))
<1>1. /\ block \in Seq(Block) /\ block[i] \in Block
      /\ told \in Seq(MaybeUser \union {Never})
      /\ i \in DOMAIN told /\ DOMAIN told = DOMAIN block
  BY DEF WellTyped, TypeOK, AuthTypeOK
<1>2. /\ Due(i)
      /\ told' = [told EXCEPT ![i] = signedIn]
      /\ UNCHANGED <<signedIn, screen, answers, follow>>
      /\ net' = net \union {RequestOf(i)}
      /\ block' = [block EXCEPT ![i].sent = @ + 1]
      /\ BlurIf(Disturbs(i))
  BY DEF CallSend, Called
<1>3. /\ DOMAIN block' = DOMAIN block
      /\ \A j \in DOMAIN block : /\ block'[j].kind = block[j].kind
                                 /\ block'[j].screen = block[j].screen
  BY <1>1, <1>2 DEF Block
<1>4. ~ Due(i)' /\ \A j \in DOMAIN block : j # i => (Due(j)' <=> Due(j))
  BY <1>1, <1>2 DEF Due
<1>5. /\ RequestOf(i).kind = block[i].kind /\ RequestOf(i).screen = block[i].screen
      /\ RequestOf(i).uuid = signedIn /\ RequestOf(i).foreign = ForeignOf(i)
  BY DEF RequestOf
<1> QED BY <1>2, <1>3, <1>4, <1>5

LEMMA SendOneList ==
  ASSUME WellTyped, ButtonInv, NEW i \in DOMAIN block, CallSend(i)
  PROVE  /\ OneOpen' /\ OneAuthor' /\ OneList'
         /\ \A s \in DOMAIN screen : ListDue(s)' => ListDue(s)
<1>1. OneOpen' /\ OneAuthor'
  BY SendFacts DEF ButtonInv, OneOpen, OneAuthor, IsOpen
<1>2. \A j \in DOMAIN block, s \in DOMAIN screen : ListBlock(j, s)' <=> ListBlock(j, s)
  BY SendFacts DEF ListBlock
<1>3. \A j, k \in DOMAIN block', s \in DOMAIN screen' :
        ListBlock(j, s)' /\ ListBlock(k, s)' => j = k
  BY <1>2, SendFacts DEF ButtonInv, OneList
<1>4. \A s \in DOMAIN screen : ListDue(s)' => ListDue(s)
  BY <1>2, SendFacts DEF ListDue
<1>5. PICK r : /\ net' = net \union {r}
               /\ r.kind = block[i].kind /\ r.screen = block[i].screen
               /\ r.uuid = signedIn /\ r.foreign = ForeignOf(i)
  BY SendFacts
<1>6. ASSUME NEW s \in DOMAIN screen, Asked(r, s)
      PROVE  ListDue(s) /\ ~ ListDue(s)'
  <2>1. ListBlock(i, s) /\ ListBlock(i, s)'
    BY <1>2, <1>5, <1>6 DEF Asked, ListBlock
  <2>2. \A j \in DOMAIN block : ListBlock(j, s)' => j = i
    BY <1>2, <2>1 DEF ButtonInv, OneList
  <2> QED BY <2>1, <2>2, SendFacts DEF ListDue
<1>7. \A s \in DOMAIN screen : IsOpen(s)' <=> IsOpen(s)
  BY SendFacts DEF IsOpen
<1>8. ASSUME NEW s \in DOMAIN screen, IsOpen(s)
      PROVE  /\ \A p \in net' : Asked(p, s) =>
                  /\ ~ ListDue(s)'
                  /\ \A q \in net' : Asked(q, s) => q = p
             /\ \A a \in answers' : Answered(a, s) =>
                  /\ ~ ListDue(s)'
                  /\ \A p \in net' : ~ Asked(p, s)
                  /\ \A b \in answers' : Answered(b, s) => b = a
  BY <1>4, <1>5, <1>6, <1>8, SendFacts DEF ButtonInv, OneList
<1>9. OneList'
  BY <1>3, <1>7, <1>8, SendFacts DEF OneList, Asked, Answered
<1> QED BY <1>1, <1>4, <1>9

\* The request for a list: no edit is on the way when it leaves.
LEMMA SendListButton ==
  ASSUME WellTyped, ButtonInv, NEW i \in DOMAIN block, CallSend(i),
         block[i].kind = "getFollowing"
  PROVE  ButtonInv'
<1>1. PICK r : /\ net' = net \union {r}
               /\ r.kind = "getFollowing" /\ r.screen = block[i].screen
               /\ r.uuid = signedIn
  BY SendFacts
<1>2. ASSUME NEW s \in DOMAIN screen', Sharp(s)'
      PROVE  (Untouched(s) /\ Travelling(s) /\ Pressed(s) /\ Sent(s) /\ Settled(s))'
  <2>1. /\ s \in DOMAIN screen /\ Sharp(s)
        /\ ~ EditSent
    BY <1>2, SendFacts DEF Sharp, IsOpen, BlurIf, Disturbs, EditSent
  <2>2. Untouched(s) /\ Travelling(s) /\ Pressed(s) /\ Sent(s) /\ Settled(s)
    BY <2>1 DEF ButtonInv
  <2>3. ~ EditSent'
    BY <1>1, <2>1 DEF EditSent, Edits
  <2>4. isFollowing(s)' = isFollowing(s)
    BY SendFacts DEF isFollowing
  <2>5. \A j \in DOMAIN block : /\ EditBlock(j, s)' <=> EditBlock(j, s)
                                /\ EditBlock(j, s) => j # i
    BY SendFacts DEF EditBlock, Edits
  <2>6. ListOnTheWay(s)' => ListOnTheWay(s)
    BY <1>1, SendFacts DEF ListOnTheWay
  <2>6a. block[i].screen = s => ListOnTheWay(s)'
    BY <1>1 DEF ListOnTheWay
  <2>7. Untouched(s)'
    BY <2>2, <2>3, <2>4, <2>5, <2>6, SendFacts DEF Untouched, EditSent
  <2>8. Travelling(s)'
    BY <1>1, <2>2, <2>3, SendFacts DEF Travelling, Asked, Answered
  <2>9. Pressed(s)'
    BY <2>2, <2>3, <2>4, <2>5, SendFacts DEF Pressed, EditBlock
  <2>10. Sent(s)'
    BY <2>3 DEF Sent, EditSent
  <2>11. Settled(s)'
    <3>1. ~ ListOnTheWay(s)' => ~ ListOnTheWay(s)
      BY <1>1, <2>6a, SendFacts DEF ListOnTheWay
    <3>2. EditDue(s)' <=> EditDue(s)
      BY <2>5, SendFacts DEF EditDue
    <3> QED BY <2>1, <2>2, <2>4, <3>1, <3>2, SendFacts DEF Settled, Author
  <2> QED BY <2>7, <2>8, <2>9, <2>10, <2>11
<1> QED BY <1>2, SendOneList DEF ButtonInv


\* The request of a press: only from the screen pressed last, or it blurs.
LEMMA SendEditButton ==
  ASSUME WellTyped, ButtonInv, NEW i \in DOMAIN block, CallSend(i),
         block[i].kind \in Edits
  PROVE  ButtonInv'
<1>1. PICK r : /\ net' = net \union {r}
               /\ r.kind = block[i].kind /\ r.screen = block[i].screen
               /\ r.uuid = signedIn /\ r.foreign = ForeignOf(i)
  BY SendFacts
<1>2. ASSUME NEW s \in DOMAIN screen', Sharp(s)'
      PROVE  (Untouched(s) /\ Travelling(s) /\ Pressed(s) /\ Sent(s) /\ Settled(s))'
  <2>1. s \in DOMAIN screen /\ Sharp(s) /\ ~ Disturbs(i)
    BY <1>2, SendFacts DEF Sharp, IsOpen, BlurIf
  <2>2. Untouched(s) /\ Travelling(s) /\ Pressed(s) /\ Sent(s) /\ Settled(s)
    BY <2>1 DEF ButtonInv
  <2>3. block[i].screen = s
    BY <2>1 DEF Disturbs, ButtonInv, OneOpen, Sharp, WellTyped, Linked
  <2>4. EditBlock(i, s) /\ Due(i)
    BY <2>3, SendFacts DEF EditBlock
  <2>5. /\ isFollowing(s) = (block[i].kind = "follow")
        /\ ~ EditSent
        /\ \A j \in DOMAIN block : EditBlock(j, s) /\ Due(j) => j = i
    BY <2>2, <2>4 DEF Pressed
  <2>6. ~ ListOnTheWay(s)
    BY <2>2, <2>4 DEF Untouched
  <2>7. ~ ListOnTheWay(s)'
    BY <1>1, <2>6, SendFacts DEF ListOnTheWay, Edits
  <2>8. \A j \in DOMAIN block : ~ (EditBlock(j, s)' /\ Due(j)')
    BY <2>5, SendFacts DEF EditBlock
  <2>9. isFollowing(s)' = isFollowing(s) /\ screen'[s] = screen[s]
    BY SendFacts DEF isFollowing
  <2>10. Untouched(s)'
    BY <2>7 DEF Untouched
  <2>11. Travelling(s)'
    BY <2>7 DEF Travelling, ListOnTheWay, Asked, Answered
  <2>12. Pressed(s)'
    BY <2>8, SendFacts DEF Pressed
  <2>13. Sent(s)'
    <3>1. \A p \in net' : p.kind \in Edits => p = r
      BY <1>1, <2>5 DEF EditSent
    <3>2. r.foreign = screen[s].foreignUid
      BY <1>1, <2>3 DEF ForeignOf
    <3> QED BY <1>1, <2>3, <2>5, <2>9, <3>1, <3>2, SendFacts DEF Sent
  <2>14. Settled(s)'
    BY <1>1 DEF Settled, EditSent
  <2> QED BY <2>10, <2>11, <2>12, <2>13, <2>14
<1> QED BY <1>2, SendOneList DEF ButtonInv

LEMMA CallButton ==
  ASSUME WellTyped, ButtonInv, NEW i \in 1 .. MaxListeners, Call(i)
  PROVE  ButtonInv'
<1>0. i \in DOMAIN block /\ block \in Seq(Block)
  BY DEF Call, WellTyped, TypeOK
<1>1. i \in DOMAIN block /\ block[i].kind \in Edits \union {"getFollowing"}
  <2>1. block[i] \in Block
    BY <1>0
  <2> QED BY <1>0, <2>1 DEF Block, Kinds
<1> QED
  BY <1>1, SendListButton, SendEditButton, NobodyButton, CrashButton
     DEF Call, CallCrash

\* The answer with the author changes no button and no list.
LEMMA PostsButton ==
  ASSUME WellTyped, ButtonInv, NEW a \in answers, DeliverPosts(a)
  PROVE  ButtonInv'
<1>1. /\ screen \in Seq(Screen) /\ a.screen \in DOMAIN screen
      /\ screen[a.screen] \in Screen
      /\ a \in PostsAnswer
  BY DEF DeliverPosts, WellTyped, TypeOK, Linked, ListAnswer
<1>2. /\ UNCHANGED <<signedIn, told, block, net, follow, blurred>>
      /\ screen' = [screen EXCEPT ![a.screen].foreignUid = a.uid]
      /\ answers' = answers \ {a}
      /\ a.of = "posts"
  BY DEF DeliverPosts, authVars
<1>3. /\ DOMAIN screen' = DOMAIN screen
      /\ \A s \in DOMAIN screen :
           /\ screen'[s].stage = screen[s].stage
           /\ screen'[s].button = screen[s].button
           /\ s # a.screen => screen'[s].foreignUid = screen[s].foreignUid
      /\ screen'[a.screen].foreignUid = a.uid
  BY <1>1, <1>2 DEF Screen
<1>4. screen[a.screen].foreignUid = NoAuthor
  BY <1>2 DEF ButtonInv, OneAuthor
<1>5. OneOpen'
  BY <1>3 DEF ButtonInv, OneOpen, IsOpen
<1>6. OneAuthor'
  BY <1>2, <1>3 DEF ButtonInv, OneAuthor, WellTyped, Linked
<1>7. \A s \in DOMAIN screen : /\ ListDue(s)' <=> ListDue(s)
                               /\ EditDue(s)' <=> EditDue(s)
                               /\ IsOpen(s)' <=> IsOpen(s)
                               /\ isFollowing(s)' = isFollowing(s)
  BY <1>2, <1>3 DEF ListDue, EditDue, ListBlock, EditBlock, Due, IsOpen, isFollowing
<1>8. OneList'
  BY <1>2, <1>3, <1>7 DEF ButtonInv, OneList, ListBlock, Asked, Answered
<1>9. ASSUME NEW s \in DOMAIN screen', Sharp(s)'
      PROVE  (Untouched(s) /\ Travelling(s) /\ Pressed(s) /\ Sent(s) /\ Settled(s))'
  <2>1. Sharp(s)
    BY <1>2, <1>3, <1>7, <1>9 DEF Sharp
  <2>2. Untouched(s) /\ Travelling(s) /\ Pressed(s) /\ Sent(s) /\ Settled(s)
    BY <1>3, <1>9, <2>1 DEF ButtonInv
  <2>3. ListOnTheWay(s)' <=> ListOnTheWay(s)
    BY <1>2 DEF ListOnTheWay, Due
  <2>4. Untouched(s)'
    BY <1>2, <1>3, <1>7, <1>9, <2>2, <2>3 DEF Untouched, EditBlock
  <2>5. Travelling(s)'
    BY <1>2, <2>2 DEF Travelling, Asked, Answered, EditSent
  <2>6. Pressed(s)'
    BY <1>2, <1>3, <1>7, <1>9, <2>2 DEF Pressed, EditBlock, Due, EditSent
  <2>7. Sent(s)'
    <3>1. CASE s = a.screen
      BY <1>2, <1>3, <1>4, <1>7, <2>2, <3>1 DEF Sent, WellTyped, Linked
    <3>2. CASE s # a.screen
      BY <1>2, <1>3, <1>7, <1>9, <2>2, <3>2 DEF Sent
    <3> QED BY <3>1, <3>2
  <2>8. Settled(s)'
    <3>1. ASSUME NEW g, Author(s, g)'
          PROVE  Author(s, g)
      BY <1>2, <1>3, <1>9, <3>1 DEF Author
    <3> QED BY <1>2, <1>3, <1>7, <1>9, <2>2, <2>3, <3>1 DEF Settled, EditSent
  <2> QED BY <2>4, <2>5, <2>6, <2>7, <2>8
<1> QED BY <1>5, <1>6, <1>8, <1>9 DEF ButtonInv


\* The answer with the list sets the button right, unless it is misread.
LEMMA ListButton ==
  ASSUME WellTyped, ButtonInv, NEW a \in answers, DeliverList(a)
  PROVE  ButtonInv'
<1>1. /\ screen \in Seq(Screen) /\ a.screen \in DOMAIN screen
      /\ screen[a.screen] \in Screen
      /\ a.list \in Seq(People)
  BY DEF DeliverList, WellTyped, TypeOK, Linked, PostsAnswer, ListAnswer
<1>2. /\ UNCHANGED <<signedIn, told, block, net, follow>>
      /\ answers' = answers \ {a}
      /\ a.of = "list"
      /\ BlurIf(Misread(a.list, screen[a.screen].foreignUid))
  BY DEF DeliverList, authVars
<1>3. /\ DOMAIN screen' = DOMAIN screen
      /\ \A s \in DOMAIN screen :
           /\ screen'[s].stage = screen[s].stage
           /\ screen'[s].foreignUid = screen[s].foreignUid
           /\ s # a.screen \/ a.list = <<>> => screen'[s].button = screen[s].button
      /\ a.list # <<>> => screen'[a.screen].button =
           Title(a.list[Len(a.list)] = screen[a.screen].foreignUid)
  BY <1>1 DEF DeliverList, Screen
<1>4. \A s \in DOMAIN screen : /\ ListDue(s)' <=> ListDue(s)
                               /\ EditDue(s)' <=> EditDue(s)
                               /\ IsOpen(s)' <=> IsOpen(s)
  BY <1>2, <1>3 DEF ListDue, EditDue, ListBlock, EditBlock, Due, IsOpen
<1>5. OneOpen' /\ OneAuthor'
  BY <1>2, <1>3, <1>4 DEF ButtonInv, OneOpen, OneAuthor, WellTyped, Linked
<1>6. OneList'
  BY <1>2, <1>3, <1>4 DEF ButtonInv, OneList, ListBlock, Asked, Answered
<1>7. ASSUME NEW s \in DOMAIN screen', Sharp(s)'
      PROVE  (Untouched(s) /\ Travelling(s) /\ Pressed(s) /\ Sent(s) /\ Settled(s))'
  <2>1. Sharp(s) /\ ~ Misread(a.list, screen[a.screen].foreignUid)
    BY <1>2, <1>3, <1>4, <1>7 DEF Sharp, BlurIf
  <2>2. Untouched(s) /\ Travelling(s) /\ Pressed(s) /\ Sent(s) /\ Settled(s)
    BY <1>3, <1>7, <2>1 DEF ButtonInv
  <2>3. \A g : Author(s, g)' => Author(s, g)
    BY <1>2, <1>3, <1>7 DEF Author
  <2>4. CASE s = a.screen
    <3>1. Answered(a, s) /\ ListOnTheWay(s)
      BY <1>2, <2>4 DEF Answered, ListOnTheWay
    <3>2. ~ ListOnTheWay(s)'
      BY <1>2, <1>3, <1>7, <3>1, <2>1
         DEF ButtonInv, OneList, Sharp, ListOnTheWay, ListDue, ListBlock, Asked,
             Answered, Due
    <3>3. /\ \A i \in DOMAIN block : ~ EditBlock(i, s)
          /\ ~ isFollowing(s)
          /\ a.list = follow[signedIn]
          /\ ~ EditSent /\ ~ EditSent'
      BY <1>2, <2>2, <3>1 DEF Untouched, Travelling, EditSent
    <3>4. \A i \in DOMAIN block' : ~ EditBlock(i, s)'
      BY <1>2, <3>3 DEF EditBlock
    <3>5. Untouched(s)' /\ Travelling(s)'
      BY <3>2 DEF Untouched, Travelling, ListOnTheWay, Asked, Answered
    <3>6. Pressed(s)' /\ Sent(s)'
      BY <3>3, <3>4 DEF Pressed, Sent, EditSent
    <3>7. Settled(s)'
      <4>1. CASE a.list = <<>>
        <5>1. \A g : ~ Holds(follow'[signedIn'], g)
          BY <1>2, <3>3, <4>1, EmptySeq DEF Holds
        <5>2. isFollowing(s)' = FALSE
          BY <1>3, <1>7, <3>3, <4>1 DEF isFollowing
        <5>3. \A g : Holds(follow'[signedIn'], g) = FALSE
          BY <5>1 DEF Holds
        <5> QED BY <5>2, <5>3 DEF Settled
      <4>2. CASE a.list # <<>>
        <5> DEFINE f == screen[s].foreignUid
        <5>1. f # NoAuthor /\ (Holds(a.list, f) => a.list[Len(a.list)] = f)
          BY <2>1, <2>4, <4>2 DEF Misread
        <5>2. Len(a.list) \in DOMAIN a.list
          BY <1>1, <4>2
        <5>3. Holds(a.list, f) = (a.list[Len(a.list)] = f)
          BY <5>1, <5>2 DEF Holds
        <5>4. isFollowing(s)' = (a.list[Len(a.list)] = f)
          BY <1>3, <2>4, <4>2 DEF isFollowing, Title
        <5>5. ASSUME NEW g, Author(s, g)'
              PROVE  g = f
          <6>1. Author(s, g)
            BY <2>3, <5>5
          <6>2. \A c \in answers : c.of = "posts" => c.screen # s
            BY <5>1 DEF ButtonInv, OneAuthor
          <6> QED BY <6>1, <6>2 DEF Author
        <5> QED BY <1>2, <3>3, <5>3, <5>4, <5>5 DEF Settled
      <4> QED BY <4>1, <4>2
    <3> QED BY <3>5, <3>6, <3>7
  <2>5. CASE s # a.screen
    <3>1. isFollowing(s)' = isFollowing(s)
      BY <1>3, <1>7, <2>5 DEF isFollowing
    <3>2. ListOnTheWay(s)' <=> ListOnTheWay(s)
      BY <1>2, <2>5 DEF ListOnTheWay, Due
    <3>3. Untouched(s)'
      BY <1>2, <2>2, <3>1, <3>2 DEF Untouched, EditBlock
    <3>4. Travelling(s)'
      BY <1>2, <2>2 DEF Travelling, Asked, Answered, EditSent
    <3>5. Pressed(s)'
      BY <1>2, <2>2, <3>1 DEF Pressed, EditBlock, Due, EditSent
    <3>6. Sent(s)'
      BY <1>2, <1>3, <1>4, <1>7, <2>2, <3>1 DEF Sent
    <3>7. Settled(s)'
      BY <1>2, <1>3, <1>4, <1>7, <2>2, <2>3, <3>1, <3>2 DEF Settled, EditSent
    <3> QED BY <3>3, <3>4, <3>5, <3>6, <3>7
  <2> QED BY <2>4, <2>5
<1> QED BY <1>5, <1>6, <1>7 DEF ButtonInv


\* $addToSet and $pull leave the list as the request wants it.
LEMMA EditDone ==
  ASSUME WellTyped, NEW r \in net, r.kind \in Edits
  PROVE  Holds(ListAfter(r), r.foreign) = (r.kind = "follow")
<1>1. /\ r \in Request /\ r.uuid \in Users
      /\ follow[r.uuid] \in Seq(People) /\ NoRepeats(follow[r.uuid])
      /\ r.foreign \in People
  BY ScreensAssumption
     DEF WellTyped, TypeOK, Linked, Request, MaybeAuthor
<1>2. CASE r.kind = "follow"
  <2>1. Holds(ListAfter(r), r.foreign)
    BY <1>1, <1>2, AddToSetList DEF ListAfter
  <2> QED BY <1>2, <2>1 DEF Holds
<1>3. CASE r.kind = "unfollow"
  <2>1. ~ Holds(ListAfter(r), r.foreign)
    BY <1>1, <1>3, PullList DEF ListAfter
  <2> QED BY <1>3, <2>1 DEF Holds
<1> QED BY <1>2, <1>3 DEF Edits

\* The server takes an edit.
LEMMA ServeEditButton ==
  ASSUME WellTyped, ButtonInv, NEW r \in net, Serve(r), r.kind \in Edits
  PROVE  ButtonInv'
<1>1. /\ UNCHANGED <<signedIn, told, screen, block, answers, blurred>>
      /\ net' = net \ {r}
      /\ follow' = [follow EXCEPT ![r.uuid] = ListAfter(r)]
      /\ follow \in [Users -> Seq(People)] /\ r.uuid \in Users
  BY DEF Serve, authVars, Edits, WellTyped, TypeOK, Request
<1>2. OneOpen' /\ OneAuthor' /\ OneList'
  BY <1>1, FewerMessages
<1>3. ASSUME NEW s \in DOMAIN screen', Sharp(s)'
      PROVE  (Untouched(s) /\ Travelling(s) /\ Pressed(s) /\ Sent(s) /\ Settled(s))'
  <2>1. s \in DOMAIN screen /\ Sharp(s)
    BY <1>1, <1>3 DEF Sharp, IsOpen
  <2>2. Untouched(s) /\ Travelling(s) /\ Pressed(s) /\ Sent(s) /\ Settled(s)
    BY <2>1 DEF ButtonInv
  <2>3. EditSent
    BY DEF EditSent
  <2>4. /\ ListDue(s)' <=> ListDue(s)
        /\ ListOnTheWay(s)' <=> ListOnTheWay(s)
        /\ isFollowing(s)' = isFollowing(s)
    BY <1>1 DEF ListDue, ListBlock, ListOnTheWay, Due, isFollowing, Edits
  <2>5. Untouched(s)'
    BY <1>1, <2>2, <2>4 DEF Untouched, EditBlock
  <2>6. Travelling(s)'
    BY <1>1, <2>2, <2>3 DEF Travelling, Asked, Answered
  <2>7. Pressed(s)'
    BY <1>1, <2>2, <2>3 DEF Pressed, EditBlock, Due
  <2>8. Sent(s)'
    BY <1>1, <2>2, <2>4 DEF Sent
  <2>9. Settled(s)'
    <3>1. CASE ListOnTheWay(s)
      BY <2>4, <3>1 DEF Settled
    <3>2. CASE ~ ListOnTheWay(s)
      <4>1. ~ ListDue(s)
        BY <3>2 DEF ListOnTheWay, ListDue, ListBlock
      <4>2. /\ r.uuid = signedIn /\ r.foreign = screen[s].foreignUid
            /\ isFollowing(s) = (r.kind = "follow")
        BY <2>2, <4>1 DEF Sent
      <4>3. r.foreign # NoAuthor
        BY DEF WellTyped, Linked
      <4>4. \A c \in answers : c.of = "posts" => c.screen # s
        BY <4>2, <4>3 DEF ButtonInv, OneAuthor
      <4>5. \A g : Author(s, g)' => g = r.foreign
        BY <1>1, <4>2, <4>4 DEF Author
      <4>6. Holds(follow'[signedIn'], r.foreign) = isFollowing(s)'
        BY <1>1, <2>4, <4>2, EditDone
      <4> QED BY <4>5, <4>6 DEF Settled
    <3> QED BY <3>1, <3>2
  <2> QED BY <2>5, <2>6, <2>7, <2>8, <2>9
<1> QED BY <1>2, <1>3 DEF ButtonInv

\* The server answers with the list as it is.
LEMMA ServeListButton ==
  ASSUME WellTyped, ButtonInv, NEW r \in net, Serve(r), r.kind \notin Edits
  PROVE  ButtonInv'
<1>1. /\ r \in Request /\ follow \in [Users -> Seq(People)] /\ r.uuid \in Users
      /\ r.kind = "getFollowing"
  BY DEF WellTyped, TypeOK, Request, Kinds
<1>2. PICK a : a = [of |-> "list", screen |-> r.screen, list |-> follow[r.uuid]]
  OBVIOUS
<1>3. a.of = "list" /\ a.screen = r.screen /\ a.list = follow[r.uuid]
  BY <1>2
<1>4. /\ UNCHANGED <<signedIn, told, screen, block, blurred>>
      /\ net' = net \ {r}
      /\ answers' = answers \union {a}
  BY <1>1, <1>2 DEF Serve, authVars
<1>5. follow' = follow
  BY <1>1 DEF Serve, ListAfter
<1>6. OneOpen' /\ OneAuthor'
  BY <1>3, <1>4 DEF ButtonInv, OneOpen, OneAuthor, IsOpen
<1>7. \A s \in DOMAIN screen : /\ ListDue(s)' <=> ListDue(s)
                               /\ IsOpen(s)' <=> IsOpen(s)
  BY <1>4 DEF ListDue, ListBlock, Due, IsOpen
<1>8. \A i, j \in DOMAIN block', s \in DOMAIN screen' :
        ListBlock(i, s)' /\ ListBlock(j, s)' => i = j
  BY <1>4 DEF ButtonInv, OneList, ListBlock
<1>9. ASSUME NEW s \in DOMAIN screen, IsOpen(s)
      PROVE  /\ \A p \in net' : Asked(p, s) =>
                  /\ ~ ListDue(s)'
                  /\ \A q \in net' : Asked(q, s) => q = p
             /\ \A c \in answers' : Answered(c, s) =>
                  /\ ~ ListDue(s)'
                  /\ \A p \in net' : ~ Asked(p, s)
                  /\ \A b \in answers' : Answered(b, s) => b = c
  <2>1. Answered(a, s) <=> Asked(r, s)
    BY <1>1, <1>3 DEF Asked, Answered
  <2> QED BY <1>4, <1>7, <1>9, <2>1 DEF ButtonInv, OneList
<1>10. OneList'
  BY <1>4, <1>7, <1>8, <1>9 DEF OneList, Asked, Answered
<1>11. ASSUME NEW s \in DOMAIN screen', Sharp(s)'
       PROVE  (Untouched(s) /\ Travelling(s) /\ Pressed(s) /\ Sent(s) /\ Settled(s))'
  <2>1. s \in DOMAIN screen /\ Sharp(s)
    BY <1>4, <1>11 DEF Sharp, IsOpen
  <2>2. Untouched(s) /\ Travelling(s) /\ Pressed(s) /\ Sent(s) /\ Settled(s)
    BY <2>1 DEF ButtonInv
  <2>3. /\ ListDue(s)' <=> ListDue(s)
        /\ isFollowing(s)' = isFollowing(s)
        /\ EditSent' <=> EditSent
        /\ EditDue(s)' <=> EditDue(s)
    BY <1>1, <1>4 DEF ListDue, EditDue, ListBlock, EditBlock, Due, isFollowing,
                      EditSent, Edits
  <2>4. ListOnTheWay(s)' <=> ListOnTheWay(s)
    BY <1>1, <1>3, <1>4 DEF ListOnTheWay, Due
  <2>5. Untouched(s)'
    BY <1>4, <2>2, <2>3, <2>4 DEF Untouched, EditBlock
  <2>6. Travelling(s)'
    BY <1>1, <1>3, <1>4, <1>5, <2>2, <2>3 DEF Travelling, Asked, Answered
  <2>7. Pressed(s)'
    BY <1>4, <2>2, <2>3 DEF Pressed, EditBlock, Due
  <2>8. Sent(s)'
    BY <1>4, <2>2, <2>3 DEF Sent
  <2>9. Settled(s)'
    BY <1>4, <1>5, <1>3, <2>2, <2>3, <2>4 DEF Settled, Author
  <2> QED BY <2>5, <2>6, <2>7, <2>8, <2>9
<1> QED BY <1>6, <1>10, <1>11 DEF ButtonInv

LEMMA ButtonStep ==
  ASSUME WellTyped, ButtonInv, [Next]_vars
  PROVE  ButtonInv'
<1>1. ASSUME UNCHANGED vars PROVE ButtonInv'
  BY <1>1 DEF vars, authVars, ButtonInv, OneOpen, OneAuthor, OneList, Sharp,
              Untouched, Travelling, Pressed, Sent, Settled, ListDue, EditDue,
              ListOnTheWay, EditSent, ListBlock, EditBlock, Asked, Answered,
              Author, Due, IsOpen, isFollowing
<1> QED
  BY <1>1, SignInButton, OpenButton, PressButton, BackButton, CallButton,
     CrashButton, ServeEditButton, ServeListButton, LoseButton, PostsButton, ListButton
     DEF Next

LEMMA ButtonImplies == WellTyped /\ ButtonInv => ButtonTruth
<1> SUFFICES ASSUME WellTyped, ButtonInv, NEW s \in DOMAIN screen \ blurred,
                    IsOpen(s), screen[s].foreignUid # NoAuthor,
                    ~ EditOnTheWay, ~ ListOnTheWay(s)
             PROVE  isFollowing(s) = Holds(follow[signedIn], screen[s].foreignUid)
  BY DEF ButtonTruth
<1>1. ~ EditDue(s) /\ ~ EditSent
  BY DEF EditOnTheWay, EditDue, EditBlock, EditSent
<1>2. screen[s] \in Screen
  BY DEF WellTyped, TypeOK
<1>3. screen[s].foreignUid \in Authors /\ Author(s, screen[s].foreignUid)
  BY <1>2 DEF Screen, MaybeAuthor, Author
<1> QED BY <1>1, <1>3 DEF ButtonInv, Sharp, Settled


-----------------------------------------------------------------------------
\* TypeOK holds in every reachable state: screens, listeners, requests and
\* lists refer only to what exists.
THEOREM ProfileTypeCorrect == Spec => []TypeOK
<1>1. WellTyped => TypeOK
  BY DEF WellTyped
<1> QED BY <1>1, TypeInit, TypeStep, PTL DEF Spec

\* ReplayNeedsSignIn holds in every reachable state: without a sign-in no
\* listener repeats a press, and none acts for another person than the one
\* who pressed.
THEOREM ReplayNeedsSignInAlways == Spec => []ReplayNeedsSignIn
<1> QED BY TypeInit, TypeStep, DebtsInit, DebtsStep, DebtsImply, PTL DEF Spec

\* ButtonTruth holds in every reachable state: the title of the follow button
\* and the list on the server agree once nothing is on the way, for any people,
\* screens, presses and orders of the answers, with the exceptions that
\* `blurred' names (profileViewFollowBtn, getFollowing).
THEOREM ButtonTruthAlways == Spec => []ButtonTruth
<1> QED BY TypeInit, TypeStep, ButtonInit, ButtonStep, ButtonImplies, PTL DEF Spec
=============================================================================
