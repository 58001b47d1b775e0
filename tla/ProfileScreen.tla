---------------------------- MODULE ProfileScreen ----------------------------
(***************************************************************************)
(* The profile screens of the iOS app with their follow button.            *)
(*                                                                         *)
(* A press does not send the request.  It registers an auth listener that  *)
(* sends it, so the request goes out when the main queue calls the         *)
(* listener, and goes out again, in the name of whoever is signed in then, *)
(* on every later change of the user.  The screens are kept alive by these *)
(* listeners after they were dismissed.  Requests travel independently of  *)
(* each other: they reach the server in any order or not at all, and their *)
(* answers come back in any order.                                         *)
(***************************************************************************)
EXTENDS AuthListeners

CONSTANTS People,       \* people who can be followed
          Authors,      \* those whose profile is shown
          NoAuthor,     \* foreignUid is nil
          StartFollow,  \* values of `follow' at the start
          MaxScreens,   \* bound on the profile screens opened
          MaxListeners  \* bound on the listeners of one run of the app

\* $addToSet keeps a list free of repetitions.
NoRepeats(list) ==
  \A i, j \in DOMAIN list : list[i] = list[j] => i = j

ASSUME ScreensAssumption ==
  /\ Authors \subseteq People
  /\ NoAuthor \notin People
  /\ StartFollow \subseteq [Users -> Seq(People)]
  /\ \A start \in StartFollow, u \in Users : NoRepeats(start[u])
  /\ MaxScreens \in Nat
  /\ MaxListeners \in Nat

VARIABLES screen,       \* the profile screens, in the order they were opened
          block,        \* listener -> what its block does
          net,          \* requests on the way to the server
          answers,      \* answers on the way to the app
          follow        \* user -> list `follow' in the document of the user

\* History: screens whose button nobody can expect to be right, because
\* requests overlapped or were lost, or the code misreads the list.
VARIABLE blurred

vars == <<authVars, screen, block, net, answers, follow, blurred>>

MaybeAuthor == Authors \union {NoAuthor}

Screen == [stage : {"open", "dismissed"}, foreignUid : MaybeAuthor,
           button : {"Follow", "Following"}]

NewScreen == [stage |-> "open", foreignUid |-> NoAuthor, button |-> "Follow"]

Edits == {"follow", "unfollow"}
Kinds == Edits \union {"getFollowing"}

\* by, at and sent are history: who pressed, after how many sign-ins, and how
\* many requests the block has sent.
Block == [kind : Kinds, screen : 1 .. MaxScreens, by : Users,
          at : 0 .. MaxSignIns, sent : Nat]

\* from, nth, by and at are history: the nth request of listener `from', who
\* pressed, and after how many sign-ins.
Request == [kind : Kinds, screen : 1 .. MaxScreens, uuid : Users,
            foreign : MaybeAuthor, from : Nat, nth : Nat, by : Users,
            at : 0 .. MaxSignIns]

PostsAnswer == [of : {"posts"}, screen : 1 .. MaxScreens, uid : Authors]
ListAnswer  == [of : {"list"}, screen : 1 .. MaxScreens, list : Seq(People)]

Holds(list, f) == \E i \in DOMAIN list : list[i] = f
\* The field isFollowing, which the code keeps equal to the title of the button.
isFollowing(s) == screen[s].button = "Following"
Title(following) == IF following THEN "Following" ELSE "Follow"

IsOpen(s) == screen[s].stage = "open"
AllDismissed == \A s \in DOMAIN screen : ~ IsOpen(s)

-----------------------------------------------------------------------------
(* What may disturb a button.                                              *)

EditOnTheWay ==
  \/ \E r \in net : r.kind \in Edits
  \/ \E i \in DOMAIN block : block[i].kind \in Edits /\ Due(i)

ListOnTheWay(s) ==
  \/ \E i \in DOMAIN block :
       block[i].kind = "getFollowing" /\ block[i].screen = s /\ Due(i)
  \/ \E r \in net : r.kind = "getFollowing" /\ r.screen = s
  \/ \E a \in answers : a.of = "list" /\ a.screen = s

\* The loop of getFollowing compares every entry, so the last one decides.
Misread(list, f) ==
  /\ list # <<>>
  /\ f = NoAuthor \/ (Holds(list, f) /\ list[Len(list)] # f)

BlurIf(disturbed) ==
  blurred' = blurred \union {s \in DOMAIN screen : IsOpen(s) /\ disturbed}

-----------------------------------------------------------------------------
(* The screens.                                                            *)

AddBlock(kind, s) ==
  /\ Len(block) < MaxListeners
  /\ AddListener
  /\ block' = Append(block, [kind |-> kind, screen |-> s, by |-> signedIn,
                             at |-> signIns, sent |-> 0])
  /\ UNCHANGED <<signedIn, atHome, signIns>>

\* viewDidLoad.  fetchData asks for the posts under the name shown; uid is the
\* author of the last of them, nil when there is none or the answer is lost.
Open(uid) ==
  /\ atHome
  /\ AllDismissed
  /\ Len(screen) < MaxScreens
  /\ screen' = Append(screen, NewScreen)
  /\ answers' = answers \union
       {[of |-> "posts", screen |-> Len(screen'), uid |-> u] :
          u \in {uid} \ {NoAuthor}}
  /\ AddBlock("getFollowing", Len(screen'))
  /\ UNCHANGED <<net, follow, blurred>>

\* Faulty variant: the button keeps its state.
PressUntoggled(s) ==
  /\ IsOpen(s)
  /\ AddBlock(IF isFollowing(s) THEN "unfollow" ELSE "follow", s)
  /\ BlurIf(EditOnTheWay \/ ListOnTheWay(s))
  /\ UNCHANGED <<screen, net, answers, follow>>

profileViewFollowBtn(s) ==
  /\ IsOpen(s)
  /\ AddBlock(IF isFollowing(s) THEN "unfollow" ELSE "follow", s)
  /\ screen' = [screen EXCEPT ![s].button = Title(~ isFollowing(s))]
  /\ BlurIf(EditOnTheWay \/ ListOnTheWay(s))
  /\ UNCHANGED <<net, answers, follow>>

backBtn(s) ==
  /\ IsOpen(s)
  /\ screen' = [screen EXCEPT ![s].stage = "dismissed"]
  /\ blurred' = blurred \ {s}
  /\ UNCHANGED <<authVars, block, net, answers, follow>>

-----------------------------------------------------------------------------
(* The listeners.                                                          *)

ForeignOf(i) == IF block[i].kind \in Edits
                  THEN screen[block[i].screen].foreignUid ELSE NoAuthor

RequestOf(i) ==
  [kind |-> block[i].kind, screen |-> block[i].screen, uuid |-> signedIn,
   foreign |-> ForeignOf(i), from |-> i, nth |-> block[i].sent + 1,
   by |-> block[i].by, at |-> block[i].at]

\* An edit from a screen that is gone changes the list under the button; a list
\* read while an edit travels may miss it.
Disturbs(i) ==
  \/ block[i].kind \in Edits /\ ~ IsOpen(block[i].screen)
  \/ block[i].kind = "getFollowing" /\ (\E r \in net : r.kind \in Edits)

\* Faulty variant: the foreign_uuid is left out while foreignUid is nil.
CallSendBlind(i) ==
  /\ Called(i)
  /\ signedIn # NoUser
  /\ net' = net \union {[RequestOf(i) EXCEPT !.foreign = {}]}
  /\ block' = [block EXCEPT ![i].sent = @ + 1]
  /\ BlurIf(Disturbs(i))
  /\ UNCHANGED <<screen, answers, follow>>

CallSend(i) ==
  /\ Called(i)
  /\ signedIn # NoUser
  /\ block[i].kind \in Edits => ForeignOf(i) # NoAuthor
  /\ net' = net \union {RequestOf(i)}
  /\ block' = [block EXCEPT ![i].sent = @ + 1]
  /\ BlurIf(Disturbs(i))
  /\ UNCHANGED <<screen, answers, follow>>

CallNobody(i) ==
  /\ Called(i)
  /\ signedIn = NoUser
  /\ UNCHANGED <<screen, block, net, answers, follow, blurred>>

\* The user or the system ends the app, or a forced unwrap meets a nil: a list
\* that fetchBio does not find in a document of the web form, foreignUid in the
\* block of an edit (CallCrash).  What is on the way to the server still arrives.
EndOfProcess ==
  /\ Relaunch
  /\ block' = <<>>
  /\ answers' = {}
  /\ screen' = [s \in DOMAIN screen |-> IF IsOpen(s)
                                    THEN [screen[s] EXCEPT !.stage = "dismissed"]
                                    ELSE screen[s]]
  /\ blurred' = {}
  /\ UNCHANGED <<net, follow>>

CallCrash(i) ==
  /\ Due(i)
  /\ signedIn # NoUser
  /\ block[i].kind \in Edits
  /\ ForeignOf(i) = NoAuthor
  /\ EndOfProcess

\* Faulty variant: the block of a dismissed screen does nothing.
CallIfShown(i) == /\ i \in DOMAIN block
                  /\ IsOpen(block[i].screen)
                  /\ CallSend(i) \/ CallNobody(i) \/ CallCrash(i)

Call(i) == i \in DOMAIN block /\ (CallSend(i) \/ CallNobody(i) \/ CallCrash(i))

-----------------------------------------------------------------------------
(* The server and the network.                                             *)

\* $addToSet and $pull.
AddToSet(list, f) == IF Holds(list, f) THEN list ELSE Append(list, f)

Pull(list, f) ==
  IF ~ Holds(list, f) THEN list
  ELSE LET n == CHOOSE i \in DOMAIN list : list[i] = f
       IN  [i \in 1 .. Len(list) - 1 |-> IF i < n THEN list[i] ELSE list[i + 1]]

ListAfter(r) ==
  CASE r.kind = "follow"   -> AddToSet(follow[r.uuid], r.foreign)
    [] r.kind = "unfollow" -> Pull(follow[r.uuid], r.foreign)
    [] OTHER -> follow[r.uuid]

\* follow, unfollow and get_follow_uuid, each at once (see UserStore).
Serve(r) ==
  /\ net' = net \ {r}
  /\ follow' = [follow EXCEPT ![r.uuid] = ListAfter(r)]
  /\ answers' = IF r.kind # "getFollowing" THEN answers
                ELSE answers \union {[of |-> "list", screen |-> r.screen,
                                      list |-> follow[r.uuid]]}
  /\ UNCHANGED <<authVars, screen, block, blurred>>

\* Nobody looks at a failed request; a lost answer is all that matters of a
\* request for the list that is lost.
Lose(r) ==
  /\ r.kind \in Edits
  /\ net' = net \ {r}
  /\ BlurIf(TRUE)
  /\ UNCHANGED <<authVars, screen, block, answers, follow>>

\* The answer to fetchData.
DeliverPosts(a) ==
  /\ a.of = "posts"
  /\ answers' = answers \ {a}
  /\ screen' = [screen EXCEPT ![a.screen].foreignUid = a.uid]
  /\ UNCHANGED <<authVars, block, net, follow, blurred>>

\* The answer to getFollowing: an empty list leaves the button alone.
DeliverList(a) ==
  /\ a.of = "list"
  /\ answers' = answers \ {a}
  /\ screen' = IF a.list = <<>> THEN screen
               ELSE [screen EXCEPT ![a.screen].button =
                       Title(a.list[Len(a.list)] = screen[a.screen].foreignUid)]
  /\ BlurIf(Misread(a.list, screen[a.screen].foreignUid))
  /\ UNCHANGED <<authVars, block, net, follow>>

LoseAnswer(a) ==
  /\ a.of = "list"
  /\ answers' = answers \ {a}
  /\ BlurIf(TRUE)
  /\ UNCHANGED <<authVars, screen, block, net, follow>>

-----------------------------------------------------------------------------
Init ==
  /\ AuthInit
  /\ screen = <<>>
  /\ block = <<>>
  /\ net = {}
  /\ answers = {}
  /\ follow \in StartFollow
  /\ blurred = {}

SignInOrOut ==
  /\ (\E u \in Users : LoginClick(u)) \/ logOutPressed
  /\ AllDismissed
  /\ UNCHANGED <<screen, block, net, answers, follow, blurred>>

Next ==
  \/ SignInOrOut
  \/ \E uid \in MaybeAuthor : Open(uid)
  \/ \E s \in DOMAIN screen : profileViewFollowBtn(s) \/ backBtn(s)
  \/ \E i \in 1 .. MaxListeners : Call(i)
  \/ EndOfProcess
  \/ \E r \in net : Serve(r) \/ Lose(r)
  \/ \E a \in answers : DeliverPosts(a) \/ DeliverList(a) \/ LoseAnswer(a)

Spec == Init /\ [][Next]_vars

\* The main queue calls every block that waits in it.
MainQueue == \A i \in 1 .. MaxListeners : WF_vars(Call(i))

FairSpec == Spec /\ MainQueue

-----------------------------------------------------------------------------
(* Properties.                                                             *)

\* Type invariant of the phone, what travels, and the lists on the server.
TypeOK ==
  /\ AuthTypeOK
  /\ screen \in Seq(Screen)
  /\ Len(screen) <= MaxScreens
  /\ block \in Seq(Block)
  /\ Len(block) = Len(told)
  /\ net \subseteq Request
  /\ answers \subseteq PostsAnswer \union ListAnswer
  /\ follow \in [Users -> Seq(People)]
  /\ \A u \in Users : NoRepeats(follow[u])
  /\ blurred \subseteq 1 .. MaxScreens

\* The follow button of an open profile tells what the server has about the
\* signed-in user and the author, once nothing is on the way that could change
\* either, unless presses or answers overlapped, something was lost, the list
\* came before the author was known, or its last entry is another person.
ButtonTruth ==
  \A s \in DOMAIN screen \ blurred :
    (IsOpen(s) /\ screen[s].foreignUid # NoAuthor
       /\ ~ EditOnTheWay /\ ~ ListOnTheWay(s)) =>
      isFollowing(s) = Holds(follow[signedIn], screen[s].foreignUid)

\* A press is carried out once, for the person who pressed.  Only a later
\* sign-in replays it, each sign-in at most once, and only after one does it
\* name somebody else.
ReplayNeedsSignIn ==
  /\ \A i \in DOMAIN block : block[i].sent <= 1 + signIns - block[i].at
  /\ \A r \in net : r.uuid # r.by => r.at < signIns

\* Every press has its request sent, whatever else the phone does meanwhile,
\* unless the process ends or the user signs out first.  Listener 1 is never one
\* of a press: the screen to press on has asked for its list before.
PressSent ==
  \A i \in 2 .. MaxListeners :
    i \in DOMAIN block ~> \/ i \notin DOMAIN block
                          \/ block[i].sent > 0
                          \/ signedIn = NoUser
=============================================================================
