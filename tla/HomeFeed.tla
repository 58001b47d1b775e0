------------------------------ MODULE HomeFeed -------------------------------
(***************************************************************************)
(* The home screen of the iOS app and the form for a new post.             *)
(*                                                                         *)
(* viewDidLoad and every viewDidAppear fetch the timeline: through an auth *)
(* listener, then a request for the timeline, then one request per post    *)
(* for the photo of its author; only the answer to the last appends the    *)
(* post to postsArray.  The array is emptied when the screen appears, not  *)
(* when an answer comes, so the answers of all fetches under way add up.   *)
(* The table asks the array for rows it was told of by an earlier reload.  *)
(*                                                                         *)
(* A login and a successful post show a new home screen.  The old ones     *)
(* live on with their listeners but are never seen again, so only the      *)
(* newest screen is kept in the state.                                     *)
(***************************************************************************)
EXTENDS AuthListeners, FiniteSets

CONSTANTS Posts,        \* posts on the server
          Timeline,     \* user -> posts of the user's timeline
          MaxHomes,     \* bound on the home screens of one run of the app
          MaxListeners  \* bound on the listeners of one run of the app

ASSUME PostsAssumption ==
  /\ IsFiniteSet(Posts)
  /\ Timeline \in [Users -> SUBSET Posts]
  /\ MaxHomes \in Nat
  /\ MaxListeners \in Nat

VARIABLES home,         \* number of home screens shown so far
          stage,        \* stage of the newest one
          block,        \* listener -> what its block does
          waiting,      \* requests of the newest screen not yet answered
          postsArray,   \* entries of postsArray, their order left out
          rows,         \* rows the table was told of at its last reload
          reloads       \* reloads waiting in the main queue

(***************************************************************************)
(* History.                                                                *)
(*   owed  entries that were still to come when the array was last emptied *)
(*         and those of the fetches begun since                            *)
(*   calm  nothing was lost and no memory warning came since then          *)
(***************************************************************************)
VARIABLES owed, calm

screenVars == <<stage, waiting, postsArray, rows, reloads, owed, calm>>
vars == <<authVars, home, block, screenVars>>

\* by, at and sent are history, as in ProfileScreen.
Block == [kind : {"fetch", "post"}, home : 0 .. MaxHomes, by : Users,
          at : 0 .. MaxSignIns, sent : Nat]

\* A post is appended once by each fetch that finds it.
Entry == [from : 1 .. MaxListeners, post : Posts]

TimelineGet == [of : {"timeline"}, from : 1 .. MaxListeners]
PhotoGet    == [of : {"photo"}, entry : Entry]

Entries(i) == {[from |-> i, post |-> p] : p \in Timeline[signedIn]}

\* Fetches of the newest screen whose listener has not been called.
DueFetches == {i \in DOMAIN block : /\ block[i].kind = "fetch"
                                    /\ block[i].home = home
                                    /\ Due(i)}

\* Entries that answers may still append.
ToCome ==
  (UNION {Entries(i) : i \in DueFetches})
    \union (UNION {Entries(r.from) : r \in {q \in waiting : q.of = "timeline"}})
    \union {r.entry : r \in {q \in waiting : q.of = "photo"}}

-----------------------------------------------------------------------------
(* The screens.                                                            *)

AddBlock(kind) ==
  /\ Len(block) < MaxListeners
  /\ AddListener
  /\ block' = Append(block, [kind |-> kind, home |-> home, by |-> signedIn,
                             at |-> signIns, sent |-> 0])

\* A new home screen, or none, takes the place of the one in the state.
Replace(next) ==
  /\ stage' = next
  /\ waiting' = {}
  /\ postsArray' = {}
  /\ rows' = 0
  /\ reloads' = 0
  /\ owed' = {}
  /\ calm' = TRUE

\* Login with the segue goToHome for verified users.
SignIn(u) ==
  /\ LoginClick(u)
  /\ home < MaxHomes
  /\ home' = IF u \in Verified THEN home + 1 ELSE home
  /\ Replace(IF u \in Verified THEN "shown" ELSE "none")
  /\ UNCHANGED block

SignOut ==
  /\ logOutPressed
  /\ stage \in {"visible", "covered"}
  /\ Replace("none")
  /\ UNCHANGED <<home, block>>

\* fetchData of viewDidLoad.
viewDidLoad ==
  /\ stage = "shown"
  /\ stage' = "loaded"
  /\ AddBlock("fetch")
  /\ owed' = owed \union Entries(Len(block'))
  /\ UNCHANGED <<signedIn, atHome, signIns, home, waiting, postsArray, rows,
                 reloads, calm>>

\* Faulty variant: the array is not emptied.
AppearFull ==
  /\ stage \in {"loaded", "covered"}
  /\ stage' = "visible"
  /\ AddBlock("fetch")
  /\ owed' = ToCome \union Entries(Len(block'))
  /\ calm' = TRUE
  /\ UNCHANGED <<signedIn, atHome, signIns, home, waiting, postsArray, rows,
                 reloads>>

\* The array is emptied, the table is not told; what is to come is owed still.
viewDidAppear ==
  /\ stage \in {"loaded", "covered"}
  /\ stage' = "visible"
  /\ postsArray' = {}
  /\ AddBlock("fetch")
  /\ owed' = ToCome \union Entries(Len(block'))
  /\ calm' = TRUE
  /\ UNCHANGED <<signedIn, atHome, signIns, home, waiting, rows, reloads>>

\* Another tab or screen is shown over this one.
Cover ==
  /\ stage = "visible"
  /\ stage' = "covered"
  /\ UNCHANGED <<authVars, home, block, waiting, postsArray, rows, reloads, owed,
                 calm>>

\* confirmPost registers a listener and shows a new home screen.
confirmPost ==
  /\ stage = "covered"
  /\ home < MaxHomes
  /\ AddBlock("post")
  /\ home' = home + 1
  /\ Replace("shown")
  /\ UNCHANGED <<signedIn, atHome, signIns>>

didReceiveMemoryWarning ==
  /\ stage \in {"visible", "covered"}
  /\ postsArray' = {}
  /\ calm' = FALSE
  /\ UNCHANGED <<authVars, home, block, stage, waiting, rows, reloads, owed>>

-----------------------------------------------------------------------------
(* Listeners, answers, reloads.                                            *)

\* The request of an older screen changes nothing that is seen.
Call(i) ==
  /\ i \in DOMAIN block
  /\ Called(i)
  /\ block' = IF signedIn = NoUser THEN block ELSE [block EXCEPT ![i].sent = @ + 1]
  /\ waiting' = IF i \in DueFetches /\ stage # "none"
                  THEN waiting \union {[of |-> "timeline", from |-> i]}
                  ELSE waiting
  /\ UNCHANGED <<home, stage, postsArray, rows, reloads, owed, calm>>

\* Faulty variant: the photo of the reader is asked for, and the post forgotten.
TimelineAnswerReader(r) ==
  /\ r.of = "timeline"
  /\ waiting' = (waiting \ {r})
                  \union {[of |-> "photo", entry |-> [from |-> r.from, post |-> u]] :
                           u \in {signedIn}}
  /\ UNCHANGED <<authVars, home, block, stage, postsArray, rows, reloads, owed,
                 calm>>

\* One request for a photo per post.
TimelineAnswer(r) ==
  /\ r.of = "timeline"
  /\ waiting' = (waiting \ {r})
                  \union {[of |-> "photo", entry |-> e] : e \in Entries(r.from)}
  /\ UNCHANGED <<authVars, home, block, stage, postsArray, rows, reloads, owed,
                 calm>>

TimelineLost(r) ==
  /\ r.of = "timeline"
  /\ waiting' = waiting \ {r}
  /\ calm' = FALSE
  /\ UNCHANGED <<authVars, home, block, stage, postsArray, rows, reloads, owed>>

\* Faulty variant: the reload is left to the end of the loop.
PhotoAnswerQuiet(r) ==
  /\ r.of = "photo"
  /\ waiting' = waiting \ {r}
  /\ postsArray' = postsArray \union {r.entry}
  /\ UNCHANGED <<authVars, home, block, stage, rows, reloads, owed, calm>>

\* Faulty variant: the table is reloaded at once, before the post is appended.
PhotoAnswerEarly(r) ==
  /\ r.of = "photo"
  /\ waiting' = waiting \ {r}
  /\ postsArray' = postsArray \union {r.entry}
  /\ rows' = Cardinality(postsArray)
  /\ UNCHANGED <<authVars, home, block, stage, reloads, owed, calm>>

PhotoAnswer(r) ==
  /\ r.of = "photo"
  /\ waiting' = waiting \ {r}
  /\ postsArray' = postsArray \union {r.entry}
  /\ reloads' = reloads + 1
  /\ UNCHANGED <<authVars, home, block, stage, rows, owed, calm>>

\* The table is reloaded without the post.
PhotoLost(r) ==
  /\ r.of = "photo"
  /\ waiting' = waiting \ {r}
  /\ reloads' = reloads + 1
  /\ calm' = FALSE
  /\ UNCHANGED <<authVars, home, block, stage, postsArray, rows, owed>>

reloadData ==
  /\ reloads > 0
  /\ reloads' = reloads - 1
  /\ rows' = Cardinality(postsArray)
  /\ UNCHANGED <<authVars, home, block, stage, waiting, postsArray, owed, calm>>

\* The user or the system ends the app, or a forced unwrap meets a nil: the
\* address or the data of the photo in cellForRowAt, a post without `likes' in
\* fetchData.
EndOfProcess ==
  /\ Relaunch
  /\ block' = <<>>
  /\ Replace("none")
  /\ UNCHANGED home

\* cellForRowAt for a row that the array does not have.
ScrollBeyond ==
  /\ stage = "visible"
  /\ rows > Cardinality(postsArray)
  /\ EndOfProcess

-----------------------------------------------------------------------------
Init ==
  /\ AuthInit
  /\ home = 0
  /\ block = <<>>
  /\ stage = "none"
  /\ waiting = {}
  /\ postsArray = {}
  /\ rows = 0
  /\ reloads = 0
  /\ owed = {}
  /\ calm = TRUE

Answer(r) ==
  \/ TimelineAnswer(r) \/ PhotoAnswer(r)
  \/ TimelineLost(r) \/ PhotoLost(r)

Next ==
  \/ \E u \in Users : SignIn(u)
  \/ SignOut
  \/ viewDidLoad \/ viewDidAppear \/ Cover \/ confirmPost
  \/ didReceiveMemoryWarning
  \/ \E i \in 1 .. MaxListeners : Call(i)
  \/ \E r \in waiting : Answer(r)
  \/ reloadData
  \/ ScrollBeyond \/ EndOfProcess

Spec == Init /\ [][Next]_vars

\* The main queue runs what waits in it, and a request is answered or times
\* out.
Progress ==
  /\ \A i \in 1 .. MaxListeners : WF_vars(Call(i))
  /\ WF_vars(\E r \in waiting : Answer(r))
  /\ WF_vars(reloadData)

FairSpec == Spec /\ Progress

-----------------------------------------------------------------------------
(* Properties.                                                             *)

\* Type invariant of the home screen and the listeners.
TypeOK ==
  /\ AuthTypeOK
  /\ home \in 0 .. MaxHomes
  /\ stage \in {"none", "shown", "loaded", "visible", "covered"}
  /\ block \in Seq(Block)
  /\ Len(block) = Len(told)
  /\ waiting \subseteq TimelineGet \union PhotoGet
  /\ postsArray \subseteq Entry
  /\ rows \in Nat
  /\ reloads \in Nat
  /\ owed \subseteq Entry
  /\ calm \in BOOLEAN

\* The feed shows each post once for every fetch that was under way when the
\* array was last emptied or began since, never more often and never a post
\* foreign to the timeline of the signed-in user; once all answers are in,
\* not less often either, unless some were lost.
FeedExact ==
  stage # "none" =>
    /\ postsArray \subseteq owed
    /\ \A e \in postsArray : e.post \in Timeline[signedIn]
    /\ postsArray \intersect ToCome = {}
    /\ (calm /\ ToCome = {}) => postsArray = owed

\* With no reload to come, the table's rows are the posts of the array, unless the
\* array is empty: an answer never leaves the two apart, and the table asks for
\* rows that are gone only between an emptying and the reload of the next answer.
RowsTold ==
  reloads = 0 => postsArray = {} \/ rows = Cardinality(postsArray)

\* Only a sign-in makes a press on the post form post the text again.
RepostNeedsSignIn ==
  \A i \in DOMAIN block : block[i].sent <= 1 + signIns - block[i].at

\* The table does not ask for rows the array has lost for good: it is told of
\* the new size, unless it was a memory warning or a lost answer that emptied
\* it, the timeline is empty, or the screen is gone.
RowsCatchUp ==
  rows > Cardinality(postsArray) ~>
    \/ rows <= Cardinality(postsArray)
    \/ ~ calm
    \/ stage = "none"
    \/ Timeline[signedIn] = {}
=============================================================================
