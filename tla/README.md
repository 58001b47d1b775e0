# A verification of Stevens Social: server and app

The repository holds a Flask server (`src/server.py`, `src/MongoCalls.py`,
`src/Firebase_config.py`) with two faces, a JSON API for the iOS app under
`src/Stevens Social/` and a small web site ("DuckHacker"), both on one MongoDB
and on Firebase accounts.  The app itself is in Swift.  This directory holds
TLA+ models of the stateful parts of both, TLC runs on small instances, and
proofs for all instances.

## The system

| part | state | operations | what is hard |
|---|---|---|---|
| Users collection | documents `uuid, username, follow, follower, ...` | `new_user`, `follow`, `unfollow`, `add_user` | two or more MongoDB calls per request, several workers, upserts that make stubs, a registration that is a request of its own |
| Posts | documents `uuid, created_by, ...` | `new_feed_post`, `get_timeline` (reads) | a name copied between collections; a join by many queries |
| Question board | collections Interview, Solution, Experience | three web forms, one iOS route, four vote functions | read-modify-write of counters; random ids that collide |
| Web session | one dictionary per worker | `login`, `logout`, `sign` | shared by all browsers of a worker, unknown to the others, lost on restart; sign-ups that fail half way |
| Answer attachments | files under `uploads/` | `save_file`, `convert_binary` | one path per name for all workers of a machine, a directory that is made on demand and lost with the disk |
| Videos | Videos collection, S3 bucket | `post_video` | two stores, swallowed errors, keys that collide |
| iOS auth listeners | listeners kept by Firebase | registration, calls | never removed; each change of user calls all of them again |
| iOS profile | `foreignUid`, `isFollowing`, requests on the way | follow button, answers | answers out of order, requests replayed by listeners |
| iOS home feed | `postsArray`, the table's rows | fetches, answers, reloads, new posts | overlapping fetches into one array, rows that are gone |
| iOS video upload | one attachment handler, screens with a title | picker, compression, upload | the block of another screen is called; progress closes screens |
| iOS video search | `videoArray`, cells, two row markers | searches, reloads, scrolling | answers out of order, markers that outlive cells |
| Plain reads, pages, vendored pods | none of their own | | |

The components call each other through the database only: a handler of one
worker never calls another.  The iOS app calls the API asynchronously and
ignores most failures; its own code runs on one main queue, in blocks that
Firebase, Alamofire and the media library put there in an order nobody fixes.  `gunicorn` (`src/Procfile`) serves requests in worker
processes, one request at a time each; how many there are is set by the
deployment, so the models take the set `Workers` as a parameter.  MongoDB makes
one call on one document atomic and nothing more.

What makes each part correct:

* Users: the two lists of a pair tell the same story; no profile is lost or
  renamed; one document per user.
* Posts: the author's name is right for ever; the timeline is exact.
* Board: nothing submitted is replaced; votes are counted.
* Session: a name belongs to an account; what is published carries the name of
  its author (it does while the worker is not shared); half a sign-up can be
  repaired (it cannot).
* Attachments and videos: what is stored is what was sent, under its own name;
  two stores agree; nothing is lost in silence (it is, for named reasons).
* Screens: the follow button tells what the server has; a press is carried out
  once; a list holds what was asked for, once; what the user asked for last is
  what the screen shows in the end.

## The modules

| module | models | source |
|---|---|---|
| `FollowGraph` | abstract: a set of edges changed atomically by requests | |
| `Delivery` | abstract: things handed in are delivered once or lost once | |
| `UserStore` | the Users collection and its four writers | server.py 123-142, 209-236, 536-551; MongoCalls.py 11-20; RegisterViewController.swift 26-44 |
| `Feed` | Posts on top of UserStore | server.py 146-159, 316-343 |
| `QuestionBoard` | submissions and votes | MongoCalls.py 59-109, 151-277; server.py 422-432, 590-657, 700-728 |
| `WebSession` | accounts, sessions, authorship | server.py 34, 507-551, 590-657; Firebase_config.py 23-32 |
| `AuthListeners` | who is signed in on a phone, the listeners of FIRAuth | LoginViewController.swift 28-49; HomeViewController.swift 132-144; FIRAuth.h 756-774 |
| `ProfileScreen` | profile screens, follow button, requests and answers, on AuthListeners | ProfileViewController.swift 28-51, 102-116, 165-247; server.py 209-253 |
| `HomeFeed` | home screen and post form, on AuthListeners | HomeViewController.swift 17-144; CreatePostViewController.swift 26-75 |
| `AnswerUpload` | files that come with answers | server.py 590-605, 742-758; MongoCalls.py 151-169 |
| `VideoStore` | `post_video` and its two stores | server.py 435-495 |
| `VideoUpload` | the app's upload screens on VideoStore | UploadVideoViewController.swift 17-94; AttachmentHandler.swift 215-288 |
| `VideoScreen` | video search, table and playback | MainVideoViewController.swift 23-169 |
| `*Proofs` | theorems about the module of that name (`FeedProofs`: also about `UserStore`) | |
| `MC*` | instances for TLC | |

**One action per database call.**  A handler with two calls is two actions, and
the worker's request (`req`, `feed`, `voting`, `signing`) is what it remembers
between them.  A handler that makes one call is one action.  Handlers that
raise or return early before changing anything have no step: their condition is
the guard of the step that does change something, and the comment says so.
`Abort`, `FeedAbort`, `VoteAbort` and `Restart` are a killed worker, or a later
call that raises.

In the app one action is one block the main queue runs: a button, a call-back,
an answer.  A request on the way is an element of a set, so requests and answers
pass each other in any order.  What Firebase, UIKit, iOS and the network do is
modelled as far as this program relies on it.

**UserStore.**  `users[u]` is the sequence of the documents of `u` in natural
order, because `find_one` and `update` reach the first match while `get_timeline`
keeps the last.  `FollowFirst` and `FollowSecond` are the two updates of
`follow`, upserts included: with no match they insert a `Stub`.  `NewUserCheck`
and `NewUserInsert` are the two calls of `new_user`; `SignCreate` and
`SignInsert` the Firebase call and the insert of the web form, which writes no
lists (`NoField`).  `AppRegister` is the account the app creates itself.  Users
only follow others who have an account.  `contended`, `settled` and `raced` are
history variables that the properties need to say *when* something holds.

**Feed.**  A timeline request is a read of the reader's documents and one step
per followed user, in any order (the order of the list does not matter to the
properties).  `due` and `followed` remember what was owed when it began.

**QuestionBoard.**  A slot is a collection and an `_id`; an insert into a taken
slot is dropped, as the swallowed exception drops it.  `VoteRead` and
`VoteWrite` are the two halves of the four vote functions.  `submitted`, `cast`
and `overlapped` are history.

**WebSession.**  `session[w]` is the dictionary of worker `w`; `seated[b]` is
history: who logged in at browser `b`.  So is `alone`: the pairs of a browser and
a worker where the browser logged in and, since then, neither anybody else logged
in or out on this worker nor this browser on another one.  An authorship remembers
whether it was made from such a pair.  Any browser may be served by any worker.
`create_user` may fail or succeed in sending its mail; `Firebase_config.py:26`
passes the `localId` where the library wants an id token, so it may well always
fail.  The library is not in the repository, so both outcomes are kept; the
finding on the session does not need a sign-up that succeeds.
`People` are those who sign up on the site; who registers in the app has the
same account but never passes through `sign`.

**Delivery.**  What three paths promise that take a thing in at one end and hand
it on at the other in several steps that may fail: sign-ups (`SignUps` in
`WebSession`), answers with a file (`Answers` in `AnswerUpload`) and videos
(`Documents` in `VideoUpload`).  A thing is taken in once; while under way it is
delivered once or lost once; neither is taken back.  Each of the three modules
says what is under way, delivered and lost in terms of its own variables, and
has the abstract specification as a property (`SignedUpOnce`, `AnswersOnce`,
`PublishedOnce`).  Lost is what was handed in and is neither under way nor
delivered, whatever the reason, so no bookkeeping of reasons can hide a thing
that comes back.  Whether a thing that is under way ever ends is not part of it:
that is `AnswerKept` and `VideoArrives`.

**AuthListeners.**  `told[i]` is the user listener `i` was called with last; it
is due while this is not the user signed in (`Due`), which is what FIRAuth.h
promises: a call after the registration, and one per change of the user.  The
call finds whoever is signed in when it runs.  Nothing removes a listener but
`Relaunch`.  A person whose address is not verified *is* signed in, only the
tabs stay closed.  ProfileScreen and HomeFeed extend this module and keep, in
`block`, what each listener does and on which screen.

**ProfileScreen.**  `Open` is `viewDidLoad`: the answer of `fetchData` is under
way (its author, or none), and a listener for `getFollowing` is registered.
`profileViewFollowBtn` toggles the button and registers a listener; `CallSend`
is the call that sends the request, with `foreignUid` as it is *then*;
`CallCrash` is the forced unwrap of a `foreignUid` that is nil.  It ends the
process, as a kill of the app does, or the two forced unwraps of `fetchBio` on a
document without lists (lines 142-143): these are `EndOfProcess`, which may come
at any time.  The lists on
the server are sequences here, because `getFollowing` lets the last entry
decide.  Whoever opens a screen is one person at a time: screens are dismissed
before the next is opened or the user changes.  `blurred` is history: the open
screens whose button nobody can expect to be right, with the reason given where
they are added (`BlurIf`).

**HomeFeed.**  A fetch is three layers: a listener, a timeline, one photo per
post; only the last appends.  `owed` and `calm` are history for `FeedExact`.
Screens shown before the newest one live on unseen, so their answers and arrays
are left out while their listeners stay.  `reloads` counts the reloads in the
main queue: between the emptying of the array and the next reload the table has
`rows` that the array has not, and `ScrollBeyond` ends the app.  The other ends
of the app (a kill, `URL(string:)!` and `NSData(contentsOf:)!` in `cellForRowAt`,
`array!` in `fetchData`) are `EndOfProcess`, at any time.

**AnswerUpload.**  The calls of `save_file` on the disk are actions: look,
`Mkdir`, `Open` (which empties the file), `Write` piece by piece at the writer's
own offset, `Read`, then `Insert`.  A piece is the id of the upload that wrote
it.  `mixed` is history: uploads that overlapped another of their name between
open and read.  A form without a chosen file is dropped by the handler: browsers
send the file part always, with an empty name.

**VideoStore, VideoUpload.**  The document goes first, then the object; either
may fail alone (`failed`), and a later object replaces one of its key.  The app
sends fresh names, other clients send their own (`Keys`).  In the app the one
`AttachmentHandler` has one `videoPickedBlock`; `selectFilesBtn` sets it, the end
of a compression calls it, and the title is read in the screen of the *block*.
`Progress` dismisses what is on top of that screen.

**VideoScreen.**  Heights are numbers, a row is full when more than 95 percent
of it show (`Full`).  `Acted` and `LastActed` say what the loop over the visible
rows in `scrollViewDidScroll` does with its two markers: it acts on a row that
is full or not unless this row is the one it acted on last.  The loop as it is
written, round by round, is in `MCVideoScreen`, where `LoopAgrees` compares the
two for all sets of up to four rows, all markers and all cells that play.
`TwoFullFit` is when two rows can be full at once: each may miss less than a
twentieth of its height, so a table of somewhat less than two rows is enough.
`Scroll` fills new cells from `videoArray`, which an
answer may have replaced before the table was reloaded.  `lost`, `overlapped`
and `alone` are history.

## The runs

| run | instance | states | what it shows |
|---|---|---|---|
| `user_store` | 2 users, 3 workers, requests of one about the other | 51,420 | `SettledSymmetric`, `UniqueUnlessRaced`, `ProfilesKept`, refinement of `FollowGraph` by either list |
| `feed` | 2 users, 2 workers, 2 posts, the reader may follow itself too | 1.65 million | `AuthorNamed`, `TimelineExact` |
| `question_board` | 2 workers, 1 id, 2 contents, 2 submissions per collection, 3 votes | 369,677 | `CountBounds`, `ExactUnlessOverlapped`, `ContentKept` |
| `web_session` | 2 people, 3 browsers, 2 workers | 25,432 | `NamesHaveAccounts`, `AttributionUnlessShared`, `SignedUpOnce` |
| `profile_screen` | 2 users of one phone, one unverified; 2 screens, 3 listeners, 2 sign-ins | 655,659 | `ButtonTruth`, `ReplayNeedsSignIn`, `PressSent` |
| `home_feed` | 2 users, 2 posts, 2 home screens, 3 listeners, 2 sign-ins | 284,210 | `FeedExact`, `RowsTold`, `RepostNeedsSignIn`, `RowsCatchUp` |
| `answer_upload` | 2 workers, 3 uploads of one name, 1 or 2 pieces each | 143,354 | `OwnFile`, `MkdirLosesFew`, `AnswerKept`, `AnswersOnce` |
| `video_upload` | 2 screens, 2 videos, 2 workers, 2 foreign keys, one without a video suffix | 275,616 | `OwnTitle`, `StoresAgree`, `VideoArrives`, `PublishedOnce` |
| `video_screen` | 2 searches of up to 4 results, a row of 4 units, a table of 6 | 10,964 | `CellsMatch`, `AtMostOnePlays`, `SearchShown` |
| `vote_lost` | 2 workers | violated | finding 1 |
| `experience_votable` | 1 worker | violated | finding 2 |
| `web_attribution` | 2 browsers, 1 worker | violated | finding 3 |

Every property of a passing run has a faulty variant of a modelled definition
(`\* Faulty variant:` above it) under which TLC finds it violated.

**Bounds.**  Three workers let two opposite requests on one pair overlap while a
third request of either kind, or a registration, runs through; two users are the
two ends of an edge.  A pair in each direction only doubles independent work.
In `feed` the reader follows two authors, itself among them, so the join takes
two queries that others' steps come between; two posts are one before and one
during the join.  In `question_board` one id makes *every* second submission of
a collection collide, and `MaxVotes = 3` with two voters gives the pattern where
a late writer throws back a counter that others raised: `CountBounds` says "not
below one" because it can fall back to one.  `MaxSubmissions`, `MaxVotes` and
`MaxPosts` bound history counters and the length of `posts`.

In `web_session` three browsers let one be alone on a worker while two share the
other one, or come back to a worker two others have used; two people are the
right and the wrong name, and two sign-ups that can fail beside each other.

In `profile_screen` three listeners are a list and two presses on one screen, or
a list and a press on the first screen and the list of the second one; the lists
are empty, or end with another person than the author, which is when the loop of
`getFollowing` misreads them.  Two sign-ins replay a press once, for the same
person or another one, and one person whose address is not verified makes it
happen with the tabs closed.  `home_feed` has what `viewDidLoad` and
`viewDidAppear` fetch and one fetch or post more.  In `answer_upload` one name
makes all uploads compete; with three uploads a worker that lost its first one
can upload again.  In `video_upload` the two videos are both picked, on one
screen or two, or are sent by others, under one key or two.  In `video_screen`
a full row fits and two do not; there are positions without a full row, a
scroll can jump over rows, and a pull of `Bounce = 3` beyond an end leaves one
row alone.

*Deadlock.*  The screens and the uploads are bounded by counters (`MaxScreens`,
`MaxListeners`, `MaxUploads`, ...), so a behaviour may end; `question_board`,
`profile_screen`, `home_feed`, `answer_upload` and `video_screen` have
`CHECK_DEADLOCK FALSE` for this reason and no other.  The rest is checked for
deadlock.

**Fairness.**  The safety runs of the server assume none: a worker can be killed
at any step and a client need not retry.  The liveness properties use weak
fairness of exactly what something outside the program goes on with, per actor
or, for exports and requests on the way, of the whole finite set:

* `PressSent`, `RowsCatchUp`: the main queue calls each block it holds (it is
  first in, first out); in `RowsCatchUp` each request of Alamofire is also
  answered or fails, which its time-out sees to.
* `AnswerKept`: a worker goes on with its upload.  `Work` is its next step, which
  for `os.mkdir` may be the exception (`MkdirRaises`).  Being killed, a disk that
  fails and an insert that fails are `Lose`, outside `Work`: nothing forces them,
  and each ends what is in work.
* `VideoArrives`: an export session ends, with a file or without; a request is
  received or lost; a worker goes on or dies.
* `SearchShown`: each search is answered or fails, and the main queue reloads.

Users are never assumed to do anything.  So each of these properties names the
ways out (the app ended, the answer was lost, a write failed), and says that
there are no others.

**View.**  The `feed` run leaves `contended` and `settled` out of its states:
they are history of UserStore that no guard reads, and the properties of the
run do not use them beyond their types (which `user_store` checks).

**Symmetry** is over values no definition orders: workers, ids, contents,
browsers, people.  The runs with a liveness property use none.

## The findings

1. **Votes get lost** (`MongoCalls.py:198`).  The count is read, and written
   back plus one in another call.  Two overlapping votes count once; the
   docstring promises "increase count of votes by 1".
2. **Experiences from the app cannot be voted on** (`server.py:431`).  They are
   stored without the two counters, so the vote functions raise on `int(None)`.
3. **The session is shared** (`server.py:34`).  `session=Session()` is one
   dictionary per process, so one person publishes under another's name.

## The proofs

`tlapm` checks every leaf.  The constants are arbitrary: any users, workers,
names, ids, contents, bounds; the assumptions only keep the sentinels
(`NoField`, `NoDoc`, `Nobody`, `NoUser`, `NoAuthor`, ...) apart from real
values, the pairs within the users, the bounds natural numbers, and the lists at
the start free of repetitions, as `$addToSet` keeps them.

* **FeedProofs**, the Users collection.  `TypeCorrect` is inductive.  `SettledSymmetry` needs
  more than the property (`GraphInv`): a request in flight that nothing opposed,
  or whose pair is settled, sees the first list already in the state its own
  kind leaves it in (`Agree`), and all requests in flight on the pair of an
  unopposed one are of its kind (`Alike`).  With this each second update puts
  the two lists in step, and the step that begins a request takes its pair out
  of `settled`.  `OneDocument` (`UniqueInv`): while a worker will insert for a
  uuid that is not `raced`, this uuid has no document (`NoDocYet`), and
  documents and requests belong to accounts (`KnownUuids`), so the new uuid of
  the web form has no document either.  `NamesKept` is an action property from the types.
  `OutRefinement` and `InRefinement` show that each step maps to a step of
  `FollowGraph` or to a stutter: for the `follow` lists the request takes
  effect when it is received, for the `follower` lists when its second update
  runs.
* **FeedProofs**, posts and timelines.  `StoreUndisturbed`: next to the handlers
  of posts the Users collection behaves as it does alone (`FeedSpec => Spec`),
  so all of the above holds in the whole server (`StoreInServer`).  `NamesFresh`
  strengthens `AuthorNamed` by the posts about to be inserted: their name is
  also the one of the first document.  `TimelineComplete` proves `TimelineExact`.
  A timeline in work is on course (`OnCourse`): a post that is owed was found,
  or its author is still to be asked, and everything found is by somebody
  followed.  It needs `UniqueInv`, because the loop keeps the list of the
  reader's last document, which is the first one only if there is one.
* **QuestionBoardProofs.**  `CountsBounded` and `CountsExact` share one
  invariant: a vote in flight will write at most the votes cast plus one, and
  on a counter nobody overlapped there is one vote in flight and it is up to
  date.  `SubmissionsKept` needs that a vote writes only into a document that
  exists.
* **WebSessionProofs.**  `AccountsBehindNames` adds that a sign-up between its
  two calls has its account.  `AttributedUnlessShared` (`AloneInv`): who is alone
  on a worker finds there the own name or, after a restart, none; a login or
  logout ends the pairs it could disturb (`OthersAlone`).
  `SignUpRefinement` (`OnceInv`): a person signs up at one worker at most, and
  whoever does has no document yet; so each step takes one person in, or ends
  one sign-up, or leaves the three sets of Delivery alone.
* **ProfileScreenProofs.**  `ReplayNeedsSignInAlways` counts: a block whose call
  is due owes one more request than it sent, and press and sign-ins pay for both
  (`Debts`).  `ButtonTruthAlways` says where things are for the one open screen
  (`ButtonInv`): while its list is on the way nobody has pressed the button, and
  no edit travels beside the request for the list (`Untouched`, `Travelling`);
  a press that waits has agreed with the button and is alone (`Pressed`); after
  that, all edits on the way are the one the button shows (`Sent`); and with
  nothing on the way the button is right (`Settled`).  The list is asked for
  once per screen (`OneList`), and the author comes in at most one answer
  (`OneAuthor`), else an answer could come a second time.
* **HomeFeedProofs.**  `FeedExactAlways`: an entry is in one place, its fetch
  behind it (`OnePlace`), and what is owed is there or to come (`Accounted`).
  `RepostNeedsSignInAlways` counts like the one above.  `RowsToldAlways` is
  inductive with the types: each answer that changes the array adds a reload.
* **AnswerUploadProofs.**  `DirectoryRace` (`MkdirInv`): before the directory
  exists nobody has raised, and one worker is past `os.mkdir` for good.
  `OwnFileStored` (`FileInv`): up to its read, the file of an upload that is not
  `mixed` holds what this upload wrote, and two writers of one name know of each
  other.  `AnswerRefinement`: an upload has a number of its own, is with one
  worker, and is not stored while it is there (`Places`); so a step moves one
  number, or loses those it takes away.
* **VideoUploadProofs.**  `TitlesKept`: a video that was not taken is compressed
  while the block is the one of its screen.  `StoresInAgreement`: each video has
  one id from the picker to the stores (`IdInv`), and who is about to put an
  object has inserted its document or failed to (`AgreeInv`).
  `DocumentRefinement`: a video is being compressed, requested, waiting for its
  insert, or published, and in one of these places only (`Places`), so a step
  moves one id, or loses those it takes away.
* **VideoScreenProofs.**  `ScreenTypeCorrect` bounds the scroll position by the
  rows of the table.  `CellsMatchAlways` is inductive with the types: a scroll
  mixes two searches only while a reload waits, which then makes all cells anew.
  `AtMostOnePlaysAlways` (`OnePlays`): besides, the row in
  `aboutToBecomeInvisibleCell` does not play, so that the row the loop will not
  stop again is not one that needs stopping.  A scroll then leaves at most the
  one full row playing (`FullAlone`), and the marker is the last row that is not
  full (`MaxRow`).

**Model-checked only:** the liveness properties (`PressSent`, `RowsCatchUp`,
`AnswerKept`, `VideoArrives`, `SearchShown`), which need reasoning about fairness
and enabled actions, and `LoopAgrees`, which compares a fold with its closed form
and would need an induction over the rows; it is evaluated for every set of up
to four rows, the most the run has.  Every invariant, action property and
refinement that a passing run checks is also a theorem.

## What the models say about the app

Behaviour a reader of the Swift code may not expect, and which the models have:

* A press on Follow before the author is known, or on the profile of somebody
  without posts, ends the app (`CallCrash`); the button itself has toggled.
* Dismissed screens stay alive through their listeners.  After a sign-in they
  send every old press again, for whoever signed in.
* `viewDidLoad` and `viewDidAppear` both fetch, and the array is emptied once:
  on the first visit each post is there twice.
* Between the emptying of an array and the next reload the table asks for rows
  that are gone (`ScrollBeyond` in `HomeFeed`, also `Scroll` of `VideoScreen`).
* The title of a video is read when its compression ends, so an edit meanwhile
  counts, and the select button of another screen decides which title it is.
* Where two full rows fit, both may play; the first row is not started before
  another one was full; and a row that plays goes on when the tab is left.
* An answer form without a chosen file is dropped in silence.
* Half a sign-up stays half: the account refuses a second one, and the login needs
  the document that is missing (`SignedUpOnce`).

## Not modelled

* `like`, `unlike`, `delete_post` (server.py 271-313) use `ObjectId`, which is
  never imported: they raise before they change anything.
* Plain reads, page rendering, YouTube search: no state.  `download_file` has a
  route without its parameter and cannot be called; the second function on
  `/api/users` and the second one on `/` are shadowed by the first.
* Emails, photos, texts, times, passwords: no property tells them apart.
* Users has no unique index, so MongoDB may let two concurrent *upserts* of one
  uuid both insert.  The model takes an upsert as one step, which it is when the
  document exists; the other case is listed among the hazards.
* `ExperienceViewController`, `SearchDisplayUserViewController`, `CreateExpViewController`
  and `UserProfileViewController`: fetches into arrays and presses behind
  auth listeners in the same patterns as `HomeFeed`, `VideoScreen` and the post
  form, with no state of their own that other parts read.
* The iOS shell (tabs, segues, launch), alerts and layout: no state.
* Everything under `Pods/` and the Objective-C and C++ files of the repository:
  libraries of others.  What the app relies on of Firebase's listeners is in
  `AuthListeners`, from the header that documents it.

## Plan

Done: all modules of the table above with their runs, and proofs of every safety
property.  Left: the race of two upserts inside MongoDB (server.py 219) as a
second outcome of `PutFirst` in `UserStore`; the properties then need one more
exception, and the proofs a case.
