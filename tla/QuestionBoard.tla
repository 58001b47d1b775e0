---------------------------- MODULE QuestionBoard ----------------------------
(***************************************************************************)
(* The question board of the web site: the collections Interview, Solution *)
(* and Experience that MongoCalls.py writes for the forms of server.py,    *)
(* and the votes on solutions and experiences.                             *)
(*                                                                         *)
(* A submission draws a random _id (0 to 9999) and inserts; an insert with *)
(* an _id that is taken raises, and MongoCalls.py swallows the exception.  *)
(* A vote reads the counter of a document, and a second call sets it to    *)
(* the value read plus one; the workers' calls interleave.                 *)
(***************************************************************************)
EXTENDS Naturals, FiniteSetsExt

CONSTANTS Workers,          \* gunicorn workers
          Ids,              \* what randint draws an _id from
          Contents,         \* what users submit
          NoDoc,            \* a free _id
          NoField,          \* the missing counters of a document
          MaxSubmissions,   \* bound: submissions per collection
          MaxVotes          \* bound: votes cast before a vote begins

ASSUME BoundsAssumption == MaxSubmissions \in Nat /\ MaxVotes \in Nat

Tables == {"Interview", "Solution", "Experience"}

Slots == Tables \X Ids
Dirs == {"voteup", "votedown"}

Doc == [content : Contents, count : [Dirs -> Nat] \union {NoField}]

ASSUME NoDocAssumption == NoDoc \notin Doc
ASSUME NoFieldAssumption == NoField \notin [Dirs -> Nat]

VARIABLES docs,        \* slot -> document
          voting,      \* worker -> vote between its read and its write
          submitted,   \* history: submissions answered as done, by collection
          cast,        \* history: votes written, by slot and direction
          overlapped   \* history: counters two votes were in flight for

vars == <<docs, voting, submitted, cast, overlapped>>

Counters == Slots \X Dirs

NoVote == [new |-> 0]
Vote == [slot : Slots, dir : Dirs, new : Nat \ {0}]

Voting(w, s, d) == voting[w] # NoVote /\ voting[w].slot = s /\ voting[w].dir = d

HasCounters(s) == docs[s] # NoDoc /\ docs[s].count # NoField

Count(s, d) == docs[s].count[d]

\* insert of a document into a slot, and $set of one counter.
Put(s, doc) == [docs EXCEPT ![s] = doc]
SetCount(s, d, n) == [docs EXCEPT ![s].count[d] = n]

TotalVotes == MapThenSumSet(LAMBDA k : cast[k], Counters)

-----------------------------------------------------------------------------
(* Submissions.                                                            *)

\* Faulty variant: a document without the counter of votes against it.
ZeroUpOnly == [d \in {"voteup"} |-> 0]

Zero == [d \in Dirs |-> 0]

Answered(t) == /\ submitted[t] < MaxSubmissions
               /\ submitted' = [submitted EXCEPT ![t] = @ + 1]

\* Faulty variant: save instead of insert, a taken _id is overwritten.
SubmitOverwrites(t, id, c) ==
  /\ Answered(t)
  /\ docs' = Put(<<t, id>>, [content |-> c, count |-> Zero])
  /\ UNCHANGED <<voting, cast, overlapped>>

\* A form is submitted: the page is the same whether the insert raised or not.
Submit(t, id, c) ==
  /\ Answered(t)
  /\ docs' = IF docs[<<t, id>>] = NoDoc
               THEN Put(<<t, id>>, [content |-> c, count |-> Zero])
               ELSE docs
  /\ UNCHANGED <<voting, cast, overlapped>>

insert_questions(id, c) == Submit("Interview", id, c)
insert_solution(id, c) == Submit("Solution", id, c)
insert_experience(id, c) == Submit("Experience", id, c)

\* A file part whose file name is empty, as browsers send it when no file was
\* chosen: no insert, the same page.
NoFileChosen(t) ==
  /\ Answered(t)
  /\ UNCHANGED <<docs, voting, cast, overlapped>>

\* The three forms.
add_question == \E id \in Ids, c \in Contents : insert_questions(id, c)

handle_data ==
  \/ \E id \in Ids, c \in Contents : insert_solution(id, c)
  \/ NoFileChosen("Solution")

experience ==
  \/ \E id \in Ids, c \in Contents : insert_experience(id, c)
  \/ NoFileChosen("Experience")

\* The iOS app's route writes `votes' instead of the counters.
\* With a taken _id it raises, the app gets an error and nothing changes.
new_experience_post(id, c) ==
  /\ docs[<<"Experience", id>>] = NoDoc
  /\ Answered("Experience")
  /\ docs' = Put(<<"Experience", id>>, [content |-> c, count |-> NoField])
  /\ UNCHANGED <<voting, cast, overlapped>>

-----------------------------------------------------------------------------
(* Votes: find_one and update_one of the vote functions.                   *)

\* Without the document or its counter, int(None) raises and nothing changes.
VoteRead(w, s, d) ==
  /\ voting[w] = NoVote
  /\ HasCounters(s)
  /\ TotalVotes < MaxVotes
  /\ voting' = [voting EXCEPT ![w] = [slot |-> s, dir |-> d, new |-> Count(s, d) + 1]]
  /\ overlapped' = IF \E v \in Workers : Voting(v, s, d)
                     THEN overlapped \union {<<s, d>>}
                     ELSE overlapped
  /\ UNCHANGED <<docs, submitted, cast>>

increase_count(w, id) == VoteRead(w, <<"Solution", id>>, "voteup")
decrease_count(w, id) == VoteRead(w, <<"Solution", id>>, "votedown")
ex_increase_count(w, id) == VoteRead(w, <<"Experience", id>>, "voteup")
ex_decrease_count(w, id) == VoteRead(w, <<"Experience", id>>, "votedown")

\* The two forms; a third value of the button would change nothing.
votesUp(w) == \E id \in Ids : increase_count(w, id) \/ decrease_count(w, id)
exvotesUp(w) == \E id \in Ids : ex_increase_count(w, id) \/ ex_decrease_count(w, id)

\* Faulty variant: the $set replaces both counters.
VoteWriteBoth(w) ==
  /\ voting[w] # NoVote
  /\ LET s == voting[w].slot
         d == voting[w].dir
     IN  /\ docs' = [docs EXCEPT ![s].count = [Zero EXCEPT ![d] = voting[w].new]]
         /\ cast' = [cast EXCEPT ![<<s, d>>] = @ + 1]
  /\ voting' = [voting EXCEPT ![w] = NoVote]
  /\ UNCHANGED <<submitted, overlapped>>

VoteWrite(w) ==
  /\ voting[w] # NoVote
  /\ LET s == voting[w].slot
         d == voting[w].dir
     IN  /\ docs' = SetCount(s, d, voting[w].new)
         /\ cast' = [cast EXCEPT ![<<s, d>>] = @ + 1]
  /\ voting' = [voting EXCEPT ![w] = NoVote]
  /\ UNCHANGED <<submitted, overlapped>>

\* The worker is killed between the two calls, or the second one raises.
VoteAbort(w) ==
  /\ voting[w] # NoVote
  /\ voting' = [voting EXCEPT ![w] = NoVote]
  /\ UNCHANGED <<docs, submitted, cast, overlapped>>

-----------------------------------------------------------------------------
Init ==
  /\ docs = [s \in Slots |-> NoDoc]
  /\ voting = [w \in Workers |-> NoVote]
  /\ submitted = [t \in Tables |-> 0]
  /\ cast = [k \in Counters |-> 0]
  /\ overlapped = {}

Submission ==
  \/ add_question
  \/ handle_data
  \/ experience
  \/ \E id \in Ids, c \in Contents : new_experience_post(id, c)

VoteStep(w) ==
  \/ votesUp(w)
  \/ exvotesUp(w)
  \/ VoteWrite(w)
  \/ VoteAbort(w)

Next == Submission \/ \E w \in Workers : VoteStep(w)

Spec == Init /\ [][Next]_vars

-----------------------------------------------------------------------------
(* Properties.                                                             *)

\* Type invariant: free ids, documents with and without counters, votes.
TypeOK ==
  /\ docs \in [Slots -> Doc \union {NoDoc}]
  /\ voting \in [Workers -> Vote \union {NoVote}]
  /\ submitted \in [Tables -> Nat]
  /\ cast \in [Counters -> Nat]
  /\ overlapped \subseteq Counters

\* However the reads and writes of the voters interleave, a counter never
\* shows more votes than were cast, and once a vote was cast it never falls
\* back to zero (it may fall back to one).
CountBounds ==
  \A s \in Slots, d \in Dirs :
    HasCounters(s) =>
      /\ Count(s, d) <= cast[<<s, d>>]
      /\ cast[<<s, d>>] > 0 => Count(s, d) > 0

\* A counter for which no two votes were ever in flight together is exact:
\* votes on other documents, votes in the other direction on the same
\* document, killed votes and submissions that draw its _id do not disturb it.
ExactUnlessOverlapped ==
  \A s \in Slots, d \in Dirs :
    (HasCounters(s) /\ <<s, d>> \notin overlapped) =>
      Count(s, d) = cast[<<s, d>>]

\* No submission and no vote replaces what somebody else submitted, although
\* ids are drawn without looking: a taken _id drops the newcomer.
ContentKept ==
  [][\A s \in Slots : docs[s] # NoDoc =>
       /\ docs'[s] # NoDoc
       /\ docs'[s].content = docs[s].content]_docs

\* `increase count of votes by 1' (MongoCalls.py): each vote that runs to its
\* end raises its counter by one.
VoteAddsOne ==
  [][\A w \in Workers : VoteWrite(w) =>
       docs'[voting[w].slot].count[voting[w].dir] =
         Count(voting[w].slot, voting[w].dir) + 1]_vars

\* `Handle vote on click of button for any solution' (exvotesUp): the
\* experiences on the page can be voted on.
ExperiencesVotable ==
  \A id \in Ids : docs[<<"Experience", id>>] # NoDoc => HasCounters(<<"Experience", id>>)
=============================================================================
