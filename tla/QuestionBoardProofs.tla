------------------------- MODULE QuestionBoardProofs -------------------------
(***************************************************************************)
(* Proofs about QuestionBoard, for any number of workers, ids, contents    *)
(* and votes.                                                              *)
(***************************************************************************)
EXTENDS QuestionBoard, TLAPS

-----------------------------------------------------------------------------
(* Type correctness.                                                       *)

\* A vote in flight is a vote, and counters are numbers.
LEMMA VoteFields ==
  ASSUME TypeOK, NEW w \in Workers, voting[w] # NoVote
  PROVE  /\ voting[w] \in Vote
         /\ voting[w].slot \in Slots
         /\ voting[w].dir \in Dirs
         /\ voting[w].new \in Nat \ {0}
BY DEF TypeOK, Vote

LEMMA CountType ==
  ASSUME TypeOK, NEW s \in Slots, HasCounters(s)
  PROVE  /\ docs[s] \in Doc
         /\ docs[s].count \in [Dirs -> Nat]
         /\ \A d \in Dirs : Count(s, d) \in Nat
BY DEF TypeOK, HasCounters, Doc, Count

\* Free slots have no counters, and a new document shows no votes.
LEMMA NewDocType ==
  ASSUME NEW c \in Contents
  PROVE  /\ [content |-> c, count |-> Zero] \in Doc
         /\ [content |-> c, count |-> NoField] \in Doc
BY DEF Doc, Zero

\* The document a vote writes.
LEMMA VotedDoc ==
  ASSUME TypeOK, NEW s \in Slots, HasCounters(s), NEW d \in Dirs, NEW n \in Nat,
         docs' = SetCount(s, d, n)
  PROVE  /\ docs' \in [Slots -> Doc \union {NoDoc}]
         /\ HasCounters(s)'
         /\ docs'[s].content = docs[s].content
         /\ \A e \in Dirs : Count(s, e)' = IF e = d THEN n ELSE Count(s, e)
         /\ \A z \in Slots \ {s} : docs'[z] = docs[z]
<1>1. docs[s] \in Doc /\ docs[s].count \in [Dirs -> Nat]
  BY CountType
<1>2. docs \in [Slots -> Doc \union {NoDoc}]
  BY DEF TypeOK
<1> DEFINE k == [docs[s].count EXCEPT ![d] = n]
           x == [docs[s] EXCEPT !.count = k]
<1>3. k \in [Dirs -> Nat] /\ \A e \in Dirs : k[e] = IF e = d THEN n ELSE docs[s].count[e]
  BY <1>1
<1>4. docs' = [docs EXCEPT ![s] = x]
  BY DEF SetCount
<1> HIDE DEF k
<1>5. x \in Doc /\ x.count = k /\ x.content = docs[s].content
  BY <1>1, <1>3 DEF Doc
<1> HIDE DEF x
<1>6. docs'[s] = x /\ \A z \in Slots \ {s} : docs'[z] = docs[z]
  BY <1>2, <1>4
<1>7. docs' \in [Slots -> Doc \union {NoDoc}]
  BY <1>2, <1>4, <1>5
<1>8. HasCounters(s)'
  BY <1>3, <1>5, <1>6, NoDocAssumption, NoFieldAssumption DEF HasCounters
<1> QED
  BY <1>3, <1>5, <1>6, <1>7, <1>8 DEF Count

\* A vote in flight is for a document with counters: needed for the types,
\* because the write assigns to the counter without looking again.
VotesOnCounters == \A w \in Workers : voting[w] # NoVote => HasCounters(voting[w].slot)

TypeInv == TypeOK /\ VotesOnCounters

\* An insert into a free slot leaves the other slots alone.
LEMMA InsertDoc ==
  ASSUME TypeOK, NEW s \in Slots, docs[s] = NoDoc, NEW x \in Doc,
         docs' = Put(s, x)
  PROVE  /\ docs' \in [Slots -> Doc \union {NoDoc}]
         /\ docs'[s] = x
         /\ \A z \in Slots \ {s} : docs'[z] = docs[z]
         /\ \A z \in Slots : HasCounters(z) =>
              HasCounters(z)' /\ \A d \in Dirs : Count(z, d)' = Count(z, d)
BY DEF TypeOK, HasCounters, Count, Put

\* The four vote functions begin as a read of one counter.
LEMMA VoteCases ==
  ASSUME NEW w \in Workers, VoteStep(w)
  PROVE  \/ \E s \in Slots, d \in Dirs : VoteRead(w, s, d)
         \/ VoteWrite(w)
         \/ VoteAbort(w)
<1>1. \A t \in Tables, id \in Ids : <<t, id>> \in Slots
  BY DEF Slots
<1>2. CASE votesUp(w)
  BY <1>1, <1>2 DEF votesUp, increase_count, decrease_count, Tables, Dirs
<1>3. CASE exvotesUp(w)
  BY <1>1, <1>3 DEF exvotesUp, ex_increase_count, ex_decrease_count, Tables, Dirs
<1> QED
  BY <1>2, <1>3 DEF VoteStep

\* A submission inserts one document into a free slot or does nothing.
LEMMA SubmissionStep ==
  ASSUME TypeOK, Submission
  PROVE  /\ UNCHANGED <<voting, cast, overlapped>>
         /\ submitted' \in [Tables -> Nat]
         /\ \/ docs' = docs
            \/ \E s \in Slots, c \in Contents, k \in {Zero, NoField} :
                 /\ docs[s] = NoDoc
                 /\ docs' = Put(s, [content |-> c, count |-> k])
<1>1. ASSUME NEW t \in Tables, NEW id \in Ids, NEW c \in Contents, Submit(t, id, c)
      PROVE  /\ UNCHANGED <<voting, cast, overlapped>>
             /\ submitted' \in [Tables -> Nat]
             /\ \/ docs' = docs
                \/ \E s \in Slots, e \in Contents, k \in {Zero, NoField} :
                     /\ docs[s] = NoDoc
                     /\ docs' = Put(s, [content |-> e, count |-> k])
  BY <1>1 DEF Submit, Answered, Slots, TypeOK
<1>2. ASSUME NEW t \in Tables, NoFileChosen(t)
      PROVE  UNCHANGED <<docs, voting, cast, overlapped>> /\ submitted' \in [Tables -> Nat]
  BY <1>2 DEF NoFileChosen, Answered, TypeOK
<1>3. ASSUME NEW id \in Ids, NEW c \in Contents, new_experience_post(id, c)
      PROVE  /\ UNCHANGED <<voting, cast, overlapped>>
             /\ submitted' \in [Tables -> Nat]
             /\ \E s \in Slots, e \in Contents, k \in {Zero, NoField} :
                  /\ docs[s] = NoDoc
                  /\ docs' = Put(s, [content |-> e, count |-> k])
  BY <1>3 DEF new_experience_post, Answered, Slots, Tables, TypeOK
<1> QED
  BY <1>1, <1>2, <1>3
  DEF Submission, add_question, handle_data, experience, insert_questions,
      insert_solution, insert_experience, Tables

\* The same, with what it means for types and counters.
LEMMA SubmissionEffect ==
  ASSUME TypeOK, Submission
  PROVE  /\ UNCHANGED <<voting, cast, overlapped>>
         /\ submitted' \in [Tables -> Nat]
         /\ docs' \in [Slots -> Doc \union {NoDoc}]
         /\ \A z \in Slots : docs[z] # NoDoc => docs'[z] = docs[z]
         /\ \A z \in Slots : HasCounters(z) =>
              HasCounters(z)' /\ \A d \in Dirs : Count(z, d)' = Count(z, d)
         /\ \A z \in Slots : HasCounters(z)' /\ ~ HasCounters(z) =>
              \A d \in Dirs : Count(z, d)' = 0
<1>1. CASE docs' = docs
  BY <1>1, SubmissionStep DEF TypeOK, HasCounters, Count
<1>2. ASSUME NEW s \in Slots, NEW c \in Contents, NEW k \in {Zero, NoField},
             docs[s] = NoDoc,
             docs' = Put(s, [content |-> c, count |-> k])
      PROVE  /\ docs' \in [Slots -> Doc \union {NoDoc}]
             /\ \A z \in Slots : docs[z] # NoDoc => docs'[z] = docs[z]
             /\ \A z \in Slots : HasCounters(z) =>
                  HasCounters(z)' /\ \A d \in Dirs : Count(z, d)' = Count(z, d)
             /\ \A z \in Slots : HasCounters(z)' /\ ~ HasCounters(z) =>
                  \A d \in Dirs : Count(z, d)' = 0
  <2> DEFINE x == [content |-> c, count |-> k]
  <2>1. x \in Doc /\ x.count = k
    BY NewDocType
  <2>2. docs' = Put(s, x)
    BY <1>2
  <2> HIDE DEF x
  <2>3. /\ docs' \in [Slots -> Doc \union {NoDoc}]
        /\ docs'[s] = x
        /\ \A z \in Slots \ {s} : docs'[z] = docs[z]
        /\ \A z \in Slots : HasCounters(z) =>
             HasCounters(z)' /\ \A d \in Dirs : Count(z, d)' = Count(z, d)
    BY <1>2, <2>1, <2>2, InsertDoc
  <2>4. \A z \in Slots : docs[z] # NoDoc => docs'[z] = docs[z]
    BY <1>2, <2>3
  <2>5. ASSUME NEW z \in Slots, HasCounters(z)', ~ HasCounters(z), NEW d \in Dirs
        PROVE  Count(z, d)' = 0
    <3>1. z = s
      BY <2>3, <2>5 DEF HasCounters
    <3>2. x.count = Zero
      BY <2>1, <2>3, <2>5, <3>1 DEF HasCounters
    <3> QED
      BY <2>3, <3>1, <3>2 DEF Count, Zero
  <2> QED
    BY <2>3, <2>4, <2>5
<1> QED
  BY <1>1, <1>2, SubmissionStep

LEMMA TypeStep == TypeInv /\ [Next]_vars => TypeInv'
<1> SUFFICES ASSUME TypeInv, [Next]_vars PROVE TypeOK' /\ VotesOnCounters'
  BY DEF TypeInv
<1>0. TypeOK /\ VotesOnCounters
  BY DEF TypeInv
<1>1. CASE Submission
  <2>1. \A w \in Workers : voting[w] # NoVote => voting[w].slot \in Slots
    BY <1>0, VoteFields
  <2> QED
    BY <1>0, <1>1, <2>1, SubmissionEffect DEF TypeOK, VotesOnCounters
<1>2. ASSUME NEW w \in Workers, NEW s \in Slots, NEW d \in Dirs, VoteRead(w, s, d)
      PROVE  TypeOK' /\ VotesOnCounters'
  <2>1. HasCounters(s) /\ Count(s, d) \in Nat
    BY <1>0, <1>2, CountType DEF VoteRead
  <2>2. [slot |-> s, dir |-> d, new |-> Count(s, d) + 1] \in Vote
    BY <2>1 DEF Vote
  <2>3. <<s, d>> \in Counters
    BY DEF Counters
  <2> QED
    BY <1>0, <1>2, <2>1, <2>2, <2>3 DEF VoteRead, TypeOK, VotesOnCounters, HasCounters
<1>3. ASSUME NEW w \in Workers, VoteWrite(w)
      PROVE  TypeOK' /\ VotesOnCounters'
  <2>1. PICK s \in Slots, d \in Dirs, n \in Nat :
          /\ voting[w] # NoVote
          /\ s = voting[w].slot /\ d = voting[w].dir /\ n = voting[w].new
    BY <1>0, <1>3, VoteFields DEF VoteWrite
  <2>2. HasCounters(s) /\ docs' = SetCount(s, d, n)
    BY <1>0, <1>3, <2>1 DEF VotesOnCounters, VoteWrite
  <2>3. /\ docs' \in [Slots -> Doc \union {NoDoc}]
        /\ HasCounters(s)'
        /\ \A z \in Slots \ {s} : docs'[z] = docs[z]
    BY <1>0, <2>2, VotedDoc
  <2>4. <<s, d>> \in Counters
    BY DEF Counters
  <2>5. /\ cast' = [cast EXCEPT ![<<s, d>>] = @ + 1]
        /\ voting' = [voting EXCEPT ![w] = NoVote]
        /\ UNCHANGED <<submitted, overlapped>>
    BY <1>3, <2>1 DEF VoteWrite
  <2>6. TypeOK'
    BY <1>0, <2>3, <2>4, <2>5 DEF TypeOK
  <2>7. \A v \in Workers : voting'[v] # NoVote =>
          voting[v] # NoVote /\ voting'[v] = voting[v] /\ voting[v].slot \in Slots
    BY <1>0, <2>5, VoteFields DEF TypeOK
  <2>8. VotesOnCounters'
    BY <1>0, <2>3, <2>7 DEF VotesOnCounters, HasCounters
  <2> QED
    BY <2>6, <2>8
<1>4. ASSUME NEW w \in Workers, VoteAbort(w)
      PROVE  TypeOK' /\ VotesOnCounters'
  BY <1>0, <1>4 DEF VoteAbort, TypeOK, VotesOnCounters, HasCounters
<1>5. CASE UNCHANGED vars
  BY <1>0, <1>5 DEF vars, TypeOK, VotesOnCounters, HasCounters
<1> QED
  BY <1>1, <1>2, <1>3, <1>4, <1>5, VoteCases DEF Next

LEMMA TypeInit == Init => TypeInv
BY DEF Init, TypeInv, TypeOK, VotesOnCounters, Slots, Counters

\* Collections and votes always have the declared shape.
THEOREM TypeCorrect == Spec => []TypeOK
<1>1. TypeInv => TypeOK
  BY DEF TypeInv
<1> QED
  BY <1>1, TypeInit, TypeStep, PTL DEF Spec

-----------------------------------------------------------------------------
(***************************************************************************)
(* Counters.  The bounds need that a vote in flight will not write more    *)
(* than the votes cast so far plus itself, and exactness that on a counter *)
(* without overlap the vote in flight is the only one and still up to      *)
(* date.  A slot without counters has no votes.                            *)
(***************************************************************************)
NoVotesYet == \A s \in Slots, d \in Dirs : ~ HasCounters(s) => cast[<<s, d>>] = 0

NewBounded == \A w \in Workers : voting[w] # NoVote =>
                voting[w].new <= cast[<<voting[w].slot, voting[w].dir>>] + 1

LoneVote == \A w \in Workers, s \in Slots, d \in Dirs :
              (Voting(w, s, d) /\ <<s, d>> \notin overlapped) =>
                /\ voting[w].new = cast[<<s, d>>] + 1
                /\ \A v \in Workers : Voting(v, s, d) => v = w

CountInv == /\ TypeInv
            /\ NoVotesYet
            /\ NewBounded
            /\ LoneVote
            /\ CountBounds
            /\ ExactUnlessOverlapped

\* The votes cast on a counter are a number.
LEMMA CastType ==
  ASSUME TypeOK, NEW s \in Slots, NEW d \in Dirs
  PROVE  cast[<<s, d>>] \in Nat
BY DEF TypeOK, Counters

\* What the write of a vote does to the history of the votes cast.
LEMMA CastEffect ==
  ASSUME TypeOK, NEW s \in Slots, NEW d \in Dirs,
         cast' = [cast EXCEPT ![<<s, d>>] = @ + 1]
  PROVE  /\ cast'[<<s, d>>] = cast[<<s, d>>] + 1
         /\ \A z \in Slots, e \in Dirs :
              <<z, e>> # <<s, d>> => cast'[<<z, e>>] = cast[<<z, e>>]
BY DEF TypeOK, Counters

LEMMA CountStep == CountInv /\ [Next]_vars => CountInv'
<1> SUFFICES ASSUME CountInv, [Next]_vars PROVE CountInv'
  OBVIOUS
<1>0. /\ TypeInv /\ TypeInv' /\ TypeOK /\ TypeOK' /\ VotesOnCounters
      /\ NoVotesYet /\ NewBounded /\ LoneVote
      /\ CountBounds /\ ExactUnlessOverlapped
  BY TypeStep DEF CountInv, TypeInv
<1> SUFFICES /\ NoVotesYet' /\ NewBounded' /\ LoneVote'
             /\ CountBounds' /\ ExactUnlessOverlapped'
  BY <1>0 DEF CountInv
<1>1. CASE Submission
  <2>1. /\ UNCHANGED <<voting, cast, overlapped>>
        /\ \A z \in Slots : HasCounters(z) =>
             HasCounters(z)' /\ \A d \in Dirs : Count(z, d)' = Count(z, d)
        /\ \A z \in Slots : HasCounters(z)' /\ ~ HasCounters(z) =>
             \A d \in Dirs : Count(z, d)' = 0
    BY <1>0, <1>1, SubmissionEffect
  <2>2. NoVotesYet'
    BY <1>0, <2>1 DEF NoVotesYet
  <2>3. NewBounded' /\ LoneVote'
    BY <1>0, <2>1 DEF NewBounded, LoneVote, Voting
  <2>4. ASSUME NEW s \in Slots, NEW d \in Dirs, HasCounters(s)'
        PROVE  \/ HasCounters(s) /\ Count(s, d)' = Count(s, d)
               \/ Count(s, d)' = 0 /\ cast[<<s, d>>] = 0
    BY <1>0, <2>1, <2>4 DEF NoVotesYet
  <2>5. CountBounds'
    BY <1>0, <2>1, <2>4 DEF CountBounds
  <2>6. ExactUnlessOverlapped'
    BY <1>0, <2>1, <2>4 DEF ExactUnlessOverlapped
  <2> QED
    BY <2>2, <2>3, <2>5, <2>6
<1>2. ASSUME NEW w \in Workers, NEW s \in Slots, NEW d \in Dirs, VoteRead(w, s, d)
      PROVE  /\ NoVotesYet' /\ NewBounded' /\ LoneVote'
             /\ CountBounds' /\ ExactUnlessOverlapped'
  <2>1. HasCounters(s) /\ Count(s, d) \in Nat /\ cast[<<s, d>>] \in Nat
        /\ Count(s, d) <= cast[<<s, d>>]
    BY <1>0, <1>2, CountType, CastType DEF VoteRead, CountBounds
  <2>2. UNCHANGED <<docs, cast>> /\ overlapped \subseteq overlapped'
    BY <1>2 DEF VoteRead
  <2>3. /\ voting'[w] # NoVote
        /\ voting'[w].slot = s /\ voting'[w].dir = d
        /\ voting'[w].new = Count(s, d) + 1
        /\ \A v \in Workers \ {w} : voting'[v] = voting[v]
    <3>1. voting'[w] = [slot |-> s, dir |-> d, new |-> Count(s, d) + 1]
      BY <1>0, <1>2 DEF VoteRead, TypeOK
    <3>2. voting'[w].new # NoVote.new
      BY <2>1, <3>1 DEF NoVote
    <3>3. \A v \in Workers \ {w} : voting'[v] = voting[v]
      BY <1>0, <1>2 DEF VoteRead, TypeOK
    <3> QED
      BY <3>1, <3>2, <3>3
  <2>4. \A v \in Workers, z \in Slots, e \in Dirs :
          Voting(v, z, e)' <=> IF v = w THEN z = s /\ e = d ELSE Voting(v, z, e)
    BY <2>3 DEF Voting
  <2>5. NoVotesYet'
    BY <1>0, <2>2 DEF NoVotesYet, HasCounters
  <2>6. NewBounded'
    BY <1>0, <2>1, <2>2, <2>3 DEF NewBounded
  <2>7. LoneVote'
    <3> SUFFICES ASSUME NEW v \in Workers, NEW z \in Slots, NEW e \in Dirs,
                        Voting(v, z, e)', <<z, e>> \notin overlapped'
                 PROVE  /\ voting'[v].new = cast'[<<z, e>>] + 1
                        /\ \A x \in Workers : Voting(x, z, e)' => x = v
      BY DEF LoneVote
    <3>1. CASE <<z, e>> = <<s, d>>
      <4>1. \A x \in Workers : ~ Voting(x, s, d)
        BY <1>2, <3>1 DEF VoteRead
      <4>2. Count(s, d) = cast[<<s, d>>]
        BY <1>0, <2>1, <2>2, <3>1 DEF ExactUnlessOverlapped
      <4>3. v = w
        BY <2>4, <3>1, <4>1
      <4> QED
        BY <2>2, <2>3, <2>4, <3>1, <4>1, <4>2, <4>3
    <3>2. CASE <<z, e>> # <<s, d>>
      <4>1. v # w /\ Voting(v, z, e) /\ <<z, e>> \notin overlapped
        BY <2>2, <2>4, <3>2
      <4> QED
        BY <1>0, <2>2, <2>3, <2>4, <3>2, <4>1 DEF LoneVote
    <3> QED
      BY <3>1, <3>2
  <2>8. CountBounds'
    BY <1>0, <2>2 DEF CountBounds, HasCounters, Count
  <2>9. ExactUnlessOverlapped'
    BY <1>0, <2>2 DEF ExactUnlessOverlapped, HasCounters, Count
  <2> QED
    BY <2>5, <2>6, <2>7, <2>8, <2>9
<1>3. ASSUME NEW w \in Workers, VoteWrite(w)
      PROVE  /\ NoVotesYet' /\ NewBounded' /\ LoneVote'
             /\ CountBounds' /\ ExactUnlessOverlapped'
  <2>1. PICK s \in Slots, d \in Dirs, n \in Nat \ {0} :
          /\ voting[w] # NoVote
          /\ s = voting[w].slot /\ d = voting[w].dir /\ n = voting[w].new
    BY <1>0, <1>3, VoteFields DEF VoteWrite
  <2>2. /\ HasCounters(s) /\ docs' = SetCount(s, d, n)
        /\ cast' = [cast EXCEPT ![<<s, d>>] = @ + 1]
        /\ overlapped' = overlapped
        /\ voting' = [voting EXCEPT ![w] = NoVote]
    BY <1>0, <1>3, <2>1 DEF VotesOnCounters, VoteWrite
  <2>3. /\ HasCounters(s)'
        /\ \A e \in Dirs : Count(s, e)' = IF e = d THEN n ELSE Count(s, e)
        /\ \A z \in Slots \ {s} : docs'[z] = docs[z]
    BY <1>0, <2>2, VotedDoc
  <2>4. /\ cast'[<<s, d>>] = cast[<<s, d>>] + 1
        /\ cast[<<s, d>>] \in Nat
        /\ \A z \in Slots, e \in Dirs :
             <<z, e>> # <<s, d>> => cast'[<<z, e>>] = cast[<<z, e>>]
    BY <1>0, <2>2, CastEffect, CastType
  <2>5. \A v \in Workers : voting'[v] # NoVote => v # w /\ voting'[v] = voting[v]
    BY <1>0, <2>2 DEF TypeOK
  <2>6. \A z \in Slots, e \in Dirs : cast[<<z, e>>] \in Nat /\ cast'[<<z, e>>] >= cast[<<z, e>>]
    <3> SUFFICES ASSUME NEW z \in Slots, NEW e \in Dirs
                 PROVE  cast[<<z, e>>] \in Nat /\ cast'[<<z, e>>] >= cast[<<z, e>>]
      OBVIOUS
    <3>1. cast[<<z, e>>] \in Nat
      BY <1>0, CastType
    <3>2. CASE <<z, e>> = <<s, d>>
      BY <2>4, <3>2
    <3>3. CASE <<z, e>> # <<s, d>>
      BY <2>4, <3>1, <3>3
    <3> QED
      BY <3>1, <3>2, <3>3
  <2>7. \A z \in Slots : HasCounters(z)' <=> HasCounters(z)
    BY <2>2, <2>3 DEF HasCounters
  <2>8. \A z \in Slots, e \in Dirs :
          Count(z, e)' = IF <<z, e>> = <<s, d>> THEN n ELSE Count(z, e)
    BY <2>3 DEF Count
  <2>9. NoVotesYet'
    BY <1>0, <2>2, <2>4, <2>7 DEF NoVotesYet
  <2>10. NewBounded'
    <3> SUFFICES ASSUME NEW v \in Workers, voting'[v] # NoVote
                 PROVE  voting'[v].new <= cast'[<<voting'[v].slot, voting'[v].dir>>] + 1
      BY DEF NewBounded
    <3>1. voting[v] # NoVote /\ voting'[v] = voting[v]
      BY <2>5
    <3>2. PICK z \in Slots, e \in Dirs, m \in Nat \ {0} :
            z = voting[v].slot /\ e = voting[v].dir /\ m = voting[v].new
      BY <1>0, <3>1, VoteFields
    <3>3. m <= cast[<<z, e>>] + 1
      BY <1>0, <3>1, <3>2 DEF NewBounded
    <3>4. cast'[<<z, e>>] \in Nat
      BY <2>4, <2>6
    <3>5. m <= cast'[<<z, e>>] + 1
      BY <2>6, <3>3, <3>4
    <3> QED
      BY <3>1, <3>2, <3>5
  <2>11. LoneVote'
    <3> SUFFICES ASSUME NEW v \in Workers, NEW z \in Slots, NEW e \in Dirs,
                        Voting(v, z, e)', <<z, e>> \notin overlapped'
                 PROVE  /\ voting'[v].new = cast'[<<z, e>>] + 1
                        /\ \A x \in Workers : Voting(x, z, e)' => x = v
      BY DEF LoneVote
    <3>1. \A x \in Workers : Voting(x, z, e)' => x # w /\ Voting(x, z, e)
      BY <2>5 DEF Voting
    <3>2. v # w /\ Voting(v, z, e) /\ voting'[v] = voting[v]
      BY <2>5, <3>1 DEF Voting
    <3>3. /\ voting[v].new = cast[<<z, e>>] + 1
          /\ \A x \in Workers : Voting(x, z, e) => x = v
      BY <1>0, <2>2, <3>2 DEF LoneVote
    <3>4. <<z, e>> # <<s, d>>
      BY <2>1, <3>2, <3>3 DEF Voting
    <3> QED
      BY <2>4, <3>1, <3>2, <3>3, <3>4
  <2>12. n <= cast[<<s, d>>] + 1
    BY <1>0, <2>1 DEF NewBounded
  <2>13. CountBounds'
    <3> SUFFICES ASSUME NEW z \in Slots, NEW e \in Dirs, HasCounters(z)'
                 PROVE  /\ Count(z, e)' <= cast'[<<z, e>>]
                        /\ cast'[<<z, e>>] > 0 => Count(z, e)' > 0
      BY DEF CountBounds
    <3>1. CASE <<z, e>> = <<s, d>>
      BY <2>4, <2>8, <2>12, <3>1
    <3>2. CASE <<z, e>> # <<s, d>>
      BY <1>0, <2>4, <2>7, <2>8, <3>2 DEF CountBounds
    <3> QED
      BY <3>1, <3>2
  <2>14. ExactUnlessOverlapped'
    <3> SUFFICES ASSUME NEW z \in Slots, NEW e \in Dirs, HasCounters(z)',
                        <<z, e>> \notin overlapped'
                 PROVE  Count(z, e)' = cast'[<<z, e>>]
      BY DEF ExactUnlessOverlapped
    <3>1. CASE <<z, e>> = <<s, d>>
      <4>1. Voting(w, s, d)
        BY <2>1 DEF Voting
      <4>2. n = cast[<<s, d>>] + 1
        BY <1>0, <2>1, <2>2, <3>1, <4>1 DEF LoneVote
      <4> QED
        BY <2>4, <2>8, <3>1, <4>2
    <3>2. CASE <<z, e>> # <<s, d>>
      BY <1>0, <2>2, <2>4, <2>7, <2>8, <3>2 DEF ExactUnlessOverlapped
    <3> QED
      BY <3>1, <3>2
  <2> QED
    BY <2>9, <2>10, <2>11, <2>13, <2>14
<1>4. ASSUME NEW w \in Workers, VoteAbort(w)
      PROVE  /\ NoVotesYet' /\ NewBounded' /\ LoneVote'
             /\ CountBounds' /\ ExactUnlessOverlapped'
  <2>1. UNCHANGED <<docs, cast, overlapped>>
    BY <1>4 DEF VoteAbort
  <2>2. \A v \in Workers : voting'[v] # NoVote => voting'[v] = voting[v] /\ voting[v] # NoVote
    BY <1>0, <1>4 DEF VoteAbort, TypeOK
  <2>3. NewBounded'
    BY <1>0, <2>1, <2>2 DEF NewBounded
  <2>4. LoneVote'
    <3>1. \A x \in Workers, z \in Slots, e \in Dirs :
            Voting(x, z, e)' => Voting(x, z, e) /\ voting'[x] = voting[x]
      BY <2>2 DEF Voting
    <3> QED
      BY <1>0, <2>1, <3>1 DEF LoneVote
  <2> QED
    BY <1>0, <2>1, <2>3, <2>4
       DEF NoVotesYet, CountBounds, ExactUnlessOverlapped, HasCounters, Count
<1>5. CASE UNCHANGED vars
  BY <1>0, <1>5 DEF vars, NoVotesYet, NewBounded, LoneVote, Voting,
                    CountBounds, ExactUnlessOverlapped, HasCounters, Count
<1> QED
  BY <1>1, <1>2, <1>3, <1>4, <1>5, VoteCases DEF Next

LEMMA CountInit == Init => CountInv
<1> SUFFICES ASSUME Init PROVE CountInv
  OBVIOUS
<1>1. TypeInv
  BY TypeInit
<1>2. \A s \in Slots : ~ HasCounters(s)
  BY DEF Init, HasCounters
<1>3. \A w \in Workers : voting[w] = NoVote
  BY DEF Init
<1>4. NoVotesYet
  BY DEF Init, NoVotesYet, Counters
<1> QED
  BY <1>1, <1>2, <1>3, <1>4
     DEF CountInv, NewBounded, LoneVote, Voting, CountBounds, ExactUnlessOverlapped

\* A counter never shows more votes than were cast, nor none once one was.
THEOREM CountsBounded == Spec => []CountBounds
<1>1. CountInv => CountBounds
  BY DEF CountInv
<1> QED
  BY <1>1, CountInit, CountStep, PTL DEF Spec

\* A counter on which votes never overlapped is exact.
THEOREM CountsExact == Spec => []ExactUnlessOverlapped
<1>1. CountInv => ExactUnlessOverlapped
  BY DEF CountInv
<1> QED
  BY <1>1, CountInit, CountStep, PTL DEF Spec

-----------------------------------------------------------------------------
(* Contents.                                                               *)

ContentsKept == \A s \in Slots : docs[s] # NoDoc =>
                  /\ docs'[s] # NoDoc
                  /\ docs'[s].content = docs[s].content

LEMMA ContentStep == TypeInv /\ [Next]_vars => [ContentsKept]_docs
<1> SUFFICES ASSUME TypeInv, [Next]_vars PROVE ContentsKept \/ docs' = docs
  OBVIOUS
<1>0. TypeOK /\ VotesOnCounters
  BY DEF TypeInv
<1>1. CASE Submission
  BY <1>0, <1>1, SubmissionEffect DEF ContentsKept
<1>2. ASSUME NEW w \in Workers, VoteWrite(w)
      PROVE  ContentsKept
  <2>1. PICK s \in Slots, d \in Dirs, n \in Nat :
          /\ voting[w] # NoVote
          /\ s = voting[w].slot /\ d = voting[w].dir /\ n = voting[w].new
    BY <1>0, <1>2, VoteFields DEF VoteWrite
  <2>2. HasCounters(s) /\ docs' = SetCount(s, d, n)
    BY <1>0, <1>2, <2>1 DEF VotesOnCounters, VoteWrite
  <2>3. /\ HasCounters(s)'
        /\ docs'[s].content = docs[s].content
        /\ \A z \in Slots \ {s} : docs'[z] = docs[z]
    BY <1>0, <2>2, VotedDoc
  <2> QED
    BY <2>3 DEF ContentsKept, HasCounters
<1> QED
  BY <1>1, <1>2, VoteCases DEF Next, VoteRead, VoteAbort, vars

\* What was submitted is never replaced.
THEOREM SubmissionsKept == Spec => ContentKept
<1>1. ContentKept <=> [][ContentsKept]_docs
  BY DEF ContentKept, ContentsKept
<1>2. Spec => []TypeInv
  BY TypeInit, TypeStep, PTL DEF Spec
<1> QED
  BY <1>1, <1>2, ContentStep, PTL DEF Spec
=============================================================================
