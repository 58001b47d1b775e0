---------------------------- MODULE AnswerUpload -----------------------------
(***************************************************************************)
(* Files attached to answers and experiences on the web site.              *)
(*                                                                         *)
(* save_file writes the file under its own name into uploads/, a directory *)
(* that all workers of a machine share, and convert_binary reads it back   *)
(* for the Solution document.  A file is written in several calls, each at *)
(* the writer's own offset.  The directory is made by the first upload     *)
(* that does not find it, and is gone after a restart of the machine.      *)
(*                                                                         *)
(* Forms without a file part, and ids that collide, are in QuestionBoard.  *)
(***************************************************************************)
EXTENDS Integers, Sequences

CONSTANTS Workers,      \* worker processes of one machine
          Names,        \* file names
          Sizes,        \* sizes of files, in calls that write them
          MaxUploads,   \* bound on the forms submitted
          NoJob         \* the worker is idle

Ids == 1 .. MaxUploads
Forms == {"answer", "experience"}
Stages == {"mkdir", "open", "write", "insert"}

\* A piece of a file is the upload that wrote it; a write behind the end of
\* the file leaves a hole.
Hole == 0
Pieces == Ids \union {Hole}

Job == [id : Ids, form : Forms, name : Names, size : Sizes, stage : Stages,
        pos : Nat, binfile : Seq(Pieces)]

Solution == [id : Ids, size : Sizes, files : Seq(Pieces)]

ASSUME UploadAssumption ==
  /\ Workers # {}
  /\ Sizes \subseteq Nat
  /\ MaxUploads \in Nat
  /\ NoJob \notin Job

VARIABLES uploads,      \* number of forms submitted
          madeDir,      \* uploads/ exists
          files,        \* contents of the files in it, empty when never opened
          job,          \* worker -> the upload it serves
          stored        \* documents in Solution that came with a file

(***************************************************************************)
(* History.                                                                *)
(*   raised   worker -> answers lost in its os.mkdir since the restart     *)
(*   mixed    uploads that wrote or read a file while another upload of    *)
(*            the same name did                                            *)
(*   dropped  answers that were not stored, for a reason that is known     *)
(***************************************************************************)
VARIABLES raised, mixed, dropped

disk == <<madeDir, files>>
history == <<raised, mixed, dropped>>
vars == <<uploads, disk, job, stored, history>>

\* What the client sent.
Sent(id, size) == [n \in 1 .. size |-> id]

WriteAt(content, pos, id) ==
  [n \in 1 .. (IF pos < Len(content) THEN Len(content) ELSE pos + 1) |->
     IF n = pos + 1 THEN id
     ELSE IF n <= Len(content) THEN content[n] ELSE Hole]

At(w, stage) == job[w] # NoJob /\ job[w].stage = stage

\* Workers between the open and the read of a file of this name.
Using(name) == {w \in Workers : At(w, "write") /\ job[w].name = name}

\* What an answer loses; an experience has nothing to lose.
Loss(w) == {id \in Ids : job[w].form = "answer" /\ id = job[w].id}

InWork == UNION {Loss(w) : w \in {v \in Workers : job[v] # NoJob}}

-----------------------------------------------------------------------------
(* Steps of the handlers.                                                  *)

\* Faulty variant: os.mkdir is called without looking.
SubmitBlind(w, form, name, size) ==
  /\ job[w] = NoJob
  /\ uploads < MaxUploads
  /\ uploads' = uploads + 1
  /\ job' = [job EXCEPT ![w] =
       [id |-> uploads', form |-> form, name |-> name, size |-> size,
        stage |-> "mkdir", pos |-> 0, binfile |-> <<>>]]
  /\ UNCHANGED <<disk, stored, history>>

\* The handler up to os.path.isdir.
Submit(w, form, name, size) ==
  /\ job[w] = NoJob
  /\ uploads < MaxUploads
  /\ uploads' = uploads + 1
  /\ job' = [job EXCEPT ![w] =
       [id |-> uploads', form |-> form, name |-> name, size |-> size,
        stage |-> IF madeDir THEN "open" ELSE "mkdir", pos |-> 0,
        binfile |-> <<>>]]
  /\ UNCHANGED <<disk, stored, history>>

\* A form whose file part has no name, as a browser sends it when no file was
\* chosen: the handler does nothing with the answer.
NoFileChosen(form) ==
  /\ uploads < MaxUploads
  /\ uploads' = uploads + 1
  /\ dropped' = IF form = "answer" THEN dropped \union {uploads'} ELSE dropped
  /\ UNCHANGED <<disk, job, stored, raised, mixed>>

Mkdir(w) ==
  /\ At(w, "mkdir")
  /\ ~ madeDir
  /\ madeDir' = TRUE
  /\ job' = [job EXCEPT ![w].stage = "open"]
  /\ UNCHANGED <<uploads, files, stored, history>>

\* os.mkdir raises, the request ends.
MkdirRaises(w) ==
  /\ At(w, "mkdir")
  /\ madeDir
  /\ raised' = [raised EXCEPT ![w] = @ + 1]
  /\ dropped' = dropped \union Loss(w)
  /\ job' = [job EXCEPT ![w] = NoJob]
  /\ UNCHANGED <<uploads, disk, stored, mixed>>

\* Faulty variant: the file is opened without being truncated.
OpenKeeps(w) ==
  /\ At(w, "open")
  /\ job' = [job EXCEPT ![w].stage = "write"]
  /\ mixed' = IF Using(job[w].name) = {} THEN mixed
              ELSE mixed \union {job[v].id : v \in Using(job[w].name) \union {w}}
  /\ UNCHANGED <<uploads, disk, stored, raised, dropped>>

\* save opens the file for writing, which empties it.
Open(w) ==
  /\ At(w, "open")
  /\ files' = [files EXCEPT ![job[w].name] = <<>>]
  /\ job' = [job EXCEPT ![w].stage = "write"]
  /\ mixed' = IF Using(job[w].name) = {} THEN mixed
              ELSE mixed \union {job[v].id : v \in Using(job[w].name) \union {w}}
  /\ UNCHANGED <<uploads, madeDir, stored, raised, dropped>>

Write(w) ==
  /\ At(w, "write")
  /\ job[w].pos < job[w].size
  /\ files' = [files EXCEPT ![job[w].name] = WriteAt(@, job[w].pos, job[w].id)]
  /\ job' = [job EXCEPT ![w].pos = @ + 1]
  /\ UNCHANGED <<uploads, madeDir, stored, history>>

\* convert_binary.
Read(w) ==
  /\ At(w, "write")
  /\ job[w].pos = job[w].size
  /\ job' = [job EXCEPT ![w].stage = "insert", ![w].binfile = files[job[w].name]]
  /\ UNCHANGED <<uploads, disk, stored, history>>

\* Faulty variant: the name of the file is stored.
InsertName(w) ==
  /\ At(w, "insert")
  /\ stored' = IF job[w].form = "answer"
                 THEN stored \union {[id |-> job[w].id, size |-> job[w].size,
                                      files |-> job[w].name]}
                 ELSE stored
  /\ job' = [job EXCEPT ![w] = NoJob]
  /\ UNCHANGED <<uploads, disk, history>>

\* Faulty variant: an empty file counts as no file.
InsertNonEmpty(w) ==
  /\ At(w, "insert")
  /\ stored' = IF job[w].form = "answer" /\ job[w].binfile # <<>>
                 THEN stored \union {[id |-> job[w].id, size |-> job[w].size,
                                      files |-> job[w].binfile]}
                 ELSE stored
  /\ job' = [job EXCEPT ![w] = NoJob]
  /\ UNCHANGED <<uploads, disk, history>>

\* Faulty variant: an insert whose answer comes late is tried again.
InsertRetried(w) ==
  /\ At(w, "insert")
  /\ stored' = IF job[w].form = "answer"
                 THEN stored \union {[id |-> job[w].id, size |-> job[w].size,
                                      files |-> job[w].binfile]}
                 ELSE stored
  /\ job' \in {job, [job EXCEPT ![w] = NoJob]}
  /\ UNCHANGED <<uploads, disk, history>>

\* insert_solution; insert_experience has no place for the file.
Insert(w) ==
  /\ At(w, "insert")
  /\ stored' = IF job[w].form = "answer"
                 THEN stored \union {[id |-> job[w].id, size |-> job[w].size,
                                      files |-> job[w].binfile]}
                 ELSE stored
  /\ job' = [job EXCEPT ![w] = NoJob]
  /\ UNCHANGED <<uploads, disk, history>>

\* The worker is killed, a call on the disk raises, or the insert fails and
\* its exception is swallowed.
Lose(w) ==
  /\ job[w] # NoJob
  /\ dropped' = dropped \union Loss(w)
  /\ job' = [job EXCEPT ![w] = NoJob]
  /\ UNCHANGED <<uploads, disk, stored, raised, mixed>>

\* The machine is replaced: its disk is lost with the requests it served.
Restart ==
  /\ madeDir
  /\ madeDir' = FALSE
  /\ files' = [name \in Names |-> <<>>]
  /\ dropped' = dropped \union InWork
  /\ job' = [w \in Workers |-> NoJob]
  /\ raised' = [w \in Workers |-> 0]
  /\ UNCHANGED <<uploads, stored, mixed>>

-----------------------------------------------------------------------------
Init ==
  /\ uploads = 0
  /\ madeDir = FALSE
  /\ files = [name \in Names |-> <<>>]
  /\ job = [w \in Workers |-> NoJob]
  /\ stored = {}
  /\ raised = [w \in Workers |-> 0]
  /\ mixed = {}
  /\ dropped = {}

Work(w) ==
  Mkdir(w) \/ MkdirRaises(w) \/ Open(w) \/ Write(w) \/ Read(w) \/ Insert(w)

Next ==
  \/ \E w \in Workers, form \in Forms, name \in Names, size \in Sizes :
       Submit(w, form, name, size)
  \/ \E form \in Forms : NoFileChosen(form)
  \/ \E w \in Workers : Work(w)
  \/ \E w \in Workers : Lose(w)
  \/ Restart

Spec == Init /\ [][Next]_vars

\* A worker that lives goes on; calls on the disk and the database return.
FairSpec == Spec /\ \A w \in Workers : WF_vars(Work(w))

-----------------------------------------------------------------------------
(* Properties.                                                             *)

\* Type invariant of the disk, the uploads in work and the stored answers.
TypeOK ==
  /\ uploads \in 0 .. MaxUploads
  /\ madeDir \in BOOLEAN
  /\ files \in [Names -> Seq(Pieces)]
  /\ job \in [Workers -> Job \union {NoJob}]
  /\ stored \subseteq Solution
  /\ raised \in [Workers -> Nat]
  /\ mixed \subseteq Ids
  /\ dropped \subseteq Ids

\* An answer is stored with the file that came with it, whole and nothing
\* else, unless another upload of the same name was at work between the open
\* and the read of save_file.
OwnFile ==
  \A s \in stored : s.id \notin mixed => s.files = Sent(s.id, s.size)

\* Looking for the directory and making it are two calls, which costs each
\* worker at most one answer per restart of the machine, and one of them none.
MkdirLosesFew ==
  /\ \A w \in Workers : raised[w] <= 1
  /\ \E w \in Workers : raised[w] = 0

\* An answer in work is stored in the end or was dropped: no file was chosen,
\* os.mkdir raised, the insert failed, the worker or the machine died.
AnswerKept ==
  \A id \in Ids :
    (\E w \in Workers : job[w] # NoJob /\ job[w].form = "answer" /\ job[w].id = id)
      ~> (id \in dropped \/ \E s \in stored : s.id = id)

StoredIds == {s.id : s \in stored}

Answers == INSTANCE Delivery
             WITH Items <- Ids, pending <- InWork, delivered <- StoredIds,
                  lost <- 1 .. uploads \ (InWork \union StoredIds)

\* Answers implement Delivery: whatever raises, dies or is restarted under it, an
\* answer is inserted at most once, and one that left its worker without being
\* inserted (no file, os.mkdir raised, the insert failed) never is.
AnswersOnce == Answers!Spec
=============================================================================
