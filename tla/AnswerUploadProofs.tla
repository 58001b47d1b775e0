------------------------- MODULE AnswerUploadProofs --------------------------
(***************************************************************************)
(* Types, stored files and the race for the directory, for any workers,    *)
(* names, sizes and numbers of uploads.                                    *)
(***************************************************************************)
EXTENDS AnswerUpload, TLAPS

-----------------------------------------------------------------------------
(* Contents of files.                                                      *)

LEMMA SeqOf ==
  ASSUME NEW S, NEW n \in Nat, NEW f \in [1 .. n -> S]
  PROVE  f \in Seq(S) /\ Len(f) = n
BY SMTT(20)

LEMMA NoPieces == <<>> \in Seq(Pieces) /\ Len(<<>>) = 0
BY SMT

\* A write makes the file as long as it must be.
LEMMA WrittenPieces ==
  ASSUME NEW content \in Seq(Pieces), NEW pos \in Nat, NEW id \in Ids
  PROVE  WriteAt(content, pos, id) \in Seq(Pieces)
<1> DEFINE n == IF pos < Len(content) THEN Len(content) ELSE pos + 1
<1>1. n \in Nat
  BY DEF Pieces
<1>2. \A k \in 1 .. n :
        (IF k = pos + 1 THEN id ELSE IF k <= Len(content) THEN content[k] ELSE Hole)
          \in Pieces
  BY DEF Pieces
<1>3. WriteAt(content, pos, id) \in [1 .. n -> Pieces]
  BY <1>2 DEF WriteAt
<1> HIDE DEF n
<1> QED BY <1>1, <1>3, SeqOf

\* A write at the end of what was sent so far makes it one piece longer.
LEMMA SentLonger ==
  ASSUME NEW pos \in Nat, NEW id \in Ids
  PROVE  WriteAt(Sent(id, pos), pos, id) = Sent(id, pos + 1)
<1>1. Len(Sent(id, pos)) = pos
  <2>1. Sent(id, pos) \in [1 .. pos -> Ids]
    BY DEF Sent
  <2> QED BY <2>1, SeqOf
<1>2. WriteAt(Sent(id, pos), pos, id)
        = [k \in 1 .. pos + 1 |-> IF k = pos + 1 THEN id
                                 ELSE IF k <= pos THEN Sent(id, pos)[k] ELSE Hole]
  BY <1>1 DEF WriteAt
<1>3. \A k \in 1 .. pos + 1 :
        (IF k = pos + 1 THEN id ELSE IF k <= pos THEN Sent(id, pos)[k] ELSE Hole) = id
  BY DEF Sent
<1> QED BY <1>2, <1>3 DEF Sent

LEMMA SentNothing == \A id : Sent(id, 0) = <<>>
BY DEF Sent

-----------------------------------------------------------------------------
(* Types.                                                                  *)

\* A job in work, and what a step makes of it.
LEMMA JobTypes ==
  ASSUME TypeOK, NEW w \in Workers, job[w] # NoJob
  PROVE  /\ job[w] \in Job
         /\ Loss(w) \subseteq Ids
         /\ \A s \in Stages :
              [job EXCEPT ![w].stage = s] \in [Workers -> Job \union {NoJob}]
         /\ [job EXCEPT ![w] = NoJob] \in [Workers -> Job \union {NoJob}]
         /\ [job EXCEPT ![w].pos = @ + 1] \in [Workers -> Job \union {NoJob}]
<1>1. job[w] \in Job
  BY DEF TypeOK
<1>2. /\ \A s \in Stages : [job[w] EXCEPT !.stage = s] \in Job
      /\ [job[w] EXCEPT !.pos = @ + 1] \in Job
  BY <1>1 DEF Job
<1>3. /\ [job EXCEPT ![w].pos = @ + 1] = [job EXCEPT ![w] = [job[w] EXCEPT !.pos = @ + 1]]
      /\ \A s \in Stages :
           [job EXCEPT ![w].stage = s] = [job EXCEPT ![w] = [job[w] EXCEPT !.stage = s]]
  OBVIOUS
<1>4. \A j \in Job \union {NoJob} :
        [job EXCEPT ![w] = j] \in [Workers -> Job \union {NoJob}]
  BY DEF TypeOK
<1>5. Loss(w) \subseteq Ids
  BY DEF Loss
<1> QED BY <1>1, <1>2, <1>3, <1>4, <1>5

LEMMA StepTypes == TypeOK /\ [Next]_vars => TypeOK'
<1> SUFFICES ASSUME TypeOK, [Next]_vars PROVE TypeOK'
  OBVIOUS
<1> USE UploadAssumption
<1>1. ASSUME NEW w \in Workers, NEW form \in Forms, NEW name \in Names,
             NEW size \in Sizes, Submit(w, form, name, size)
      PROVE  TypeOK'
  <2>1. uploads' \in Ids /\ uploads' \in 0 .. MaxUploads
    BY <1>1 DEF Submit, TypeOK, Ids
  <2>2. \A s \in Stages :
          [id |-> uploads', form |-> form, name |-> name, size |-> size,
           stage |-> s, pos |-> 0, binfile |-> <<>>] \in Job
    BY <2>1, NoPieces DEF Job
  <2>3. (IF madeDir THEN "open" ELSE "mkdir") \in Stages
    BY DEF Stages
  <2>4. PICK s \in Stages :
          job' = [job EXCEPT ![w] =
                    [id |-> uploads', form |-> form, name |-> name, size |-> size,
                     stage |-> s, pos |-> 0, binfile |-> <<>>]]
    BY <1>1, <2>3 DEF Submit
  <2>5. job' \in [Workers -> Job \union {NoJob}]
    <3> DEFINE new == [id |-> uploads', form |-> form, name |-> name, size |-> size,
                       stage |-> s, pos |-> 0, binfile |-> <<>>]
    <3>1. new \in Job /\ job' = [job EXCEPT ![w] = new]
      BY <2>2, <2>4
    <3> HIDE DEF new
    <3> QED BY <3>1 DEF TypeOK
  <2> QED BY <1>1, <2>1, <2>5 DEF Submit, TypeOK, disk, history
<1>2. ASSUME NEW form \in Forms, NoFileChosen(form)
      PROVE  TypeOK'
  <2>1. uploads' \in Ids /\ uploads' \in 0 .. MaxUploads
    BY <1>2 DEF NoFileChosen, TypeOK, Ids
  <2> QED BY <1>2, <2>1 DEF NoFileChosen, TypeOK, disk
<1>3. ASSUME NEW w \in Workers, Mkdir(w)
      PROVE  TypeOK'
  <2>1. madeDir' \in BOOLEAN
    BY <1>3, Zenon DEF Mkdir
  <2>2. "open" \in Stages
    BY DEF Stages
  <2> QED BY <1>3, <2>1, <2>2, JobTypes DEF Mkdir, At, TypeOK, history
<1>4. ASSUME NEW w \in Workers, MkdirRaises(w)
      PROVE  TypeOK'
  <2>1. raised' \in [Workers -> Nat]
    BY <1>4 DEF MkdirRaises, TypeOK
  <2>2. job' \in [Workers -> Job \union {NoJob}] /\ dropped' \subseteq Ids
    BY <1>4, JobTypes DEF MkdirRaises, At, TypeOK
  <2> QED BY <1>4, <2>1, <2>2 DEF MkdirRaises, TypeOK, disk
<1>5. ASSUME NEW w \in Workers, Open(w)
      PROVE  TypeOK'
  <2>1. job[w] \in Job /\ job[w].name \in Names
    BY <1>5, JobTypes DEF Open, At, Job
  <2>2. files' \in [Names -> Seq(Pieces)]
    BY <1>5, NoPieces DEF Open, TypeOK
  <2>3. \A v \in Using(job[w].name) \union {w} : job[v].id \in Ids
    BY <2>1, JobTypes DEF Using, At, Job
  <2>4. mixed' \subseteq Ids
    BY <1>5, <2>3 DEF Open, TypeOK
  <2>5. "write" \in Stages
    BY DEF Stages
  <2> QED BY <1>5, <2>2, <2>4, <2>5, JobTypes DEF Open, At, TypeOK
<1>6. ASSUME NEW w \in Workers, Write(w)
      PROVE  TypeOK'
  <2>1. job[w] \in Job /\ job[w].name \in Names /\ job[w].pos \in Nat /\ job[w].id \in Ids
    BY <1>6, JobTypes DEF Write, At, Job
  <2>2. WriteAt(files[job[w].name], job[w].pos, job[w].id) \in Seq(Pieces)
    BY <2>1, WrittenPieces DEF TypeOK
  <2>3. files' \in [Names -> Seq(Pieces)]
    BY <1>6, <2>2 DEF Write, TypeOK
  <2> QED BY <1>6, <2>3, JobTypes DEF Write, At, TypeOK, history
<1>7. ASSUME NEW w \in Workers, Read(w)
      PROVE  TypeOK'
  <2>1. job[w] \in Job
    BY <1>7, JobTypes DEF Read, At
  <2>2. files[job[w].name] \in Seq(Pieces)
    BY <2>1 DEF Job, TypeOK
  <2>3. [job[w] EXCEPT !.stage = "insert", !.binfile = files[job[w].name]] \in Job
    BY <2>1, <2>2 DEF Job, Stages
  <2>4. job' = [job EXCEPT ![w] =
                  [job[w] EXCEPT !.stage = "insert", !.binfile = files[job[w].name]]]
    BY <1>7 DEF Read, TypeOK
  <2>5. job' \in [Workers -> Job \union {NoJob}]
    BY <2>3, <2>4 DEF TypeOK
  <2> QED BY <1>7, <2>5 DEF Read, TypeOK, disk, history
<1>8. ASSUME NEW w \in Workers, Insert(w)
      PROVE  TypeOK'
  <2>1. job[w] \in Job
    BY <1>8, JobTypes DEF Insert, At
  <2>2. [id |-> job[w].id, size |-> job[w].size, files |-> job[w].binfile] \in Solution
    BY <2>1 DEF Job, Solution
  <2> QED BY <1>8, <2>2, JobTypes DEF Insert, At, TypeOK, disk, history
<1>9. ASSUME NEW w \in Workers, Lose(w)
      PROVE  TypeOK'
  BY <1>9, JobTypes DEF Lose, TypeOK, disk
<1>10. CASE Restart
  <2>1. madeDir' \in BOOLEAN
    BY <1>10, Zenon DEF Restart
  <2>2. files' \in [Names -> Seq(Pieces)]
    BY <1>10, NoPieces DEF Restart
  <2>3. dropped' \subseteq Ids
    BY <1>10 DEF Restart, InWork, Loss, TypeOK
  <2> QED BY <1>10, <2>1, <2>2, <2>3 DEF Restart, TypeOK
<1>11. CASE UNCHANGED vars
  BY <1>11 DEF vars, disk, history, TypeOK
<1> QED
  BY <1>1, <1>2, <1>3, <1>4, <1>5, <1>6, <1>7, <1>8, <1>9, <1>10, <1>11
     DEF Next, Work

\* The disk, the uploads in work and the stored answers keep their shape
\* (save_file, convert_binary and insert_solution).
THEOREM AnswerTypeCorrect == Spec => []TypeOK
<1>1. Init => TypeOK
  <2> SUFFICES ASSUME Init PROVE TypeOK
    OBVIOUS
  <2>1. madeDir \in BOOLEAN
    BY Zenon DEF Init
  <2> QED BY <2>1, NoPieces, UploadAssumption DEF Init, TypeOK
<1> QED BY <1>1, StepTypes, PTL DEF Spec

-----------------------------------------------------------------------------
(* The race for the directory.                                             *)

\* Before the directory exists nothing has raised, who is about to call
\* os.mkdir has not raised, and some worker is past it for good.
MkdirInv ==
  /\ \A w \in Workers : raised[w] <= 1
  /\ madeDir \/ \A w \in Workers : raised[w] = 0
  /\ \A w \in Workers : At(w, "mkdir") => raised[w] = 0
  /\ \E w \in Workers : raised[w] = 0 /\ (madeDir => ~ At(w, "mkdir"))

\* What a step that changes one worker's job leaves of the others.
LEMMA OtherJobs ==
  ASSUME TypeOK, NEW w \in Workers, NEW j, job' = [job EXCEPT ![w] = j]
  PROVE  /\ job'[w] = j
         /\ \A v \in Workers : v # w => job'[v] = job[v]
BY DEF TypeOK

\* Steps that call os.mkdir for nobody, and that let nobody raise.
LEMMA StepKeepsMkdir ==
  ASSUME MkdirInv, UNCHANGED <<madeDir, raised>>,
         \A w \in Workers : At(w, "mkdir")' => At(w, "mkdir") \/ ~ madeDir
  PROVE  MkdirInv'
<1>1. PICK w \in Workers : raised[w] = 0 /\ (madeDir => ~ At(w, "mkdir"))
  BY DEF MkdirInv
<1>2. raised'[w] = 0 /\ (madeDir' => ~ At(w, "mkdir")')
  BY <1>1
<1>3. \A v \in Workers : At(v, "mkdir")' => raised'[v] = 0
  BY DEF MkdirInv
<1> QED BY <1>2, <1>3 DEF MkdirInv

LEMMA MkdirStep == TypeOK /\ MkdirInv /\ [Next]_vars => MkdirInv'
<1> SUFFICES ASSUME TypeOK, MkdirInv, [Next]_vars PROVE MkdirInv'
  OBVIOUS
<1> USE UploadAssumption
<1>1. ASSUME NEW w \in Workers, NEW form \in Forms, NEW name \in Names,
             NEW size \in Sizes, Submit(w, form, name, size)
      PROVE  MkdirInv'
  <2>1. \A v \in Workers : v # w => job'[v] = job[v]
    BY <1>1 DEF Submit, TypeOK
  <2>2. madeDir => job'[w].stage = "open"
    BY <1>1 DEF Submit, TypeOK
  <2>3. \A v \in Workers : At(v, "mkdir")' => At(v, "mkdir") \/ ~ madeDir
    BY <2>1, <2>2 DEF At
  <2> QED BY <1>1, <2>3, StepKeepsMkdir DEF Submit, disk, history
<1>2. ASSUME NEW form \in Forms, NoFileChosen(form)
      PROVE  MkdirInv'
  BY <1>2, StepKeepsMkdir DEF NoFileChosen, disk, At
<1>3. ASSUME NEW w \in Workers, Mkdir(w)
      PROVE  MkdirInv'
  <2>1. \A v \in Workers : raised'[v] = 0
    BY <1>3 DEF Mkdir, MkdirInv, history
  <2>2. ~ At(w, "mkdir")'
    BY <1>3 DEF Mkdir, At, TypeOK, Job
  <2> QED BY <1>3, <2>1, <2>2 DEF Mkdir, MkdirInv
<1>4. ASSUME NEW w \in Workers, MkdirRaises(w)
      PROVE  MkdirInv'
  <2>1. /\ job'[w] = NoJob
        /\ \A v \in Workers : v # w => job'[v] = job[v] /\ raised'[v] = raised[v]
        /\ raised'[w] = raised[w] + 1
        /\ madeDir' /\ madeDir
    BY <1>4, OtherJobs DEF MkdirRaises, TypeOK, disk
  <2>2. raised[w] = 0 /\ At(w, "mkdir")
    BY <1>4 DEF MkdirRaises, MkdirInv
  <2>3. PICK v \in Workers : raised[v] = 0 /\ ~ At(v, "mkdir")
    BY <2>1 DEF MkdirInv
  <2>4. raised'[v] = 0 /\ ~ At(v, "mkdir")'
    BY <2>1, <2>2, <2>3 DEF At
  <2>5. \A u \in Workers : raised'[u] <= 1
    BY <2>1, <2>2 DEF MkdirInv
  <2>6. \A u \in Workers : At(u, "mkdir")' => raised'[u] = 0
    BY <2>1 DEF MkdirInv, At
  <2> QED BY <2>1, <2>4, <2>5, <2>6 DEF MkdirInv
<1>5. ASSUME NEW w \in Workers, Open(w) \/ Write(w) \/ Read(w) \/ Insert(w) \/ Lose(w)
      PROVE  MkdirInv'
  <2>1. \A v \in Workers : v # w => job'[v] = job[v]
    BY <1>5 DEF Open, Write, Read, Insert, Lose, TypeOK
  <2>2. ~ At(w, "mkdir")'
    <3>1. CASE Open(w)
      BY <3>1 DEF Open, At, TypeOK, Job
    <3>2. CASE Write(w)
      BY <3>2 DEF Write, At, TypeOK, Job
    <3>3. CASE Read(w)
      BY <3>3 DEF Read, At, TypeOK, Job
    <3>4. CASE Insert(w) \/ Lose(w)
      BY <3>4, OtherJobs DEF Insert, Lose, At
    <3> QED BY <1>5, <3>1, <3>2, <3>3, <3>4
  <2>3. UNCHANGED <<madeDir, raised>>
    BY <1>5 DEF Open, Write, Read, Insert, Lose, disk, history
  <2>4. \A v \in Workers : At(v, "mkdir")' => At(v, "mkdir") \/ ~ madeDir
    BY <2>1, <2>2 DEF At
  <2> QED BY <2>3, <2>4, StepKeepsMkdir
<1>6. CASE Restart
  <2>1. \A w \in Workers : raised'[w] = 0 /\ ~ At(w, "mkdir")'
    BY <1>6 DEF Restart, At
  <2> QED BY <2>1 DEF MkdirInv
<1>7. CASE UNCHANGED vars
  BY <1>7, StepKeepsMkdir DEF vars, disk, history, At
<1> QED
  BY <1>1, <1>2, <1>3, <1>4, <1>5, <1>6, <1>7 DEF Next, Work

\* However many workers see no uploads/ at once, each loses at most one answer
\* to os.mkdir until the next restart, and one of them loses none (save_file).
THEOREM DirectoryRace == Spec => []MkdirLosesFew
<1>1. Init => MkdirInv
  BY UploadAssumption DEF Init, MkdirInv, At
<1>2. MkdirInv => MkdirLosesFew
  BY DEF MkdirInv, MkdirLosesFew
<1> QED BY <1>1, <1>2, MkdirStep, AnswerTypeCorrect, PTL DEF Spec

-----------------------------------------------------------------------------
(* What is stored.                                                         *)

Clean(w) == job[w].id \notin mixed

\* Up to the read a file holds what its only writer wrote; two writers of one
\* name know of each other.
FileInv ==
  /\ \A w \in Workers : At(w, "mkdir") \/ At(w, "open") => job[w].pos = 0
  /\ \A w \in Workers : At(w, "write") /\ Clean(w) =>
       files[job[w].name] = Sent(job[w].id, job[w].pos)
  /\ \A w \in Workers : At(w, "insert") /\ Clean(w) =>
       job[w].binfile = Sent(job[w].id, job[w].size)
  /\ \A v, w \in Workers : v # w /\ At(v, "write") /\ At(w, "write") /\ Clean(w) =>
       job[v].name # job[w].name
  /\ OwnFile

\* Steps that end jobs and write no file.
LEMMA StepEndsJobs ==
  ASSUME FileInv, UNCHANGED <<files, stored, mixed>>,
         \A w \in Workers : job'[w] = job[w] \/ job'[w] = NoJob
  PROVE  FileInv'
<1>1. \A w \in Workers, s \in Stages : At(w, s)' => At(w, s) /\ job'[w] = job[w]
  BY DEF At
<1>2. \A w \in Workers : job'[w] = job[w] => (Clean(w)' <=> Clean(w))
  BY DEF Clean
<1>3. OwnFile'
  BY DEF FileInv, OwnFile
<1> QED BY <1>1, <1>2, <1>3 DEF FileInv, Stages

LEMMA FileStep == TypeOK /\ FileInv /\ [Next]_vars => FileInv'
<1> SUFFICES ASSUME TypeOK, FileInv, [Next]_vars PROVE FileInv'
  OBVIOUS
<1> USE UploadAssumption
<1>1. ASSUME NEW w \in Workers, NEW form \in Forms, NEW name \in Names,
             NEW size \in Sizes, Submit(w, form, name, size)
      PROVE  FileInv'
  <2>1. /\ \A v \in Workers : v # w => job'[v] = job[v]
        /\ job'[w].pos = 0
        /\ job'[w].stage \in {"mkdir", "open"}
        /\ UNCHANGED <<files, stored, mixed>>
    BY <1>1 DEF Submit, TypeOK, disk, history
  <2>2. OwnFile'
    BY <2>1 DEF FileInv, OwnFile
  <2> QED BY <2>1, <2>2 DEF FileInv, At, Clean
<1>2. ASSUME NEW form \in Forms, NoFileChosen(form)
      PROVE  FileInv'
  BY <1>2, StepEndsJobs DEF NoFileChosen, disk
<1>3. ASSUME NEW w \in Workers, Mkdir(w)
      PROVE  FileInv'
  <2>1. /\ \A v \in Workers : v # w => job'[v] = job[v]
        /\ job'[w].pos = job[w].pos
        /\ job'[w].stage = "open"
        /\ UNCHANGED <<files, stored, mixed>>
    BY <1>3 DEF Mkdir, At, TypeOK, Job, disk, history
  <2>2. job[w].pos = 0
    BY <1>3 DEF Mkdir, FileInv
  <2>3. OwnFile'
    BY <2>1 DEF FileInv, OwnFile
  <2> QED BY <2>1, <2>2, <2>3 DEF FileInv, At, Clean
<1>4. ASSUME NEW w \in Workers, MkdirRaises(w) \/ Lose(w)
      PROVE  FileInv'
  <2>1. \A v \in Workers : job'[v] = job[v] \/ job'[v] = NoJob
    BY <1>4, OtherJobs DEF MkdirRaises, Lose
  <2> QED BY <1>4, <2>1, StepEndsJobs DEF MkdirRaises, Lose, disk
<1>5. ASSUME NEW w \in Workers, Open(w)
      PROVE  FileInv'
  <2>1. /\ job[w] \in Job
        /\ \A v \in Workers : v # w => job'[v] = job[v]
        /\ job'[w] = [job[w] EXCEPT !.stage = "write"]
        /\ UNCHANGED stored
    BY <1>5 DEF Open, At, TypeOK
  <2>2. /\ job'[w].stage = "write" /\ job'[w].pos = job[w].pos
        /\ job'[w].id = job[w].id /\ job'[w].name = job[w].name
    BY <2>1 DEF Job
  <2>3. job[w].pos = 0
    BY <1>5 DEF Open, FileInv
  <2>4. /\ files'[job[w].name] = <<>>
        /\ \A name \in Names : name # job[w].name => files'[name] = files[name]
    BY <1>5, <2>1 DEF Open, TypeOK, Job
  <2>5. mixed \subseteq mixed'
    BY <1>5 DEF Open
  <2>6. \A v \in Workers : v # w /\ At(v, "write") /\ job[v].name = job[w].name
          => job[v].id \in mixed' /\ job[w].id \in mixed'
    BY <1>5 DEF Open, Using
  <2>7. \A v \in Workers : At(v, "write")' => job'[v].name \in Names
    BY <2>1, <2>2 DEF At, TypeOK, Job
  <2>8. OwnFile'
    BY <2>1, <2>5 DEF FileInv, OwnFile
  <2>9. \A u \in Workers : At(u, "mkdir")' \/ At(u, "open")' => job'[u].pos = 0
    BY <2>1, <2>2 DEF FileInv, At
  <2>10. ASSUME NEW u \in Workers, At(u, "write")', Clean(u)'
         PROVE  files'[job'[u].name] = Sent(job'[u].id, job'[u].pos)
    <3>1. CASE u = w
      BY <3>1, <2>2, <2>3, <2>4, SentNothing
    <3>2. CASE u # w
      BY <3>2, <2>1, <2>4, <2>5, <2>6, <2>7, <2>10 DEF FileInv, At, Clean
    <3> QED BY <3>1, <3>2
  <2>11. ASSUME NEW u \in Workers, At(u, "insert")', Clean(u)'
         PROVE  job'[u].binfile = Sent(job'[u].id, job'[u].size)
    <3>1. u # w
      BY <2>1, <2>2, <2>11 DEF At
    <3>2. At(u, "insert") /\ Clean(u) /\ job'[u] = job[u]
      BY <3>1, <2>1, <2>5, <2>11 DEF At, Clean
    <3> QED BY <3>2 DEF FileInv
  <2>12. ASSUME NEW u \in Workers, NEW v \in Workers, v # u,
                At(v, "write")', At(u, "write")', Clean(u)'
         PROVE  job'[v].name # job'[u].name
    <3>1. CASE u = w
      BY <3>1, <2>1, <2>2, <2>6, <2>12 DEF At, Clean
    <3>2. CASE v = w
      BY <3>2, <2>1, <2>2, <2>6, <2>12 DEF At, Clean
    <3>3. CASE u # w /\ v # w
      BY <3>3, <2>1, <2>5, <2>12 DEF FileInv, At, Clean
    <3> QED BY <3>1, <3>2, <3>3
  <2> QED BY <2>8, <2>9, <2>10, <2>11, <2>12 DEF FileInv
<1>6. ASSUME NEW w \in Workers, Write(w)
      PROVE  FileInv'
  <2>1. /\ job[w] \in Job
        /\ \A v \in Workers : v # w => job'[v] = job[v]
        /\ job'[w] = [job[w] EXCEPT !.pos = @ + 1]
        /\ At(w, "write")
        /\ UNCHANGED <<stored, mixed>>
    BY <1>6 DEF Write, At, TypeOK, history
  <2>2. /\ job'[w].stage = "write" /\ job'[w].pos = job[w].pos + 1
        /\ job'[w].id = job[w].id /\ job'[w].name = job[w].name
        /\ job[w].pos \in Nat /\ job[w].id \in Ids /\ job[w].name \in Names
    BY <2>1 DEF Job, At
  <2>3. /\ files'[job[w].name] = WriteAt(files[job[w].name], job[w].pos, job[w].id)
        /\ \A name \in Names : name # job[w].name => files'[name] = files[name]
    BY <1>6, <2>2 DEF Write, TypeOK
  <2>4. ASSUME NEW v \in Workers, At(v, "write")'
        PROVE  job'[v].name \in Names
    <3>1. v # w => job[v] \in Job
      BY <2>1, <2>4 DEF At, TypeOK
    <3> QED BY <3>1, <2>1, <2>2 DEF Job
  <2>5. OwnFile'
    BY <2>1 DEF FileInv, OwnFile
  <2>6. \A u \in Workers : At(u, "mkdir")' \/ At(u, "open")' => job'[u].pos = 0
    BY <2>1, <2>2 DEF FileInv, At
  <2>7. ASSUME NEW u \in Workers, At(u, "write")', Clean(u)'
        PROVE  files'[job'[u].name] = Sent(job'[u].id, job'[u].pos)
    <3>1. CASE u = w
      <4>1. files[job[w].name] = Sent(job[w].id, job[w].pos)
        BY <3>1, <2>1, <2>2, <2>7 DEF FileInv, Clean
      <4> QED BY <3>1, <4>1, <2>2, <2>3, SentLonger
    <3>2. CASE u # w
      <4>1. At(u, "write") /\ Clean(u) /\ job'[u] = job[u]
        BY <3>2, <2>1, <2>7 DEF At, Clean
      <4>2. job[u].name # job[w].name
        BY <3>2, <4>1, <2>1 DEF FileInv
      <4> QED BY <4>1, <4>2, <2>3, <2>4, <2>7 DEF FileInv
    <3> QED BY <3>1, <3>2
  <2>8. ASSUME NEW u \in Workers, At(u, "insert")', Clean(u)'
        PROVE  job'[u].binfile = Sent(job'[u].id, job'[u].size)
    <3>1. u # w
      BY <2>1, <2>2, <2>8 DEF At
    <3>2. At(u, "insert") /\ Clean(u) /\ job'[u] = job[u]
      BY <3>1, <2>1, <2>8 DEF At, Clean
    <3> QED BY <3>2 DEF FileInv
  <2>9. ASSUME NEW u \in Workers, NEW v \in Workers, v # u,
               At(v, "write")', At(u, "write")', Clean(u)'
        PROVE  job'[v].name # job'[u].name
    <3>1. /\ At(u, "write") /\ At(v, "write") /\ Clean(u)
          /\ job'[u].name = job[u].name /\ job'[v].name = job[v].name
      BY <2>1, <2>2, <2>9 DEF At, Clean
    <3> QED BY <3>1, <2>9 DEF FileInv
  <2> QED BY <2>5, <2>6, <2>7, <2>8, <2>9 DEF FileInv
<1>7. ASSUME NEW w \in Workers, Read(w)
      PROVE  FileInv'
  <2>1. /\ job[w] \in Job
        /\ \A v \in Workers : v # w => job'[v] = job[v]
        /\ job'[w] = [job[w] EXCEPT !.stage = "insert", !.binfile = files[job[w].name]]
        /\ At(w, "write") /\ job[w].pos = job[w].size
        /\ UNCHANGED <<files, stored, mixed>>
    BY <1>7 DEF Read, At, TypeOK, disk, history
  <2>2. /\ job'[w].stage = "insert" /\ job'[w].binfile = files[job[w].name]
        /\ job'[w].id = job[w].id /\ job'[w].size = job[w].size
    BY <2>1 DEF Job
  <2>3. Clean(w) => files[job[w].name] = Sent(job[w].id, job[w].size)
    BY <2>1 DEF FileInv
  <2>4. OwnFile'
    BY <2>1 DEF FileInv, OwnFile
  <2>5. \A u \in Workers : At(u, "mkdir")' \/ At(u, "open")' => job'[u].pos = 0
    <3>1. \A u \in Workers : At(u, "mkdir")' \/ At(u, "open")' =>
            (At(u, "mkdir") \/ At(u, "open")) /\ job'[u] = job[u]
      BY <2>1, <2>2 DEF At
    <3> QED BY <3>1 DEF FileInv
  <2>6. \A u \in Workers : At(u, "write")' => u # w /\ At(u, "write") /\ job'[u] = job[u]
    BY <2>1, <2>2 DEF At
  <2>7. ASSUME NEW u \in Workers, At(u, "insert")', Clean(u)'
        PROVE  job'[u].binfile = Sent(job'[u].id, job'[u].size)
    <3>1. CASE u = w
      <4>1. Clean(w)
        BY <3>1, <2>1, <2>2, <2>7 DEF Clean
      <4> QED BY <3>1, <4>1, <2>2, <2>3
    <3>2. CASE u # w
      <4>1. At(u, "insert") /\ Clean(u) /\ job'[u] = job[u]
        BY <3>2, <2>1, <2>7 DEF At, Clean
      <4> QED BY <4>1 DEF FileInv
    <3> QED BY <3>1, <3>2
  <2> QED BY <2>1, <2>4, <2>5, <2>6, <2>7 DEF FileInv, Clean
<1>8. ASSUME NEW w \in Workers, Insert(w)
      PROVE  FileInv'
  <2>1. /\ job'[w] = NoJob /\ At(w, "insert")
        /\ \A v \in Workers : v # w => job'[v] = job[v]
        /\ UNCHANGED <<files, mixed>>
    BY <1>8, OtherJobs DEF Insert, disk, history
  <2>2. \A s \in stored' : s \in stored \/
          s = [id |-> job[w].id, size |-> job[w].size, files |-> job[w].binfile]
    BY <1>8 DEF Insert
  <2>3. OwnFile'
    BY <2>1, <2>2 DEF FileInv, OwnFile, Clean
  <2> QED BY <2>1, <2>3 DEF FileInv, At, Clean
<1>9. CASE Restart
  <2>1. \A w \in Workers : job'[w] = NoJob
    BY <1>9 DEF Restart
  <2>2. OwnFile'
    BY <1>9 DEF Restart, FileInv, OwnFile
  <2> QED BY <2>1, <2>2 DEF FileInv, At
<1>10. CASE UNCHANGED vars
  BY <1>10, StepEndsJobs DEF vars, disk, history
<1> QED
  BY <1>1, <1>2, <1>3, <1>4, <1>5, <1>6, <1>7, <1>8, <1>9, <1>10 DEF Next, Work

\* A stored answer has its own file, whole, unless two uploads of one name
\* overlapped between the open and the read (save_file and convert_binary).
THEOREM OwnFileStored == Spec => []OwnFile
<1>1. Init => FileInv
  BY DEF Init, FileInv, OwnFile, At
<1>2. FileInv => OwnFile
  BY DEF FileInv
<1> QED BY <1>1, <1>2, FileStep, AnswerTypeCorrect, PTL DEF Spec

-----------------------------------------------------------------------------
(* Answers implement Delivery.                                             *)

\* What worker w holds of InWork.
Part(w) == IF job[w] = NoJob THEN {} ELSE Loss(w)

\* Every upload so far has one number, and is in one place at most.
OnceInv ==
  /\ \A w \in Workers : job[w] # NoJob => /\ job[w].id <= uploads
                                         /\ job[w].id \notin StoredIds
  /\ \A v, w \in Workers : v # w /\ job[v] # NoJob /\ job[w] # NoJob =>
                            job[v].id # job[w].id
  /\ \A id \in StoredIds : id <= uploads

LEMMA PartsOfWork ==
  /\ InWork = UNION {Part(v) : v \in Workers}
  /\ InWork \subseteq Ids
BY DEF InWork, Part, Loss

LEMMA PartIds ==
  ASSUME TypeOK, NEW w \in Workers
  PROVE  /\ job[w] = NoJob => Part(w) = {}
         /\ job[w] # NoJob /\ job[w].form = "answer" =>
              Part(w) = {job[w].id} /\ job[w].id \in Ids
         /\ job[w] # NoJob /\ job[w].form # "answer" => Part(w) = {}
         /\ job[w] # NoJob => Part(w) = Loss(w) /\ job[w].id \in Ids
BY JobTypes DEF Part, Loss, Job

\* A step of one worker changes its own part of InWork.
LEMMA WorkChange ==
  ASSUME TypeOK, OnceInv, NEW w \in Workers,
         \A v \in Workers : v # w => job'[v] = job[v]
  PROVE  InWork' = (InWork \ Part(w)) \union Part(w)'
<1>1. \A v \in Workers : v # w => Part(v)' = Part(v)
  BY DEF Part, Loss
<1>2. \A v \in Workers : v # w => Part(v) \intersect Part(w) = {}
  BY DEF Part, Loss, OnceInv
<1>3. InWork' = UNION {Part(v)' : v \in Workers}
  BY DEF InWork, Part, Loss
<1>4. InWork = UNION {Part(v) : v \in Workers}
  BY PartsOfWork
<1> QED
  BY <1>1, <1>2, <1>3, <1>4

\* An answer is in one place, and its number was given out.
LEMMA Places ==
  ASSUME TypeOK, OnceInv
  PROVE  /\ uploads \in Nat
         /\ InWork \intersect StoredIds = {}
         /\ InWork \union StoredIds \subseteq 1 .. uploads
         /\ InWork \union StoredIds \subseteq Ids
<1>1. uploads \in Nat
  BY UploadAssumption DEF TypeOK
<1>2. InWork \subseteq Ids /\ StoredIds \subseteq Ids
  BY PartsOfWork DEF StoredIds, TypeOK, Solution
<1>3. \A id \in InWork \union StoredIds : id <= uploads
  BY DEF OnceInv, InWork, Loss
<1>4. InWork \intersect StoredIds = {}
  BY DEF OnceInv, InWork, Loss
<1>5. \A id \in Ids : id \in Nat /\ id >= 1
  BY UploadAssumption DEF Ids
<1> QED
  BY <1>1, <1>2, <1>3, <1>4, <1>5

\* What a step does to the answers, by what it does to their numbers.
LEMMA AnswersSame ==
  ASSUME UNCHANGED <<uploads, InWork, StoredIds>>
  PROVE  [Answers!Next]_(Answers!vars)
BY DEF Answers!vars

LEMMA AnswersLost ==
  ASSUME TypeOK, OnceInv, NEW some, some \subseteq InWork,
         InWork' = InWork \ some, UNCHANGED <<uploads, StoredIds>>
  PROVE  [Answers!Next]_(Answers!vars)
<1>1. Answers!Lose(some)
  BY Places DEF Answers!Lose
<1> QED
  BY <1>1 DEF Answers!Next

LEMMA AnswerDelivered ==
  ASSUME TypeOK, OnceInv, NEW id \in InWork, uploads' = uploads,
         InWork' = InWork \ {id}, StoredIds' = StoredIds \union {id}
  PROVE  [Answers!Next]_(Answers!vars)
<1>1. id \in Ids
  BY Places
<1>2. Answers!Deliver(id)
  BY DEF Answers!Deliver
<1> QED
  BY <1>1, <1>2 DEF Answers!Next

\* The number of the next upload is new.
LEMMA NextIsNew ==
  ASSUME TypeOK, OnceInv, uploads < MaxUploads, NEW id, id = uploads + 1
  PROVE  /\ id \in Ids /\ id \notin 1 .. uploads
         /\ 1 .. id = (1 .. uploads) \union {id}
         /\ id \in Answers!New
         /\ \A w \in Workers : job[w] # NoJob => job[w].id # id
<1>1. uploads \in Nat /\ MaxUploads \in Nat
  BY UploadAssumption DEF TypeOK
<1>2. id \in Ids /\ id \notin 1 .. uploads /\ 1 .. id = (1 .. uploads) \union {id}
  BY <1>1 DEF Ids
<1>3. \A w \in Workers : job[w] # NoJob => job[w].id # id
  BY <1>1 DEF OnceInv
<1>4. InWork \union StoredIds \subseteq 1 .. uploads
  BY Places
<1> QED
  BY <1>2, <1>3, <1>4 DEF Answers!New

LEMMA AnswerTaken ==
  ASSUME TypeOK, OnceInv, uploads < MaxUploads, NEW id, id = uploads + 1,
         uploads' = id, InWork' = InWork \union {id}, StoredIds' = StoredIds
  PROVE  [Answers!Next]_(Answers!vars)
<1>1. /\ id \in Ids /\ id \notin 1 .. uploads
      /\ 1 .. id = (1 .. uploads) \union {id}
      /\ id \in Answers!New
  BY NextIsNew
<1>2. InWork \union StoredIds \subseteq 1 .. uploads
  BY Places
<1>3. Answers!Take(id)
  BY <1>1, <1>2 DEF Answers!Take
<1> QED
  BY <1>1, <1>3 DEF Answers!Next

LEMMA AnswerRefused ==
  ASSUME TypeOK, OnceInv, uploads < MaxUploads, NEW id, id = uploads + 1,
         uploads' = id, UNCHANGED <<InWork, StoredIds>>
  PROVE  [Answers!Next]_(Answers!vars)
<1>1. /\ id \in Ids /\ id \notin 1 .. uploads
      /\ 1 .. id = (1 .. uploads) \union {id}
      /\ id \in Answers!New
  BY NextIsNew
<1>2. InWork \union StoredIds \subseteq 1 .. uploads
  BY Places
<1>3. Answers!Refuse(id)
  BY <1>1, <1>2 DEF Answers!Refuse
<1> QED
  BY <1>1, <1>3 DEF Answers!Next

\* A worker goes on with its upload.
LEMMA UploadGoesOn ==
  ASSUME TypeOK, OnceInv, NEW w \in Workers, UNCHANGED <<uploads, stored>>,
         job[w] # NoJob, job'[w] # NoJob,
         job'[w].id = job[w].id, job'[w].form = job[w].form,
         \A v \in Workers : v # w => job'[v] = job[v]
  PROVE  OnceInv' /\ [Answers!Next]_(Answers!vars)
<1>1. Part(w)' = Part(w) /\ Part(w) \subseteq InWork
  BY PartsOfWork DEF Part, Loss
<1>2. InWork' = InWork
  BY <1>1, WorkChange
<1>3. StoredIds' = StoredIds
  BY DEF StoredIds
<1>4. OnceInv'
  BY <1>3 DEF OnceInv
<1> QED
  BY <1>2, <1>3, <1>4, AnswersSame

\* A worker ends its upload with nothing.
LEMMA UploadLost ==
  ASSUME TypeOK, OnceInv, NEW w \in Workers, UNCHANGED <<uploads, stored>>,
         job[w] # NoJob, job' = [job EXCEPT ![w] = NoJob]
  PROVE  OnceInv' /\ [Answers!Next]_(Answers!vars)
<1>1. job'[w] = NoJob /\ \A v \in Workers : v # w => job'[v] = job[v]
  BY OtherJobs DEF TypeOK
<1>2. Part(w)' = {} /\ Part(w) \subseteq InWork
  BY <1>1, PartsOfWork DEF Part
<1>3. InWork' = InWork \ Part(w)
  BY <1>1, <1>2, WorkChange
<1>4. StoredIds' = StoredIds
  BY DEF StoredIds
<1>5. OnceInv'
  BY <1>1, <1>4 DEF OnceInv
<1> QED
  BY <1>2, <1>3, <1>4, <1>5, AnswersLost

\* A new number is given out; who holds it holds it alone.
LEMMA NumbersGrow ==
  ASSUME TypeOK, OnceInv, uploads < MaxUploads, uploads' = uploads + 1,
         stored' = stored,
         \A v \in Workers : job'[v] # job[v] => job'[v].id = uploads',
         \A u, v \in Workers : u # v /\ job'[u] # job[u] => job'[v] = job[v]
  PROVE  OnceInv'
<1> DEFINE id == uploads + 1
<1>1. uploads \in Nat /\ InWork \union StoredIds \subseteq Ids
  BY Places
<1>2. /\ \A v \in Workers : job[v] # NoJob => job[v].id # id
      /\ id \notin StoredIds
  <2>1. StoredIds \subseteq 1 .. uploads /\ id \notin 1 .. uploads
    BY Places, NextIsNew
  <2> QED
    BY <2>1, NextIsNew
<1>3. StoredIds' = StoredIds
  BY DEF StoredIds
<1>4. \A i \in Int : i <= uploads => i <= id
  BY <1>1
<1>5. /\ \A v \in Workers : job[v] # NoJob => job[v].id \in Int
      /\ \A i \in StoredIds : i \in Int
  BY <1>1, PartIds DEF Ids
<1>6. id <= id
  BY <1>1
<1> HIDE DEF id
<1>7. uploads' = id
  BY DEF id
<1>8. \A v \in Workers : job'[v] # NoJob =>
        job'[v].id <= uploads' /\ job'[v].id \notin StoredIds'
  BY <1>2, <1>3, <1>4, <1>5, <1>6, <1>7 DEF OnceInv
<1>9. \A u, v \in Workers : u # v /\ job'[u] # NoJob /\ job'[v] # NoJob =>
        job'[u].id # job'[v].id
  BY <1>2, <1>7 DEF OnceInv
<1>10. \A i \in StoredIds' : i <= uploads'
  BY <1>3, <1>4, <1>5, <1>7 DEF OnceInv
<1> QED
  BY <1>8, <1>9, <1>10 DEF OnceInv

\* Each step is a step of Answers or leaves its numbers alone.
LEMMA OnceStep ==
  ASSUME TypeOK, OnceInv, [Next]_vars
  PROVE  OnceInv' /\ [Answers!Next]_(Answers!vars)
<1>1. ASSUME NEW w \in Workers, NEW form \in Forms, NEW name \in Names,
             NEW size \in Sizes, Submit(w, form, name, size)
      PROVE  OnceInv' /\ [Answers!Next]_(Answers!vars)
  <2> DEFINE id == uploads + 1
  <2>1. /\ job[w] = NoJob
        /\ uploads < MaxUploads /\ uploads' = id
        /\ UNCHANGED stored
        /\ \A v \in Workers : v # w => job'[v] = job[v]
        /\ job'[w].id = id /\ job'[w].form = form
    BY <1>1 DEF Submit, TypeOK, history
  <2>2. job'[w] # NoJob
    <3>1. \A s \in Stages :
            [id |-> uploads', form |-> form, name |-> name, size |-> size,
             stage |-> s, pos |-> 0, binfile |-> <<>>] # NoJob
      <4>1. uploads' \in Ids
        BY <2>1, NextIsNew
      <4>2. \A s \in Stages :
              [id |-> uploads', form |-> form, name |-> name, size |-> size,
               stage |-> s, pos |-> 0, binfile |-> <<>>] \in Job
        BY <4>1, NoPieces DEF Job
      <4> QED
        BY <4>2, UploadAssumption
    <3>2. (IF madeDir THEN "open" ELSE "mkdir") \in Stages
      BY DEF Stages
    <3> QED
      BY <1>1, <3>1, <3>2 DEF Submit, TypeOK
  <2>3. OnceInv'
    <3> HIDE DEF id
    <3>1. uploads' = uploads + 1
      BY <2>1 DEF id
    <3> QED
      BY <2>1, <3>1, NumbersGrow
  <2>4. StoredIds' = StoredIds
    BY <2>1 DEF StoredIds
  <2>5. InWork' = InWork \union Part(w)'
    BY <2>1, WorkChange, PartIds
  <2>6. Part(w)' = IF form = "answer" THEN {id} ELSE {}
    <3>1. id \in Ids
      BY <2>1, NextIsNew
    <3> QED
      BY <2>1, <2>2, <3>1 DEF Part, Loss
  <2>7. CASE form = "answer"
    <3>1. InWork' = InWork \union {id}
      BY <2>5, <2>6, <2>7
    <3> QED
      BY <2>1, <2>3, <2>4, <3>1, AnswerTaken
  <2>8. CASE form # "answer"
    <3>1. InWork' = InWork
      BY <2>5, <2>6, <2>8
    <3> QED
      BY <2>1, <2>3, <2>4, <3>1, AnswerRefused
  <2> QED
    BY <2>7, <2>8
<1>2. ASSUME NEW form \in Forms, NoFileChosen(form)
      PROVE  OnceInv' /\ [Answers!Next]_(Answers!vars)
  <2>1. uploads < MaxUploads /\ uploads' = uploads + 1 /\ UNCHANGED <<job, stored>>
    BY <1>2 DEF NoFileChosen
  <2>2. StoredIds' = StoredIds /\ InWork' = InWork
    BY <2>1 DEF StoredIds, InWork, Loss
  <2>3. OnceInv'
    BY <2>1, NumbersGrow
  <2> QED
    BY <2>1, <2>2, <2>3, AnswerRefused
<1>3. ASSUME NEW w \in Workers, Mkdir(w) \/ Open(w) \/ Write(w) \/ Read(w)
      PROVE  OnceInv' /\ [Answers!Next]_(Answers!vars)
  <2>1. job[w] # NoJob /\ job[w] \in Job
    BY <1>3, JobTypes DEF Mkdir, Open, Write, Read, At
  <2>2. /\ job'[w].id = job[w].id /\ job'[w].form = job[w].form
        /\ \A v \in Workers : v # w => job'[v] = job[v]
        /\ UNCHANGED <<uploads, stored>>
    BY <1>3, <2>1 DEF Mkdir, Open, Write, Read, TypeOK, Job, history
  <2>3. job'[w] # NoJob
    <3>1. job'[w] \in Job
      <4>1. CASE Mkdir(w)
        BY <2>1, <4>1 DEF Mkdir, TypeOK, Job, Stages
      <4>2. CASE Open(w)
        BY <2>1, <4>2 DEF Open, TypeOK, Job, Stages
      <4>3. CASE Write(w)
        <5>1. job[w].pos + 1 \in Nat
          BY <2>1 DEF Job
        <5>2. job'[w] = [job[w] EXCEPT !.pos = @ + 1]
          BY <4>3 DEF Write, TypeOK
        <5> QED
          BY <2>1, <5>1, <5>2 DEF Job
      <4>4. CASE Read(w)
        <5>1. files[job[w].name] \in Seq(Pieces)
          BY <2>1 DEF Job, TypeOK
        <5>2. job'[w] = [job[w] EXCEPT !.stage = "insert", !.binfile = files[job[w].name]]
          BY <4>4 DEF Read, TypeOK
        <5> QED
          BY <2>1, <5>1, <5>2 DEF Job, Stages
      <4> QED
        BY <1>3, <4>1, <4>2, <4>3, <4>4
    <3> QED
      BY <3>1, UploadAssumption
  <2> QED
    BY <2>1, <2>2, <2>3, UploadGoesOn
<1>4. ASSUME NEW w \in Workers, MkdirRaises(w) \/ Lose(w)
      PROVE  OnceInv' /\ [Answers!Next]_(Answers!vars)
  BY <1>4, UploadLost DEF MkdirRaises, Lose, At
<1>5. ASSUME NEW w \in Workers, Insert(w)
      PROVE  OnceInv' /\ [Answers!Next]_(Answers!vars)
  <2> DEFINE id == job[w].id
  <2>1. /\ job[w] # NoJob /\ job'[w] = NoJob
        /\ \A v \in Workers : v # w => job'[v] = job[v]
        /\ UNCHANGED uploads
    BY <1>5, OtherJobs DEF Insert, At, TypeOK, history
  <2>2. /\ id \notin StoredIds /\ id <= uploads
        /\ \A v \in Workers : v # w /\ job[v] # NoJob => job[v].id # id
    BY <2>1 DEF OnceInv
  <2>3. StoredIds' = IF job[w].form = "answer" THEN StoredIds \union {id} ELSE StoredIds
    <3> DEFINE new == [id |-> job[w].id, size |-> job[w].size, files |-> job[w].binfile]
    <3>1. new.id = id
      OBVIOUS
    <3>2. stored' = IF job[w].form = "answer" THEN stored \union {new} ELSE stored
      BY <1>5 DEF Insert
    <3> HIDE DEF new, id
    <3> QED
      BY <3>1, <3>2 DEF StoredIds
  <2>4. InWork' = InWork \ Part(w) /\ Part(w) \subseteq InWork
    <3>1. Part(w)' = {}
      BY <2>1 DEF Part
    <3> QED
      BY <2>1, <3>1, WorkChange, PartsOfWork
  <2>5. Part(w) = IF job[w].form = "answer" THEN {id} ELSE {}
    BY <2>1, PartIds
  <2>6. OnceInv'
    <3> HIDE DEF id
    <3> QED
      BY <2>1, <2>2, <2>3 DEF OnceInv
  <2>7. CASE job[w].form = "answer"
    <3>1. /\ id \in InWork /\ InWork' = InWork \ {id}
          /\ StoredIds' = StoredIds \union {id}
      BY <2>3, <2>4, <2>5, <2>7
    <3> HIDE DEF id
    <3> QED
      BY <2>1, <2>6, <3>1, AnswerDelivered
  <2>8. CASE job[w].form # "answer"
    <3>1. InWork' = InWork /\ StoredIds' = StoredIds
      BY <2>3, <2>4, <2>5, <2>8
    <3> QED
      BY <2>1, <2>6, <3>1, AnswersSame
  <2> QED
    BY <2>7, <2>8
<1>6. CASE Restart
  <2>1. /\ \A v \in Workers : job'[v] = NoJob
        /\ UNCHANGED <<uploads, stored>>
    BY <1>6 DEF Restart
  <2>2. InWork' = {} /\ StoredIds' = StoredIds
    BY <2>1 DEF InWork, StoredIds
  <2>3. OnceInv'
    BY <2>1, <2>2 DEF OnceInv
  <2> QED
    BY <2>1, <2>2, <2>3, AnswersLost
<1>7. CASE UNCHANGED vars
  <2>1. UNCHANGED <<uploads, InWork, StoredIds>> /\ OnceInv'
    BY <1>7 DEF vars, history, OnceInv, StoredIds, InWork, Loss
  <2> QED
    BY <2>1, AnswersSame
<1> QED
  BY <1>1, <1>2, <1>3, <1>4, <1>5, <1>6, <1>7 DEF Next, Work

\* Answers implement Delivery: each is inserted once or never, whatever raises,
\* dies or is restarted under it, and none comes back after it left its worker
\* (save_file, convert_binary, insert_solution).
THEOREM AnswerRefinement == Spec => AnswersOnce
<1>1. Init => OnceInv /\ Answers!Init
  <2> SUFFICES ASSUME Init PROVE OnceInv /\ Answers!Init
    OBVIOUS
  <2>1. InWork = {} /\ StoredIds = {} /\ 1 .. uploads = {}
    BY DEF Init, InWork, StoredIds
  <2>2. \A w \in Workers : job[w] = NoJob
    BY DEF Init
  <2> QED
    BY <2>1, <2>2 DEF OnceInv, Answers!Init
<1> QED
  BY <1>1, OnceStep, AnswerTypeCorrect, PTL DEF Spec, AnswersOnce, Answers!Spec
=============================================================================
