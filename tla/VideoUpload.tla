---------------------------- MODULE VideoUpload ------------------------------
(***************************************************************************)
(* The upload screens of the iOS app on top of VideoStore.                 *)
(*                                                                         *)
(* A picked video is compressed in the background.  When that ends, the    *)
(* main queue calls videoPickedBlock of the one AttachmentHandler, which   *)
(* is the block of the screen on which `select' was pressed last, not of   *)
(* the one on which the video was picked; the block reads the title from   *)
(* the text box of its own screen.  Each report of the upload's progress   *)
(* dismisses what is on top of that screen, or the screen.                 *)
(***************************************************************************)
EXTENDS VideoStore, Sequences

CONSTANT Blank          \* nothing was typed into the text box

ASSUME BlankAssumption == Blank \in Titles

VARIABLES videoTitleBox,    \* the text box of each screen opened so far
          shown,            \* the screen shown, 0 when there is none
          picking,          \* the picker is shown on top of it
          videoPickedBlock, \* the screen whose block it is, 0 when nil
          exporting,        \* videos being compressed
          uploading         \* uploads that still report progress

\* History: videos in whose compression another screen pressed select.
VARIABLE taken

phoneVars == <<videoTitleBox, shown, picking, videoPickedBlock, exporting,
               uploading, taken>>
vars == <<storeVars, phoneVars>>

Screens == 1 .. MaxScreens
Export == [id : Ids, of : Screens]
Upload == [id : Ids, screen : Screens]

OpenScreen ==
  /\ shown = 0
  /\ Len(videoTitleBox) < MaxScreens
  /\ videoTitleBox' = Append(videoTitleBox, Blank)
  /\ shown' = Len(videoTitleBox')
  /\ UNCHANGED <<storeVars, picking, videoPickedBlock, exporting, uploading, taken>>

Type(title) ==
  /\ shown # 0 /\ ~ picking
  /\ videoTitleBox' = [videoTitleBox EXCEPT ![shown] = title]
  /\ UNCHANGED <<storeVars, shown, picking, videoPickedBlock, exporting, uploading,
                 taken>>

\* uploadVideoBtn and cancelUploadBtn do the same.
Dismiss ==
  /\ shown # 0 /\ ~ picking
  /\ shown' = 0
  /\ UNCHANGED <<storeVars, videoTitleBox, picking, videoPickedBlock, exporting,
                 uploading, taken>>

\* Faulty variant: the block is set once.
SelectOnce ==
  /\ shown # 0 /\ ~ picking
  /\ picking' = TRUE
  /\ videoPickedBlock' = IF videoPickedBlock = 0 THEN shown ELSE videoPickedBlock
  /\ taken' = taken \union {e.id : e \in {x \in exporting : x.of # shown}}
  /\ UNCHANGED <<storeVars, videoTitleBox, shown, exporting, uploading>>

\* The sheet and the picker are one; currentVC is the screen of the block.
selectFilesBtn ==
  /\ shown # 0 /\ ~ picking
  /\ picking' = TRUE
  /\ videoPickedBlock' = shown
  /\ taken' = taken \union {e.id : e \in {x \in exporting : x.of # shown}}
  /\ UNCHANGED <<storeVars, videoTitleBox, shown, exporting, uploading>>

\* Also a photo is picked, or the access to the library is denied.
DidCancel ==
  /\ picking
  /\ picking' = FALSE
  /\ UNCHANGED <<storeVars, videoTitleBox, shown, videoPickedBlock, exporting,
                 uploading, taken>>

didFinishPicking ==
  /\ picking
  /\ made < MaxVideos
  /\ made' = made + 1
  /\ picking' = FALSE
  /\ exporting' = exporting \union {[id |-> made', of |-> shown]}
  /\ UNCHANGED <<net, post, videos, bucket, received, failed, videoTitleBox, shown,
                 videoPickedBlock, uploading, taken>>

\* The title is read now.
RequestFor(e) ==
  [id |-> e.id, key |-> e.id, title |-> videoTitleBox[videoPickedBlock],
   of |-> e.of, own |-> videoTitleBox[e.of]]

\* Faulty variant: the block is forgotten after its first call.
ExportOnce(e) ==
  /\ exporting' = exporting \ {e}
  /\ videoPickedBlock' = 0
  /\ IF videoPickedBlock # 0
       THEN /\ net' = net \union {RequestFor(e)}
            /\ uploading' = uploading \union {[id |-> e.id, screen |-> videoPickedBlock]}
       ELSE UNCHANGED <<net, uploading>>
  /\ UNCHANGED <<made, post, videos, bucket, received, failed, videoTitleBox, shown,
                 picking, taken>>

\* The export is completed and videoPickedBlock called.
ExportCompleted(e) ==
  /\ exporting' = exporting \ {e}
  /\ net' = net \union {RequestFor(e)}
  /\ uploading' = uploading \union {[id |-> e.id, screen |-> videoPickedBlock]}
  /\ UNCHANGED <<made, post, videos, bucket, received, failed, videoTitleBox, shown,
                 picking, videoPickedBlock, taken>>

\* No export session, a failed or cancelled one, or no file: nobody is told.
ExportFailed(e) ==
  /\ exporting' = exporting \ {e}
  /\ failed' = failed \union {e.id}
  /\ UNCHANGED <<made, net, post, videos, bucket, received, videoTitleBox, shown,
                 picking, videoPickedBlock, uploading, taken>>

\* dismiss closes the picker when there is one, else the screen.
Progress(u) ==
  /\ IF shown # u.screen THEN UNCHANGED <<shown, picking>>
     ELSE IF picking THEN picking' = FALSE /\ UNCHANGED shown
     ELSE shown' = 0 /\ UNCHANGED picking
  /\ uploading' \in {uploading, uploading \ {u}}
  /\ UNCHANGED <<storeVars, videoTitleBox, videoPickedBlock, exporting, taken>>

\* The app is ended; what it was about to send is lost.
Quit ==
  /\ shown' = 0
  /\ picking' = FALSE
  /\ videoPickedBlock' = 0
  /\ exporting' = {}
  /\ uploading' = {}
  /\ failed' = failed \union {e.id : e \in exporting}
  /\ UNCHANGED <<made, net, post, videos, bucket, received, videoTitleBox, taken>>

-----------------------------------------------------------------------------
Init ==
  /\ StoreInit
  /\ videoTitleBox = <<>>
  /\ shown = 0
  /\ picking = FALSE
  /\ videoPickedBlock = 0
  /\ exporting = {}
  /\ uploading = {}
  /\ taken = {}

ExportEnds(e) == ExportCompleted(e) \/ ExportFailed(e)

Phone ==
  \/ OpenScreen \/ Dismiss \/ selectFilesBtn \/ DidCancel \/ didFinishPicking
  \/ \E title \in Titles : Type(title)
  \/ \E e \in exporting : ExportEnds(e)
  \/ \E u \in uploading : Progress(u)
  \/ Quit

Next == Phone \/ (StoreNext /\ UNCHANGED phoneVars)

Spec == Init /\ [][Next]_vars

\* Exports end, requests arrive or time out, workers go on or are killed.
Fairness ==
  /\ WF_vars(\E e \in exporting : ExportEnds(e))
  /\ WF_vars((\E r \in net : Arrive(r)) /\ UNCHANGED phoneVars)
  /\ \A w \in Workers : WF_vars(Serve(w) /\ UNCHANGED phoneVars)

FairSpec == Spec /\ Fairness

-----------------------------------------------------------------------------
(* Properties.                                                             *)

\* Type invariant of the app and the server.
TypeOK ==
  /\ StoreTypeOK
  /\ videoTitleBox \in Seq(Titles)
  /\ Len(videoTitleBox) <= MaxScreens
  /\ shown \in 0 .. Len(videoTitleBox)
  /\ picking \in BOOLEAN
  /\ videoPickedBlock \in 0 .. Len(videoTitleBox)
  /\ exporting \subseteq Export
  /\ uploading \subseteq Upload
  /\ taken \subseteq Ids

\* A video is published under the title of the screen on which it was picked,
\* though the block of another screen may publish it, unless select was
\* pressed on another screen while it was compressed.
OwnTitle ==
  \A d \in net \union videos : d.of # 0 /\ d.id \notin taken => d.title = d.own

\* A video picked in the app is in both stores in the end, unless its export,
\* its request or a write failed or the app or the worker was ended.
VideoArrives ==
  \A id \in Ids :
    (\E e \in exporting : e.id = id)
      ~> \/ id \in failed
         \/ /\ \E d \in videos : d.id = id
            /\ [key |-> id, body |-> id] \in bucket

\* Videos whose document is still to come.
UnderWay == {e.id : e \in exporting} \union {r.id : r \in net}
              \union {post[w].video.id : w \in {v \in Workers : Busy(v, "mongo")}}

Published == {d.id : d \in videos}

Documents == INSTANCE Delivery
               WITH Items <- Ids, pending <- UnderWay, delivered <- Published,
                    lost <- 1 .. made \ (UnderWay \union Published)

\* Documents implement Delivery: a video that was picked or sent is inserted at
\* most once, and one whose export, request or insert failed never is, whatever
\* screens, requests and workers it passes through.
PublishedOnce == Documents!Spec
=============================================================================
