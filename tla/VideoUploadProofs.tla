-------------------------- MODULE VideoUploadProofs --------------------------
(***************************************************************************)
(* Types, titles and the agreement of the two stores, for any clients,     *)
(* workers, names and numbers of videos and screens.                       *)
(***************************************************************************)
EXTENDS VideoUpload, TLAPS

\* Whose block and whose box the compression of a video will use exist.
Owners ==
  /\ picking => shown # 0 /\ videoPickedBlock = shown
  /\ exporting # {} => videoPickedBlock # 0
  /\ \A e \in exporting : e.of \in 1 .. Len(videoTitleBox)

TypeInv == TypeOK /\ Owners

LEMMA StoreInitTypes == StoreInit => StoreTypeOK
BY StoreAssumption DEF StoreInit, StoreTypeOK, Ids

\* A request served is a request.
LEMMA BusyTypes ==
  ASSUME StoreTypeOK, NEW w \in Workers, post[w] # NoPost
  PROVE  /\ post[w].video \in Request
         /\ post[w].video.id \in Ids
         /\ post[w].video.key \in Key
         /\ \A s \in {"mongo", "s3"} :
              [post EXCEPT ![w].stage = s] \in [Workers -> Post \union {NoPost}]
         /\ [post EXCEPT ![w] = NoPost] \in [Workers -> Post \union {NoPost}]
BY DEF StoreTypeOK, Post, Request

\* Each step of the server keeps the types of the two stores.
LEMMA StoreTypes ==
  ASSUME StoreTypeOK, StoreNext
  PROVE  StoreTypeOK'
<1>1. ASSUME NEW key \in Keys, NEW title \in Titles, OtherClient(key, title)
      PROVE  StoreTypeOK'
  <2>1. made' \in Ids /\ made' \in 0 .. MaxVideos
    BY <1>1, StoreAssumption DEF OtherClient, StoreTypeOK, Ids
  <2>2. [id |-> made', key |-> key, title |-> title, of |-> 0, own |-> title]
          \in Request
    BY <2>1, StoreAssumption DEF Request, Key
  <2> QED BY <1>1, <2>1, <2>2 DEF OtherClient, StoreTypeOK
<1>2. ASSUME NEW r \in net, RequestLost(r)
      PROVE  StoreTypeOK'
  BY <1>2 DEF RequestLost, StoreTypeOK, Request
<1>3. ASSUME NEW r \in net, NEW w \in Workers, Receive(w, r)
      PROVE  StoreTypeOK'
  <2>1. r \in Request /\ r.id \in Ids /\ r.key \in Key
    BY DEF StoreTypeOK, Request
  <2>2. [video |-> r, stage |-> "mongo"] \in Post
    BY <2>1 DEF Post
  <2>3. [id |-> r.id, key |-> r.key] \in [id : Ids, key : Key]
    BY <2>1
  <2> QED BY <1>3, <2>2, <2>3 DEF Receive, StoreTypeOK
<1>4. ASSUME NEW w \in Workers, PostVideoToMongo(w)
      PROVE  StoreTypeOK'
  BY <1>4, BusyTypes DEF PostVideoToMongo, Busy, StoreTypeOK
<1>5. ASSUME NEW w \in Workers, MongoFails(w)
      PROVE  StoreTypeOK'
  BY <1>5, BusyTypes DEF MongoFails, Busy, StoreTypeOK
<1>6. ASSUME NEW w \in Workers, UploadVideoToS3(w)
      PROVE  StoreTypeOK'
  <2>1. [key |-> post[w].video.key, body |-> post[w].video.id]
          \in [key : Key, body : Ids]
    BY <1>6, BusyTypes DEF UploadVideoToS3, Busy
  <2>2. bucket' \subseteq [key : Key, body : Ids]
    BY <1>6, <2>1 DEF UploadVideoToS3, PutObject, StoreTypeOK
  <2> QED BY <1>6, <2>2, BusyTypes DEF UploadVideoToS3, Busy, StoreTypeOK
<1>7. ASSUME NEW w \in Workers, PostLost(w)
      PROVE  StoreTypeOK'
  BY <1>7, BusyTypes DEF PostLost, StoreTypeOK
<1> QED
  BY <1>1, <1>2, <1>3, <1>4, <1>5, <1>6, <1>7 DEF StoreNext, Arrive, Serve

\* The request for a compressed video is well-formed.
LEMMA RequestTypes ==
  ASSUME TypeInv, NEW e \in exporting
  PROVE  /\ RequestFor(e) \in Request
         /\ RequestFor(e).id = e.id /\ RequestFor(e).key = e.id
         /\ RequestFor(e).of = e.of
         /\ [id |-> e.id, screen |-> videoPickedBlock] \in Upload
<1>1. e.id \in Ids /\ e.of \in Screens /\ e.of \in 1 .. Len(videoTitleBox)
  BY DEF TypeInv, TypeOK, Owners, Export
<1>2. videoPickedBlock \in 1 .. Len(videoTitleBox) /\ videoPickedBlock \in Screens
  BY StoreAssumption DEF TypeInv, TypeOK, Owners, Screens
<1>3. /\ videoTitleBox[videoPickedBlock] \in Titles
      /\ videoTitleBox[e.of] \in Titles
  BY <1>1, <1>2 DEF TypeInv, TypeOK
<1>4. e.of \in 0 .. MaxScreens
  BY <1>1, StoreAssumption DEF Screens
<1> QED BY <1>1, <1>2, <1>3, <1>4 DEF RequestFor, Request, Upload, Key

\* Each step of the app keeps the types.
LEMMA PhoneTypes ==
  ASSUME TypeInv, Phone
  PROVE  TypeInv'
<1> USE StoreAssumption DEF TypeInv, Owners, phoneVars, storeVars
<1>1. CASE OpenScreen
  <2>1. videoTitleBox' \in Seq(Titles) /\ Len(videoTitleBox') = Len(videoTitleBox) + 1
    BY <1>1, BlankAssumption DEF OpenScreen, TypeOK
  <2> QED BY <1>1, <2>1 DEF OpenScreen, TypeOK, StoreTypeOK
<1>2. CASE Dismiss
  BY <1>2 DEF Dismiss, TypeOK, StoreTypeOK
<1>3. CASE selectFilesBtn
  <2>1. taken' \subseteq Ids
    BY <1>3 DEF selectFilesBtn, TypeOK, Export
  <2> QED BY <1>3, <2>1 DEF selectFilesBtn, TypeOK, StoreTypeOK
<1>4. CASE DidCancel
  BY <1>4 DEF DidCancel, TypeOK, StoreTypeOK
<1>5. CASE didFinishPicking
  <2>1. made' \in Ids /\ made' \in 0 .. MaxVideos
    BY <1>5 DEF didFinishPicking, TypeOK, StoreTypeOK, Ids
  <2>2. shown \in Screens /\ shown \in 1 .. Len(videoTitleBox)
    BY <1>5 DEF didFinishPicking, TypeOK, Screens
  <2>3. [id |-> made', of |-> shown] \in Export
    BY <2>1, <2>2 DEF Export
  <2>4. StoreTypeOK'
    BY <1>5, <2>1 DEF didFinishPicking, TypeOK, StoreTypeOK
  <2>5. exporting' \subseteq Export
    BY <1>5, <2>3 DEF didFinishPicking, TypeOK
  <2>6. picking' \in BOOLEAN
    BY <1>5, Zenon DEF didFinishPicking
  <2>7. TypeOK'
    BY <1>5, <2>4, <2>5, <2>6 DEF didFinishPicking, TypeOK
  <2>8. videoPickedBlock' # 0 /\ ~ picking'
    BY <1>5 DEF didFinishPicking
  <2>9. \A e \in exporting' : e.of \in 1 .. Len(videoTitleBox')
    BY <1>5, <2>2 DEF didFinishPicking
  <2> QED BY <2>7, <2>8, <2>9
<1>6. ASSUME NEW title \in Titles, Type(title)
      PROVE  TypeInv'
  <2>1. videoTitleBox' \in Seq(Titles) /\ Len(videoTitleBox') = Len(videoTitleBox)
    BY <1>6 DEF Type, TypeOK
  <2> QED BY <1>6, <2>1 DEF Type, TypeOK, StoreTypeOK
<1>7. ASSUME NEW e \in exporting, ExportCompleted(e)
      PROVE  TypeInv'
  BY <1>7, RequestTypes DEF ExportCompleted, TypeOK, StoreTypeOK
<1>8. ASSUME NEW e \in exporting, ExportFailed(e)
      PROVE  TypeInv'
  <2>1. e.id \in Ids
    BY DEF TypeOK, Export
  <2> QED BY <1>8, <2>1 DEF ExportFailed, TypeOK, StoreTypeOK
<1>9. ASSUME NEW u \in uploading, Progress(u)
      PROVE  TypeInv'
  <2>1. StoreTypeOK'
    BY <1>9 DEF Progress, TypeOK, StoreTypeOK
  <2>2. picking' \in BOOLEAN
    BY <1>9, Zenon DEF Progress, TypeOK
  <2>3. shown' \in 0 .. Len(videoTitleBox) /\ uploading' \subseteq Upload
    BY <1>9 DEF Progress, TypeOK
  <2>4. picking' => picking /\ shown' = shown
    BY <1>9 DEF Progress, TypeOK
  <2> QED BY <1>9, <2>1, <2>2, <2>3, <2>4 DEF Progress, TypeOK
<1>10. CASE Quit
  <2>1. failed' \subseteq Ids
    BY <1>10 DEF Quit, TypeOK, StoreTypeOK, Export
  <2>2. StoreTypeOK'
    BY <1>10, <2>1 DEF Quit, TypeOK, StoreTypeOK
  <2>3. picking' \in BOOLEAN
    BY <1>10, Zenon DEF Quit
  <2> QED BY <1>10, <2>2, <2>3 DEF Quit, TypeOK
<1> QED
  BY <1>1, <1>2, <1>3, <1>4, <1>5, <1>6, <1>7, <1>8, <1>9, <1>10
     DEF Phone, ExportEnds

LEMMA TypeInvInductive == Spec => []TypeInv
<1>1. Init => TypeInv
  <2> SUFFICES ASSUME Init PROVE TypeInv
    OBVIOUS
  <2>1. StoreTypeOK
    BY StoreInitTypes DEF Init
  <2>2. picking \in BOOLEAN
    BY Zenon DEF Init
  <2>3. videoTitleBox \in Seq(Titles) /\ Len(videoTitleBox) = 0
    BY DEF Init
  <2>4. TypeOK
    BY <2>1, <2>2, <2>3, StoreAssumption DEF Init, TypeOK
  <2> QED BY <2>4 DEF Init, TypeInv, Owners
<1>2. TypeInv /\ [Next]_vars => TypeInv'
  <2> SUFFICES ASSUME TypeInv, [Next]_vars PROVE TypeInv'
    OBVIOUS
  <2>1. CASE Phone
    BY <2>1, PhoneTypes
  <2>2. CASE StoreNext /\ UNCHANGED phoneVars
    <3>1. StoreTypeOK'
      BY <2>2, StoreTypes DEF TypeInv, TypeOK
    <3> QED BY <2>2, <3>1 DEF TypeInv, TypeOK, Owners, phoneVars
  <2>3. CASE UNCHANGED vars
    BY <2>3 DEF vars, storeVars, phoneVars, TypeInv, TypeOK, StoreTypeOK, Owners
  <2> QED BY <2>1, <2>2, <2>3 DEF Next
<1> QED BY <1>1, <1>2, PTL DEF Spec

\* The documents, objects, requests, screens and compressions keep their
\* shape (post_video and AttachmentHandler).
THEOREM UploadTypeCorrect == Spec => []TypeOK
BY TypeInvInductive, PTL DEF TypeInv
-----------------------------------------------------------------------------
(* Titles.                                                                 *)

Titled(d) == d.of # 0 /\ d.id \notin taken => d.title = d.own

\* OwnTitle also for the requests being served, and the reason for it: a video
\* that was not taken is compressed while the block is the one of its screen.
TitleInv ==
  /\ \A e \in exporting : e.id \notin taken => e.of = videoPickedBlock
  /\ \A d \in net \union videos : Titled(d)
  /\ \A w \in Workers : post[w] # NoPost => Titled(post[w].video)

\* The steps of the server pass a title on as it came.
LEMMA StoreTitles ==
  ASSUME TypeInv, TitleInv, StoreNext, UNCHANGED phoneVars
  PROVE  TitleInv'
<1>0. /\ exporting' = exporting /\ taken' = taken
      /\ videoPickedBlock' = videoPickedBlock
  BY DEF phoneVars
<1>1. \A d : Titled(d)' <=> Titled(d)
  BY <1>0 DEF Titled
<1>2. post \in [Workers -> Post \union {NoPost}]
  BY DEF TypeInv, TypeOK, StoreTypeOK
<1>a. SUFFICES /\ \A d \in net' \union videos' : Titled(d)
               /\ \A w \in Workers : post'[w] # NoPost => Titled(post'[w].video)
  BY <1>0 DEF TitleInv, Titled
<1>3. ASSUME NEW key \in Keys, NEW title \in Titles, OtherClient(key, title)
      PROVE  /\ \A d \in net' \union videos' : Titled(d)
             /\ \A w \in Workers : post'[w] # NoPost => Titled(post'[w].video)
  <2>1. Titled([id |-> made', key |-> key, title |-> title, of |-> 0, own |-> title])
    BY DEF Titled
  <2> HIDE DEF Titled
  <2> QED BY <1>3, <2>1 DEF OtherClient, TitleInv
<1>4. ASSUME NEW r \in net, RequestLost(r)
      PROVE  /\ \A d \in net' \union videos' : Titled(d)
             /\ \A w \in Workers : post'[w] # NoPost => Titled(post'[w].video)
  BY <1>4 DEF RequestLost, TitleInv
<1>5. ASSUME NEW r \in net, NEW v \in Workers, Receive(v, r)
      PROVE  /\ \A d \in net' \union videos' : Titled(d)
             /\ \A w \in Workers : post'[w] # NoPost => Titled(post'[w].video)
  <2>1. Titled(r)
    BY DEF TitleInv
  <2> QED BY <1>5, <1>2, <2>1 DEF Receive, TitleInv
<1>6. ASSUME NEW v \in Workers, Serve(v)
      PROVE  /\ \A d \in net' \union videos' : Titled(d)
             /\ \A w \in Workers : post'[w] # NoPost => Titled(post'[w].video)
  <2>1. post[v] # NoPost
    BY <1>6 DEF Serve, PostVideoToMongo, MongoFails, UploadVideoToS3, PostLost, Busy
  <2>2. Titled(post[v].video)
    BY <2>1 DEF TitleInv
  <2>3. net' = net /\ videos' \subseteq videos \union {post[v].video}
    BY <1>6 DEF Serve, PostVideoToMongo, MongoFails, UploadVideoToS3, PostLost
  <2>4. post[v] \in Post
    BY <1>2, <2>1
  <2>5. \A w \in Workers : post'[w] # NoPost =>
          post[w] # NoPost /\ post'[w].video = post[w].video
    BY <1>6, <1>2, <2>1, <2>4 DEF Serve, PostVideoToMongo, MongoFails,
       UploadVideoToS3, PostLost, Busy, Post
  <2> QED BY <2>2, <2>3, <2>5 DEF TitleInv
<1> QED BY <1>3, <1>4, <1>5, <1>6 DEF StoreNext, Arrive

\* On the phone, select changes the block and marks the videos it takes.
LEMMA PhoneTitles ==
  ASSUME TypeInv, TitleInv, Phone
  PROVE  TitleInv'
<1>1. taken \subseteq taken'
  BY DEF Phone, ExportEnds, OpenScreen, Dismiss, selectFilesBtn, DidCancel,
         didFinishPicking, Type, ExportCompleted, ExportFailed, Progress, Quit
<1>2. \A d : Titled(d) => Titled(d)'
  BY <1>1 DEF Titled
<1>3. post' = post /\ videos' = videos
  BY DEF Phone, ExportEnds, OpenScreen, Dismiss, selectFilesBtn, DidCancel,
         didFinishPicking, Type, ExportCompleted, ExportFailed, Progress, Quit,
         storeVars
<1>4. \A w \in Workers : (post[w] # NoPost)' => Titled(post[w].video)'
  <2>1. \A w \in Workers : post[w] # NoPost => Titled(post[w].video)
    BY DEF TitleInv
  <2> QED BY <1>1, <1>3, <2>1 DEF Titled
<1>5. \A d \in videos' : Titled(d)'
  BY <1>2, <1>3 DEF TitleInv
<1>6. \A d \in net' : Titled(d)'
  <2>1. ASSUME NEW e \in exporting, ExportCompleted(e)
        PROVE  \A d \in net' : Titled(d)'
    <3>1. e.id \notin taken => RequestFor(e).title = RequestFor(e).own
      BY DEF TitleInv, RequestFor
    <3>2. Titled(RequestFor(e))
      BY <3>1, RequestTypes DEF Titled
    <3>3. \A d \in net' : Titled(d)
      BY <2>1, <3>2 DEF ExportCompleted, TitleInv
    <3> QED BY <1>2, <3>3
  <2>2. net' = net \/ \E e \in exporting : ExportCompleted(e)
    BY DEF Phone, ExportEnds, OpenScreen, Dismiss, selectFilesBtn, DidCancel,
           didFinishPicking, Type, ExportFailed, Progress, Quit, storeVars
  <2>3. CASE net' = net
    BY <1>2, <2>3 DEF TitleInv
  <2> QED BY <2>1, <2>2, <2>3
<1>7. \A e \in exporting' : e.id \notin taken' => e.of = videoPickedBlock'
  <2>1. CASE selectFilesBtn
    BY <2>1 DEF selectFilesBtn
  <2>2. CASE didFinishPicking
    <3>1. videoPickedBlock = shown
      BY <2>2 DEF didFinishPicking, TypeInv, Owners
    <3> QED BY <2>2, <3>1 DEF didFinishPicking, TitleInv
  <2>3. CASE Quit
    BY <2>3 DEF Quit
  <2>4. ASSUME ~ selectFilesBtn, ~ didFinishPicking, ~ Quit
        PROVE  /\ exporting' \subseteq exporting /\ taken' = taken
               /\ videoPickedBlock' = videoPickedBlock
    BY <2>4 DEF Phone, ExportEnds, OpenScreen, Dismiss, DidCancel, Type,
         ExportCompleted, ExportFailed, Progress
  <2> QED BY <2>1, <2>2, <2>3, <2>4 DEF TitleInv
<1> QED BY <1>4, <1>5, <1>6, <1>7 DEF TitleInv

\* A video is published under the title of the screen on which it was picked
\* unless select was pressed elsewhere meanwhile, for any number of screens,
\* videos and workers (videoPickedBlock of UploadVideoViewController).
THEOREM TitlesKept == Spec => []OwnTitle
<1>1. Init => TitleInv
  BY DEF Init, StoreInit, TitleInv
<1>2. TypeInv /\ TitleInv /\ [Next]_vars => TitleInv'
  <2> SUFFICES ASSUME TypeInv, TitleInv, [Next]_vars PROVE TitleInv'
    OBVIOUS
  <2>1. CASE Phone
    BY <2>1, PhoneTitles
  <2>2. CASE StoreNext /\ UNCHANGED phoneVars
    BY <2>2, StoreTitles
  <2>3. CASE UNCHANGED vars
    BY <2>3 DEF vars, storeVars, phoneVars, TitleInv, Titled
  <2> QED BY <2>1, <2>2, <2>3 DEF Next
<1>3. TitleInv => OwnTitle
  BY DEF TitleInv, Titled, OwnTitle
<1> QED BY <1>1, <1>2, <1>3, TypeInvInductive, PTL DEF Spec
-----------------------------------------------------------------------------
(* The two stores.                                                         *)

\* Every video is compressed once, sent once and received once, under one id.
IdInv ==
  /\ \A r \in net : r.id <= made /\ \A q \in received : q.id # r.id
  /\ \A r1, r2 \in net : r1.id = r2.id => r1 = r2
  /\ \A e \in exporting : /\ e.id <= made
                          /\ \A r \in net : r.id # e.id
                          /\ \A q \in received : q.id # e.id
  /\ \A e1, e2 \in exporting : e1.id = e2.id => e1 = e2
  /\ \A q \in received : q.id <= made
  /\ \A q1, q2 \in received : q1.id = q2.id => q1 = q2

\* Ids are numbers.
LEMMA Numbers ==
  ASSUME TypeInv
  PROVE  /\ made \in Nat
         /\ \A r \in net : r.id \in Nat
         /\ \A e \in exporting : e.id \in Nat
         /\ \A q \in received : q.id \in Nat
<1>1. Ids \subseteq Nat /\ made \in Nat
  BY StoreAssumption DEF Ids, TypeInv, TypeOK, StoreTypeOK
<1> QED BY <1>1 DEF TypeInv, TypeOK, StoreTypeOK, Request, Export

LEMMA StoreIds ==
  ASSUME TypeInv, IdInv, StoreNext, UNCHANGED phoneVars
  PROVE  IdInv'
<1>1. exporting' = exporting
  BY DEF phoneVars
<1>2. ASSUME NEW key \in Keys, NEW title \in Titles, OtherClient(key, title)
      PROVE  IdInv'
  <2> DEFINE new == [id |-> made', key |-> key, title |-> title, of |-> 0,
                     own |-> title]
  <2>1. new.id = made'
    OBVIOUS
  <2>2. net' = net \union {new} /\ made' = made + 1 /\ received' = received
    BY <1>2 DEF OtherClient
  <2> HIDE DEF new
  <2>3. /\ \A r \in net : r.id < made' /\ r.id <= made'
        /\ \A e \in exporting : e.id < made' /\ e.id <= made'
        /\ \A q \in received : q.id < made' /\ q.id <= made'
    BY <2>2, Numbers DEF IdInv
  <2>4. made' \in Nat
    BY <2>2, Numbers
  <2> QED BY <1>1, <2>1, <2>2, <2>3, <2>4, Numbers DEF IdInv
<1>3. ASSUME NEW r \in net, RequestLost(r)
      PROVE  IdInv'
  BY <1>1, <1>3 DEF RequestLost, IdInv
<1>4. ASSUME NEW r \in net, NEW w \in Workers, Receive(w, r)
      PROVE  IdInv'
  <2> DEFINE new == [id |-> r.id, key |-> r.key]
  <2>1. new.id = r.id
    OBVIOUS
  <2>2. net' = net \ {r} /\ made' = made /\ received' \subseteq received \union {new}
    BY <1>4 DEF Receive
  <2> HIDE DEF new
  <2> QED BY <1>1, <2>1, <2>2 DEF IdInv
<1>5. ASSUME NEW w \in Workers, Serve(w)
      PROVE  IdInv'
  <2>1. UNCHANGED <<made, net, received>>
    BY <1>5 DEF Serve, PostVideoToMongo, MongoFails, UploadVideoToS3, PostLost
  <2> QED BY <1>1, <2>1 DEF IdInv
<1> QED BY <1>2, <1>3, <1>4, <1>5 DEF StoreNext, Arrive

LEMMA PhoneIds ==
  ASSUME TypeInv, IdInv, Phone
  PROVE  IdInv'
<1>1. received' = received
  BY DEF Phone, ExportEnds, OpenScreen, Dismiss, selectFilesBtn, DidCancel,
         didFinishPicking, Type, ExportCompleted, ExportFailed, Progress, Quit,
         storeVars
<1>2. CASE didFinishPicking
  <2> DEFINE new == [id |-> made', of |-> shown]
  <2>1. new.id = made'
    OBVIOUS
  <2>2. exporting' = exporting \union {new} /\ made' = made + 1 /\ net' = net
    BY <1>2 DEF didFinishPicking
  <2> HIDE DEF new
  <2>3. /\ \A r \in net : r.id < made' /\ r.id <= made'
        /\ \A e \in exporting : e.id < made' /\ e.id <= made'
        /\ \A q \in received : q.id < made' /\ q.id <= made'
    BY <2>2, Numbers DEF IdInv
  <2>4. made' \in Nat
    BY <2>2, Numbers
  <2> QED BY <1>1, <2>1, <2>2, <2>3, <2>4, Numbers DEF IdInv
<1>3. ASSUME NEW e \in exporting, ExportCompleted(e)
      PROVE  IdInv'
  <2>1. RequestFor(e).id = e.id
    BY RequestTypes
  <2>2. /\ exporting' = exporting \ {e} /\ made' = made
        /\ net' = net \union {RequestFor(e)}
    BY <1>3 DEF ExportCompleted
  <2> HIDE DEF RequestFor
  <2> QED BY <1>1, <2>1, <2>2 DEF IdInv
<1>4. ASSUME ~ didFinishPicking, \A e \in exporting : ~ ExportCompleted(e)
      PROVE  exporting' \subseteq exporting /\ made' = made /\ net' = net
  BY <1>4 DEF Phone, ExportEnds, OpenScreen, Dismiss, selectFilesBtn, DidCancel,
         Type, ExportFailed, Progress, Quit, storeVars
<1> QED BY <1>1, <1>2, <1>3, <1>4 DEF IdInv

\* What a request and a document are known by.
Known(d) == [id |-> d.id, key |-> d.key]

\* StoresAgree and what it rests on: requests and documents were received, and
\* who is about to put an object has inserted its document, or failed to.
AgreeInv ==
  /\ \A w \in Workers : post[w] # NoPost => Known(post[w].video) \in received
  /\ \A d \in videos : Known(d) \in received
  /\ \A w \in Workers :
       Busy(w, "s3") => \/ post[w].video.id \in failed
                        \/ \E d \in videos : d.id = post[w].video.id
  /\ StoresAgree

\* Only the server's steps on a request it serves change a store.
LEMMA ServeAgrees ==
  ASSUME TypeInv, IdInv, AgreeInv, NEW w \in Workers, Serve(w)
  PROVE  AgreeInv'
<1>0. post \in [Workers -> Post \union {NoPost}]
  BY DEF TypeInv, TypeOK, StoreTypeOK
<1>1. post[w] # NoPost
  BY DEF Serve, PostVideoToMongo, MongoFails, UploadVideoToS3, PostLost, Busy
<1>2. PICK r : r = post[w].video
  OBVIOUS
<1>3. post[w] \in Post /\ Known(r) \in received
  BY <1>0, <1>1, <1>2 DEF AgreeInv
<1>4. received' = received
  BY DEF Serve, PostVideoToMongo, MongoFails, UploadVideoToS3, PostLost
<1>5. \A v \in Workers : post'[v] # NoPost => /\ post[v] # NoPost
                                            /\ post'[v].video = post[v].video
  BY <1>0, <1>1, <1>3 DEF Serve, PostVideoToMongo, MongoFails, UploadVideoToS3,
     PostLost, Busy, Post
<1>6. videos \subseteq videos' /\ failed \subseteq failed'
      /\ videos' \subseteq videos \union {r}
  BY <1>2 DEF Serve, PostVideoToMongo, MongoFails, UploadVideoToS3, PostLost
<1>7. \A v \in Workers : post'[v] # NoPost => Known(post'[v].video) \in received'
  BY <1>4, <1>5 DEF AgreeInv
<1>8. \A d \in videos' : Known(d) \in received'
  BY <1>3, <1>4, <1>6 DEF AgreeInv
<1>9. \A v \in Workers :
        Busy(v, "s3")' => \/ post'[v].video.id \in failed'
                          \/ \E d \in videos' : d.id = post'[v].video.id
  <2> SUFFICES ASSUME NEW v \in Workers, post'[v] # NoPost, post'[v].stage = "s3"
               PROVE  \/ post'[v].video.id \in failed'
                      \/ \E d \in videos' : d.id = post'[v].video.id
    BY DEF Busy
  <2>1. CASE v # w
    <3>1. post'[v] = post[v]
      BY <1>0, <2>1 DEF Serve, PostVideoToMongo, MongoFails, UploadVideoToS3, PostLost
    <3> QED BY <1>6, <3>1 DEF AgreeInv, Busy
  <2>2. CASE v = w
    <3>1. PostVideoToMongo(w) \/ MongoFails(w)
      BY <1>0, <2>2 DEF Serve, UploadVideoToS3, PostLost
    <3> QED BY <1>2, <1>5, <2>2, <3>1 DEF PostVideoToMongo, MongoFails
  <2> QED BY <2>1, <2>2
<1>10. StoresAgree'
  <2>1. ASSUME NEW d \in videos'
        PROVE  \/ [key |-> d.key, body |-> d.id] \in bucket'
               \/ d.id \in failed'
               \/ \E v \in Workers : post'[v] # NoPost /\ post'[v].video.id = d.id
               \/ \E q \in received' : q.key = d.key /\ q.id # d.id
    <3>1. \/ [key |-> d.key, body |-> d.id] \in bucket
          \/ d.id \in failed
          \/ \E v \in Workers : post[v] # NoPost /\ post[v].video.id = d.id
          \/ \E q \in received : q.key = d.key /\ q.id # d.id
      BY <1>1, <1>2, <1>6 DEF AgreeInv, StoresAgree
    <3>2. d.id = r.id => d.key = r.key
      <4>1. Known(d) \in received
        BY <1>4, <1>8
      <4> QED BY <1>3, <4>1 DEF IdInv, Known
    <3>3. \A v \in Workers \ {w} : post'[v] = post[v]
      BY <1>0 DEF Serve, PostVideoToMongo, MongoFails, UploadVideoToS3, PostLost
    <3>4. CASE PostVideoToMongo(w) \/ MongoFails(w)
      <4>1. post'[w] # NoPost /\ post'[w].video.id = r.id
        <5>1. [post[w] EXCEPT !.stage = "s3"] \in Post
          BY <1>3 DEF Post
        <5>2. post'[w] = [post[w] EXCEPT !.stage = "s3"]
          BY <1>0, <3>4 DEF PostVideoToMongo, MongoFails
        <5> QED BY <1>2, <1>3, <5>1, <5>2, StoreAssumption DEF Post
      <4>2. bucket' = bucket
        BY <3>4 DEF PostVideoToMongo, MongoFails
      <4> QED BY <1>2, <1>4, <1>6, <3>1, <3>3, <4>1, <4>2
    <3>5. CASE PostLost(w)
      <4>1. bucket' = bucket /\ r.id \in failed'
        BY <1>2, <3>5 DEF PostLost
      <4> QED BY <1>2, <1>4, <1>6, <3>1, <3>3, <4>1
    <3>6. CASE UploadVideoToS3(w)
      <4>1. bucket' = {o \in bucket : o.key # r.key}
                        \union {[key |-> r.key, body |-> r.id]}
        BY <1>2, <3>6 DEF UploadVideoToS3, PutObject
      <4>2. CASE d.id = r.id
        BY <3>2, <4>1, <4>2
      <4>3. CASE d.id # r.id /\ d.key = r.key
        <5>1. Known(r).key = d.key /\ Known(r).id # d.id
          BY <4>3 DEF Known
        <5> QED BY <1>3, <1>4, <5>1
      <4>4. CASE d.id # r.id /\ d.key # r.key
        <5>1. [key |-> d.key, body |-> d.id] \in bucket =>
                [key |-> d.key, body |-> d.id] \in bucket'
          BY <4>1, <4>4
        <5> QED BY <1>2, <1>4, <1>6, <3>1, <3>3, <4>4, <5>1
      <4> QED BY <4>2, <4>3, <4>4
    <3> QED BY <3>4, <3>5, <3>6 DEF Serve
  <2>2. ASSUME NEW o \in bucket'
        PROVE  o.body \in failed' \/ \E d \in videos' : d.id = o.body
    <3>1. CASE o \in bucket
      BY <1>6, <3>1 DEF AgreeInv, StoresAgree
    <3>2. CASE o \notin bucket
      <4>1. UploadVideoToS3(w)
        BY <3>2 DEF Serve, PostVideoToMongo, MongoFails, PostLost
      <4>2. o.body = r.id /\ Busy(w, "s3")
        BY <1>2, <3>2, <4>1 DEF UploadVideoToS3, PutObject
      <4> QED BY <1>2, <1>6, <4>2 DEF AgreeInv
    <3> QED BY <3>1, <3>2
  <2> QED BY <2>1, <2>2 DEF StoresAgree
<1> QED BY <1>7, <1>8, <1>9, <1>10 DEF AgreeInv

\* The steps that touch neither a store nor a request in service.
LEMMA QuietAgrees ==
  ASSUME AgreeInv, UNCHANGED <<post, videos, bucket, received>>,
         failed \subseteq failed'
  PROVE  AgreeInv'
BY DEF AgreeInv, StoresAgree, Busy, Known

LEMMA ReceiveAgrees ==
  ASSUME TypeInv, AgreeInv, NEW r \in net, NEW w \in Workers, Receive(w, r)
  PROVE  AgreeInv'
<1>0. post \in [Workers -> Post \union {NoPost}] /\ post[w] = NoPost
  BY DEF TypeInv, TypeOK, StoreTypeOK, Receive
<1>1. UNCHANGED <<videos, bucket, failed>>
  BY DEF Receive
<1>2. CASE HasVideoFormat(r.key)
  <2>1. post' = [post EXCEPT ![w] = [video |-> r, stage |-> "mongo"]]
        /\ received' = received \union {Known(r)}
    BY <1>2 DEF Receive, Known
  <2>2. \A v \in Workers \ {w} : post'[v] = post[v]
    BY <1>0, <2>1
  <2>3. post'[w].video = r /\ post'[w].stage = "mongo"
    BY <1>0, <2>1
  <2> HIDE DEF Known
  <2>4. /\ \A v \in Workers : (post[v] # NoPost)' => Known(post'[v].video) \in received'
        /\ \A d \in videos' : Known(d) \in received'
    BY <1>1, <2>1, <2>2, <2>3 DEF AgreeInv
  <2>5. \A v \in Workers : Busy(v, "s3")' => Busy(v, "s3") /\ post'[v] = post[v]
    BY <2>2, <2>3 DEF Busy
  <2>6. \A v \in Workers : post[v] # NoPost => post'[v] = post[v]
    BY <1>0, <2>2
  <2>7. StoresAgree'
    BY <1>1, <2>1, <2>6 DEF AgreeInv, StoresAgree
  <2>8. \A v \in Workers :
          Busy(v, "s3")' => \/ post'[v].video.id \in failed'
                            \/ \E d \in videos' : d.id = post'[v].video.id
    BY <1>1, <2>5 DEF AgreeInv
  <2> QED BY <2>4, <2>7, <2>8 DEF AgreeInv, Known
<1>3. CASE ~ HasVideoFormat(r.key)
  BY <1>1, <1>3, QuietAgrees DEF Receive
<1> QED BY <1>2, <1>3

LEMMA AgreeInductive == Spec => [](TypeInv /\ IdInv /\ AgreeInv)
<1>1. Init => IdInv /\ AgreeInv
  BY DEF Init, StoreInit, IdInv, AgreeInv, StoresAgree, Busy
<1>2. TypeInv /\ IdInv /\ [Next]_vars => IdInv'
  <2> SUFFICES ASSUME TypeInv, IdInv, [Next]_vars PROVE IdInv'
    OBVIOUS
  <2>1. CASE UNCHANGED vars
    BY <2>1 DEF vars, storeVars, phoneVars, IdInv
  <2> QED BY <2>1, StoreIds, PhoneIds DEF Next
<1>3. TypeInv /\ IdInv /\ AgreeInv /\ [Next]_vars => AgreeInv'
  <2> SUFFICES ASSUME TypeInv, IdInv, AgreeInv, [Next]_vars PROVE AgreeInv'
    OBVIOUS
  <2>1. CASE Phone
    <3>1. UNCHANGED <<post, videos, bucket, received>> /\ failed \subseteq failed'
      BY <2>1 DEF Phone, ExportEnds, OpenScreen, Dismiss, selectFilesBtn, DidCancel,
         didFinishPicking, Type, ExportCompleted, ExportFailed, Progress, Quit,
         storeVars
    <3> QED BY <3>1, QuietAgrees
  <2>2. CASE StoreNext
    <3>1. ASSUME NEW key \in Keys, NEW title \in Titles, OtherClient(key, title)
          PROVE  AgreeInv'
      BY <3>1, QuietAgrees DEF OtherClient
    <3>2. ASSUME NEW r \in net, RequestLost(r)
          PROVE  AgreeInv'
      BY <3>2, QuietAgrees DEF RequestLost
    <3> QED BY <2>2, <3>1, <3>2, ReceiveAgrees, ServeAgrees DEF StoreNext, Arrive
  <2>3. CASE UNCHANGED vars
    BY <2>3, QuietAgrees DEF vars, storeVars
  <2> QED BY <2>1, <2>2, <2>3 DEF Next
<1> QED BY <1>1, <1>2, <1>3, TypeInvInductive, PTL DEF Spec

\* Documents and objects agree, whichever write fails, for any clients and
\* names and any number of workers and videos (post_video).
THEOREM StoresInAgreement == Spec => []StoresAgree
<1>1. AgreeInv => StoresAgree
  BY DEF AgreeInv
<1> QED BY <1>1, AgreeInductive, PTL
-----------------------------------------------------------------------------
(* Documents implement Delivery.                                           *)

Exports == {e.id : e \in exporting}
Requests == {r.id : r \in net}
Waiting == {post[w].video.id : w \in {v \in Workers : Busy(v, "mongo")}}

\* A request waits for its insert at one worker, and has no document yet.
OnceInv ==
  /\ \A w \in Workers : Busy(w, "mongo") => post[w].video.id \notin Published
  /\ \A v, w \in Workers :
       v # w /\ Busy(v, "mongo") /\ Busy(w, "mongo") =>
         post[v].video.id # post[w].video.id

AllInv == TypeInv /\ IdInv /\ AgreeInv /\ OnceInv

\* A video is in one place.
LEMMA Places ==
  ASSUME AllInv
  PROVE  /\ UnderWay = Exports \union Requests \union Waiting
         /\ Exports \intersect Requests = {}
         /\ (Exports \union Requests) \intersect (Waiting \union Published) = {}
         /\ Waiting \intersect Published = {}
         /\ UnderWay \union Published \subseteq 1 .. made
<1> USE DEF AllInv
<1> DEFINE Arrived == {q.id : q \in received}
<1>1. Waiting \subseteq Arrived
  <2>1. \A w \in Workers : Busy(w, "mongo") => Known(post[w].video) \in received
    BY DEF AgreeInv, Busy
  <2>2. \A w \in Workers : Known(post[w].video).id = post[w].video.id
    BY DEF Known
  <2> QED BY <2>1, <2>2 DEF Waiting
<1>2. Published \subseteq Arrived
  <2>1. \A d \in videos : Known(d) \in received
    BY DEF AgreeInv
  <2>2. \A d \in videos : Known(d).id = d.id
    BY DEF Known
  <2> QED BY <2>1, <2>2 DEF Published
<1>3. Exports \intersect Requests = {} /\ (Exports \union Requests) \intersect Arrived = {}
  BY DEF IdInv, Exports, Requests
<1>4. Waiting \intersect Published = {}
  BY DEF OnceInv, Waiting
<1>5. \A id \in Exports \union Requests \union Arrived : id \in Ids /\ id <= made
  BY DEF IdInv, Exports, Requests, TypeInv, TypeOK, StoreTypeOK, Export, Request
<1>6. Exports \union Requests \union Arrived \subseteq 1 .. made
  BY <1>5, Numbers DEF Ids
<1>7. UnderWay = Exports \union Requests \union Waiting
  BY DEF UnderWay, Exports, Requests, Waiting
<1> HIDE DEF Arrived
<1> QED BY <1>1, <1>2, <1>3, <1>4, <1>6, <1>7

\* What happens to the documents in a step, by what happens to their ids.
LEMMA DocumentsLost ==
  ASSUME AllInv, NEW some, some \subseteq UnderWay, made' = made,
         Published' = Published, UnderWay' = UnderWay \ some
  PROVE  [Documents!Next]_(Documents!vars)
<1>1. UnderWay \union Published \subseteq 1 .. made /\ UnderWay \intersect Published = {}
  BY Places
<1>2. Documents!Lose(some)
  BY <1>1 DEF Documents!Lose
<1> QED BY <1>2 DEF Documents!Next

LEMMA DocumentDelivered ==
  ASSUME AllInv, NEW id \in UnderWay, made' = made,
         Published' = Published \union {id}, UnderWay' = UnderWay \ {id}
  PROVE  [Documents!Next]_(Documents!vars)
<1>1. id \in Ids
  BY Places, StoreAssumption DEF AllInv, TypeInv, TypeOK, StoreTypeOK, Ids
<1>2. Documents!Deliver(id)
  BY DEF Documents!Deliver
<1> QED BY <1>1, <1>2 DEF Documents!Next

LEMMA DocumentTaken ==
  ASSUME AllInv, made < MaxVideos, made' = made + 1,
         Published' = Published, UnderWay' = UnderWay \union {made'}
  PROVE  [Documents!Next]_(Documents!vars)
<1>1. made \in Nat /\ MaxVideos \in Nat
  BY Numbers, StoreAssumption DEF AllInv
<1>2. 1 .. made' = (1 .. made) \union {made'} /\ made' \notin 1 .. made
      /\ made' \in Ids
  BY <1>1 DEF Ids
<1>3. UnderWay \union Published \subseteq 1 .. made
  BY Places
<1>4. \A i \in Ids : i = made' => Documents!Take(i)
  BY <1>2, <1>3 DEF Documents!Take, Documents!New
<1>5. PICK i \in Ids : i = made'
  BY <1>2
<1> QED BY <1>4, <1>5 DEF Documents!Next

LEMMA DocumentsSame ==
  ASSUME UNCHANGED <<made, Published, UnderWay>>
  PROVE  [Documents!Next]_(Documents!vars)
BY DEF Documents!vars

\* One of several with ids of their own is taken away.
LEMMA OneLess ==
  ASSUME NEW S, NEW x \in S, \A a, b \in S : a.id = b.id => a = b
  PROVE  {a.id : a \in S \ {x}} = {a.id : a \in S} \ {x.id}
OBVIOUS

\* The steps of the app on the documents.
LEMMA PhoneOnce ==
  ASSUME AllInv, Phone
  PROVE  OnceInv' /\ [Documents!Next]_(Documents!vars)
<1>1. UNCHANGED <<post, videos>>
  BY DEF Phone, ExportEnds, OpenScreen, Dismiss, selectFilesBtn, DidCancel,
         didFinishPicking, Type, ExportCompleted, ExportFailed, Progress, Quit,
         storeVars
<1>2. OnceInv' /\ Waiting' = Waiting /\ Published' = Published
  BY <1>1 DEF AllInv, OnceInv, Waiting, Published, Busy
<1>3. UnderWay' = Exports' \union Requests' \union Waiting'
  BY DEF UnderWay, Exports, Requests, Waiting
<1>4. CASE didFinishPicking
  <2> DEFINE new == [id |-> made', of |-> shown]
  <2>1. new.id = made'
    OBVIOUS
  <2>2. exporting' = exporting \union {new} /\ UNCHANGED net
        /\ made < MaxVideos /\ made' = made + 1
    BY <1>4 DEF didFinishPicking
  <2> HIDE DEF new
  <2>3. Exports' = Exports \union {made'} /\ Requests' = Requests
    BY <2>1, <2>2 DEF Exports, Requests
  <2> QED BY <1>2, <1>3, <2>2, <2>3, Places, DocumentTaken
<1>5. ASSUME NEW e \in exporting, ExportCompleted(e)
      PROVE  [Documents!Next]_(Documents!vars)
  <2>1. RequestFor(e).id = e.id
    BY RequestTypes DEF AllInv
  <2>2. /\ exporting' = exporting \ {e} /\ made' = made
        /\ net' = net \union {RequestFor(e)}
    BY <1>5 DEF ExportCompleted
  <2>3. Exports' = Exports \ {e.id} /\ e.id \in Exports
    BY <2>2, OneLess DEF AllInv, IdInv, Exports
  <2>4. Requests' = Requests \union {e.id}
    BY <2>1, <2>2 DEF Requests
  <2> QED BY <1>2, <1>3, <2>2, <2>3, <2>4, Places, DocumentsSame
<1>6. ASSUME NEW e \in exporting, ExportFailed(e)
      PROVE  [Documents!Next]_(Documents!vars)
  <2>1. exporting' = exporting \ {e} /\ UNCHANGED <<made, net>>
    BY <1>6 DEF ExportFailed
  <2>2. Exports' = Exports \ {e.id} /\ e.id \in Exports /\ Requests' = Requests
    BY <2>1, OneLess DEF AllInv, IdInv, Exports, Requests
  <2>3. UnderWay' = UnderWay \ {e.id} /\ {e.id} \subseteq UnderWay
    BY <1>2, <1>3, <2>2, Places
  <2> QED BY <1>2, <2>1, <2>3, DocumentsLost
<1>7. CASE Quit
  <2>1. Exports' = {} /\ Requests' = Requests /\ made' = made
    BY <1>7 DEF Quit, Exports, Requests
  <2>2. UnderWay' = UnderWay \ Exports /\ Exports \subseteq UnderWay
    BY <1>2, <1>3, <2>1, Places
  <2> QED BY <1>2, <2>1, <2>2, DocumentsLost
<1>8. ASSUME ~ didFinishPicking, ~ Quit, \A e \in exporting : ~ ExportEnds(e)
      PROVE  [Documents!Next]_(Documents!vars)
  <2>1. UNCHANGED <<made, net, exporting>>
    BY <1>8 DEF Phone, OpenScreen, Dismiss, selectFilesBtn, DidCancel, Type,
       Progress, storeVars
  <2>2. UnderWay' = UnderWay
    BY <1>2, <1>3, <2>1, Places DEF Exports, Requests
  <2> QED BY <1>2, <2>1, <2>2, DocumentsSame
<1> QED BY <1>2, <1>4, <1>5, <1>6, <1>7, <1>8 DEF ExportEnds

\* The requests that wait after a step of one worker.
LEMMA OtherPosts ==
  ASSUME AllInv, NEW w \in Workers, \A v \in Workers : v # w => post'[v] = post[v]
  PROVE  /\ ~ Busy(w, "mongo") /\ ~ Busy(w, "mongo")' => Waiting' = Waiting
         /\ ~ Busy(w, "mongo") /\ Busy(w, "mongo")' =>
              Waiting' = Waiting \union {post'[w].video.id}
         /\ Busy(w, "mongo") /\ ~ Busy(w, "mongo")' =>
              Waiting' = Waiting \ {post[w].video.id} /\ post[w].video.id \in Waiting
         /\ Busy(w, "mongo") /\ ~ Busy(w, "mongo")'
              /\ Published' \subseteq Published \union {post[w].video.id} => OnceInv'
         /\ ~ Busy(w, "mongo") /\ ~ Busy(w, "mongo")'
              /\ Published' = Published => OnceInv'
<1>1. \A v \in Workers : v # w => /\ Busy(v, "mongo")' <=> Busy(v, "mongo")
                                  /\ post'[v] = post[v]
  BY DEF Busy
<1>2. \A v \in Workers : v # w /\ Busy(v, "mongo") /\ Busy(w, "mongo") =>
                          post[v].video.id # post[w].video.id
  BY DEF AllInv, OnceInv
<1>3. Waiting' = {post'[v].video.id : v \in {u \in Workers : Busy(u, "mongo")'}}
  BY DEF Waiting
<1>4. ~ Busy(w, "mongo") /\ ~ Busy(w, "mongo")' => Waiting' = Waiting
  BY <1>1, <1>3 DEF Waiting
<1>5. ~ Busy(w, "mongo") /\ Busy(w, "mongo")' =>
        Waiting' = Waiting \union {post'[w].video.id}
  BY <1>1, <1>3 DEF Waiting
<1>6. Busy(w, "mongo") /\ ~ Busy(w, "mongo")' =>
        Waiting' = Waiting \ {post[w].video.id} /\ post[w].video.id \in Waiting
  BY <1>1, <1>2, <1>3 DEF Waiting
<1>7. Busy(w, "mongo") /\ ~ Busy(w, "mongo")'
        /\ Published' \subseteq Published \union {post[w].video.id} => OnceInv'
  BY <1>1, <1>2 DEF AllInv, OnceInv
<1>8. ~ Busy(w, "mongo") /\ ~ Busy(w, "mongo")' /\ Published' = Published => OnceInv'
  BY <1>1 DEF AllInv, OnceInv
<1> QED BY <1>4, <1>5, <1>6, <1>7, <1>8

\* The steps of the server on the documents.
LEMMA StoreOnce ==
  ASSUME AllInv, StoreNext, UNCHANGED phoneVars
  PROVE  OnceInv' /\ [Documents!Next]_(Documents!vars)
<1>1. Exports' = Exports
  BY DEF phoneVars, Exports
<1>2. UnderWay' = Exports' \union Requests' \union Waiting'
  BY DEF UnderWay, Exports, Requests, Waiting
<1>3. post \in [Workers -> Post \union {NoPost}]
  BY DEF AllInv, TypeInv, TypeOK, StoreTypeOK
<1>4. ASSUME UNCHANGED <<post, videos>>
      PROVE  OnceInv' /\ Waiting' = Waiting /\ Published' = Published
  BY <1>4 DEF AllInv, OnceInv, Waiting, Published, Busy
<1>5. ASSUME NEW key \in Keys, NEW title \in Titles, OtherClient(key, title)
      PROVE  OnceInv' /\ [Documents!Next]_(Documents!vars)
  <2> DEFINE new == [id |-> made', key |-> key, title |-> title, of |-> 0,
                     own |-> title]
  <2>1. new.id = made'
    OBVIOUS
  <2>2. net' = net \union {new} /\ UNCHANGED <<post, videos>>
        /\ made < MaxVideos /\ made' = made + 1
    BY <1>5 DEF OtherClient
  <2> HIDE DEF new
  <2>3. Requests' = Requests \union {made'}
    BY <2>1, <2>2 DEF Requests
  <2>4. OnceInv' /\ Waiting' = Waiting /\ Published' = Published
    BY <1>4, <2>2
  <2> QED BY <1>1, <1>2, <2>2, <2>3, <2>4, Places, DocumentTaken
<1>6. ASSUME NEW r \in net, net' = net \ {r}
      PROVE  Requests' = Requests \ {r.id} /\ r.id \in Requests
  BY <1>6, OneLess DEF AllInv, IdInv, Requests
<1>7. ASSUME NEW r \in net, net' = net \ {r}, UNCHANGED <<made, post, videos>>
      PROVE  OnceInv' /\ [Documents!Next]_(Documents!vars)
  <2>1. OnceInv' /\ Waiting' = Waiting /\ Published' = Published
    BY <1>4, <1>7
  <2>2. Requests' = Requests \ {r.id} /\ r.id \in Requests
    BY <1>6, <1>7
  <2>3. UnderWay' = UnderWay \ {r.id} /\ {r.id} \subseteq UnderWay
    BY <1>1, <1>2, <2>1, <2>2, Places
  <2> QED BY <1>7, <2>1, <2>3, DocumentsLost
<1>8. ASSUME NEW r \in net, NEW w \in Workers, Receive(w, r)
      PROVE  OnceInv' /\ [Documents!Next]_(Documents!vars)
  <2>1. CASE ~ HasVideoFormat(r.key)
    BY <1>7, <1>8, <2>1 DEF Receive
  <2>2. CASE HasVideoFormat(r.key)
    <3> DEFINE p == [video |-> r, stage |-> "mongo"]
    <3>1. /\ post[w] = NoPost /\ net' = net \ {r} /\ UNCHANGED <<made, videos>>
          /\ \A v \in Workers : v # w => post'[v] = post[v]
          /\ post'[w] = p
      BY <1>3, <1>8, <2>2 DEF Receive
    <3>2. p # NoPost /\ p.video = r /\ p.stage = "mongo"
      <4>1. p \in Post
        BY DEF AllInv, TypeInv, TypeOK, StoreTypeOK, Post
      <4> QED BY <4>1, StoreAssumption
    <3> HIDE DEF p
    <3>3. ~ Busy(w, "mongo") /\ Busy(w, "mongo")' /\ post'[w].video.id = r.id
      BY <3>1, <3>2 DEF Busy
    <3>4. Published' = Published
      BY <3>1 DEF Published
    <3>5. Waiting' = Waiting \union {r.id}
      BY <3>1, <3>3, <3>4, OtherPosts
    <3>6. Requests' = Requests \ {r.id} /\ r.id \in Requests
      BY <1>6, <3>1
    <3>7. UnderWay' = UnderWay
      BY <1>1, <1>2, <3>5, <3>6, Places
    <3>8. r.id \notin Published /\ r.id \notin Waiting
      BY <3>6, Places
    <3>9. \A v \in Workers : Busy(v, "mongo") => post[v].video.id # r.id
      BY <3>8 DEF Waiting
    <3>10. OnceInv'
      <4>1. \A v \in Workers : v # w => (Busy(v, "mongo")' <=> Busy(v, "mongo"))
        BY <3>1 DEF Busy
      <4> QED BY <3>1, <3>3, <3>4, <3>8, <3>9, <4>1 DEF AllInv, OnceInv
    <3> QED BY <3>1, <3>4, <3>7, <3>10, DocumentsSame
  <2> QED BY <2>1, <2>2
<1>9. ASSUME NEW w \in Workers, Serve(w)
      PROVE  OnceInv' /\ [Documents!Next]_(Documents!vars)
  <2>1. /\ UNCHANGED <<made, net>> /\ Requests' = Requests
        /\ \A v \in Workers : v # w => post'[v] = post[v]
    BY <1>3, <1>9 DEF Serve, PostVideoToMongo, MongoFails, UploadVideoToS3, PostLost,
       Requests
  <2>2. ~ Busy(w, "mongo")'
    BY <1>3, <1>9 DEF Serve, PostVideoToMongo, MongoFails, UploadVideoToS3, PostLost,
       Busy, Post
  <2>3. CASE ~ Busy(w, "mongo")
    <3>1. Published' = Published
      BY <1>9, <2>3 DEF Serve, PostVideoToMongo, MongoFails, UploadVideoToS3, PostLost,
         Published
    <3>2. Waiting' = Waiting /\ OnceInv'
      BY <2>1, <2>2, <2>3, <3>1, OtherPosts
    <3>3. UnderWay' = UnderWay
      BY <1>1, <1>2, <2>1, <3>2, Places
    <3> QED BY <2>1, <3>1, <3>2, <3>3, DocumentsSame
  <2>4. CASE Busy(w, "mongo")
    <3> DEFINE id == post[w].video.id
    <3>1. Waiting' = Waiting \ {id} /\ id \in Waiting
      BY <2>1, <2>2, <2>4, OtherPosts
    <3>2. UnderWay' = UnderWay \ {id} /\ id \in UnderWay
      BY <1>1, <1>2, <2>1, <3>1, Places
    <3>3. Published' = Published \/ Published' = Published \union {id}
      BY <1>9 DEF Serve, PostVideoToMongo, MongoFails, UploadVideoToS3, PostLost,
         Published
    <3>4. OnceInv'
      BY <2>1, <2>2, <2>4, <3>3, OtherPosts
    <3>5. CASE Published' = Published
      BY <2>1, <3>2, <3>4, <3>5, DocumentsLost
    <3>6. CASE Published' = Published \union {id}
      BY <2>1, <3>2, <3>4, <3>6, DocumentDelivered
    <3> QED BY <3>3, <3>5, <3>6
  <2> QED BY <2>3, <2>4
<1> QED BY <1>5, <1>7, <1>8, <1>9 DEF StoreNext, Arrive, RequestLost

\* Documents implement Delivery: every video that is picked or sent is inserted
\* once or never, whatever exports, requests, workers and writes fail under it
\* (AttachmentHandler, post_video, post_video_to_mongo).
THEOREM DocumentRefinement == Spec => PublishedOnce
<1>1. Init => OnceInv /\ Documents!Init
  <2> SUFFICES ASSUME Init PROVE OnceInv /\ Documents!Init
    OBVIOUS
  <2>1. /\ made = 0 /\ exporting = {} /\ net = {} /\ videos = {}
        /\ \A w \in Workers : ~ Busy(w, "mongo")
    BY DEF Init, StoreInit, Busy
  <2>2. UnderWay = {} /\ Published = {} /\ 1 .. made = {}
    BY <2>1 DEF UnderWay, Published
  <2> QED BY <2>1, <2>2 DEF OnceInv, Documents!Init
<1>2. TypeInv /\ IdInv /\ AgreeInv /\ OnceInv /\ [Next]_vars
        => OnceInv' /\ [Documents!Next]_(Documents!vars)
  <2> SUFFICES ASSUME AllInv, [Next]_vars
               PROVE  OnceInv' /\ [Documents!Next]_(Documents!vars)
    BY DEF AllInv
  <2>1. CASE Phone
    BY <2>1, PhoneOnce
  <2>2. CASE StoreNext /\ UNCHANGED phoneVars
    BY <2>2, StoreOnce
  <2>3. CASE UNCHANGED vars
    <3>1. UNCHANGED <<made, Published, UnderWay>> /\ OnceInv'
      BY <2>3 DEF vars, storeVars, phoneVars, Published, UnderWay, Busy, AllInv, OnceInv
    <3> QED BY <3>1, DocumentsSame
  <2> QED BY <2>1, <2>2, <2>3 DEF Next
<1> QED
  BY <1>1, <1>2, AgreeInductive, PTL DEF Spec, PublishedOnce, Documents!Spec
=============================================================================
