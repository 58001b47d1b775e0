----------------------------- MODULE VideoStore ------------------------------
(***************************************************************************)
(* /api/post/video: a video is a document in Videos and an object in the   *)
(* S3 bucket, written one after the other by a worker.  Either write may   *)
(* fail without the other, the handler or the client taking notice.  The   *)
(* object's key is the file name the client sent, and a later object       *)
(* replaces an earlier one of the same key.                                *)
(***************************************************************************)
EXTENDS Integers

CONSTANTS Workers,      \* worker processes
          Keys,         \* file names that clients other than the app send
          VideoKeys,    \* those among them that end in .MP4 or .MOV
          Titles,       \* titles of videos
          MaxVideos,    \* bound on the videos picked or sent
          MaxScreens,   \* bound on the upload screens opened in the app
          NoPost        \* the worker is idle

Ids == 1 .. MaxVideos

\* The app names a file by a fresh UUID: as good as the id of the video.
Key == Keys \union Ids
HasVideoFormat(key) == key \in VideoKeys \union Ids

\* of and own are history: the screen on which the video was picked, 0 for
\* other clients, and the title this screen had when the request was made.
Request == [id : Ids, key : Key, title : Titles, of : 0 .. MaxScreens,
            own : Titles]

Post == [video : Request, stage : {"mongo", "s3"}]

ASSUME StoreAssumption ==
  /\ Keys \intersect Ids = {}
  /\ VideoKeys \subseteq Keys
  /\ MaxVideos \in Nat
  /\ MaxScreens \in Nat
  /\ NoPost \notin Post

VARIABLES made,         \* number of videos so far
          net,          \* requests on the way to the server
          post,         \* worker -> the request it serves
          videos,       \* documents of Videos
          bucket        \* objects of the bucket

\* History: keys in the requests served, and videos of which a write failed.
VARIABLES received, failed

storeVars == <<made, net, post, videos, bucket, received, failed>>

Busy(w, stage) == post[w] # NoPost /\ post[w].stage = stage

\* The object under a key is the one put last.
PutObject(key, id) ==
  {o \in bucket : o.key # key} \union {[key |-> key, body |-> id]}

-----------------------------------------------------------------------------
\* A client other than the app, which may send any name.
OtherClient(key, title) ==
  /\ made < MaxVideos
  /\ made' = made + 1
  /\ net' = net \union {[id |-> made', key |-> key, title |-> title, of |-> 0,
                         own |-> title]}
  /\ UNCHANGED <<post, videos, bucket, received, failed>>

\* Faulty variant: the request is sent again after it arrived.
ReceiveTwice(w, r) ==
  /\ post[w] = NoPost
  /\ HasVideoFormat(r.key)
  /\ post' = [post EXCEPT ![w] = [video |-> r, stage |-> "mongo"]]
  /\ received' = received \union {[id |-> r.id, key |-> r.key]}
  /\ UNCHANGED <<made, net, videos, bucket, failed>>

\* post_video up to the check of the format.
Receive(w, r) ==
  /\ post[w] = NoPost
  /\ net' = net \ {r}
  /\ IF HasVideoFormat(r.key)
       THEN /\ post' = [post EXCEPT ![w] = [video |-> r, stage |-> "mongo"]]
            /\ received' = received \union {[id |-> r.id, key |-> r.key]}
       ELSE UNCHANGED <<post, received>>
  /\ UNCHANGED <<made, videos, bucket, failed>>

\* Faulty variant: the handler returns after the insert.
ReturnAfterMongo(w) ==
  /\ Busy(w, "mongo")
  /\ videos' = videos \union {post[w].video}
  /\ post' = [post EXCEPT ![w] = NoPost]
  /\ UNCHANGED <<made, net, bucket, received, failed>>

PostVideoToMongo(w) ==
  /\ Busy(w, "mongo")
  /\ videos' = videos \union {post[w].video}
  /\ post' = [post EXCEPT ![w].stage = "s3"]
  /\ UNCHANGED <<made, net, bucket, received, failed>>

\* The exception is swallowed, the upload to S3 goes on.
MongoFails(w) ==
  /\ Busy(w, "mongo")
  /\ failed' = failed \union {post[w].video.id}
  /\ post' = [post EXCEPT ![w].stage = "s3"]
  /\ UNCHANGED <<made, net, videos, bucket, received>>

\* Faulty variant: the key is the title.
UploadUnderTitle(w) ==
  /\ Busy(w, "s3")
  /\ bucket' = PutObject(post[w].video.title, post[w].video.id)
  /\ post' = [post EXCEPT ![w] = NoPost]
  /\ UNCHANGED <<made, net, videos, received, failed>>

UploadVideoToS3(w) ==
  /\ Busy(w, "s3")
  /\ bucket' = PutObject(post[w].video.key, post[w].video.id)
  /\ post' = [post EXCEPT ![w] = NoPost]
  /\ UNCHANGED <<made, net, videos, received, failed>>

\* The put fails and is swallowed, or the worker is killed.
PostLost(w) ==
  /\ post[w] # NoPost
  /\ failed' = failed \union {post[w].video.id}
  /\ post' = [post EXCEPT ![w] = NoPost]
  /\ UNCHANGED <<made, net, videos, bucket, received>>

RequestLost(r) ==
  /\ net' = net \ {r}
  /\ failed' = failed \union {r.id}
  /\ UNCHANGED <<made, post, videos, bucket, received>>

-----------------------------------------------------------------------------
StoreInit ==
  /\ made = 0
  /\ net = {}
  /\ post = [w \in Workers |-> NoPost]
  /\ videos = {}
  /\ bucket = {}
  /\ received = {}
  /\ failed = {}

Serve(w) ==
  \/ PostVideoToMongo(w) \/ MongoFails(w)
  \/ UploadVideoToS3(w) \/ PostLost(w)

Arrive(r) == RequestLost(r) \/ \E w \in Workers : Receive(w, r)

StoreNext ==
  \/ \E key \in Keys, title \in Titles : OtherClient(key, title)
  \/ \E r \in net : Arrive(r)
  \/ \E w \in Workers : Serve(w)

-----------------------------------------------------------------------------
\* Type invariant of the server's side.
StoreTypeOK ==
  /\ made \in 0 .. MaxVideos
  /\ net \subseteq Request
  /\ post \in [Workers -> Post \union {NoPost}]
  /\ videos \subseteq Request
  /\ bucket \subseteq [key : Key, body : Ids]
  /\ received \subseteq [id : Ids, key : Key]
  /\ failed \subseteq Ids

\* The two stores agree, though either write may fail unnoticed: a document
\* shows its own video unless its request is still served, a write or the
\* request failed, or another request came under the same file name; and no
\* object lacks its document unless the insert failed.
StoresAgree ==
  /\ \A d \in videos :
       \/ [key |-> d.key, body |-> d.id] \in bucket
       \/ d.id \in failed
       \/ \E w \in Workers : post[w] # NoPost /\ post[w].video.id = d.id
       \/ \E q \in received : q.key = d.key /\ q.id # d.id
  /\ \A o \in bucket : o.body \in failed \/ \E d \in videos : d.id = o.body
=============================================================================
