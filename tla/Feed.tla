-------------------------------- MODULE Feed --------------------------------
(***************************************************************************)
(* The Posts collection and the handlers of server.py that connect it to   *)
(* the Users collection: /api/new/post copies the author's name into the   *)
(* post, /api/get/timeline joins the two collections by one query per      *)
(* followed user.  They run in the workers of UserStore, next to its       *)
(* registrations, follows and unfollows.                                   *)
(***************************************************************************)
EXTENDS UserStore

CONSTANT MaxPosts     \* bound on the number of posts

ASSUME MaxPostsAssumption == MaxPosts \in Nat

VARIABLES posts,      \* the Posts collection, oldest first
          feed        \* worker -> post or timeline request it serves

feedVars == <<posts, feed>>
allVars == <<storeVars, feedVars>>

Post == [uuid : Uuids, created_by : Names]

NoFeed == [op |-> "none"]
PostReq == [op : {"post"}, uuid : Uuids, created_by : Names]

\* A timeline request has the users still to query and the posts found.  The
\* reader and `due' are history: the posts by the people the first document
\* of the reader follows, as the request begins.
TimelineReq == [op : {"timeline"}, todo : SUBSET Uuids,
                got : SUBSET (1 .. MaxPosts), due : SUBSET (1 .. MaxPosts),
                uuid : Uuids, followed : SUBSET Uuids]

Free(w) == req[w] = Idle /\ feed[w] = NoFeed

PostsBy(authors) == {i \in 1 .. Len(posts) : posts[i].uuid \in authors}

-----------------------------------------------------------------------------
(* new_feed_post: find_one of the author, then an insert.                  *)

\* Faulty variant: the document behind the others instead of the first.
PostReadLast(w, u) ==
  /\ Free(w)
  /\ users[u] # <<>>
  /\ users[u][Len(users[u])].username # NoField
  /\ feed' = [feed EXCEPT ![w] = [op |-> "post", uuid |-> u,
                                  created_by |-> users[u][Len(users[u])].username]]
  /\ UNCHANGED <<storeVars, posts>>

\* Without a document, or with a stub that has no name, the handler raises
\* and nothing changes.
PostRead(w, u) ==
  /\ Free(w)
  /\ FirstDoc(u).username # NoField
  /\ feed' = [feed EXCEPT ![w] = [op |-> "post", uuid |-> u,
                                  created_by |-> FirstDoc(u).username]]
  /\ UNCHANGED <<storeVars, posts>>

\* Faulty variant: the name is left out of the post.
PostInsertUnnamed(w) ==
  /\ feed[w].op = "post"
  /\ Len(posts) < MaxPosts
  /\ posts' = Append(posts, [uuid |-> feed[w].uuid])
  /\ feed' = [feed EXCEPT ![w] = NoFeed]
  /\ UNCHANGED storeVars

PostInsert(w) ==
  /\ feed[w].op = "post"
  /\ Len(posts) < MaxPosts
  /\ posts' = Append(posts, [uuid |-> feed[w].uuid,
                             created_by |-> feed[w].created_by])
  /\ feed' = [feed EXCEPT ![w] = NoFeed]
  /\ UNCHANGED storeVars

-----------------------------------------------------------------------------
(* get_timeline.                                                           *)

\* Faulty variant: the followers' posts.
LastFollower(u) ==
  IF users[u] = <<>> THEN {} ELSE Members(users[u][Len(users[u])].follower)

\* The loop over the documents of the reader keeps the list of the last one
\* and raises when one has no list at all (those of the web form, stubs).
LastFollow(u) == IF users[u] = <<>> THEN {} ELSE users[u][Len(users[u])].follow

TimelineRead(w, u) ==
  /\ Free(w)
  /\ \A i \in 1 .. Len(users[u]) : users[u][i].follow # NoField
  /\ LET firstFollow == Members(FirstDoc(u).follow)
     IN  feed' = [feed EXCEPT ![w] =
                    [op |-> "timeline", todo |-> LastFollow(u), got |-> {},
                     due |-> PostsBy(firstFollow), uuid |-> u,
                     followed |-> firstFollow]]
  /\ UNCHANGED <<storeVars, posts>>

\* One query for the posts of one followed user.
TimelineFetch(w) ==
  /\ feed[w].op = "timeline"
  /\ \E n \in feed[w].todo :
       feed' = [feed EXCEPT ![w].todo = @ \ {n},
                            ![w].got = @ \union PostsBy({n})]
  /\ UNCHANGED <<storeVars, posts>>

TimelineReply(w) ==
  /\ feed[w].op = "timeline"
  /\ feed[w].todo = {}
  /\ feed' = [feed EXCEPT ![w] = NoFeed]
  /\ UNCHANGED <<storeVars, posts>>

\* The worker is killed, or a call raises, between two calls.
FeedAbort(w) ==
  /\ feed[w] # NoFeed
  /\ feed' = [feed EXCEPT ![w] = NoFeed]
  /\ UNCHANGED <<storeVars, posts>>

-----------------------------------------------------------------------------
FeedInit ==
  /\ Init
  /\ posts = <<>>
  /\ feed = [w \in Workers |-> NoFeed]

FeedStep(w) ==
  \/ \E u \in Uuids : PostRead(w, u) \/ TimelineRead(w, u)
  \/ PostInsert(w)
  \/ TimelineFetch(w)
  \/ TimelineReply(w)
  \/ FeedAbort(w)

\* A worker serves one request at a time.
StoreStep(w) ==
  /\ feed[w] = NoFeed
  /\ Step(w)
  /\ UNCHANGED feedVars

FeedNext ==
  \/ \E w \in Workers : FeedStep(w) \/ StoreStep(w)
  \/ (\E u \in Uuids : AppRegister(u)) /\ UNCHANGED feedVars

FeedSpec == FeedInit /\ [][FeedNext]_allVars

-----------------------------------------------------------------------------
(* Properties.                                                             *)

\* Type invariant of the posts and of the requests about them.
FeedTypeOK ==
  /\ TypeOK
  /\ posts \in Seq(Post)
  /\ Len(posts) <= MaxPosts
  /\ feed \in [Workers -> {NoFeed} \union PostReq \union TimelineReq]

\* The name copied into a post is, at any later time, the name under which
\* the first document of its author is found: no late registration, stub or
\* duplicate document ever makes the copy stale.
AuthorNamed ==
  \A i \in 1 .. Len(posts) : posts[i].created_by = FirstDoc(posts[i].uuid).username

\* The answer of get_timeline, whatever the other workers did to the lists and
\* the posts between its queries, holds every post that people the reader
\* followed had made when the request began, and no post of anybody else,
\* unless a registration race gave the reader a second document.
TimelineExact ==
  \A w \in Workers :
    (feed[w].op = "timeline" /\ feed[w].todo = {} /\ feed[w].uuid \notin raced) =>
      /\ feed[w].due \subseteq feed[w].got
      /\ \A i \in feed[w].got : posts[i].uuid \in feed[w].followed
=============================================================================
