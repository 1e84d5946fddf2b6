---------------------------- MODULE PostService ----------------------------
(***************************************************************************)
(* Creating, storing and announcing comments: the use case of post-service *)
(* (post-service/internal/usecase/post/post.go) between the GraphQL        *)
(* resolvers, the PostgreSQL repository and the broker.  CreateComment is  *)
(* three database statements and a Publish, each a step of its own, with   *)
(* nothing to hold them together: no transaction spans them, the context   *)
(* of the request may end between any two of them, an INSERT may commit    *)
(* although its answer is lost, and the process may die.  The broker is    *)
(* represented by its specification, CommentFeed; a request that publishes *)
(* is a comment of the feed.                                               *)
(*                                                                         *)
(* No statement of the program updates or deletes a row, so posts and      *)
(* comments only ever appear.                                              *)
(***************************************************************************)
EXTENDS Naturals, FiniteSets, Sequences, SequencesExt

CONSTANTS
    Posts,         \* post ids
    Enabled,       \* the posts whose comments_enabled is true
    Requests,      \* calls of CreateComment
    PostOf,        \* the postID of a request
    Subscribers,   \* calls of SubscribeComments
    TopicOf,       \* the postID of a subscription
    Buffer,        \* of CommentFeed
    NoParent

ASSUME ServiceAssumption ==
    /\ Enabled \subseteq Posts
    /\ PostOf \in [Requests -> Posts]
    /\ TopicOf \in [Subscribers -> Posts]
    /\ Buffer \in Nat
    /\ NoParent \notin Nat

VARIABLES
    posts,         \* rows of post_service.posts: the posts created so far
    rows,          \* rows of post_service.comments: id -> comment
    lastId,        \* the BIGSERIAL sequence of post_service.comments
    insert,        \* state of the INSERT statement of a request
    id,            \* the id its row was given, 0 before
    pc,            \* control state of a request
    parent,        \* its parentID
    access,        \* what SubscribeComments made of the post
    hasRead,       \* the subscribers that have read the comments since
    page,          \* what they read
    acked,         \* history: requests answered when this one was made
    phase, cancelled, status, pending, mailbox, received    \* of CommentFeed

dbVars     == <<posts, rows, lastId, insert, id>>
callVars   == <<pc, parent, acked>>
readerVars == <<access, hasRead, page>>
feedVars   == <<phase, cancelled, status, pending, mailbox, received>>
vars       == <<dbVars, callVars, readerVars, feedVars>>

Feed == INSTANCE CommentFeed WITH Comments <- Requests

Ids == 1..lastId

\* How a request ends: with a comment, with an error that has a code of its
\* own, or with the code INTERNAL.
Ended == {"ok", "refused", "failed"}

PcStates == {"idle", "post", "parent", "insert", "await", "publish",
             "publishing"} \cup Ended

\* Mutant: every error is given a code.
ConvertErrorAlways(err) == "refused"

\* The errors of internal/entity have codes, all others are INTERNAL.
ConvertError(err) ==
    IF err \in {"ErrPostNotFound", "ErrCommentsDisabled", "ErrCommentNotFound",
               "ErrInvalidParent"}
    THEN "refused" ELSE "failed"

TypeOK ==
    /\ posts \subseteq Posts
    /\ lastId \in Nat
    /\ DOMAIN rows \subseteq Ids
    /\ \A i \in DOMAIN rows :
          rows[i] \in [by : Requests, post : Posts, parent : Ids \cup {NoParent}]
    /\ insert \in [Requests -> {"none", "open", "committed", "aborted"}]
    /\ id \in [Requests -> Nat]
    /\ pc \in [Requests -> PcStates]
    /\ parent \in [Requests -> Nat \cup {NoParent}]
    /\ acked \in [Requests -> SUBSET Requests]
    /\ access \in [Subscribers -> {"unknown", "granted", "refused"}]
    /\ hasRead \subseteq Subscribers
    /\ page \in [Subscribers -> SUBSET Requests]
    \* Statements that reached the database hold distinct ids, in order of issue.
    /\ \A r \in Requests : insert[r] # "none" <=> id[r] \in Ids
    /\ \A q, r \in Requests : id[q] = id[r] /\ id[q] # 0 => q = r

Init ==
    /\ posts = {}
    /\ rows = <<>>
    /\ lastId = 0
    /\ insert = [r \in Requests |-> "none"]
    /\ id = [r \in Requests |-> 0]
    /\ pc = [r \in Requests |-> "idle"]
    /\ parent = [r \in Requests |-> NoParent]
    /\ acked = [r \in Requests |-> {}]
    /\ access = [s \in Subscribers |-> "unknown"]
    /\ hasRead = {}
    /\ page = [s \in Subscribers |-> {}]
    /\ Feed!Init

-----------------------------------------------------------------------------
\* CreatePost: one INSERT.
CreatePost(p) ==
    /\ p \notin posts
    /\ posts' = posts \cup {p}
    /\ UNCHANGED <<rows, lastId, insert, id, callVars, readerVars, feedVars>>

Goto(r, next) == pc' = [pc EXCEPT ![r] = next]

\* The resolver accepts a request: the user is known, the ids are positive
\* numbers and the content is not too long.  Any id may be given as the parent.
CreateComment(r, i) ==
    /\ pc[r] = "idle"
    /\ Goto(r, "post")
    /\ parent' = [parent EXCEPT ![r] = i]
    /\ acked' = [acked EXCEPT ![r] = {q \in Requests : pc[q] = "ok"}]
    /\ UNCHANGED <<dbVars, readerVars, feedVars>>

\* Otherwise it answers UNAUTHENTICATED, BAD_USER_INPUT or COMMENT_TOO_LONG.
Refuse(r) ==
    /\ pc[r] = "idle"
    /\ Goto(r, "refused")
    /\ UNCHANGED <<dbVars, parent, acked, readerVars, feedVars>>

PostCheck(r, accepted) ==
    /\ pc[r] = "post"
    /\ Goto(r, IF PostOf[r] \notin posts THEN ConvertError("ErrPostNotFound")
               ELSE IF PostOf[r] \notin accepted THEN ConvertError("ErrCommentsDisabled")
               ELSE IF parent[r] = NoParent THEN "insert" ELSE "parent")
    /\ UNCHANGED <<dbVars, parent, acked, readerVars, feedVars>>

\* Mutant: a post with comments disabled takes comments.
GetPostOnly(r) == PostCheck(r, posts)

\* GetPost and the test of CommentsEnabled: POST_NOT_FOUND, COMMENTS_DISABLED.
GetPost(r) == PostCheck(r, posts \cap Enabled)

ParentCheck(r, accepted) ==
    /\ pc[r] = "parent"
    /\ Goto(r, IF parent[r] \notin DOMAIN rows THEN ConvertError("ErrCommentNotFound")
               ELSE IF parent[r] \notin accepted THEN ConvertError("ErrInvalidParent")
               ELSE "insert")
    /\ UNCHANGED <<dbVars, parent, acked, readerVars, feedVars>>

\* Mutant: the parent may belong to another post.
GetAnyComment(r) == ParentCheck(r, DOMAIN rows)

\* GetComment and the test of its post: COMMENT_NOT_FOUND, INVALID_PARENT.
GetComment(r) ==
    ParentCheck(r, {i \in DOMAIN rows : rows[i].post = PostOf[r]})

InsertAs(r, next) ==
    /\ pc[r] = "insert"
    /\ Goto(r, "await")
    /\ insert' = [insert EXCEPT ![r] = "open"]
    /\ lastId' = next
    /\ id' = [id EXCEPT ![r] = next]
    /\ UNCHANGED <<posts, rows, parent, acked, readerVars, feedVars>>

\* Mutant: the id is made from the number of stored comments.
InsertCounted(r) == InsertAs(r, Cardinality(DOMAIN rows) + 1)

\* The INSERT reaches the database: the sequence hands out an id, which is not
\* given back if the statement fails.
Insert(r) == InsertAs(r, lastId + 1)

\* The statement commits and its row becomes visible, whatever has become of
\* the request meanwhile.
Commit(r) ==
    /\ insert[r] = "open"
    /\ insert' = [insert EXCEPT ![r] = "committed"]
    /\ rows' = [i \in DOMAIN rows \cup {id[r]} |->
          IF i = id[r] THEN [by |-> r, post |-> PostOf[r], parent |-> parent[r]]
                       ELSE rows[i]]
    /\ UNCHANGED <<posts, lastId, id, callVars, readerVars, feedVars>>

\* It fails, or the cancelled context of the request reaches the database.
Abort(r) ==
    /\ insert[r] = "open"
    /\ insert' = [insert EXCEPT ![r] = "aborted"]
    /\ UNCHANGED <<posts, rows, lastId, id, callVars, readerVars, feedVars>>

\* The RETURNING row arrives, or the error does.
ReplyWhen(r, ended) ==
    /\ pc[r] = "await"
    /\ insert[r] \in ended
    /\ Goto(r, IF insert[r] = "aborted" THEN ConvertError("statement") ELSE "publish")
    /\ UNCHANGED <<dbVars, parent, acked, readerVars, feedVars>>

\* Mutant: the comment is announced without waiting for the commit.
ReplyEarly(r) == ReplyWhen(r, {"open", "committed", "aborted"})

Reply(r) == ReplyWhen(r, {"committed", "aborted"})

\* The context of the request ends, or the connection breaks: the statement
\* under way returns an error, which says nothing about its effect.
Fail(r) ==
    /\ pc[r] \in {"post", "parent", "insert", "await"}
    /\ Goto(r, ConvertError("context"))
    /\ UNCHANGED <<dbVars, parent, acked, readerVars, feedVars>>

\* commentBroker.Publish begins; it does not look at the context.
BeginWhen(r, ready, next) ==
    /\ pc[r] = "publish"
    /\ ready
    /\ Feed!Begin(r)
    /\ Goto(r, next)
    /\ UNCHANGED <<dbVars, parent, acked, readerVars>>

\* Mutants: the request is answered while "go Publish" runs; Publish waits
\* until the readers have caught up.
PublishAsync(r) == BeginWhen(r, TRUE, "ok")
PublishBlocking(r) == BeginWhen(r, \A s \in Subscribers : mailbox[s] = <<>>, "publishing")

Publish(r) == BeginWhen(r, TRUE, "publishing")

\* Publish enqueues to the next subscriber.
Offer(r) ==
    /\ \E s \in Subscribers : Feed!Offer(r, s)
    /\ UNCHANGED <<dbVars, callVars, readerVars>>

\* Publish returns and the request is answered.
Answer(r) ==
    /\ Feed!Finish(r)
    /\ Goto(r, "ok")
    /\ UNCHANGED <<dbVars, parent, acked, readerVars>>

RequestStep(r) ==
    \/ GetPost(r) \/ GetComment(r) \/ Insert(r) \/ Reply(r)
    \/ Publish(r) \/ Offer(r) \/ Answer(r)

-----------------------------------------------------------------------------
\* SubscribeComments: the post must exist and have comments enabled ...
CheckAccess(s) ==
    /\ access[s] = "unknown"
    /\ access' = [access EXCEPT ![s] =
          IF TopicOf[s] \in posts \cap Enabled THEN "granted" ELSE "refused"]
    /\ UNCHANGED <<dbVars, callVars, hasRead, page, feedVars>>

\* ... and then the subscriber joins the feed.
Subscribe(s) ==
    /\ access[s] = "granted"
    /\ Feed!Join(s)
    /\ UNCHANGED <<dbVars, callVars, readerVars>>

\* A client that has subscribed asks for the comments of the post: one
\* snapshot of the committed rows (all pages, to keep this module small).
ReadComments(s) ==
    /\ phase[s] = "member"
    /\ s \notin hasRead
    /\ hasRead' = hasRead \cup {s}
    /\ page' = [page EXCEPT ![s] =
          {rows[i].by : i \in {j \in DOMAIN rows : rows[j].post = TopicOf[s]}}]
    /\ UNCHANGED <<dbVars, callVars, access, feedVars>>

\* Cancellation, teardown and delivery, as the broker promises them.
ReaderStep(s) ==
    /\ Feed!Cancel(s) \/ Feed!Leave(s) \/ Feed!Close(s) \/ Feed!Deliver(s)
    /\ UNCHANGED <<dbVars, callVars, readerVars>>

\* The process dies: requests, publishes and subscriptions are gone, the
\* database and the statements it has accepted are not.
Crash ==
    /\ \E r \in Requests : pc[r] \notin {"idle"} \cup Ended
    /\ pc' = [r \in Requests |->
          IF pc[r] \in {"idle"} \cup Ended THEN pc[r] ELSE "failed"]
    /\ status' = [r \in Requests |-> IF status[r] = "open" THEN "done" ELSE status[r]]
    /\ pending' = [r \in Requests |-> {}]
    /\ phase' = [s \in Subscribers |-> IF phase[s] = "new" THEN "new" ELSE "closed"]
    /\ mailbox' = [s \in Subscribers |-> <<>>]
    /\ access' = [s \in Subscribers |->
          IF phase[s] = "new" THEN "unknown" ELSE access[s]]
    /\ UNCHANGED <<dbVars, parent, acked, hasRead, page, cancelled, received>>

-----------------------------------------------------------------------------
\* Nothing is under way any more; what clients may do next is up to them.
Quiet ==
    /\ \A r \in Requests : pc[r] \in Ended /\ insert[r] # "open"
    /\ UNCHANGED vars

Next ==
    \/ \E p \in Posts : CreatePost(p)
    \/ \E r \in Requests :
          \/ Refuse(r) \/ RequestStep(r) \/ Fail(r) \/ Commit(r) \/ Abort(r)
          \/ \E i \in (1..(lastId + 1)) \cup {NoParent} : CreateComment(r, i)
    \/ \E s \in Subscribers :
          CheckAccess(s) \/ Subscribe(s) \/ ReadComments(s) \/ ReaderStep(s)
    \/ Crash
    \/ Quiet

\* Goroutines run and the database ends every statement.  Nothing is assumed
\* of clients: readers may stop reading, requests and subscriptions may never
\* be made or cancelled.
Fairness ==
    \A r \in Requests :
        WF_vars(RequestStep(r)) /\ WF_vars(Commit(r) \/ Abort(r))

Spec == Init /\ [][Next]_vars /\ Fairness

-----------------------------------------------------------------------------
\* What a subscriber has been sent.
Sent(s) == received[s] \o mailbox[s]

\* The stored comments form trees: a reply hangs below a stored comment of the
\* same post with a smaller id.  So building the tree of a page terminates,
\* and the page of a post never shows a comment of another.  No comment is
\* stored for a post that does not exist or has comments disabled.
StoredAsTrees ==
    \A i \in DOMAIN rows :
        /\ rows[i].post \in posts \cap Enabled
        /\ rows[i].parent # NoParent =>
              /\ rows[i].parent \in DOMAIN rows
              /\ rows[i].parent < i
              /\ rows[rows[i].parent].post = rows[i].post

\* Subscribers are told of stored comments only, of each at most once, and
\* only of the post they asked for.
AnnouncedIsStored ==
    \A s \in Subscribers : \A k \in 1..Len(Sent(s)) :
        /\ insert[Sent(s)[k]] = "committed"
        /\ PostOf[Sent(s)[k]] = TopicOf[s]
        /\ \A l \in 1..Len(Sent(s)) : Sent(s)[l] = Sent(s)[k] => l = k

\* A client that subscribes first and reads the comments next has no gap: what
\* was created successfully is in what it read or in what it was sent, for as
\* long as its subscription lives.
SubscribeThenReadHasNoGap ==
    \A s \in Subscribers, r \in Requests :
        phase[s] = "member" /\ s \in hasRead /\ pc[r] = "ok" /\ PostOf[r] = TopicOf[s] =>
            r \in page[s] \/ r \in ToSet(Sent(s))

\* If the creation of one comment was answered before another was requested,
\* then the pages, which sort by id, and every subscription show the two in
\* that order.
AnsweredComesFirst ==
    \A r \in Requests : \A q \in acked[r] :
        /\ id[r] # 0 => id[q] < id[r]
        /\ \A s \in Subscribers : \A k, l \in 1..Len(Sent(s)) :
              Sent(s)[k] = q /\ Sent(s)[l] = r => k < l

\* An error with a code of its own leaves nothing behind, now or later: the
\* client may correct its request and send it again.  Only after INTERNAL the
\* comment may be stored all the same (convertor.go:56).
RefusedIsNotStored ==
    \A r \in Requests : pc[r] = "refused" =>
        \A i \in DOMAIN rows : rows[i].by # r

\* Every accepted request is answered, with a comment or an error, however
\* slow the subscribers of the post are.
RequestsEnd ==
    \A r \in Requests : pc[r] = "post" ~> pc[r] \in Ended
=============================================================================
