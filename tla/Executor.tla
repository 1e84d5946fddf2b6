------------------------------ MODULE Executor ------------------------------
(***************************************************************************)
(* How a GraphQL document becomes responses: Exec and the object functions *)
(* of post-service/internal/transport/graphql/generated.go, which run the  *)
(* resolvers of resolver.go concurrently, let a failed field null the      *)
(* objects that require it, and hand the comments that a client asked for  *)
(* with @defer to later responses.                                         *)
(*                                                                         *)
(* A field selects, below each of its posts, no comments, comments, and    *)
(* deferred comments.  The other fields of a post, and all fields below    *)
(* comments, are read from the value that the resolver returned and cannot *)
(* fail.  The runtime of gqlgen (graphql.FieldSet, the executor and its    *)
(* transports) is not part of the repository and is modelled by its use.   *)
(***************************************************************************)
EXTENDS Naturals, Sequences, FiniteSets

CONSTANTS
    Documents,    \* the documents clients send: see IsDocument
    Transports,   \* how a client reads: "websocket", or "post", once
    MaxPosts      \* bound of the model: posts in the answer to "posts"

Names == {"posts", "post", "createPost", "createComment"}
Modes == {"plain", "deferred"}
Null == "null"

IsDocument(d) ==
    /\ d.op \in {"query", "mutation"}
    /\ d.fields \in Seq([name : Names, comments : SUBSET Modes]) \ {<<>>}
    /\ \A f \in 1..Len(d.fields) :
          d.fields[f].name \in IF d.op = "query" THEN {"posts", "post"}
                               ELSE {"createPost", "createComment"}

ASSUME ExecutorAssumption ==
    /\ \A d \in Documents : IsDocument(d)
    /\ Transports \subseteq {"websocket", "post"}
    /\ MaxPosts \in Nat \ {0}

VARIABLES
    doc, transport,
    got,          \* a root field: "running", "rejected" before its resolver ran,
                  \* "failed" or "resolved"
    count,        \* the number of posts it returned
    post,         \* _Post: "off", "dispatching", Null or "object"
    comments,     \* Resolver.Comments: "off", "running", "failed" or "ok"
    received,     \* the posts whose deferred group the reader has
    deferred,     \* ec.Deferred: the groups that were ever started
    pending,      \* ec.PendingDeferred: those that are not yet received
    reader,       \* the transport: "calling", "holding" a response, "ended"
                  \* by a nil response, or "left"
    responses

request == <<doc, transport>>
values  == <<got, count, post>>
groups  == <<deferred, pending, received>>
stream  == <<reader, responses>>
vars    == <<request, values, comments, groups, stream>>

Fields == 1..Len(doc.fields)
Name(f) == doc.fields[f].name
Selected(f, m) == m \in doc.fields[f].comments
Places == Fields \X (1..MaxPosts)

Init ==
    /\ doc \in Documents /\ transport \in Transports
    /\ got = [f \in Fields |-> "running"]
    /\ count = [f \in Fields |-> 0]
    /\ post = [p \in Places |-> "off"]
    /\ comments = [m \in Modes |-> [p \in Places |-> "off"]]
    /\ deferred = 0 /\ pending = 0 /\ received = {}
    /\ reader = "calling" /\ responses = <<>>

-----------------------------------------------------------------------------
\* Resolvers.

PostsOf(f) == {<<f, i>> : i \in 1..count[f]}

\* Every post of a field has been marshalled: marshalNPost2...ᚄ and Dispatch
\* wait for all.
FieldDone(f) ==
    \/ got[f] \in {"rejected", "failed"}
    \/ got[f] = "resolved" /\ \A p \in PostsOf(f) : post[p] \in {Null, "object"}

\* _Query starts its fields concurrently, _Mutation one after the other.
Runnable(f) ==
    /\ got[f] = "running"
    /\ doc.op = "query" \/ \A g \in 1..(f - 1) : FieldDone(g)

\* The posts a resolver may return.
QueriedPosts(f) == IF Name(f) = "posts" THEN 0..MaxPosts ELSE {1}
CreatedPosts(f) == IF Name(f) = "createPost" THEN {1} ELSE {0}
Counts(f) == IF doc.op = "query" THEN QueriedPosts(f) ELSE CreatedPosts(f)

HasArguments(f) == Name(f) # "posts"

FailsAs(f, how) ==
    /\ reader = "calling" /\ Runnable(f)
    /\ got' = [got EXCEPT ![f] = how]
    /\ UNCHANGED <<request, count, post, comments, groups, stream>>

\* Arguments that do not fit their types: the resolver is not called.
Reject(f) == HasArguments(f) /\ FailsAs(f, "rejected")

\* An error of the resolver, or a panic.
ResolveFails(f) == FailsAs(f, "failed")

\* _Post is called for every post and starts the comments that are not
\* deferred.
Resolve(f) ==
    /\ reader = "calling" /\ Runnable(f)
    /\ got' = [got EXCEPT ![f] = "resolved"]
    /\ \E n \in Counts(f) :
         /\ count' = [count EXCEPT ![f] = n]
         /\ post' = [p \in Places |->
                       IF p[1] = f /\ p[2] <= n THEN "dispatching" ELSE post[p]]
         /\ comments' = [comments EXCEPT !["plain"] = [p \in Places |->
                       IF p[1] = f /\ p[2] <= n /\ Selected(f, "plain")
                       THEN "running" ELSE comments["plain"][p]]]
    /\ UNCHANGED <<request, groups, stream>>

\* Resolver.Comments for one post returns.
ReturnComments(p, m) ==
    /\ comments[m][p] = "running"
    /\ \E outcome \in {"ok", "failed"} : comments' = [comments EXCEPT ![m][p] = outcome]
    /\ UNCHANGED <<request, values, groups, stream>>

\* out.Invalids of _Post.
Invalid(p) == comments["plain"][p] = "failed"

DispatchWith(p, counted) ==
    /\ post[p] = "dispatching"
    /\ comments["plain"][p] # "running"
    /\ post' = [post EXCEPT ![p] = IF Invalid(p) THEN Null ELSE "object"]
    /\ IF ~Invalid(p) /\ Selected(p[1], "deferred")
       THEN /\ comments' = [comments EXCEPT !["deferred"][p] = "running"]
            /\ deferred' = deferred + 1
            /\ pending' = pending + counted
       ELSE UNCHANGED <<comments, deferred, pending>>
    /\ UNCHANGED <<request, got, count, received, stream>>

\* Mutant: the group is counted only by Deferred.
DispatchUncounted(p) == DispatchWith(p, 0)

\* The end of _Post: Dispatch has waited for the comments, then the deferred
\* group is counted and started, unless the post is null.
Dispatch(p) == DispatchWith(p, 1)

-----------------------------------------------------------------------------
\* Responses.

\* marshalNPost2...ᚄ: a list with a null is null.
FieldNull(f) == got[f] \in {"rejected", "failed"} \/ \E p \in PostsOf(f) : post[p] = Null

\* Mutant: the test of "posts" and of "post" the other way round.
RequiredSwapped(f) == Name(f) # "posts"

\* The fields whose null counts as invalid: all but post.
Required(f) == Name(f) # "post"

\* _Query and _Mutation.
Data ==
    IF \E f \in Fields : Required(f) /\ FieldNull(f)
    THEN [null |-> TRUE, fields |-> {}]
    ELSE [null |-> FALSE, fields |-> {<<f, count[f]>> : f \in {g \in Fields : ~FieldNull(g)}}]

FirstErrors ==
    {<<<<f, 0>>, got[f]>> : f \in {g \in Fields : got[g] \in {"rejected", "failed"}}} \cup
    {<<p, "plain">> : p \in {q \in Places : comments["plain"][q] = "failed"}}

HasNext(n) ==
    IF doc.op = "mutation" \/ deferred = 0 THEN "absent" ELSE IF n > 0 THEN "true" ELSE "false"

\* The first call.
Respond ==
    /\ reader = "calling" /\ responses = <<>>
    /\ \A f \in Fields : FieldDone(f)
    /\ responses' = <<[path |-> <<>>, data |-> Data, errors |-> FirstErrors,
                       hasNext |-> HasNext(pending)]>>
    /\ reader' = "holding"
    /\ UNCHANGED <<request, values, comments, groups>>

ReceiveWith(p, left, shown, errors) ==
    /\ reader = "calling" /\ responses # <<>>
    /\ doc.op = "query" /\ pending > 0
    /\ comments["deferred"][p] \in {"ok", "failed"} /\ p \notin received
    /\ received' = received \cup {p}
    /\ pending' = left
    /\ responses' = Append(responses,
          [path |-> p, data |-> [null |-> comments["deferred"][p] = "failed", fields |-> {}],
           errors |-> errors, hasNext |-> HasNext(shown)])
    /\ reader' = "holding"
    /\ UNCHANGED <<request, values, comments, deferred>>

GroupErrors(p) == IF comments["deferred"][p] = "failed" THEN {<<p, "deferred">>} ELSE {}

\* Mutants: HasNext is computed before the group is counted off; the group is
\* counted off twice; its errors stay with the first response, which has been
\* sent.
ReceiveStale(p) == ReceiveWith(p, pending - 1, pending, GroupErrors(p))
ReceiveTwice(p) == ReceiveWith(p, pending - 2, pending - 1, GroupErrors(p))
ReceiveSilently(p) == ReceiveWith(p, pending - 1, pending - 1, {})

\* A later call: <-ec.DeferredResults, which a finished group is waiting to
\* send.
Receive(p) == ReceiveWith(p, pending - 1, pending - 1, GroupErrors(p))

EndIf(exhausted) ==
    /\ reader = "calling" /\ responses # <<>>
    /\ exhausted
    /\ reader' = "ended"
    /\ UNCHANGED <<request, values, comments, groups, responses>>

\* Mutant: only a query without @defer ends.
EndUndeferred == EndIf(doc.op = "mutation" \/ deferred = 0)

\* A later call returns nil; in a mutation always.
End == EndIf(doc.op = "mutation" \/ pending = 0)

\* A WebSocket is read until nil; POST writes one response.
CallAgain ==
    /\ reader = "holding"
    /\ reader' = IF transport = "websocket" THEN "calling" ELSE "left"
    /\ UNCHANGED <<request, values, comments, groups, responses>>

\* The client is gone.
Leave ==
    /\ reader = "holding" /\ transport = "websocket"
    /\ reader' = "left"
    /\ UNCHANGED <<request, values, comments, groups, responses>>

FieldStep(f) == Resolve(f) \/ ResolveFails(f) \/ Reject(f)

PlaceStep(p) == Dispatch(p) \/ Receive(p) \/ \E m \in Modes : ReturnComments(p, m)

Next ==
    \/ \E f \in Fields : FieldStep(f)
    \/ \E p \in Places : PlaceStep(p)
    \/ Respond \/ End \/ CallAgain \/ Leave

\* Resolvers return and transports write what they hold.
Fairness ==
    /\ WF_vars(\E f \in Fields : FieldStep(f))
    /\ WF_vars(\E p \in Places : PlaceStep(p))
    /\ WF_vars(Respond \/ End \/ CallAgain)

Spec == Init /\ [][Next]_vars /\ Fairness

-----------------------------------------------------------------------------
\* Properties.

TypeOK ==
    /\ doc \in Documents /\ transport \in Transports
    /\ got \in [Fields -> {"running", "rejected", "failed", "resolved"}]
    /\ count \in [Fields -> 0..MaxPosts]
    /\ post \in [Places -> {"off", "dispatching", Null, "object"}]
    /\ comments \in [Modes -> [Places -> {"off", "running", "failed", "ok"}]]
    /\ deferred \in 0..Cardinality(Places) /\ pending \in 0..deferred
    /\ reader \in {"calling", "holding", "ended", "left"}

\* The rule of the GraphQL specification for errors, read off the schema: a
\* field that failed is null, and so is everything that requires it.  Comments
\* are CommentConnection!, the posts of a list are Post!, and only
\* Query.post is a Post without the exclamation mark.
Nullable(f) == Name(f) = "post"
SpecNull(f) ==
    got[f] \notin {"running", "resolved"} \/ \E i \in 1..count[f] : comments["plain"][<<f, i>>] = "failed"
SpecData ==
    LET null == \E f \in Fields : SpecNull(f) /\ ~Nullable(f)
    IN  [null |-> null,
         fields |-> {<<f, count[f]>> : f \in {g \in Fields : ~null /\ ~SpecNull(g)}}]

\* Whatever the order in which resolvers return, the data of the first
\* response is what the specification says of their results, and is still so
\* when the deferred groups come in.
DataFollowsSchema == responses # <<>> => responses[1].data = SpecData

\* hasNext tells the client whether to wait: it is true on every response but
\* the last, which is followed by nil, and a document without a deferred
\* group has none.
HasNextIsTruthful ==
    /\ \A k \in 1..Len(responses) :
          k < Len(responses) => responses[k].hasNext = "true"
    /\ reader = "ended" => responses[Len(responses)].hasNext # "true"

\* Each deferred group is delivered at most once, and with the end of a query
\* each has been: none is started late or forgotten.
GroupsDeliveredOnce ==
    /\ \A j, k \in 1..Len(responses) :
          responses[j].path = responses[k].path => j = k
    /\ reader = "ended" /\ doc.op = "query" =>
          \A p \in Places :
              comments["deferred"][p] # "off" =>
                  \E k \in 1..Len(responses) : responses[k].path = p

\* Together: a client that reads until hasNext is not true has everything.
DeferredIsDelivered == HasNextIsTruthful /\ GroupsDeliveredOnce

\* A post that is null has no deferred comments: the client is not given a
\* payload for a place that its own post has made null.
NoGroupOfNullPost ==
    \A p \in Places : comments["deferred"][p] # "off" => post[p] = "object"

\* Every failed resolver is reported exactly once, a deferred one with its own
\* group, and nothing else is: a null in any response comes with its error.
Failures ==
    {<<<<f, 0>>, got[f]>> : f \in {g \in Fields : got[g] \in {"rejected", "failed"}}} \cup
    {x \in Places \X Modes : comments[x[2]][x[1]] = "failed"}
FailuresReportedOnce ==
    /\ \A k \in 1..Len(responses) :
          /\ responses[k].errors \subseteq Failures
          /\ responses[k].data.null => responses[k].errors # {}
    /\ reader = "ended" /\ doc.op = "query" =>
          \A x \in Failures : \E k \in 1..Len(responses) :
              /\ x \in responses[k].errors
              /\ \A j \in 1..Len(responses) : x \in responses[j].errors => j = k

\* The fields of a mutation take effect in the order in which they are
\* written: a resolver that has run has found the fields before it complete,
\* with everything below them that is not deferred.
MutationsInOrder ==
    doc.op = "mutation" =>
        \A f \in Fields :
            got[f] # "running" => \A g \in 1..(f - 1) : FieldDone(g)

\* A client that keeps reading comes to the end.
DocumentEnds == <>(reader \in {"ended", "left"})
=============================================================================
