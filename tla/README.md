# Formal model of the posts and comments service

The repository holds two Go services: **post-service**, a GraphQL API for posts,
threaded comments and a live feed of new comments, and **sso**, a gRPC service
that registers users and issues and verifies tokens. This directory holds TLA+
modules translated from their source, TLC configurations that check them on
small instances, and proofs that TLAPS checks for instances of every size.

## 1. The system

| component | source | state it keeps | operations |
|---|---|---|---|
| comment broker | `post-service/internal/subscription/broker.go` | registry post -> subscribers (RWMutex); per subscriber a queue (Mutex), a wake-up token, a `done` channel, an output channel of capacity 1 | `Publish`, `Subscribe`, and two goroutines per subscriber: the watcher and `run` |
| subscription resolver | `.../transport/graphql/resolver.go` 165-194 | one goroutine and a result channel of capacity 1 per subscription | forward, stop, end of feed |
| post use case | `.../usecase/post/post.go` | none | `CreatePost`, `CreateComment`, `SubscribeComments`, `Comments`, `Posts`, `Post` |
| repository | `.../repository/storage.go` | PostgreSQL tables `posts` and `comments` | one statement each, `Comments` two |
| page resolver and cursors | `.../transport/graphql/resolver.go` 132-163, 236-266 | none; the client keeps the cursor | `Comments`, `decodeCursor`, `encodeCursor` |
| authentication and REST | `.../transport/rest`, `.../transport/adapters/sso` | user in the context of a request or a WebSocket | `Auth`, `WebsocketInit`, login, register |
| sso core, storage, tokens, gRPC | `sso/core`, `sso/adapters`, `sso/lib/jwt` | tables `users` and `apps` | `EnsureAdmin`, `EnsureApp`, `RegisterNewUser`, `Login`, `IsAdmin`, `Verify` |
| lifecycle | `post-service/internal/app/app.go`, `sso/main.go` | servers, connections | start, graceful shutdown with a deadline |
| executor | `.../transport/graphql/generated.go` | per document: results of fields, null markers, two counters of deferred groups | `Exec`, `_Query`, `_Mutation`, `_Post`, marshalling of lists |

How they interact. A mutation `createComment` runs in the goroutine of its HTTP
request: resolver -> use case -> up to three SQL statements -> `Broker.Publish`
-> answer. A subscription runs as: resolver -> use case (one statement) ->
`Broker.Subscribe`; then three goroutines serve it (watcher, `run`, forwarder)
and gqlgen's WebSocket transport reads the last channel. Goroutines share the
registry under its RWMutex and a mailbox under its Mutex, and otherwise talk
through channels. Every goroutine of a subscription watches the same context, or
a channel closed because of it, and each learns of its end on its own. There is
one process; the database is shared with nothing else. The program never
updates or deletes a post or a comment.

What is hard, and what has to hold:

* **broker**: a lost wake-up; a registry changed under a ranging publisher; a
  comment sent to, or a channel closed under, the wrong party during teardown; a
  publisher held up by a slow reader; a goroutine leaked by one. A subscriber
  must get every comment of its post published while it is a member, in order,
  once; a publisher must never wait for a reader; a cancelled subscription must
  be torn down whatever its reader does.
* **forwarder**: the same, one channel further on.
* **creating comments**: no transaction spans the check of the post, the check
  of the parent, the INSERT and the announcement. Contexts end and processes die
  in between; an INSERT may commit though its answer is lost. Stored comments
  must form trees within their posts, only stored comments may be announced, and
  a client that subscribes and then reads must have no gap.
* **pages**: comments arrive during a walk, ids become visible out of order, a
  page is two statements. A walk must show no root twice, miss none that was
  there at its start, show whole trees, and end.
* **sso**: the set-up looks and then inserts, on every instance at every start;
  each start replaces the secret of the app; `Login` and `Verify` are several
  statements between which accounts, secrets and the time change. There must be
  one administrator, a serving instance must have what it needs, an answered
  registration must stay, and an answer must have been true at some moment of
  its call.
* **lifecycle and authentication**: a graceful stop races its deadline while
  handlers hold the database, a hijacked WebSocket is not waited for, and sso
  may be down, stopping or dying under a call of post-service. What an exit code
  says must be so, an interrupt must end the process, a call must come to an end
  and get nowhere without sso's consent.
* **executor**: resolvers run at once, fail in any order, and the comments of a
  post may be deferred to later responses that are counted by goroutines. The
  data must follow the null rule of GraphQL, `hasNext` must not lie, no failure
  may be lost or reported twice, and mutations must run in order.

`PROJECT.json` lists each hazard at its line, with the properties that would
catch it going wrong.

## 2. The modules

| module | models | role |
|---|---|---|
| `Broker` | `broker.go`, complete | detailed specification |
| `CommentFeed` | what the broker promises: no locks, tokens or goroutines | abstract specification |
| `BrokerProofs` | theorems about `Broker` | proofs |
| `BrokerRefinement` | `Broker` implements `CommentFeed` | proofs |
| `CommentStream` | the forwarding goroutine, over `CommentFeed` | composition |
| `PostService` | creating, storing and announcing comments, over `CommentFeed` | composition |
| `CommentPages` | the page resolver, its cursors and the two statements | detailed specification |
| `Authority` | what sso promises: accounts, one administrator, secrets, tokens | abstract specification |
| `Sso` | instances of sso over one database: start-up, `core`, `storage`, `jwt`, gRPC handlers | detailed specification |
| `Servers` | `app.Run`, `main.run`, and the calls that pass through both: `auth.go`, `api.go`, the gRPC client | composition |
| `Executor` | `Exec` and the object functions of `generated.go` over the resolvers | detailed specification |
| `StreamProofs`, `PostServiceProofs`, `PagesProofs`, `SsoProofs`, `ServersProofs`, `ExecutorProofs` | theorems about `CommentStream`, `PostService`, `CommentPages`, `Sso`, `Servers`, `Executor` | proofs |
| `MC...` | values for the constants | TLC |

`Broker` is shown to implement `CommentFeed`, and `CommentStream` and
`PostService` build on `CommentFeed` instead of on `Broker`. That keeps their
state spaces small, and what they assume of the broker is what was checked of it.
In the same way `Sso` is shown to implement `Authority`. `Servers` sees of sso
only that a handler holds its database for a while and accepts or refuses.

### Broker

A goroutine is a program counter. `pub[c]` is the publisher of comment `c`:
`idle`, `rlock` (waiting for RLock), `range` (in the loop, holding the read
lock), `signal` (inside `enqueue`, appended but token not sent), `returned`.
`watch[s]` is the caller of `Subscribe` and then the watcher goroutine, which
follow each other: `subscribing`, `await`, `removing`, `close`, `closed`; `lost`
is an early return of the watcher. `run[s]` is `run()`: `dequeue`, `send`,
`wait`, `closed`. `queue`, `wake`, `output`, `ctxDone` are the fields of the
same names, and `hand` is the local `comment` of `run`.

| code | actions |
|---|---|
| `Publish` 29-36 | `PublishCall`, `PublishRLock`, one `EnqueueAppend` and one `EnqueueSignal` per subscriber in any order, `PublishReturn` |
| `Subscribe` 38-53 | `SubscribeCall` (announce the Lock), `Subscribe` (critical section) |
| watcher 53-74 | `DeleteCall`, `Delete`, `CloseDone` |
| `run` 90-110, `dequeue` 112-124 | `Dequeue`, `RunSend`, `RunWake`, `RunDone` |
| the reader, the context | `Receive`, `Cancel` |

A `Lock` takes two steps, because Go's RWMutex shuts out new readers as soon as a
writer has announced itself; that is what could make a publisher wait. A `select`
with two ready cases is a choice between two enabled actions, so `run` may take
`done` although the output has room. Four variables are history: `offered`,
`received`, `after` (which publishes had returned before this one began) and
`audience` (which subscriptions were set up before it). Nothing reads them but
the properties.

`CommentFeed` sees of this: phases of a subscription (`new`, `member`, `left`,
`closed`), of a publish (`new`, `open`, `done`), and one mailbox per subscriber.
The refinement mapping `Feed` in `Broker` makes the mailbox the output buffer,
the comment in hand and the queue taken together. When `run` ends only the buffer
remains, which is why the feed's `Close` may drop all but `Buffer` comments. An
audience that stays settled while a publish is open is what the read lock gives.

### CommentStream

`forward[s]` is the goroutine of `Resolver.SubscribeComments`: `select` (outer
select), `send` (inner select, with the comment in `item[s]`), `ended`. `Take`,
`EndOfFeed` and `Stop` are the cases of the outer select, `Send` and `Stop`
those of the inner one. `Show` is the transport of gqlgen, which is not in this
repository: it may take the next comment or never do so again.

### PostService

A request is `pc[r]`: `post` (GetPost and the flag), `parent` (GetComment),
`insert`, `await` (statement sent), `publish`, `publishing`, `ok`, `refused` (an
error with a code of its own, see `ConvertError`), `failed` (INTERNAL). The
INSERT has a state of its own, `insert[r]`, because it can commit after its
request has failed or its process has died: `Insert` takes an id from the
sequence, `Commit` makes the row visible, `Abort` ends it without one, `Reply`
brings the outcome. `Fail` is an error without information about the effect.
`Crash` ends all requests, publishes and subscriptions and keeps the database.
Authors and texts are left out. `ReadComments` reads all pages in one snapshot;
`CommentPages` looks at real pages.

### CommentPages

One client walks the post `Walked` while comments are inserted, committed and
aborted. `Request` is the resolver with its checks; `GetRoots` is the first
statement with the cut to `first` rows; `GetReplies` the second one and the
building of the trees. A cursor is a record: the number it decodes to and how
many padding characters it has, since base64 is what the finding below is about.
An answer of `ORDER BY id DESC LIMIT n` is any sequence that satisfies
`Newest(S, n)`. The tree of a page is written as the sequence in which it is
displayed, each comment before its replies.

### Sso

`server[i]` is the point that instance `i` has reached in `run` of `sso/main.go`:
`migrate`, `migrating`, `admin` (look), `insert`, `app`, `listen`, `serving`. A
call is `pc[c]`, named for the statement that comes next, with its arguments in
`input[c]` and what it has read in `found[c]`.

| code | actions |
|---|---|
| `Migrate` with the dirty flag of golang-migrate | `MigrateUp`, `Migrate` |
| `EnsureAdmin` 53-77, `EnsureApp` 80-86 | `IsAdminExist`, `EnsureAdmin`, `EnsureApp` |
| `Register` | `Register`, `RegisterUser`, `RegisterLost` |
| `Login` | `Login`, `LoginUser`, `LoginApp`, `NewToken` |
| `Verify` | `Verify`, `VerifyApp`, `VerifyCheck`, `VerifyAdmin` |
| `IsAdmin` | `IsAdmin`, `AnswerIsAdmin` |
| faults | `Crash`, `StatementFails`, `RegisterLost` |

A start picks a secret, as an operator may change `cfg.App.Secret` between two
starts. A password hash is its password, except that bcrypt refuses one of more
than 72 bytes (`TooLong`); a signature is the secret that made it; malformed
tokens and tokens of other databases (`Foreign`) are presented too. `window[c]`
is a history of the secrets and times that call `c` has lived through; it is what
"true at some moment of the call" refers to. The user id that `jwt.Verify` reads
back from a float64 is exact below 2^53.

### Servers

`post` and `sso` are records: the control state of the main goroutine, that of
the goroutine that stops the server, the error channel between them, what is
open, and the exit code. For post-service the `defer`s are `CloseClient` and
then `CloseStorage`. `ListenAndServe` returns as soon as `Shutdown` begins
(`ServerClosed`), `Shutdown` itself when no request is inside (`ShutdownDone`)
or at its deadline (`ShutdownExpires`); it does not see hijacked connections,
which is why `Busy` counts requests only. For sso, `Stop` breaks connections and
waits for no handler, and `Serve` returns nil after either way of stopping, or
ErrServerStopped when it comes too late. `Kill` is any other end: SIGTERM is not
handled by either. A call is `at[c]` in post-service, `rpc[c]` as its client
sees it, `handler[c]` in sso. `Cut` is a failing network or a caller that leaves.

### Executor

A document is a sequence of root fields, each with its selection of comments:
plain, deferred, both or none. `got` and `count` are what a root resolver gave,
`post[p]` is the call of `_Post` for one of its posts and `comments[m][p]` the
call of `Resolver.Comments` below it. `deferred` and `pending` are the two atomic
counters of the execution context. `Respond` is the first call of the response
handler, `Receive` a later one that takes from `DeferredResults`, `End` one that
returns nil. The schema's other fields are read from values and cannot fail.
gqlgen's runtime is modelled by its use: `FieldSet.Dispatch` waits for all
fields, `ProcessDeferredGroup` counts and starts a group; a WebSocket reads until
nil and POST writes one response.

## 3. The runs

All bounds are in the .cfg files. "Readers may stop" means that no fairness is
assumed of them.

| run | instance | shows |
|---|---|---|
| `broker_safety` | 1 post, 2 subscriptions, 2 comments, symmetric | `NoLostWakeup`, `StreamIntact`, `NoMissedComment`, `RangedMapIsStable`, `ReceivedInPublishOrder` |
| `broker_live` | 2 posts with a subscription each, 2 comments on one of them; readers may stop | `RegistryExact`, `PublishReturns`, `CancelEndsRun`, `CommentArrives` |
| `broker_feed` | 2 subscriptions, 1 comment | `ImplementsFeed`: every step is a feed step, and the feed's fairness is met |
| `stream` | 2 subscriptions, 2 comments; clients may stop | `ShownInOrder`, `EndOnlyIfCancelled`, `CancelEndsForward`, `CommentShown` |
| `post_stream` | 3 creations, 1 subscription, symmetric | `AnnouncedIsStored`, `SubscribeThenReadHasNoGap`, `AnsweredComesFirst` |
| `post_trees` | 4 creations, 3 posts (1 disabled), any id as parent | `StoredAsTrees` |
| `post_live` | 2 creations, 1 subscription; the reader may stop | `RefusedIsNotStored`, `RequestsEnd` |
| `pages_walk` | 4 comments on 2 posts, pages of 1 or 2, 1 failure | `TypeOK`, `WalkDescending`, `WalkComplete`, `NextPageNotEmpty`, `PageIsForest`, `WalkEnds` |
| `pages_documented` | the cursor of the documentation | `DocumentedCursorWorks`, expected violation, section 6 |
| `sso` | 2 instances, 2 secrets, 1 caller, 2 e-mails, 3 passwords, 2 apps, 1 fault, 1 token, 1 tick | `ServingIsReady`, `RegisteredStays`, `LoginIsLinearizable`, `VerifyIsLinearizable`, `StartsAgain`, `ImplementsAuthority` |
| `servers` | 1 request that may be stuck, 1 WebSocket, each process started at most once | `CleanStop`, `HandledIsVerified`, `InterruptEnds`, `CallEnds` |
| `executor` | queries for a list of up to 3 posts, alone and beside a single post, mutations of two fields, every selection of comments; WebSocket and POST | `DataFollowsSchema`, `DeferredIsDelivered`, `FailuresReportedOnce`, `DocumentEnds` |

Why the bounds are enough to be
interesting. *Broker*: two subscriptions and two
publishes let a subscriber leave while another joins and both publishers are
inside the loop at different subscribers, and each of buffer, hand and queue
holds a comment while another is on its way. All of it but liveness is also
proved for every number of them. The output capacity is the code's own, 1. *Stream*: with two comments the result channel is full while the
forwarder holds another one; with two subscriptions one ends while the other
goes on. *Post*: three creations allow a chain "answered before requested"
beside an overlapping one; four allow a parent of the same post, of another one,
of a disabled one and one that does not exist. *Pages*: four comments in pages
of one or two make walks of up to four pages, with a full last page, a short one,
and an insert that commits between any two statements. *Sso*: two instances race
for the administrator and the second secret replaces the first between any two
statements of a call; one caller is enough, since callers meet only in the
tables, and other accounts come from the instances. The unit of time is the life
of a token, so one tick expires it. *Servers*: what matters is who holds a
database when it is closed, and one call of each kind shows it; a start resets
all state of a process, so a second life would add nothing but time. `Stuck`
makes handlers that never return, which is what the deadlines are for.
*Executor*: three posts let one list hold a failed, a deferred and a plain post
at once. Symmetry is used in
safety runs only, where all comments and subscriptions are about one post.

The type invariants of the modules, and properties that others of a run contain
(`ClosedIsFinal`, `ImplementsFeedSteps`, `OneAdmin`, `NoGroupOfNullPost`,
`MutationsInOrder`), are proved for instances of every size (section 5) and not
repeated by the runs; the type invariant of `CommentPages`, which is not proved,
is checked by `pages_walk`.

Every property has a mutant in `PROJECT.json`: a plausible bug in the code that
makes TLC find the property violated on the very same instance. The mutated
forms stand beside the definitions they replace and nothing else uses them.

Where a run checks for deadlock, `Idle`, `Finished`, `Quiet` and `Over` mark
exactly the states in which nothing is left to do; any other state without a
successor would be reported. `servers` and `executor` do not check it: processes
may be down for good, and a document ends.

## 4. Fairness

* `Broker`: weak fairness of each publisher's steps, each watcher's and each
  `run`'s. The Go scheduler is preemptive, and the mutexes of `sync` are
  starvation free (a waiting writer blocks later readers; the readers that wait
  are released when it leaves). Callers, contexts and readers get none; the one
  property that needs readers who keep reading, `CommentArrives`, states that as
  its premise (`ReadersRead`).
* `CommentFeed`: a publish that has begun ends and a cancelled member leaves and
  is closed. This is not assumed of the broker but checked (`ImplementsFeed`).
* `CommentStream`: the feed's fairness and that of the goroutine. `CommentShown`
  has the premise `ClientsRead`.
* `PostService`: goroutines run, and the database ends every statement, one way
  or the other.
* `CommentPages`: the client goes on to the next page, and statements end.
  Failures are bounded by `MaxFailures`, since no walk survives endless ones.
  Inserts are bounded by `MaxId`; a real walk meets any number of them, but only
  ids below the cursor matter to it, and of those there are finitely many.

* `Sso`: an instance that is down is started again (docker `restart:
  unless-stopped`) and goes on, and a call goes on, as goroutines do. Faults are
  bounded by `MaxFaults`: no set-up survives endless ones. Callers and the clock
  get no fairness.
* `Servers`: goroutines run, timers fire and handlers outside `Stuck` return.
  Nobody has to start or interrupt a process, `GracefulStop` and `Shutdown` need
  not finish, and clients need not leave.
* `Executor`: resolvers return and a transport writes what it holds.

## 5. What is proved

Every theorem holds for all values of the constants that the named assumption
of its module allows, and each cites nothing else. The theorems are listed in
`PROJECT.json`.

### The broker

`BrokerProofs` proves every safety invariant of the broker for all sets of
posts, subscribers and comments, all functions `PostOf` and `TopicOf` and every
capacity of the output channel, from `BrokerAssumption` alone:

| theorem | property | inductive invariant |
|---|---|---|
| `TypeCorrect` | `TypeOK` | `TypeInv` |
| `RegistryIsExact` | `RegistryExact` | `RegistryExact` over `TypeInv` |
| `RangedMapStaysStable` | `RangedMapIsStable` | `RangeInv` |
| `ClosedStreamIsFinal` | `ClosedIsFinal` | follows from the two above |
| `WakeupIsNeverLost` | `NoLostWakeup` | itself, over `TypeInv` |
| `StreamStaysIntact` | `StreamIntact` | itself, over `TypeInv` |
| `NoCommentIsMissed` | `NoMissedComment` | `MissInv` |
| `ReceivedInOrder` | `ReceivedInPublishOrder` | `OrderInv` |

The argument, in the order of the module.

1. `TypeInv` adds to the types what ties the program counters to the data: `run`
   holds a comment exactly while it is sending (`HandInv`), and `run` is started
   by `Subscribe` and stops only after `done` is closed (`LifeInv`). Without the
   first, the stream could gain a comment out of nothing in `RunSend`.
2. The registry holds exactly the subscriptions whose watcher has not removed
   them, because only the two critical sections change either, together. So the
   early returns of the watcher are never taken.
3. A publisher in its loop excludes writers, so what it has still to visit stays
   registered. `RangeInv` adds `LoopInv`: which publisher stands at which
   subscriber, and that one outside the loop has nothing ahead.
4. A subscriber whose output is closed has left the registry; by 3 no publisher
   has it ahead.
5. A queue that is not empty while `run` waits was filled after `run` looked,
   by a publisher that has either left its token or still holds the subscriber
   as `cur`.
6. The stream is the concatenation of four sequences; every step moves a comment
   across one boundary of it or appends to both sides. Associativity of `\o` is
   the lemma that carries it.
7. `MissInv` says where a comment is, for each member of its audience: ahead of
   the publisher, or offered already (`ReachInv`); and that a subscription in an
   audience was set up before the publish took the lock (`AudienceInv`).
8. `OrderInv` carries "never after" from the publishes to the offered sequences:
   `after[c]` only holds publishes that had returned (`AfterInv`), a publish that
   has not begun is offered nowhere and one that has is offered once
   (`FreshInv`), and so every offered sequence is `Ordered`. By `StreamIntact` the
   received sequence is a prefix of an offered one.

`BrokerRefinement` proves `BrokerImplementsFeed`: every behaviour of `Broker`
satisfies `ImplementsFeedSteps`. The mapping needs four of the invariants above
and one more, `CancelInv` (only a cancelled subscription is removed); together
they are `MapInv`. The proof has one case per action. Taking the read lock is
`Begin`, and its audience is right because the registry is exact (`MembersAre`);
an append is `Offer`, and the mailbox it fills is open because a closed
subscriber is ahead of no publisher; a critical section of a writer is `Join` or
`Leave`, and the feed is settled because no reader is inside
(`SettledIfNoReader`); the end of `run` is `Close` and leaves the output buffer,
which is a prefix of the mailbox no longer than the capacity. The moves of `run`
shift a comment along the mailbox and are invisible.

### The subscription resolver, and creating comments

`StreamProofs` proves `TypeOK`, `ShownInOrder` and `EndOnlyIfCancelled`. The
invariant adds to the types the capacity of the result channel and that the
goroutine holds a comment exactly while it is sending (`Bounds`), one at most
(`ItemInv`); that who has left the feed was cancelled, and so was whose goroutine
has ended (`FeedInv`); and `FlowInv`, the three places a comment passes through
laid end to end. A step moves a comment across one boundary, as in the broker.

It goes on to what a client may rely on from the publisher to the WebSocket, of which the
runs check the halves: `OwnAndOnce` (comments of the post only, each at most
once), `PublishOrderKept` (if one publish has returned before another begins,
nobody is shown the second comment first) and `NothingDropped` (a comment
published while the subscription stands is shown or waits in a queue, until
the context ends). `SentInv` describes what the broker has sent, taken or not: once
each, on the topic, and never what is still to be sent. `FeedMoves` says how
a step may change it: it grows at its end by a comment that was ahead, or, for a
subscription that has left, loses its end. `ShownFirst` makes what is shown a
beginning of it. The last two are `[](A => []B)`: an event starts an invariant `J` of the
two comments, or of the comment and the subscription, that every step keeps.

`PostServiceProofs` proves every invariant of `PostService`. `StoreInv` ties the
three descriptions of an INSERT together: an id is handed out once and belongs to
one request (`RowsInv`), and the program counter of a request tells what its
statement can still do (`RequestInv`), which gives `StoredAsTrees` and
`RefusedIsNotStored`. `PublishInv` says whom an announcement has still to visit,
`SentInv` that only committed comments are sent, and by whom. `AckInv` orders the
ids of requests that follow each other, `OrderInv` their places in what a
subscriber was sent. `GapInv` is the interesting one: for a subscription that has
read, a comment on its post whose announcement has begun was read, is on its way
to it, or has arrived. It needs that `Subscribe` precedes the reading and that
`Publish` follows the commit; either swapped, the proof of one step breaks.

### Pages

`PagesProofs` proves every invariant of `CommentPages`, in two parts.

*The walk*: `WalkDescending`, `WalkComplete`, `NextPageNotEmpty`. A
cursor splits the root comments: all shown by earlier pages lie at or above it,
all the walk still owes below (`AheadInv`), and of what it owes, each is on the
page or below its last row if the page has a successor (`PageInv`). The lemmas
about `Newest` and `Trimmed` say what `LIMIT first + 1` with the last row cut
off gives: the extra row is what both makes `hasNextPage` true and keeps the
next page from being empty. Rows are only added, so both halves survive inserts
(`WalkUntouched`).

*The trees*: `TypeOK`, `PageIsForest`. Both speak of what the recursive function
`Subtree` (`buildCommentTree`) returns, and the prover has no induction over
data. What takes its place is an order the code provides: a reply has a larger
id than its parent. If a statement about all comments failed for some, it would
fail for a greatest one (`GreatestNumber`, from the least element of a set of
numbers), and the replies of that one, being greater, satisfy it. In this way
the defining equations of the two recursive functions (`FlattenEquation`,
`SubtreeEquation`) and then `SubtreeIsTree` are derived: below any comment of
rows that are `Rooted` (every parent is an older row) `Subtree` lists the
comment first and then each of its descendants once, parents before replies,
siblings by age. `ForestOfTrees` carries it to a page, whose roots have disjoint
trees. `TreeInv` supplies the hypothesis in every state: `DbInv` keeps the rows
`Rooted` and every reply on the post of its parent, inserts that have not
committed included; `ShownInv` says for an answered page, by positions, what the
trees below its roots were when the second statement read them, and that it
holds all of `stored`. The second statement reads later than the first and may
see replies the first did not; they belong to the trees of roots already chosen,
and rows are never changed, so the page stays a forest.

### Sso

`SsoProofs` proves all of `Sso` but `StartsAgain`. `UsersInv` says what the
table of users can look like: ids and e-mails are unique, and the only row with `admin`
has the e-mail of the configuration, so a second insert of it fails (`OneAdmin`);
`SetUpInv` says for each point of the start-up what is there already, and as
nothing is ever deleted, it stays (`ServingIsReady`). `CallsInv` says what each
call has read and that it was so at a moment in its `window`, which only grows
while it runs. `IssueInv` says that the app still has a secret when a token is signed. With these,
every step of `Sso` is a step of `Authority` or leaves it as it is: a statement
that inserts opens an account, `EnsureApp` configures, `NewToken` issues.

### Servers and Executor

`ServersProofs` proves `TypeOK`, `CleanStop` and `HandledIsVerified`. The states of the two records that
can occur together are written as `PostOK` and `SsoOK`: for post-service the
exit code 0 is only set after `nil` came through `chanError`, after which no
request can enter, because `Accept` needs a server that is not shutting down.
`CallOK` relates `at`, `rpc`, `handler` and `verified`.

`ExecutorProofs` proves `TypeOK`, `DataFollowsSchema`, `DeferredIsDelivered`,
`FailuresReportedOnce`, `NoGroupOfNullPost` and `MutationsInOrder` for every document. `PostInv`
says when a post is null; `GroupInv` that `pending` and `received` together are
the groups that were started, counted with the cardinality lemmas of the library;
`ResponseInv` that the first response was built when all fields were done, and so
is still what `Data` says, and every later one from a group of its own; `NextInv`
that only the newest response can have `hasNext` false.

### Only model-checked

Every liveness property (fairness and ENABLED are beyond the prover):
`PublishReturns`, `CancelEndsRun`, `CommentArrives`, `CancelEndsForward`,
`CommentShown`, `RequestsEnd`, `WalkEnds`, `StartsAgain`, `InterruptEnds`,
`CallEnds`, `DocumentEnds`; and the fairness half of `ImplementsFeed`, whose steps are
proved. Every invariant and every action property that a passing run checks is proved.

## 6. Findings

*The documented cursor is refused* (`pages_documented`). `README.md:166` shows
the request `comments(first: 20, after: "MjA=")`. `decodeCursor`
(`resolver.go:241`) uses `base64.RawURLEncoding`, which has no padding, so this
request is answered with BAD_USER_INPUT. A cursor copied from an answer works:
`encodeCursor` would have written `MjA`.

Observed and not counted as findings, since nothing promises otherwise: a comment
whose INSERT commits and whose answer is lost is stored and never announced, and
a retry stores it again; a reply can be announced before its parent when their
requests overlap; the queue of a slow subscriber has no bound; a root that gets
its id early and commits late can be missing from a walk that began before it
committed; the expiry of a token, or a new secret, does not end a WebSocket that was
opened with it; a forced stop of sso exits with 0 and one of
post-service with 1; a crash in the middle of the first migration keeps every
instance from starting until a person repairs the version table; the goroutines
of deferred groups that nobody receives (over POST, below a mutation) wait on a
channel without a buffer.

## 7. Not modelled

* **gqlgen's tables**: introspection, the complexity of a query, argument
  parsing, the getters of `sso.pb.go`. They keep no state; that an argument may
  be rejected before its resolver runs is `Reject` in `Executor`.
* **Subscriptions in the executor**: `Exec` asks the transport's next value from
  the channel of the resolver, which is `Show` in `CommentStream`.
* **Configuration, logging, texts of errors, conversions** between row, entity
  and GraphQL types: read once, or copied field by field.
* **Outside the repository**: PostgreSQL, gqlgen, gin, gRPC, golang-migrate,
  bcrypt and the JWT library. They are modelled from how the code uses them and
  marked external where a definition is theirs alone.
* **Mocks and tests**: read for what the code is expected to do.

What could still be added: the composition of `Servers` with `PostService`, to
follow a comment whose announcement is cut short by a shutdown.
