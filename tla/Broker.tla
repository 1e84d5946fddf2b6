------------------------------- MODULE Broker -------------------------------
(***************************************************************************)
(* The in-memory comment broker of post-service                            *)
(* (post-service/internal/subscription/broker.go): one registry guarded by *)
(* a RWMutex and, per call of Subscribe, one mailbox that two goroutines   *)
(* serve.  run() moves comments from the unbounded queue to the output     *)
(* channel; the watcher removes the subscriber when its context ends.      *)
(*                                                                         *)
(* The goroutines are:                                                     *)
(*   - one publisher per comment: the request goroutine inside Publish;    *)
(*   - per subscriber, the caller of Subscribe and then the watcher, one   *)
(*     after the other, which share the program counter "watch";           *)
(*   - per subscriber, run(), with program counter "run".                  *)
(* An action is what a goroutine does between two points where another     *)
(* goroutine can see its effect: a critical section of a mutex, or one     *)
(* channel operation.                                                      *)
(***************************************************************************)
EXTENDS Naturals, Sequences, SequencesExt

CONSTANTS
    Posts,         \* post ids
    Subscribers,   \* one element per call of Subscribe (a *subscriber)
    Comments,      \* one element per call of Publish
    PostOf,        \* the post of a comment
    TopicOf,       \* the post a subscriber subscribes to
    OutputCap,     \* capacity of the output channel (1 in the code)
    NoSubscriber

ASSUME BrokerAssumption ==
    /\ PostOf \in [Comments -> Posts]
    /\ TopicOf \in [Subscribers -> Posts]
    /\ OutputCap \in Nat \ {0}
    /\ NoSubscriber \notin Subscribers

VARIABLES
    subscribers,   \* Broker.subscribers: post -> the set of its subscribers
    pub,           \* control state of the publisher of each comment
    todo,          \* subscribers the range loop of Publish has still to visit
    cur,           \* the subscriber whose enqueue the publisher is inside
    ctxDone,       \* the context of the subscription is cancelled
    watch,         \* control state of Subscribe, then of the watcher
    run,           \* control state of run()
    queue,         \* subscriber.queue
    wake,          \* subscriber.wake holds its token
    hand,          \* the comment run() took and has not sent yet
    output,        \* the buffer of subscriber.output
    offered,       \* history: comments appended to the queue, in order
    received,      \* history: comments the reader took from output, in order
    after,         \* history: publishes that had returned when this one began
    audience       \* history: subscriptions set up when the publish began

registry  == <<subscribers>>
pubVars   == <<pub, todo, cur, after, audience>>
subVars   == <<ctxDone, watch>>
boxVars   == <<run, queue, wake, hand, output, offered, received>>
vars      == <<registry, pubVars, subVars, boxVars>>

PubStates   == {"idle", "rlock", "range", "signal", "returned"}
WatchStates == {"none", "subscribing", "await", "removing", "close",
                "closed", "lost"}
RunStates   == {"none", "dequeue", "send", "wait", "closed"}

\* b.subscribers[p], the empty set when the map has no entry for p.
MembersOf(p) == IF p \in DOMAIN subscribers THEN subscribers[p] ELSE {}

\* The goroutines that hold the read lock, and the one that announced a Lock.
Readers == {c \in Comments : pub[c] \in {"range", "signal"}}
Writers == {s \in Subscribers : watch[s] \in {"subscribing", "removing"}}

\* Subscribe(s) has returned and the watcher has not removed s yet.
Registered(s) == watch[s] \in {"await", "removing"}
\* close(s.done) has been executed.
DoneClosed(s) == watch[s] = "closed"
\* The deferred close(s.output) of run() has been executed.
OutputClosed(s) == run[s] = "closed"

TypeOK ==
    /\ DOMAIN subscribers \subseteq Posts
    /\ subscribers \in [DOMAIN subscribers -> SUBSET Subscribers]
    /\ pub \in [Comments -> PubStates]
    /\ todo \in [Comments -> SUBSET Subscribers]
    /\ cur \in [Comments -> Subscribers \cup {NoSubscriber}]
    /\ ctxDone \in [Subscribers -> BOOLEAN]
    /\ watch \in [Subscribers -> WatchStates]
    /\ run \in [Subscribers -> RunStates]
    /\ queue \in [Subscribers -> Seq(Comments)]
    /\ wake \in [Subscribers -> BOOLEAN]
    /\ hand \in [Subscribers -> Seq(Comments)]
    /\ output \in [Subscribers -> Seq(Comments)]
    /\ \A s \in Subscribers : Len(output[s]) <= OutputCap
    /\ offered \in [Subscribers -> Seq(Comments)]
    /\ received \in [Subscribers -> Seq(Comments)]
    /\ after \in [Comments -> SUBSET Comments]
    /\ audience \in [Comments -> SUBSET Subscribers]

Init ==
    /\ subscribers = [p \in {} |-> {}]
    /\ pub = [c \in Comments |-> "idle"]
    /\ todo = [c \in Comments |-> {}]
    /\ cur = [c \in Comments |-> NoSubscriber]
    /\ ctxDone = [s \in Subscribers |-> FALSE]
    /\ watch = [s \in Subscribers |-> "none"]
    /\ run = [s \in Subscribers |-> "none"]
    /\ queue = [s \in Subscribers |-> <<>>]
    /\ wake = [s \in Subscribers |-> FALSE]
    /\ hand = [s \in Subscribers |-> <<>>]
    /\ output = [s \in Subscribers |-> <<>>]
    /\ offered = [s \in Subscribers |-> <<>>]
    /\ received = [s \in Subscribers |-> <<>>]
    /\ after = [c \in Comments |-> {}]
    /\ audience = [c \in Comments |-> {}]

-----------------------------------------------------------------------------
(***************************************************************************)
(* Publish and enqueue, run by the goroutine that created the comment.     *)
(***************************************************************************)

\* A request goroutine calls Publish(c); it now waits for the read lock.
PublishCall(c) ==
    /\ pub[c] = "idle"
    /\ pub' = [pub EXCEPT ![c] = "rlock"]
    /\ after' = [after EXCEPT ![c] = {d \in Comments : pub[d] = "returned"}]
    /\ audience' = [audience EXCEPT ![c] =
          {s \in Subscribers : Registered(s) /\ TopicOf[s] = PostOf[c]}]
    /\ UNCHANGED <<todo, cur, registry, subVars, boxVars>>

\* b.mu.RLock(): new readers wait while a writer holds or has announced Lock.
PublishRLock(c) ==
    /\ pub[c] = "rlock"
    /\ Writers = {}
    /\ pub' = [pub EXCEPT ![c] = "range"]
    /\ todo' = [todo EXCEPT ![c] = MembersOf(PostOf[c])]
    /\ UNCHANGED <<cur, after, audience, registry, subVars, boxVars>>

\* One iteration of the range loop, in any order: enqueue appends to the
\* queue under s.mu.
EnqueueAppend(c, s) ==
    /\ pub[c] = "range"
    /\ s \in todo[c]
    /\ pub' = [pub EXCEPT ![c] = "signal"]
    /\ todo' = [todo EXCEPT ![c] = @ \ {s}]
    /\ cur' = [cur EXCEPT ![c] = s]
    /\ queue' = [queue EXCEPT ![s] = Append(@, c)]
    /\ offered' = [offered EXCEPT ![s] = Append(@, c)]
    /\ UNCHANGED <<run, wake, hand, output, received, after, audience,
                   registry, subVars>>

\* The end of enqueue: a send on wake that leaves the given token there.
Signal(c, token) ==
    /\ pub[c] = "signal"
    /\ pub' = [pub EXCEPT ![c] = "range"]
    /\ cur' = [cur EXCEPT ![c] = NoSubscriber]
    /\ wake' = [wake EXCEPT ![cur[c]] = token]
    /\ UNCHANGED <<todo, after, audience, run, queue, hand, output, offered,
                   received, registry, subVars>>

\* Mutants: an unbuffered wake, which takes the token only if run() has parked
\* already; a send on wake without the default case.
EnqueueSignalUnbuffered(c) ==
    \E parked \in BOOLEAN : Signal(c, parked /\ run[cur[c]] = "wait")
EnqueueSignalBlocking(c) ==
    pub[c] = "signal" /\ ~wake[cur[c]] /\ Signal(c, TRUE)

\* The non-blocking send: afterwards wake, of capacity 1, holds a token.
EnqueueSignal(c) == Signal(c, TRUE)

\* The loop is over: the deferred RUnlock, and Publish returns.
PublishReturn(c) ==
    /\ pub[c] = "range"
    /\ todo[c] = {}
    /\ pub' = [pub EXCEPT ![c] = "returned"]
    /\ UNCHANGED <<todo, cur, after, audience, registry, subVars, boxVars>>

PublishStep(c) ==
    \/ PublishRLock(c)
    \/ \E s \in Subscribers : EnqueueAppend(c, s)
    \/ EnqueueSignal(c)
    \/ PublishReturn(c)

-----------------------------------------------------------------------------
(***************************************************************************)
(* Subscribe and the goroutine that watches the context.  A Lock is two    *)
(* steps, as in sync.RWMutex: announce it (which shuts out new readers and *)
(* other writers), then wait for the readers that are inside.              *)
(***************************************************************************)

\* Subscribe is called and announces its Lock.
SubscribeCall(s) ==
    /\ watch[s] = "none"
    /\ Writers = {}
    /\ watch' = [watch EXCEPT ![s] = "subscribing"]
    /\ UNCHANGED <<ctxDone, registry, pubVars, boxVars>>

Register(s, others) ==
    /\ watch[s] = "subscribing"
    /\ Readers = {}
    /\ subscribers' = [p \in DOMAIN subscribers \cup {TopicOf[s]} |->
          IF p = TopicOf[s] THEN others \cup {s} ELSE subscribers[p]]
    /\ watch' = [watch EXCEPT ![s] = "await"]
    /\ run' = [run EXCEPT ![s] = "dequeue"]
    /\ UNCHANGED <<ctxDone, pubVars, queue, wake, hand, output, offered,
                   received>>

\* Mutant: the map of the post is made anew, not only when it is nil.
SubscribeFresh(s) == Register(s, {})

\* The critical section of Subscribe; both goroutines are started and the
\* output channel is returned.
Subscribe(s) == Register(s, MembersOf(TopicOf[s]))

\* The context of the subscription ends: the client went away.
Cancel(s) ==
    /\ watch[s] # "none"
    /\ ~ctxDone[s]
    /\ ctxDone' = [ctxDone EXCEPT ![s] = TRUE]
    /\ UNCHANGED <<watch, registry, pubVars, boxVars>>

\* The watcher sees ctx.Done() and announces its Lock.
DeleteCall(s) ==
    /\ watch[s] = "await"
    /\ ctxDone[s]
    /\ Writers = {}
    /\ watch' = [watch EXCEPT ![s] = "removing"]
    /\ UNCHANGED <<ctxDone, registry, pubVars, boxVars>>

Unregister(s, gone, excluded) ==
    LET t     == TopicOf[s]
        found == t \in DOMAIN subscribers /\ s \in subscribers[t]
    IN  /\ watch[s] = "removing"
        /\ excluded = {}
        /\ watch' = [watch EXCEPT ![s] = IF found THEN "close" ELSE "lost"]
        /\ subscribers' = IF ~found THEN subscribers
                          ELSE [p \in DOMAIN subscribers \ gone |->
                                  IF p = t THEN subscribers[p] \ {s}
                                           ELSE subscribers[p]]
        /\ UNCHANGED <<ctxDone, pubVars, boxVars>>

\* The map entry that removing s leaves empty, if any.
Emptied(s) == {t \in {TopicOf[s]} : MembersOf(t) = {s}}

\* Mutants: the empty entry stays; the watcher takes the read lock.
DeleteKeepEmpty(s) == Unregister(s, {}, Readers)
DeleteUnderRLock(s) == Unregister(s, Emptied(s), {})

\* The critical section of the watcher.  It returns early, without closing
\* done, when the registry does not hold the subscriber.
Delete(s) == Unregister(s, Emptied(s), Readers)

\* close(sub.done), after the lock is released.
CloseDone(s) ==
    /\ watch[s] = "close"
    /\ watch' = [watch EXCEPT ![s] = "closed"]
    /\ UNCHANGED <<ctxDone, registry, pubVars, boxVars>>

WatchStep(s) == Subscribe(s) \/ DeleteCall(s) \/ Delete(s) \/ CloseDone(s)

-----------------------------------------------------------------------------
(***************************************************************************)
(* run(): one goroutine per subscriber.                                    *)
(***************************************************************************)

Take(s, first, rest) ==
    /\ run[s] = "dequeue"
    /\ IF queue[s] = <<>>
       THEN /\ run' = [run EXCEPT ![s] = "wait"]
            /\ UNCHANGED <<queue, hand>>
       ELSE /\ run' = [run EXCEPT ![s] = "send"]
            /\ hand' = [hand EXCEPT ![s] = <<first>>]
            /\ queue' = [queue EXCEPT ![s] = rest]
    /\ UNCHANGED <<wake, output, offered, received, registry, pubVars, subVars>>

\* Mutants: the newest comment is taken; the slot is read but not removed.
DequeueNewest(s) == Take(s, Last(queue[s]), Front(queue[s]))
DequeueAgain(s) == Take(s, Head(queue[s]), queue[s])

\* dequeue() under s.mu: take the oldest comment, or find the queue empty.
Dequeue(s) == Take(s, Head(queue[s]), Tail(queue[s]))

Send(s, sent, next) ==
    /\ run[s] = "send"
    /\ output' = [output EXCEPT ![s] = @ \o sent]
    /\ hand' = [hand EXCEPT ![s] = <<>>]
    /\ run' = [run EXCEPT ![s] = next]
    /\ UNCHANGED <<queue, wake, offered, received, registry, pubVars, subVars>>

HasRoom(s) == Len(output[s]) < OutputCap

\* Mutants: a default case that drops the comment; no "continue" after the send.
RunSendOrDrop(s) == Send(s, IF HasRoom(s) THEN hand[s] ELSE <<>>, "dequeue")
RunSendThenWait(s) == HasRoom(s) /\ Send(s, hand[s], "wait")

\* select, first case: the output channel has room.
RunSend(s) == HasRoom(s) /\ Send(s, hand[s], "dequeue")

\* Woken by the token of an enqueue.
RunWake(s) ==
    /\ run[s] = "wait"
    /\ wake[s]
    /\ wake' = [wake EXCEPT ![s] = FALSE]
    /\ run' = [run EXCEPT ![s] = "dequeue"]
    /\ UNCHANGED <<queue, hand, output, offered, received, registry, pubVars,
                   subVars>>

RunExit(s, states, ended) ==
    /\ run[s] \in states
    /\ ended
    /\ run' = [run EXCEPT ![s] = "closed"]
    /\ hand' = [hand EXCEPT ![s] = <<>>]
    /\ UNCHANGED <<queue, wake, output, offered, received, registry, pubVars,
                   subVars>>

\* Mutants: run() selects on the context; on done only when it has nothing to
\* send, or only when it has.
RunDoneOnCancel(s) == RunExit(s, {"send", "wait"}, ctxDone[s])
RunDoneWhenIdle(s) == RunExit(s, {"wait"}, DoneClosed(s))
RunDoneWhenSending(s) == RunExit(s, {"send"}, DoneClosed(s))

\* Either select sees done closed: run returns, the comment in hand is lost,
\* the queue is abandoned, and the deferred close(s.output) runs.
RunDone(s) == RunExit(s, {"send", "wait"}, DoneClosed(s))

RunStep(s) == Dequeue(s) \/ RunSend(s) \/ RunWake(s) \/ RunDone(s)

\* The reader of the channel that Subscribe returned takes one comment.
Receive(s) ==
    /\ output[s] # <<>>
    /\ output' = [output EXCEPT ![s] = Tail(@)]
    /\ received' = [received EXCEPT ![s] = Append(@, Head(output[s]))]
    /\ UNCHANGED <<run, queue, wake, hand, offered, registry, pubVars, subVars>>

-----------------------------------------------------------------------------
\* Every publish has returned, every subscription has ended and is drained:
\* the only state in which nothing is left to do.
Finished ==
    /\ \A c \in Comments : pub[c] = "returned"
    /\ \A s \in Subscribers :
          DoneClosed(s) /\ OutputClosed(s) /\ output[s] = <<>>

Idle == Finished /\ UNCHANGED vars

\* What callers and clients may do at any time.
Environment ==
    \/ \E c \in Comments : PublishCall(c)
    \/ \E s \in Subscribers : SubscribeCall(s) \/ Cancel(s)

BrokerStep ==
    \/ \E c \in Comments : PublishStep(c)
    \/ \E s \in Subscribers : WatchStep(s) \/ RunStep(s)

Next ==
    \/ Environment
    \/ BrokerStep
    \/ \E s \in Subscribers : Receive(s)
    \/ Idle

\* The scheduler runs every runnable goroutine eventually, and a RWMutex
\* starves nobody.  Nothing is assumed of callers, clients and readers.
Fairness ==
    /\ \A c \in Comments : WF_vars(PublishStep(c))
    /\ \A s \in Subscribers : WF_vars(WatchStep(s)) /\ WF_vars(RunStep(s))

Spec == Init /\ [][Next]_vars /\ Fairness

-----------------------------------------------------------------------------
(***************************************************************************)
(* Safety.                                                                 *)
(***************************************************************************)

\* Everything a subscriber was sent that is not lost, oldest first.
Stream(s) == received[s] \o output[s] \o hand[s] \o queue[s]

\* The subscribers the range loop of a publisher has still to serve.
Ahead(c) == todo[c] \cup ({cur[c]} \ {NoSubscriber})

\* run() parks on an empty wake channel only while nothing is queued for it,
\* or while the publisher that queued something has still to send the token:
\* the append under s.mu and the send on wake are two steps (broker.go:80-87)
\* and so are the test of the queue and the receive from wake (:94-105).
NoLostWakeup ==
    \A s \in Subscribers :
        run[s] = "wait" /\ queue[s] # <<>> =>
            wake[s] \/ \E c \in Comments : pub[c] = "signal" /\ cur[c] = s

\* While run() is alive, the comments read, buffered, in hand and queued are
\* exactly those that were enqueued, in that order; when it has ended the
\* reader holds a prefix of them.  Nothing is lost, doubled or reordered
\* between enqueue and the reader, however slow the reader is.
StreamIntact ==
    \A s \in Subscribers :
        IF OutputClosed(s) THEN IsPrefix(received[s] \o output[s], offered[s])
                           ELSE Stream(s) = offered[s]

\* A Publish that has returned reached every subscription of its post that was
\* set up before the call and is still in the registry, whatever other
\* subscribers joined or left meanwhile.
NoMissedComment ==
    \A c \in Comments, s \in Subscribers :
        pub[c] = "returned" /\ s \in audience[c] /\ Registered(s) =>
            c \in ToSet(offered[s])

\* The reader sees a comment at most once, only comments of its post, and
\* never a comment after one whose Publish was called only when the Publish
\* of the first had returned.
ReceivedInPublishOrder ==
    \A s \in Subscribers :
        \A i \in 1..Len(received[s]) :
            /\ PostOf[received[s][i]] = TopicOf[s]
            /\ \A j \in (i + 1)..Len(received[s]) :
                  /\ received[s][j] # received[s][i]
                  /\ received[s][j] \notin after[received[s][i]]

\* When the output channel is closed the subscriber is out of the registry and
\* no publisher is about to enqueue to it: the end of the stream that the
\* reader sees is final.
ClosedIsFinal ==
    \A s \in Subscribers : OutputClosed(s) =>
        /\ \A p \in DOMAIN subscribers : s \notin subscribers[p]
        /\ \A c \in Comments : s \notin Ahead(c)

\* Publish ranges over a Go map while it holds the read lock: what it has
\* still to visit never leaves the map under its hands.
RangedMapIsStable ==
    \A c \in Comments :
        pub[c] \in {"range", "signal"} => Ahead(c) \subseteq MembersOf(PostOf[c])

\* The registry holds exactly the live subscriptions, each under its post, and
\* no empty entry is left behind when the last subscriber of a post goes.  So
\* the two early returns of the watcher are never taken.
RegistryExact ==
    /\ \A p \in Posts :
          MembersOf(p) = {s \in Subscribers : Registered(s) /\ TopicOf[s] = p}
    /\ \A p \in DOMAIN subscribers : subscribers[p] # {}
    /\ \A s \in Subscribers : watch[s] # "lost"

-----------------------------------------------------------------------------
(***************************************************************************)
(* Liveness.                                                               *)
(***************************************************************************)

\* Publish never waits for a reader: under Spec, which lets readers stop
\* reading for good, every call returns.  The mutation that created the
\* comment is not held up by a slow or dead WebSocket.
PublishReturns ==
    \A c \in Comments : pub[c] = "rlock" ~> pub[c] = "returned"

\* A cancelled subscription is torn down even when nobody reads its channel:
\* the watcher removes it and run() closes the output and ends, from any point
\* of its loop.  No goroutine is leaked.
CancelEndsRun ==
    \A s \in Subscribers : ctxDone[s] ~> OutputClosed(s)

\* If readers keep reading, a subscription that is not cancelled gets every
\* comment whose Publish began after Subscribe had returned.
ReadersRead == \A s \in Subscribers : WF_vars(Receive(s))
CommentArrives ==
    ReadersRead =>
        \A c \in Comments, s \in Subscribers :
            s \in audience[c] ~> ctxDone[s] \/ c \in ToSet(received[s])

-----------------------------------------------------------------------------
(***************************************************************************)
(* Refinement: what publishers and readers see is the abstract feed.  The  *)
(* mailbox is the queue, the comment in hand and the output buffer taken   *)
(* together, until run() ends and leaves only the buffer.                  *)
(***************************************************************************)

FeedPhase(s) ==
    CASE watch[s] \in {"none", "subscribing"} -> "new"
      [] Registered(s)                        -> "member"
      [] OutputClosed(s)                      -> "closed"
      [] OTHER                                -> "left"

FeedStatus(c) ==
    CASE pub[c] \in {"idle", "rlock"}   -> "new"
      [] pub[c] \in {"range", "signal"} -> "open"
      [] OTHER                          -> "done"

FeedMailbox(s) ==
    IF OutputClosed(s) THEN output[s] ELSE output[s] \o hand[s] \o queue[s]

Feed == INSTANCE CommentFeed WITH
    Buffer    <- OutputCap,
    phase     <- [s \in Subscribers |-> FeedPhase(s)],
    cancelled <- ctxDone,
    status    <- [c \in Comments |-> FeedStatus(c)],
    pending   <- todo,
    mailbox   <- [s \in Subscribers |-> FeedMailbox(s)]

\* Every step of the broker is a step of the feed or leaves the feed as it is:
\* the lock, the wake-up token and the two goroutines of a subscriber add
\* nothing that a publisher, a subscriber or a reader could tell apart.
ImplementsFeedSteps == Feed!Init /\ [][Feed!Next]_Feed!vars

\* The whole promise, with the feed's fairness: a publish that has begun ends,
\* and a cancelled member leaves and is closed.
ImplementsFeed == Feed!Spec
=============================================================================
