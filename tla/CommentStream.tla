--------------------------- MODULE CommentStream ---------------------------
(***************************************************************************)
(* The GraphQL subscription on top of the comment feed: the goroutine of   *)
(* Resolver.SubscribeComments (post-service/internal/transport/graphql/    *)
(* resolver.go) moves comments from the channel of the broker to the       *)
(* channel that the WebSocket transport of gqlgen reads.  The broker is    *)
(* represented by its specification, CommentFeed.  The goroutine, the      *)
(* broker and the transport share one context per subscription, and learn  *)
(* of its end independently of each other.                                 *)
(***************************************************************************)
EXTENDS Naturals, Sequences, SequencesExt

CONSTANTS
    Posts, Subscribers, Comments, PostOf, TopicOf, Buffer,
    ResultCap      \* capacity of the result channel (1 in the code)

ASSUME StreamAssumption ==
    /\ PostOf \in [Comments -> Posts]
    /\ TopicOf \in [Subscribers -> Posts]
    /\ Buffer \in Nat
    /\ ResultCap \in Nat \ {0}

VARIABLES
    phase, cancelled, status, pending, mailbox, received,   \* of CommentFeed
    forward,       \* control state of the forwarding goroutine
    item,          \* the comment it took and has not passed on yet
    result,        \* the buffer of the result channel
    shown          \* comments the transport has taken from result, in order

feedVars    == <<phase, cancelled, status, pending, mailbox, received>>
forwardVars == <<forward, item, result, shown>>
vars        == <<feedVars, forwardVars>>

Feed == INSTANCE CommentFeed

ForwardStates == {"none", "select", "send", "ended"}

TypeOK ==
    /\ phase \in [Subscribers -> {"new", "member", "left", "closed"}]
    /\ cancelled \in [Subscribers -> BOOLEAN]
    /\ status \in [Comments -> {"new", "open", "done"}]
    /\ pending \in [Comments -> SUBSET Subscribers]
    /\ \A f \in {mailbox, received, item, result, shown} :
          f \in [Subscribers -> Seq(Comments)]
    /\ forward \in [Subscribers -> ForwardStates]
    /\ \A s \in Subscribers :
          Len(result[s]) <= ResultCap /\ (item[s] # <<>> <=> forward[s] = "send")

Init ==
    /\ Feed!Init
    /\ forward = [s \in Subscribers |-> "none"]
    /\ item = [s \in Subscribers |-> <<>>]
    /\ result = [s \in Subscribers |-> <<>>]
    /\ shown = [s \in Subscribers |-> <<>>]

-----------------------------------------------------------------------------
\* SubscribeComments: the use case joins the feed, then the goroutine starts.
Subscribe(s) ==
    /\ Feed!Join(s)
    /\ forward' = [forward EXCEPT ![s] = "select"]
    /\ UNCHANGED <<item, result, shown>>

\* The goroutine returns: its comment is lost and result is closed.
EndWhen(s, condition) ==
    /\ condition
    /\ forward' = [forward EXCEPT ![s] = "ended"]
    /\ item' = [item EXCEPT ![s] = <<>>]
    /\ UNCHANGED <<feedVars, result, shown>>

\* Mutants: an empty feed is taken for a closed one; no case for the context
\* while the goroutine waits for the transport.
EndOnEmpty(s) == EndWhen(s, forward[s] = "select" /\ mailbox[s] = <<>>)
StopWhenSelecting(s) == EndWhen(s, forward[s] = "select" /\ cancelled[s])

\* The channel of the broker is closed and drained.
EndOfFeed(s) ==
    EndWhen(s, forward[s] = "select" /\ phase[s] = "closed" /\ mailbox[s] = <<>>)

\* Either select sees ctx.Done().
Stop(s) == EndWhen(s, forward[s] \in {"select", "send"} /\ cancelled[s])

\* The outer select takes a comment from the broker.
Take(s) ==
    /\ forward[s] = "select"
    /\ Feed!Deliver(s)
    /\ forward' = [forward EXCEPT ![s] = "send"]
    /\ item' = [item EXCEPT ![s] = <<Head(mailbox[s])>>]
    /\ UNCHANGED <<result, shown>>

PassOn(s, sent) ==
    /\ forward[s] = "send"
    /\ result' = [result EXCEPT ![s] = @ \o sent]
    /\ item' = [item EXCEPT ![s] = <<>>]
    /\ forward' = [forward EXCEPT ![s] = "select"]
    /\ UNCHANGED <<feedVars, shown>>

HasRoom(s) == Len(result[s]) < ResultCap

\* Mutant: a default case that drops the comment.
SendOrDrop(s) == PassOn(s, IF HasRoom(s) THEN item[s] ELSE <<>>)

\* The inner select: the result channel has room.
Send(s) == HasRoom(s) /\ PassOn(s, item[s])

ForwardStep(s) == Take(s) \/ Send(s) \/ Stop(s) \/ EndOfFeed(s)

\* The transport takes a comment and writes it to the WebSocket.
Show(s) ==
    /\ result[s] # <<>>
    /\ result' = [result EXCEPT ![s] = Tail(@)]
    /\ shown' = [shown EXCEPT ![s] = Append(@, Head(result[s]))]
    /\ UNCHANGED <<feedVars, forward, item>>

-----------------------------------------------------------------------------
\* The steps of the broker that do not involve the goroutine.
Broker(s) == Feed!Leave(s) \/ Feed!Close(s)

FeedStep ==
    /\ \/ \E c \in Comments : Feed!Begin(c) \/ Feed!Publish(c)
       \/ \E s \in Subscribers : Feed!Cancel(s) \/ Broker(s)
    /\ UNCHANGED forwardVars

\* Everything was published and every subscription has ended and was drained.
Finished ==
    /\ \A c \in Comments : status[c] = "done"
    /\ \A s \in Subscribers :
          phase[s] = "closed" /\ forward[s] = "ended" /\ result[s] = <<>>

Next ==
    \/ FeedStep
    \/ \E s \in Subscribers : Subscribe(s) \/ ForwardStep(s) \/ Show(s)
    \/ Finished /\ UNCHANGED vars

\* What CommentFeed promises, and the scheduler runs the goroutine.
Fairness ==
    /\ \A c \in Comments : WF_vars(Feed!Publish(c) /\ UNCHANGED forwardVars)
    /\ \A s \in Subscribers :
          /\ WF_vars(Feed!Leave(s) /\ UNCHANGED forwardVars)
          /\ WF_vars(Feed!Close(s) /\ UNCHANGED forwardVars)
          /\ WF_vars(ForwardStep(s))

Spec == Init /\ [][Next]_vars /\ Fairness

-----------------------------------------------------------------------------
\* What the client is shown is, in order and without gaps, what the goroutine
\* took from the broker; while it lives nothing is lost on the way, and when
\* it has ended only the last comment can be missing.
ShownInOrder ==
    \A s \in Subscribers :
        LET passed == shown[s] \o result[s] \o item[s]
        IN  \/ passed = received[s]
            \/ forward[s] = "ended" /\ passed = Front(received[s])

\* The client sees the end of the stream only if its own context was
\* cancelled: a quiet post, a slow client or another subscriber's leaving never
\* ends a subscription (resolver.go:180 relies on the broker for that).
EndOnlyIfCancelled ==
    \A s \in Subscribers : forward[s] = "ended" => cancelled[s]

\* After the end of a context the goroutine ends too, even if the client has
\* stopped reading and the broker is slow to close its channel.
CancelEndsForward ==
    \A s \in Subscribers :
        cancelled[s] /\ forward[s] # "none" ~> forward[s] = "ended"

\* If clients keep reading, a member that is not cancelled is shown every
\* comment that is published while it is a member.
ClientsRead == \A s \in Subscribers : WF_vars(Show(s))
CommentShown ==
    ClientsRead =>
        \A c \in Comments, s \in Subscribers :
            s \in pending[c] ~> cancelled[s] \/ c \in ToSet(shown[s])
=============================================================================
