---------------------------- MODULE CommentFeed ----------------------------
(***************************************************************************)
(* What the broker of post-service promises to the code that uses it: a    *)
(* feed of new comments per post.  Publishing a comment puts it into the   *)
(* mailbox of every member of its post, one member after the other; while  *)
(* a publish is under way its audience does not change.  A member that is  *)
(* cancelled leaves, and its mailbox is then closed and may lose its tail. *)
(* There are no locks, channels, tokens or goroutines here; module Broker  *)
(* implements this specification.                                          *)
(***************************************************************************)
EXTENDS Naturals, Sequences

CONSTANTS
    Posts, Subscribers, Comments,
    PostOf,        \* the post of a comment
    TopicOf,       \* the post a subscriber asks for
    Buffer         \* how many comments a closed mailbox may still hold

VARIABLES
    phase,         \* of a subscription: "new", "member", "left" or "closed"
    cancelled,     \* the subscription is no longer wanted
    status,        \* of a comment: "new", "open" (being published), "done"
    pending,       \* members the publish under way has still to reach
    mailbox,       \* comments waiting for the member, oldest first
    received       \* comments the member has taken, oldest first

vars == <<phase, cancelled, status, pending, mailbox, received>>

Members(p) == {s \in Subscribers : phase[s] = "member" /\ TopicOf[s] = p}

Init ==
    /\ phase = [s \in Subscribers |-> "new"]
    /\ cancelled = [s \in Subscribers |-> FALSE]
    /\ status = [c \in Comments |-> "new"]
    /\ pending = [c \in Comments |-> {}]
    /\ mailbox = [s \in Subscribers |-> <<>>]
    /\ received = [s \in Subscribers |-> <<>>]

\* The audience of a publish under way is settled: nobody joins or leaves.
Settled == \A c \in Comments : status[c] # "open"

Join(s) ==
    /\ phase[s] = "new"
    /\ Settled
    /\ phase' = [phase EXCEPT ![s] = "member"]
    /\ UNCHANGED <<cancelled, status, pending, mailbox, received>>

Cancel(s) ==
    /\ ~cancelled[s]
    /\ cancelled' = [cancelled EXCEPT ![s] = TRUE]
    /\ UNCHANGED <<phase, status, pending, mailbox, received>>

Leave(s) ==
    /\ phase[s] = "member"
    /\ cancelled[s]
    /\ Settled
    /\ phase' = [phase EXCEPT ![s] = "left"]
    /\ UNCHANGED <<cancelled, status, pending, mailbox, received>>

\* A member that has left loses all but the first few comments it has not
\* taken yet.
Close(s) ==
    /\ phase[s] = "left"
    /\ phase' = [phase EXCEPT ![s] = "closed"]
    /\ \E n \in 0..Len(mailbox[s]) :
          /\ n <= Buffer
          /\ mailbox' = [mailbox EXCEPT ![s] = SubSeq(@, 1, n)]
    /\ UNCHANGED <<cancelled, status, pending, received>>

Begin(c) ==
    /\ status[c] = "new"
    /\ status' = [status EXCEPT ![c] = "open"]
    /\ pending' = [pending EXCEPT ![c] = Members(PostOf[c])]
    /\ UNCHANGED <<phase, cancelled, mailbox, received>>

Offer(c, s) ==
    /\ status[c] = "open"
    /\ s \in pending[c]
    /\ pending' = [pending EXCEPT ![c] = @ \ {s}]
    /\ mailbox' = [mailbox EXCEPT ![s] = Append(@, c)]
    /\ UNCHANGED <<phase, cancelled, status, received>>

Finish(c) ==
    /\ status[c] = "open"
    /\ pending[c] = {}
    /\ status' = [status EXCEPT ![c] = "done"]
    /\ UNCHANGED <<phase, cancelled, pending, mailbox, received>>

Deliver(s) ==
    /\ mailbox[s] # <<>>
    /\ mailbox' = [mailbox EXCEPT ![s] = Tail(@)]
    /\ received' = [received EXCEPT ![s] = Append(@, Head(mailbox[s]))]
    /\ UNCHANGED <<phase, cancelled, status, pending>>

Publish(c) == (\E s \in Subscribers : Offer(c, s)) \/ Finish(c)

Next ==
    \/ \E c \in Comments : Begin(c) \/ Publish(c)
    \/ \E s \in Subscribers :
          Join(s) \/ Cancel(s) \/ Leave(s) \/ Close(s) \/ Deliver(s)

\* A publish that has begun ends, and a cancelled member leaves and is closed.
Fairness ==
    /\ \A c \in Comments : WF_vars(Publish(c))
    /\ \A s \in Subscribers : WF_vars(Leave(s)) /\ WF_vars(Close(s))

Spec == Init /\ [][Next]_vars /\ Fairness
=============================================================================
