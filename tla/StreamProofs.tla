---------------------------- MODULE StreamProofs ----------------------------
(***************************************************************************)
(* Theorems about CommentStream, for any number of subscriptions and       *)
(* comments and any capacity of the channels.                              *)
(***************************************************************************)
EXTENDS CommentStream, SequenceTheorems, TLAPS

-----------------------------------------------------------------------------
(***************************************************************************)
(* Sequences.                                                              *)
(***************************************************************************)

LEMMA FrontOfAppend ==
  ASSUME NEW a \in Seq(Comments), NEW x \in Comments
  PROVE  Front(a \o <<x>>) = a
<1>0. Len(a) \in Nat /\ \A k \in 1..Len(a) : a[k] \in Comments
  BY LenProperties, ElementOfSeq
<1>1. a \o <<x>> = Append(a, x)
  OBVIOUS
<1>2. /\ Append(a, x) \in Seq(Comments) /\ Len(Append(a, x)) = Len(a) + 1
      /\ \A k \in 1..Len(a) : Append(a, x)[k] = a[k]
  BY AppendProperties
<1>3. \A k \in 1..Len(a) : Append(a, x)[k] \in Comments
  BY <1>0, <1>2
<1>4. Front(a \o <<x>>) = SubSeq(Append(a, x), 1, Len(a))
  <2>1. (Len(a) + 1) - 1 = Len(a)
    BY <1>0
  <2>2. QED BY <1>1, <1>2, <2>1 DEF Front
<1>5. /\ SubSeq(Append(a, x), 1, Len(a)) \in Seq(Comments)
      /\ Len(SubSeq(Append(a, x), 1, Len(a))) = Len(a)
      /\ \A k \in 1..Len(a) : SubSeq(Append(a, x), 1, Len(a))[k] = a[k]
  BY <1>0, <1>2, <1>3, SubSeqProperties
<1>6. QED BY <1>4, <1>5, SeqEqual

LEMMA Regrouped ==
  ASSUME NEW a \in Seq(Comments), NEW b \in Seq(Comments), NEW c \in Seq(Comments)
  PROVE  (a \o b) \o c = a \o (b \o c)
BY ConcatAssociative

LEMMA NothingMore ==
  ASSUME NEW a \in Seq(Comments)
  PROVE  a \o <<>> = a
BY ConcatEmptySeq

LEMMA OneMore ==
  ASSUME NEW a \in Seq(Comments), NEW x \in Comments
  PROVE  Append(a, x) = a \o <<x>>
OBVIOUS

LEMMA MovedAcross ==
  ASSUME NEW a \in Seq(Comments), NEW q \in Seq(Comments), q # <<>>
  PROVE  Append(a, Head(q)) \o Tail(q) = a \o q
<1>1. Head(q) \in Comments /\ Tail(q) \in Seq(Comments) /\ q = <<Head(q)>> \o Tail(q)
  OBVIOUS
<1>2. Append(a, Head(q)) = a \o <<Head(q)>> /\ <<Head(q)>> \in Seq(Comments)
  BY <1>1
<1>3. (a \o <<Head(q)>>) \o Tail(q) = a \o (<<Head(q)>> \o Tail(q))
  BY <1>1, <1>2, ConcatAssociative
<1>4. QED BY <1>1, <1>2, <1>3

-----------------------------------------------------------------------------
(***************************************************************************)
(* The inductive invariant.                                                *)
(***************************************************************************)

\* Who is out of the feed was cancelled, and the goroutine starts with the
\* membership.
FeedInv ==
    \A s \in Subscribers :
        /\ phase[s] \in {"left", "closed"} => cancelled[s]
        /\ phase[s] = "new" => forward[s] = "none"
        /\ forward[s] = "ended" => cancelled[s]

\* What has been taken from the broker is with the client, in the channel, in
\* the hands of the goroutine, or, one comment at most, lost with it.
FlowInv ==
    \A s \in Subscribers :
        \/ received[s] = (shown[s] \o result[s]) \o item[s]
        \/ /\ forward[s] = "ended" /\ item[s] = <<>>
           /\ \E x \in Comments : received[s] = (shown[s] \o result[s]) \o <<x>>

ItemInv ==
    \A s \in Subscribers : item[s] = <<>> \/ \E x \in Comments : item[s] = <<x>>

\* TypeOK, one variable at a time.
Types ==
    /\ phase \in [Subscribers -> {"new", "member", "left", "closed"}]
    /\ cancelled \in [Subscribers -> BOOLEAN]
    /\ status \in [Comments -> {"new", "open", "done"}]
    /\ pending \in [Comments -> SUBSET Subscribers]
    /\ mailbox \in [Subscribers -> Seq(Comments)]
    /\ received \in [Subscribers -> Seq(Comments)]
    /\ item \in [Subscribers -> Seq(Comments)]
    /\ result \in [Subscribers -> Seq(Comments)]
    /\ shown \in [Subscribers -> Seq(Comments)]
    /\ forward \in [Subscribers -> {"none", "select", "send", "ended"}]

Bounds ==
    \A s \in Subscribers :
        Len(result[s]) <= ResultCap /\ (item[s] # <<>> <=> forward[s] = "send")

LEMMA TypeSplit == TypeOK <=> Types /\ Bounds
BY DEF TypeOK, Types, Bounds, ForwardStates

IInv == Types /\ Bounds /\ FeedInv /\ ItemInv /\ FlowInv

LEMMA InvInit == Init => IInv
<1> SUFFICES ASSUME Init PROVE IInv
  OBVIOUS
<1>1. /\ mailbox = [s \in Subscribers |-> <<>>] /\ received = [s \in Subscribers |-> <<>>]
      /\ item = [s \in Subscribers |-> <<>>] /\ result = [s \in Subscribers |-> <<>>]
      /\ shown = [s \in Subscribers |-> <<>>]
      /\ forward = [s \in Subscribers |-> "none"]
      /\ phase = [s \in Subscribers |-> "new"]
      /\ cancelled = [s \in Subscribers |-> FALSE]
      /\ status = [c \in Comments |-> "new"] /\ pending = [c \in Comments |-> {}]
  BY DEF Init, Feed!Init
<1>2. <<>> \in Seq(Comments) /\ Len(<<>>) = 0 /\ (<<>> \o <<>>) \o <<>> = <<>>
  OBVIOUS
<1>3. Types
  BY <1>1, <1>2 DEF Types
<1>4. Bounds
  BY <1>1, <1>2, StreamAssumption DEF Bounds
<1>5. FeedInv /\ FlowInv /\ ItemInv
  BY <1>1, <1>2 DEF FeedInv, FlowInv, ItemInv
<1>6. QED BY <1>3, <1>4, <1>5 DEF IInv

-----------------------------------------------------------------------------
(***************************************************************************)
(* Steps.                                                                  *)
(***************************************************************************)

LEMMA StepOfFeed ==
  ASSUME IInv, FeedStep
  PROVE  IInv'
<1> USE DEF IInv
<1>1. UNCHANGED <<forward, item, result, shown, received>>
  BY DEF FeedStep, forwardVars, Broker, Feed!Begin, Feed!Publish, Feed!Offer, Feed!Finish,
         Feed!Cancel, Feed!Leave, Feed!Close
<1> DEFINE Goal == Types' /\ FeedInv'
<1>2. ASSUME NEW c \in Comments, Feed!Begin(c) \/ Feed!Finish(c) PROVE Goal
  <2>1. pending' \in [Comments -> SUBSET Subscribers]
    <3>1. UNCHANGED pending \/ pending' = [pending EXCEPT ![c] = Feed!Members(PostOf[c])]
      BY <1>2 DEF Feed!Begin, Feed!Finish
    <3>2. Feed!Members(PostOf[c]) \in SUBSET Subscribers
      BY DEF Feed!Members
    <3>3. pending \in [Comments -> SUBSET Subscribers]
      BY DEF Types
    <3>4. QED BY <3>1, <3>2, <3>3
  <2>2. status' \in [Comments -> {"new", "open", "done"}]
    BY <1>2 DEF Feed!Begin, Feed!Finish, Types
  <2>3. UNCHANGED <<phase, cancelled, mailbox>>
    BY <1>2 DEF Feed!Begin, Feed!Finish
  <2>4. QED BY <1>1, <2>1, <2>2, <2>3 DEF Types, FeedInv
<1>3. ASSUME NEW c \in Comments, NEW s \in Subscribers, Feed!Offer(c, s) PROVE Goal
  <2>1. /\ UNCHANGED <<phase, cancelled, status>>
        /\ pending' = [pending EXCEPT ![c] = pending[c] \ {s}]
        /\ mailbox' = [mailbox EXCEPT ![s] = Append(mailbox[s], c)]
    BY <1>3 DEF Feed!Offer
  <2>2. Append(mailbox[s], c) \in Seq(Comments)
    BY DEF Types
  <2>3. QED BY <1>1, <2>1, <2>2 DEF Types, FeedInv
<1>4. ASSUME NEW s \in Subscribers, Feed!Cancel(s) \/ Feed!Leave(s) PROVE Goal
  <2>1. /\ phase' \in [Subscribers -> {"new", "member", "left", "closed"}]
        /\ cancelled' \in [Subscribers -> BOOLEAN]
        /\ UNCHANGED <<status, pending, mailbox>>
    BY <1>4 DEF Feed!Cancel, Feed!Leave, Types
  <2>2. FeedInv'
    <3>1. CASE Feed!Cancel(s)
      BY <1>1, <3>1 DEF Feed!Cancel, Types, FeedInv
    <3>2. CASE Feed!Leave(s)
      BY <1>1, <3>2 DEF Feed!Leave, Types, FeedInv
    <3>3. QED BY <1>4, <3>1, <3>2
  <2>3. QED BY <1>1, <2>1, <2>2 DEF Types
<1>5. ASSUME NEW s \in Subscribers, Feed!Close(s) PROVE Goal
  <2>1. PICK n \in 0..Len(mailbox[s]) :
           mailbox' = [mailbox EXCEPT ![s] = SubSeq(mailbox[s], 1, n)]
    BY <1>5 DEF Feed!Close
  <2>2. SubSeq(mailbox[s], 1, n) \in Seq(Comments)
    <3>1. mailbox[s] \in Seq(Comments)
      BY DEF Types
    <3>2. \A k \in 1..n : mailbox[s][k] \in Comments
      BY <3>1
    <3>3. QED BY <3>1, <3>2
  <2>3. /\ phase[s] = "left" /\ phase' = [phase EXCEPT ![s] = "closed"]
        /\ UNCHANGED <<cancelled, status, pending>>
    BY <1>5 DEF Feed!Close
  <2>4. QED BY <1>1, <2>1, <2>2, <2>3 DEF Types, FeedInv
<1> HIDE DEF Goal
<1>6. Goal
  BY <1>2, <1>3, <1>4, <1>5 DEF FeedStep, Broker, Feed!Publish
<1>7. Bounds' /\ FlowInv' /\ ItemInv'
  BY <1>1 DEF Bounds, FlowInv, ItemInv
<1>8. QED BY <1>6, <1>7 DEF Goal

LEMMA StepSubscribe ==
  ASSUME IInv, NEW s \in Subscribers, Subscribe(s)
  PROVE  IInv'
<1> USE DEF IInv
<1>1. /\ phase[s] = "new" /\ phase' = [phase EXCEPT ![s] = "member"]
      /\ forward' = [forward EXCEPT ![s] = "select"]
      /\ UNCHANGED <<cancelled, status, pending, mailbox, received, item, result, shown>>
  BY DEF Subscribe, Feed!Join
<1>2. Types'
  BY <1>1 DEF Types
<1>3. forward[s] = "none"
  BY <1>1 DEF FeedInv
<1>4. Bounds' /\ FeedInv' /\ ItemInv'
  BY <1>1, <1>3 DEF Bounds, FeedInv, ItemInv, Types
<1>5. FlowInv'
  BY <1>1, <1>3 DEF FlowInv, Types
<1>6. QED BY <1>2, <1>4, <1>5

LEMMA StepEnd ==
  ASSUME IInv, NEW s \in Subscribers, Stop(s) \/ EndOfFeed(s)
  PROVE  IInv'
<1> USE DEF IInv
<1>1. /\ forward[s] \in {"select", "send"} /\ cancelled[s]
      /\ forward' = [forward EXCEPT ![s] = "ended"]
      /\ item' = [item EXCEPT ![s] = <<>>]
      /\ UNCHANGED <<feedVars, result, shown>>
  BY DEF Stop, EndOfFeed, EndWhen, FeedInv
<1>2. Types' /\ Bounds' /\ FeedInv'
  BY <1>1 DEF Types, Bounds, FeedInv, feedVars
<1>3. FlowInv'
  <2>1. (shown[s] \o result[s]) \o <<>> = shown[s] \o result[s]
    BY DEF Types
  <2>2. CASE item[s] = <<>>
    BY <1>1, <2>2 DEF FlowInv, Types, feedVars
  <2>3. CASE item[s] # <<>>
    <3>1. \E x \in Comments : item[s] = <<x>>
      BY <2>3 DEF ItemInv
    <3>2. received[s] = (shown[s] \o result[s]) \o item[s]
      BY <1>1 DEF FlowInv
    <3>3. QED BY <1>1, <3>1, <3>2 DEF FlowInv, Types, feedVars
  <2>4. QED BY <2>2, <2>3
<1>4. ItemInv'
  BY <1>1 DEF ItemInv, Types
<1>5. QED BY <1>2, <1>3, <1>4

LEMMA StepTake ==
  ASSUME IInv, NEW s \in Subscribers, Take(s)
  PROVE  IInv'
<1> USE DEF IInv
<1>1. /\ forward[s] = "select" /\ mailbox[s] # <<>>
      /\ forward' = [forward EXCEPT ![s] = "send"]
      /\ item' = [item EXCEPT ![s] = <<Head(mailbox[s])>>]
      /\ mailbox' = [mailbox EXCEPT ![s] = Tail(mailbox[s])]
      /\ received' = [received EXCEPT ![s] = Append(received[s], Head(mailbox[s]))]
      /\ UNCHANGED <<phase, cancelled, status, pending, result, shown>>
  BY DEF Take, Feed!Deliver
<1>2. Head(mailbox[s]) \in Comments /\ Tail(mailbox[s]) \in Seq(Comments)
  BY <1>1 DEF Types
<1>3. Types'
  BY <1>1, <1>2 DEF Types
<1>4. Bounds' /\ FeedInv' /\ ItemInv'
  <2>1. Bounds'
    BY <1>1, <1>2 DEF Bounds, Types
  <2>2. FeedInv'
    BY <1>1 DEF FeedInv, Types
  <2>3. ItemInv'
    BY <1>1, <1>2 DEF ItemInv, Types
  <2>4. QED BY <2>1, <2>2, <2>3
<1>5. received'[s] = (shown[s] \o result[s]) \o <<Head(mailbox[s])>>
  <2>1. received[s] = (shown[s] \o result[s]) \o <<>>
    BY <1>1 DEF FlowInv, Bounds
  <2>2. shown[s] \in Seq(Comments) /\ result[s] \in Seq(Comments)
        /\ received' [s] = Append(received[s], Head(mailbox[s]))
    BY <1>1 DEF Types
  <2>3. received[s] = shown[s] \o result[s]
    <3>1. shown[s] \o result[s] \in Seq(Comments)
      BY <2>2
    <3>2. (shown[s] \o result[s]) \o <<>> = shown[s] \o result[s]
      BY <3>1, NothingMore
    <3>3. QED BY <2>1, <3>2
  <2>4. Append(shown[s] \o result[s], Head(mailbox[s]))
          = (shown[s] \o result[s]) \o <<Head(mailbox[s])>>
    <3>1. shown[s] \o result[s] \in Seq(Comments)
      BY <2>2
    <3>2. QED BY <1>2, <3>1, OneMore
  <2>5. QED BY <2>2, <2>3, <2>4
<1>6. FlowInv'
  BY <1>1, <1>5 DEF FlowInv, Types
<1>7. QED BY <1>3, <1>4, <1>6

LEMMA StepSend ==
  ASSUME IInv, NEW s \in Subscribers, Send(s)
  PROVE  IInv'
<1> USE DEF IInv
<1>1. /\ forward[s] = "send" /\ Len(result[s]) < ResultCap
      /\ forward' = [forward EXCEPT ![s] = "select"]
      /\ item' = [item EXCEPT ![s] = <<>>]
      /\ result' = [result EXCEPT ![s] = result[s] \o item[s]]
      /\ UNCHANGED <<feedVars, shown>>
  BY DEF Send, PassOn, HasRoom
<1>2. PICK x \in Comments : item[s] = <<x>>
  BY <1>1 DEF Bounds, ItemInv
<1>3. /\ shown[s] \in Seq(Comments) /\ result[s] \in Seq(Comments)
      /\ item[s] \in Seq(Comments) /\ result[s] \o item[s] \in Seq(Comments)
  BY DEF Types
<1>4. Types' /\ FeedInv' /\ ItemInv'
  BY <1>1, <1>3 DEF Types, FeedInv, ItemInv, feedVars
<1>5. Bounds'
  <2>1. Len(result[s] \o item[s]) = Len(result[s]) + 1
    BY <1>2, <1>3
  <2>2. Len(result[s]) + 1 <= ResultCap
    BY <1>1, <1>3, StreamAssumption
  <2>3. QED BY <1>1, <2>1, <2>2 DEF Bounds, Types
<1>6. received[s] = (shown[s] \o (result[s] \o item[s])) \o <<>>
  <2>1. received[s] = (shown[s] \o result[s]) \o item[s]
    BY <1>1 DEF FlowInv
  <2>2. (shown[s] \o result[s]) \o item[s] = shown[s] \o (result[s] \o item[s])
    BY <1>3, Regrouped
  <2>3. shown[s] \o (result[s] \o item[s]) \in Seq(Comments)
    BY <1>3
  <2>4. (shown[s] \o (result[s] \o item[s])) \o <<>> = shown[s] \o (result[s] \o item[s])
    BY <2>3, NothingMore
  <2>5. QED BY <2>1, <2>2, <2>4
<1>7. FlowInv'
  BY <1>1, <1>6 DEF FlowInv, Types, feedVars
<1>8. QED BY <1>4, <1>5, <1>7

LEMMA StepShow ==
  ASSUME IInv, NEW s \in Subscribers, Show(s)
  PROVE  IInv'
<1> USE DEF IInv
<1>1. /\ result[s] # <<>>
      /\ result' = [result EXCEPT ![s] = Tail(result[s])]
      /\ shown' = [shown EXCEPT ![s] = Append(shown[s], Head(result[s]))]
      /\ UNCHANGED <<feedVars, forward, item>>
  BY DEF Show
<1>2. /\ shown[s] \in Seq(Comments) /\ result[s] \in Seq(Comments)
      /\ Head(result[s]) \in Comments /\ Tail(result[s]) \in Seq(Comments)
      /\ Len(Tail(result[s])) <= Len(result[s]) /\ Len(result[s]) \in Nat
  BY <1>1 DEF Types
<1>3. Types' /\ FeedInv' /\ ItemInv'
  BY <1>1, <1>2 DEF Types, FeedInv, ItemInv, feedVars
<1>4. Bounds'
  <2>1. Len(Tail(result[s])) <= ResultCap
    <3>1. Len(Tail(result[s])) \in Nat /\ Len(result[s]) <= ResultCap /\ ResultCap \in Nat
      BY <1>2, StreamAssumption DEF Bounds
    <3>2. QED BY <1>2, <3>1
  <2>2. QED BY <1>1, <2>1 DEF Bounds, Types
<1>5. Append(shown[s], Head(result[s])) \o Tail(result[s]) = shown[s] \o result[s]
  BY <1>1, <1>2, MovedAcross
<1>6. FlowInv'
  BY <1>1, <1>5 DEF FlowInv, Types, feedVars
<1>7. QED BY <1>3, <1>4, <1>6

LEMMA InvNext == ASSUME IInv, [Next]_vars PROVE IInv'
<1>1. CASE UNCHANGED vars
  <2>1. UNCHANGED <<phase, cancelled, status, pending, mailbox, received, forward, item,
                    result, shown>>
    BY <1>1 DEF vars, feedVars, forwardVars
  <2>2. Types' /\ Bounds'
    BY <2>1 DEF IInv, Types, Bounds
  <2>3. FeedInv' /\ ItemInv' /\ FlowInv'
    BY <2>1 DEF IInv, FeedInv, FlowInv, ItemInv
  <2>4. QED BY <2>2, <2>3 DEF IInv
<1>2. QED
  BY <1>1, StepOfFeed, StepSubscribe, StepEnd, StepTake, StepSend, StepShow
     DEF Next, ForwardStep

LEMMA InvAlways == Spec => []IInv
<1>1. QED BY InvInit, InvNext, PTL DEF Spec

-----------------------------------------------------------------------------
(***************************************************************************)
(* The theorems.                                                           *)
(***************************************************************************)

\* Every variable has its type, the result channel of resolver.go:171 never holds
\* more than its capacity, and the goroutine holds a comment exactly while it waits
\* to send it.
THEOREM TypeCorrect == Spec => []TypeOK
<1>1. IInv => TypeOK
  BY TypeSplit DEF IInv
<1>2. QED BY <1>1, InvAlways, PTL

\* The goroutine of resolver.go:172 passes on what it takes from the broker in the
\* same order; only the comment it held when the context ended may be missing.
THEOREM ShownAsTaken == Spec => []ShownInOrder
<1>1. ASSUME IInv PROVE ShownInOrder
  <2> SUFFICES ASSUME NEW s \in Subscribers
               PROVE  \/ (shown[s] \o result[s]) \o item[s] = received[s]
                      \/ /\ forward[s] = "ended"
                         /\ (shown[s] \o result[s]) \o item[s] = Front(received[s])
    BY DEF ShownInOrder
  <2>1. shown[s] \o result[s] \in Seq(Comments)
    BY <1>1 DEF IInv, Types
  <2>2. ASSUME forward[s] = "ended", item[s] = <<>>, NEW x \in Comments,
               received[s] = (shown[s] \o result[s]) \o <<x>>
        PROVE  (shown[s] \o result[s]) \o item[s] = Front(received[s])
    <3>1. Front(received[s]) = shown[s] \o result[s]
      BY <2>1, <2>2, FrontOfAppend
    <3>2. (shown[s] \o result[s]) \o <<>> = shown[s] \o result[s]
      BY <2>1, NothingMore
    <3>3. QED BY <2>2, <3>1, <3>2
  <2>3. QED BY <1>1, <2>2 DEF IInv, FlowInv
<1>2. QED BY <1>1, InvAlways, PTL

\* The channel that resolver.go:190 closes is closed only for a client whose own
\* context ended: the broker closes the channel of nobody else.
THEOREM EndsForCancelled == Spec => []EndOnlyIfCancelled
<1>1. IInv => EndOnlyIfCancelled
  BY DEF IInv, FeedInv, EndOnlyIfCancelled
<1>2. QED BY <1>1, InvAlways, PTL
-----------------------------------------------------------------------------
(***************************************************************************)
(* From the publishers to the client.  The broker's part of the way is     *)
(* described by what a subscription was sent: it only grows at its end, or *)
(* loses an end when the subscription is over.                             *)
(***************************************************************************)

Sent(s) == received[s] \o mailbox[s]

Kept(s) == Sent(s)' = Sent(s)

Extended(s, c) == Sent(s)' = Append(Sent(s), c)

Cut(s) == /\ Len(Sent(s)') <= Len(Sent(s))
          /\ \A k \in 1..Len(Sent(s)') : (Sent(s)')[k] = Sent(s)[k]

\* A publish under way has still to visit members of its topic only, and what
\* it has still to send was not sent yet; what was sent was published, on the
\* topic, and once.
SentInv ==
    /\ \A c \in Comments : status[c] # "open" => pending[c] = {}
    /\ \A s \in Subscribers :
          /\ \A k \in 1..Len(Sent(s)) :
                status[Sent(s)[k]] # "new" /\ PostOf[Sent(s)[k]] = TopicOf[s]
          /\ \A k, l \in 1..Len(Sent(s)) : Sent(s)[k] = Sent(s)[l] => k = l
          /\ \A c \in Comments : s \in pending[c] =>
                /\ PostOf[c] = TopicOf[s]
                /\ \A k \in 1..Len(Sent(s)) : Sent(s)[k] # c

\* What a step may do to the feed.
Moves ==
    /\ \A c \in Comments :
          /\ status[c] # "new" => status'[c] # "new"
          /\ status[c] = "done" => status'[c] = "done"
          /\ status[c] = "new" /\ status'[c] # "new" =>
                /\ status'[c] = "open"
                /\ pending'[c] = Feed!Members(PostOf[c])
          /\ status'[c] # "open" /\ status[c] = "open" => pending[c] = {}
          /\ status'[c] = status[c] => pending'[c] \subseteq pending[c]
          /\ status'[c] # "open" => pending'[c] = pending[c]
    /\ \A s \in Subscribers :
          /\ cancelled[s] => cancelled'[s]
          /\ phase[s] = "member" => phase'[s] = "member" \/ cancelled'[s]
          /\ \/ Kept(s)
             \/ Cut(s) /\ phase[s] = "left"
             \/ \E c \in Comments : /\ status[c] = "open" /\ s \in pending[c]
                                    /\ s \notin pending'[c] /\ Extended(s, c)
          /\ \A c \in Comments : s \in pending[c] =>
                s \in pending'[c] \/ Extended(s, c)

LEMMA SentTypes ==
  ASSUME Types, NEW s \in Subscribers
  PROVE  /\ received[s] \in Seq(Comments) /\ mailbox[s] \in Seq(Comments)
         /\ Sent(s) \in Seq(Comments) /\ Len(Sent(s)) \in Nat
<1>1. received[s] \in Seq(Comments) /\ mailbox[s] \in Seq(Comments)
  BY DEF Types
<1>2. Sent(s) \in Seq(Comments)
  BY <1>1, ConcatProperties DEF Sent
<1>3. QED BY <1>1, <1>2, LenProperties

LEMMA CutAtEnd ==
  ASSUME NEW a \in Seq(Comments), NEW q \in Seq(Comments), NEW n \in 0..Len(q)
  PROVE  /\ Len(a \o SubSeq(q, 1, n)) <= Len(a \o q)
         /\ \A k \in 1..Len(a \o SubSeq(q, 1, n)) :
               (a \o SubSeq(q, 1, n))[k] = (a \o q)[k]
<1>0. Len(a) \in Nat /\ Len(q) \in Nat /\ n \in Nat /\ n <= Len(q)
  BY LenProperties
<1>1. \A k \in 1..n : q[k] \in Comments
  BY <1>0, ElementOfSeq
<1>2. /\ SubSeq(q, 1, n) \in Seq(Comments)
      /\ Len(SubSeq(q, 1, n)) = n
      /\ \A k \in 1..n : SubSeq(q, 1, n)[k] = q[k]
  BY <1>0, <1>1, SubSeqProperties
<1>3. /\ Len(a \o q) = Len(a) + Len(q)
      /\ \A k \in 1..Len(a) + Len(q) :
            (a \o q)[k] = IF k <= Len(a) THEN a[k] ELSE q[k - Len(a)]
  BY ConcatProperties
<1>4. /\ Len(a \o SubSeq(q, 1, n)) = Len(a) + n
      /\ \A k \in 1..Len(a) + n :
            (a \o SubSeq(q, 1, n))[k] =
                IF k <= Len(a) THEN a[k] ELSE SubSeq(q, 1, n)[k - Len(a)]
  BY <1>2, ConcatProperties
<1>5. QED BY <1>0, <1>2, <1>3, <1>4

StartsWith(q, a) == /\ Len(a) \in Nat /\ Len(a) <= Len(q)
                    /\ \A k \in 1..Len(a) : a[k] = q[k]

LEMMA StartOfConcat ==
  ASSUME NEW a \in Seq(Comments), NEW q \in Seq(Comments)
  PROVE  StartsWith(a \o q, a)
<1>1. Len(a) \in Nat /\ Len(q) \in Nat
  BY LenProperties
<1>2. /\ Len(a \o q) = Len(a) + Len(q)
      /\ \A k \in 1..Len(a) + Len(q) :
            (a \o q)[k] = IF k <= Len(a) THEN a[k] ELSE q[k - Len(a)]
  BY ConcatProperties
<1>3. QED BY <1>1, <1>2 DEF StartsWith

LEMMA StartOfStart ==
  ASSUME NEW a \in Seq(Comments), NEW q \in Seq(Comments), NEW r \in Seq(Comments),
         StartsWith(q, a), StartsWith(r, q)
  PROVE  StartsWith(r, a)
<1>1. Len(a) \in Nat /\ Len(q) \in Nat /\ Len(r) \in Nat
  BY LenProperties
<1>2. QED BY <1>1 DEF StartsWith

LEMMA SentOffer ==
  ASSUME Types, NEW c \in Comments, NEW t \in Subscribers, Feed!Offer(c, t),
         NEW s \in Subscribers
  PROVE  IF s = t THEN Extended(s, c) ELSE Kept(s)
<1>1. /\ received' = received
      /\ mailbox' = [mailbox EXCEPT ![t] = Append(mailbox[t], c)]
  BY DEF Feed!Offer
<1>2. ASSUME s = t PROVE Extended(s, c)
  <2>1. received[s] \in Seq(Comments) /\ mailbox[s] \in Seq(Comments)
        /\ Sent(s) \in Seq(Comments) /\ <<c>> \in Seq(Comments)
    BY SentTypes
  <2>2. Append(mailbox[s], c) = mailbox[s] \o <<c>> /\ Append(Sent(s), c) = Sent(s) \o <<c>>
    BY <2>1, OneMore
  <2>3. (received[s] \o mailbox[s]) \o <<c>> = received[s] \o (mailbox[s] \o <<c>>)
    BY <2>1, Regrouped
  <2>4. mailbox'[s] = Append(mailbox[s], c) /\ received'[s] = received[s]
    BY <1>1, <1>2 DEF Types
  <2>5. QED BY <2>2, <2>3, <2>4 DEF Extended, Sent
<1>3. ASSUME s # t PROVE Kept(s)
  BY <1>1, <1>3 DEF Sent, Types, Kept
<1>4. QED BY <1>2, <1>3

LEMMA SentDeliver ==
  ASSUME Types, NEW t \in Subscribers, Feed!Deliver(t), NEW s \in Subscribers
  PROVE  Kept(s)
<1>1. /\ mailbox[t] # <<>>
      /\ mailbox' = [mailbox EXCEPT ![t] = Tail(mailbox[t])]
      /\ received' = [received EXCEPT ![t] = Append(received[t], Head(mailbox[t]))]
  BY DEF Feed!Deliver
<1>2. ASSUME s = t PROVE Kept(s)
  <2>1. received[s] \in Seq(Comments) /\ mailbox[s] \in Seq(Comments) /\ mailbox[s] # <<>>
    BY <1>1, <1>2, SentTypes
  <2>2. Append(received[s], Head(mailbox[s])) \o Tail(mailbox[s]) = received[s] \o mailbox[s]
    BY <2>1, MovedAcross
  <2>3. /\ mailbox'[s] = Tail(mailbox[s])
        /\ received'[s] = Append(received[s], Head(mailbox[s]))
    BY <1>1, <1>2 DEF Types
  <2>4. QED BY <2>2, <2>3 DEF Kept, Sent
<1>3. ASSUME s # t PROVE Kept(s)
  BY <1>1, <1>3 DEF Sent, Types, Kept
<1>4. QED BY <1>2, <1>3

LEMMA SentClose ==
  ASSUME Types, NEW t \in Subscribers, Feed!Close(t), NEW s \in Subscribers
  PROVE  IF s = t THEN Cut(s) ELSE Kept(s)
<1>1. PICK n \in 0..Len(mailbox[t]) :
        mailbox' = [mailbox EXCEPT ![t] = SubSeq(mailbox[t], 1, n)]
  BY DEF Feed!Close
<1>2. received' = received
  BY DEF Feed!Close
<1>3. ASSUME s = t PROVE Cut(s)
  <2>1. received[s] \in Seq(Comments) /\ mailbox[s] \in Seq(Comments) /\ n \in 0..Len(mailbox[s])
    BY <1>3, SentTypes
  <2>2. mailbox'[s] = SubSeq(mailbox[s], 1, n) /\ received'[s] = received[s]
    BY <1>1, <1>2, <1>3 DEF Types
  <2>3. /\ Len(received[s] \o SubSeq(mailbox[s], 1, n)) <= Len(received[s] \o mailbox[s])
        /\ \A k \in 1..Len(received[s] \o SubSeq(mailbox[s], 1, n)) :
              (received[s] \o SubSeq(mailbox[s], 1, n))[k] = (received[s] \o mailbox[s])[k]
    BY <2>1, CutAtEnd
  <2>4. QED BY <2>2, <2>3 DEF Cut, Sent
<1>4. ASSUME s # t PROVE Kept(s)
  BY <1>1, <1>2, <1>4 DEF Sent, Types, Kept
<1>5. QED BY <1>3, <1>4

LEMMA FeedMoves ==
  ASSUME IInv, SentInv, [Next]_vars
  PROVE  Moves
<1>0. Types
  BY DEF IInv
<1>1. ASSUME UNCHANGED <<status, pending, mailbox, received, phase, cancelled>> PROVE Moves
  BY <1>1 DEF Moves, Kept, Sent
<1>2. ASSUME NEW c \in Comments, Feed!Begin(c) PROVE Moves
  <2>1. /\ status[c] = "new" /\ UNCHANGED <<phase, cancelled>>
        /\ status' = [status EXCEPT ![c] = "open"]
        /\ pending' = [pending EXCEPT ![c] = Feed!Members(PostOf[c])]
        /\ pending[c] = {}
    BY <1>2 DEF Feed!Begin, SentInv
  <2>2. \A s \in Subscribers : Kept(s)
    BY <1>2 DEF Feed!Begin, Kept, Sent
  <2>3. QED BY <1>0, <2>1, <2>2 DEF Moves, Types
<1>3. ASSUME NEW c \in Comments, NEW t \in Subscribers, Feed!Offer(c, t) PROVE Moves
  <2>1. /\ status[c] = "open" /\ t \in pending[c] /\ UNCHANGED <<phase, cancelled, status>>
        /\ pending' = [pending EXCEPT ![c] = pending[c] \ {t}]
    BY <1>3 DEF Feed!Offer
  <2>2. \A s \in Subscribers : IF s = t THEN Extended(s, c) ELSE Kept(s)
    BY <1>0, <1>3, SentOffer
  <2>3. QED BY <1>0, <2>1, <2>2 DEF Moves, Types
<1>4. ASSUME NEW c \in Comments, Feed!Finish(c) PROVE Moves
  BY <1>0, <1>4 DEF Feed!Finish, Moves, Kept, Sent, Types
<1>5. ASSUME NEW t \in Subscribers, Feed!Join(t) \/ Feed!Cancel(t) \/ Feed!Leave(t)
      PROVE  Moves
  <2>1. UNCHANGED <<status, pending, mailbox, received>>
    BY <1>5 DEF Feed!Join, Feed!Cancel, Feed!Leave
  <2>2. \A s \in Subscribers : /\ cancelled[s] => cancelled'[s]
                               /\ phase[s] = "member" => phase'[s] = "member" \/ cancelled'[s]
    BY <1>0, <1>5 DEF Feed!Join, Feed!Cancel, Feed!Leave, Types
  <2>3. QED BY <2>1, <2>2 DEF Moves, Kept, Sent
<1>6. ASSUME NEW t \in Subscribers, Feed!Close(t) PROVE Moves
  <2>1. /\ UNCHANGED <<status, pending, cancelled>> /\ phase[t] = "left"
        /\ phase' = [phase EXCEPT ![t] = "closed"]
    BY <1>6 DEF Feed!Close
  <2>2. \A s \in Subscribers : IF s = t THEN Cut(s) ELSE Kept(s)
    BY <1>0, <1>6, SentClose
  <2>3. QED BY <1>0, <2>1, <2>2 DEF Moves, Types
<1>7. ASSUME NEW t \in Subscribers, Feed!Deliver(t) PROVE Moves
  <2>1. UNCHANGED <<status, pending, phase, cancelled>>
    BY <1>7 DEF Feed!Deliver
  <2>2. \A s \in Subscribers : Kept(s)
    BY <1>0, <1>7, SentDeliver
  <2>3. QED BY <2>1, <2>2 DEF Moves
<1>8. ASSUME UNCHANGED feedVars PROVE Moves
  BY <1>1, <1>8 DEF feedVars
<1>9. ASSUME FeedStep PROVE Moves
  BY <1>2, <1>3, <1>4, <1>5, <1>6, <1>9 DEF FeedStep, Broker, Feed!Publish
<1>10. ASSUME NEW s \in Subscribers, Subscribe(s) \/ ForwardStep(s) \/ Show(s) PROVE Moves
  BY <1>5, <1>7, <1>8, <1>10
     DEF Subscribe, ForwardStep, Take, Send, PassOn, Stop, EndOfFeed, EndWhen, Show
<1>11. QED BY <1>8, <1>9, <1>10 DEF Next, vars

LEMMA SentInit == Init => SentInv
<1> SUFFICES ASSUME Init PROVE SentInv
  OBVIOUS
<1>1. \A s \in Subscribers : Sent(s) = <<>> /\ Len(Sent(s)) = 0
  BY DEF Init, Feed!Init, Sent
<1>2. \A c \in Comments : pending[c] = {}
  BY DEF Init, Feed!Init
<1>3. QED BY <1>1, <1>2 DEF SentInv

LEMMA SentNext ==
  ASSUME IInv, SentInv, [Next]_vars
  PROVE  SentInv'
<1>0. Moves /\ Types /\ Types'
  BY FeedMoves, InvNext DEF IInv
<1>1. ASSUME NEW c \in Comments, status'[c] # "open" PROVE pending'[c] = {}
  BY <1>0, <1>1 DEF Moves, SentInv
<1>2. ASSUME NEW s \in Subscribers
      PROVE  /\ \A k \in 1..Len(Sent(s)') :
                   status'[(Sent(s)')[k]] # "new" /\ PostOf[(Sent(s)')[k]] = TopicOf[s]
             /\ \A k, l \in 1..Len(Sent(s)') : (Sent(s)')[k] = (Sent(s)')[l] => k = l
             /\ \A c \in Comments : s \in pending'[c] =>
                   /\ PostOf[c] = TopicOf[s]
                   /\ \A k \in 1..Len(Sent(s)') : (Sent(s)')[k] # c
  <2> DEFINE q == Sent(s)
             r == Sent(s)'
  <2>1. /\ q \in Seq(Comments) /\ Len(q) \in Nat
        /\ r \in Seq(Comments) /\ Len(r) \in Nat
    <3>1. /\ received'[s] \in Seq(Comments) /\ mailbox'[s] \in Seq(Comments)
      BY <1>0 DEF Types
    <3>2. r \in Seq(Comments)
      BY <3>1, ConcatProperties DEF Sent
    <3>3. QED BY <1>0, <3>2, SentTypes, LenProperties
  <2>2. /\ \A k \in 1..Len(q) : /\ q[k] \in Comments
                                /\ status[q[k]] # "new" /\ status'[q[k]] # "new"
                                /\ PostOf[q[k]] = TopicOf[s]
        /\ \A k, l \in 1..Len(q) : q[k] = q[l] => k = l
        /\ \A c \in Comments : s \in pending[c] =>
              PostOf[c] = TopicOf[s] /\ \A k \in 1..Len(q) : q[k] # c
    BY <1>0, <2>1, ElementOfSeq DEF SentInv, Moves
  \* A subscription that was not ahead of a publish is so only once it begins.
  <2>3. \A c \in Comments : s \in pending'[c] =>
          \/ s \in pending[c]
          \/ status[c] = "new" /\ PostOf[c] = TopicOf[s]
    <3> SUFFICES ASSUME NEW c \in Comments, s \in pending'[c], s \notin pending[c]
                 PROVE  status[c] = "new" /\ PostOf[c] = TopicOf[s]
      OBVIOUS
    <3>1. status'[c] = "open"
      BY <1>1
    <3>2. status[c] # "open" /\ status[c] # "done"
      BY <1>0, <3>1 DEF Moves
    <3>3. status[c] = "new"
      BY <1>0, <3>2 DEF Types
    <3>4. pending'[c] = Feed!Members(PostOf[c])
      BY <1>0, <3>1, <3>3 DEF Moves
    <3>5. QED BY <3>3, <3>4 DEF Feed!Members
  <2>4. \A c \in Comments : s \in pending'[c] =>
          PostOf[c] = TopicOf[s] /\ \A k \in 1..Len(q) : q[k] # c
    BY <2>2, <2>3
  <2>5. ASSUME Len(r) <= Len(q), \A k \in 1..Len(r) : r[k] = q[k]
        PROVE  /\ \A k \in 1..Len(r) : status'[r[k]] # "new" /\ PostOf[r[k]] = TopicOf[s]
               /\ \A k, l \in 1..Len(r) : r[k] = r[l] => k = l
               /\ \A c \in Comments : s \in pending'[c] =>
                     PostOf[c] = TopicOf[s] /\ \A k \in 1..Len(r) : r[k] # c
    <3>1. \A k \in 1..Len(r) : k \in 1..Len(q) /\ r[k] = q[k]
      BY <2>1, <2>5
    <3> HIDE DEF q, r
    <3>2. QED BY <2>2, <2>4, <3>1
  <2>6. ASSUME NEW c \in Comments, status[c] = "open", s \in pending[c], s \notin pending'[c],
               r = Append(q, c)
        PROVE  /\ \A k \in 1..Len(r) : status'[r[k]] # "new" /\ PostOf[r[k]] = TopicOf[s]
               /\ \A k, l \in 1..Len(r) : r[k] = r[l] => k = l
               /\ \A d \in Comments : s \in pending'[d] =>
                     PostOf[d] = TopicOf[s] /\ \A k \in 1..Len(r) : r[k] # d
    <3>1. status'[c] # "new" /\ PostOf[c] = TopicOf[s] /\ \A k \in 1..Len(q) : q[k] # c
      BY <1>0, <2>2, <2>6 DEF Moves
    <3> HIDE DEF q, r
    <3>2. /\ Len(r) = Len(q) + 1 /\ r[Len(q) + 1] = c
          /\ \A k \in 1..Len(q) : r[k] = q[k]
      BY <2>1, <2>6, AppendProperties
    <3>3. \A k \in 1..Len(r) : /\ k \in 1..Len(q) \/ k = Len(q) + 1
                               /\ k \in 1..Len(q) => r[k] = q[k] /\ r[k] # c
                               /\ k = Len(q) + 1 => r[k] = c
      BY <2>1, <3>1, <3>2
    <3>4. QED BY <2>2, <2>4, <2>6, <3>1, <3>3
  <2>7. CASE Kept(s)
    BY <2>1, <2>5, <2>7 DEF Kept
  <2>8. CASE Cut(s)
    BY <2>5, <2>8 DEF Cut
  <2>9. CASE \E c \in Comments : /\ status[c] = "open" /\ s \in pending[c]
                                 /\ s \notin pending'[c] /\ Extended(s, c)
    BY <2>6, <2>9 DEF Extended
  <2>10. QED BY <1>0, <2>7, <2>8, <2>9 DEF Moves
<1>3. QED BY <1>1, <1>2 DEF SentInv

LEMMA SentAlways == Spec => [](IInv /\ SentInv)
<1>1. Init => IInv /\ SentInv
  BY InvInit, SentInit
<1>2. IInv /\ SentInv /\ [Next]_vars => IInv' /\ SentInv'
  BY InvNext, SentNext
<1>3. QED BY <1>1, <1>2, PTL DEF Spec

-----------------------------------------------------------------------------
(***************************************************************************)
(* What the client is shown is the beginning of what it was sent.          *)
(***************************************************************************)

LEMMA ShownFirst ==
  ASSUME IInv, NEW s \in Subscribers
  PROVE  StartsWith(Sent(s), shown[s])
<1>1. /\ shown[s] \in Seq(Comments) /\ result[s] \in Seq(Comments) /\ item[s] \in Seq(Comments)
      /\ received[s] \in Seq(Comments) /\ mailbox[s] \in Seq(Comments)
  BY DEF IInv, Types
<1>2. PICK rest \in Seq(Comments) : received[s] = (shown[s] \o result[s]) \o rest
  <2>1. \A x \in Comments : <<x>> \in Seq(Comments)
    OBVIOUS
  <2>2. QED BY <1>1, <2>1 DEF IInv, FlowInv
<1>3. /\ shown[s] \o result[s] \in Seq(Comments)
      /\ received[s] \o mailbox[s] \in Seq(Comments)
  BY <1>1, ConcatProperties
<1>4. StartsWith(shown[s] \o result[s], shown[s])
  BY <1>1, StartOfConcat
<1>5. StartsWith(received[s], shown[s] \o result[s])
  BY <1>2, <1>3, StartOfConcat
<1>6. StartsWith(received[s] \o mailbox[s], received[s])
  BY <1>1, StartOfConcat
<1>7. StartsWith(received[s], shown[s])
  BY <1>1, <1>3, <1>4, <1>5, StartOfStart
<1>8. QED BY <1>1, <1>3, <1>6, <1>7, StartOfStart DEF Sent

-----------------------------------------------------------------------------
(***************************************************************************)
(* The promise to the client, from the publish to the WebSocket.           *)
(***************************************************************************)

\* The client is shown comments of its own post only, which were published, and
\* each at most once.
ShownOnce ==
    \A s \in Subscribers :
        /\ \A k \in 1..Len(shown[s]) :
              status[shown[s][k]] # "new" /\ PostOf[shown[s][k]] = TopicOf[s]
        /\ \A k, l \in 1..Len(shown[s]) : shown[s][k] = shown[s][l] => k = l

\* d does not come before c.
InOrder(c, d, q) == \A k, l \in 1..Len(q) : q[k] = c /\ q[l] = d => k < l

\* If the publish of c has returned before that of d begins, no client is shown
\* d before c: the publishers of broker.go and the goroutine of resolver.go, one
\* after the other, keep the order.
ShownInPublishOrder(c, d) ==
    [](status[c] = "done" /\ status[d] = "new" =>
          [](\A s \in Subscribers : InOrder(c, d, shown[s])))

\* What was sent to a subscription and is not lost.
OnTheWay(s) == ((shown[s] \o result[s]) \o item[s]) \o mailbox[s]

\* A comment whose publish begins while a subscription to its post stands has, when
\* the publish has returned, been shown to the client or waits for it: as long
\* as the context of the subscription lives it is dropped nowhere between
\* the publisher and the WebSocket.
NotLost(c, s) ==
    [](status[c] = "new" /\ phase[s] = "member" /\ PostOf[c] = TopicOf[s] =>
          [](status[c] = "done" /\ ~cancelled[s] =>
                \E k \in 1..Len(OnTheWay(s)) : OnTheWay(s)[k] = c))

\* A client of SubscribeComments (resolver.go:165) sees the comments of its post and
\* no others, and no comment twice, although they pass through several queues.
THEOREM OwnAndOnce == Spec => []ShownOnce
<1>1. ASSUME IInv, SentInv PROVE ShownOnce
  <2> SUFFICES ASSUME NEW s \in Subscribers
               PROVE  /\ \A k \in 1..Len(shown[s]) :
                            /\ status[shown[s][k]] # "new"
                            /\ PostOf[shown[s][k]] = TopicOf[s]
                      /\ \A k, l \in 1..Len(shown[s]) : shown[s][k] = shown[s][l] => k = l
    BY DEF ShownOnce
  <2>1. \A k \in 1..Len(shown[s]) : k \in 1..Len(Sent(s)) /\ shown[s][k] = Sent(s)[k]
    <3>1. Len(Sent(s)) \in Nat
      BY <1>1, SentTypes DEF IInv
    <3>2. QED BY <1>1, <3>1, ShownFirst DEF StartsWith
  <2>2. QED BY <1>1, <2>1 DEF SentInv
<1>2. QED BY <1>1, SentAlways, PTL

\* Comments are shown in the order in which they were published, publishes that
\* overlap apart.
THEOREM PublishOrderKept ==
  ASSUME NEW c \in Comments, NEW d \in Comments
  PROVE  Spec => ShownInPublishOrder(c, d)
<1> DEFINE Ordered == \A s \in Subscribers : InOrder(c, d, Sent(s))
           J == status[c] = "done" /\ Ordered
           Seen == \A s \in Subscribers : InOrder(c, d, shown[s])
           Now == status[c] = "done" /\ status[d] = "new"
<1>1. IInv /\ SentInv /\ Now => J
  BY DEF SentInv, InOrder
<1>2. ASSUME IInv, SentInv, J, [Next]_vars PROVE J'
  <2>0. Moves /\ Types /\ status'[c] = "done"
    BY <1>2, FeedMoves DEF IInv, Moves
  <2> SUFFICES ASSUME NEW s \in Subscribers, NEW k \in 1..Len(Sent(s)'),
                      NEW l \in 1..Len(Sent(s)'), (Sent(s)')[k] = c, (Sent(s)')[l] = d
               PROVE  k < l
    BY <2>0 DEF InOrder
  <2>1. Len(Sent(s)) \in Nat /\ Sent(s) \in Seq(Comments)
    BY <2>0, SentTypes
  <2>2. CASE Kept(s) \/ Cut(s)
    <3>1. /\ k \in 1..Len(Sent(s)) /\ l \in 1..Len(Sent(s))
          /\ Sent(s)[k] = c /\ Sent(s)[l] = d
      BY <2>1, <2>2 DEF Kept, Cut
    <3>2. QED BY <1>2, <3>1 DEF InOrder
  <2>3. ASSUME NEW x \in Comments, status[x] = "open", Extended(s, x) PROVE k < l
    <3>1. /\ Len(Sent(s)') = Len(Sent(s)) + 1 /\ (Sent(s)')[Len(Sent(s)) + 1] = x
          /\ \A n \in 1..Len(Sent(s)) : (Sent(s)')[n] = Sent(s)[n]
      BY <2>1, <2>3, AppendProperties DEF Extended
    <3>2. /\ k \in 1..Len(Sent(s)) \/ k = Len(Sent(s)) + 1
          /\ l \in 1..Len(Sent(s)) \/ l = Len(Sent(s)) + 1
      BY <2>1, <3>1
    <3>3. x # c
      BY <1>2, <2>3
    <3>4. k \in 1..Len(Sent(s)) /\ Sent(s)[k] = c
      BY <3>1, <3>2, <3>3
    <3>5. CASE l \in 1..Len(Sent(s))
      BY <1>2, <3>1, <3>4, <3>5 DEF InOrder
    <3>6. CASE l = Len(Sent(s)) + 1
      BY <2>1, <3>4, <3>6
    <3>7. QED BY <3>2, <3>5, <3>6
  <2>4. QED BY <2>0, <2>2, <2>3 DEF Moves
<1>3. ASSUME IInv, J PROVE Seen
  <2> SUFFICES ASSUME NEW s \in Subscribers, NEW k \in 1..Len(shown[s]),
                      NEW l \in 1..Len(shown[s]), shown[s][k] = c, shown[s][l] = d
               PROVE  k < l
    BY DEF InOrder
  <2>1. Len(Sent(s)) \in Nat
    BY <1>3, SentTypes DEF IInv
  <2>2. /\ k \in 1..Len(Sent(s)) /\ l \in 1..Len(Sent(s))
        /\ Sent(s)[k] = c /\ Sent(s)[l] = d
    BY <1>3, <2>1, ShownFirst DEF StartsWith
  <2>3. QED BY <1>3, <2>2 DEF InOrder
<1> HIDE DEF J, Seen, Now
<1>4. Spec => [](Now => []Seen)
  BY <1>1, <1>2, <1>3, SentAlways, PTL DEF Spec
<1>5. QED BY <1>4 DEF ShownInPublishOrder, Now, Seen

\* No comment is lost to a subscription that is alive, however slow its client.
THEOREM NothingDropped ==
  ASSUME NEW c \in Comments, NEW s \in Subscribers
  PROVE  Spec => NotLost(c, s)
<1> DEFINE Arrived == \E k \in 1..Len(Sent(s)) : Sent(s)[k] = c
           J == \/ cancelled[s]
                \/ /\ phase[s] = "member" /\ PostOf[c] = TopicOf[s]
                   /\ status[c] = "new" \/ s \in pending[c] \/ Arrived
           Safe == status[c] = "done" /\ ~cancelled[s] =>
                     \E k \in 1..Len(OnTheWay(s)) : OnTheWay(s)[k] = c
           Now == status[c] = "new" /\ phase[s] = "member" /\ PostOf[c] = TopicOf[s]
<1>1. Now => J
  OBVIOUS
<1>2. ASSUME IInv, SentInv, J, [Next]_vars PROVE J'
  <2>0. Moves /\ Types
    BY <1>2, FeedMoves DEF IInv
  <2>1. CASE cancelled'[s]
    BY <2>1
  <2>2. CASE ~cancelled'[s]
    <3>1. /\ phase[s] = "member" /\ phase'[s] = "member" /\ PostOf[c] = TopicOf[s]
          /\ status[c] = "new" \/ s \in pending[c] \/ Arrived
      BY <1>2, <2>0, <2>2 DEF Moves
    <3>2. Sent(s) \in Seq(Comments) /\ Len(Sent(s)) \in Nat
      BY <2>0, SentTypes
    <3>3. ASSUME NEW x \in Comments, Extended(s, x)
          PROVE  /\ \A n \in 1..Len(Sent(s)) :
                       n \in 1..Len(Sent(s)') /\ (Sent(s)')[n] = Sent(s)[n]
                 /\ \E n \in 1..Len(Sent(s)') : (Sent(s)')[n] = x
      <4>1. /\ Len(Sent(s)') = Len(Sent(s)) + 1 /\ (Sent(s)')[Len(Sent(s)) + 1] = x
            /\ \A n \in 1..Len(Sent(s)) : (Sent(s)')[n] = Sent(s)[n]
        BY <3>2, <3>3, AppendProperties DEF Extended
      <4>2. Len(Sent(s)) + 1 \in 1..Len(Sent(s)')
        BY <3>2, <4>1
      <4>3. QED BY <3>2, <4>1, <4>2
    <3>4. CASE status[c] = "new"
      <4>1. status'[c] = "new" \/ pending'[c] = Feed!Members(PostOf[c])
        BY <2>0, <3>4 DEF Moves
      <4>2. s \in Feed!Members(PostOf[c])
        BY <3>1 DEF Feed!Members
      <4>3. QED BY <3>1, <4>1, <4>2
    <3>5. CASE s \in pending[c]
      <4>1. s \in pending'[c] \/ Extended(s, c)
        BY <2>0, <3>5 DEF Moves
      <4>2. QED BY <3>1, <3>3, <4>1
    <3>6. CASE Arrived
      <4>1. Kept(s) \/ \E x \in Comments : Extended(s, x)
        BY <2>0, <3>1 DEF Moves
      <4>2. Arrived'
        BY <3>3, <3>6, <4>1 DEF Kept
      <4>3. QED BY <3>1, <4>2
    <3>7. QED BY <3>1, <3>4, <3>5, <3>6
  <2>3. QED BY <2>1, <2>2
<1>3. ASSUME IInv, SentInv, J PROVE Safe
  <2> SUFFICES ASSUME status[c] = "done", ~cancelled[s]
               PROVE  \E k \in 1..Len(OnTheWay(s)) : OnTheWay(s)[k] = c
    OBVIOUS
  <2>1. pending[c] = {}
    BY <1>3 DEF SentInv
  <2>2. Arrived
    BY <1>3, <2>1
  <2>3. forward[s] # "ended"
    BY <1>3 DEF IInv, FeedInv
  <2>4. received[s] = (shown[s] \o result[s]) \o item[s]
    BY <1>3, <2>3 DEF IInv, FlowInv
  <2>5. QED BY <2>2, <2>4 DEF Sent, OnTheWay
<1> HIDE DEF J, Safe, Now
<1>4. Spec => [](Now => []Safe)
  BY <1>1, <1>2, <1>3, SentAlways, PTL DEF Spec
<1>5. QED BY <1>4 DEF NotLost, Now, Safe
=============================================================================
