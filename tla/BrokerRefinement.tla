-------------------------- MODULE BrokerRefinement --------------------------
(***************************************************************************)
(* The broker implements the comment feed: under the mapping Feed of       *)
(* Broker every step of the broker is a step of CommentFeed or leaves the  *)
(* feed as it is.  The invariants of BrokerProofs say why: the read lock   *)
(* keeps an audience settled, the registry is the set of members, and a    *)
(* closed subscriber is offered nothing.                                   *)
(***************************************************************************)
EXTENDS BrokerProofs

-----------------------------------------------------------------------------
(***************************************************************************)
(* The state the mapping needs to know about.                              *)
(***************************************************************************)

\* A subscriber is removed only after its context has ended.
CancelInv ==
    \A s \in Subscribers :
        watch[s] \in {"removing", "close", "closed"} => ctxDone[s]

LEMMA CancelNext == TypeOK /\ CancelInv /\ [Next]_vars => CancelInv'
<1> SUFFICES ASSUME TypeOK, CancelInv, [Next]_vars PROVE CancelInv'
  OBVIOUS
<1> USE DEF CancelInv, TypeOK, subVars
<1>1. ASSUME NEW s \in Subscribers, SubscribeCall(s) \/ Cancel(s) \/ WatchStep(s)
      PROVE  CancelInv'
  BY <1>1 DEF SubscribeCall, Cancel, WatchStep, Subscribe, Register, DeleteCall,
              Delete, Unregister, CloseDone
<1>2. ASSUME NEW c \in Comments, PublishCall(c) \/ PublishStep(c)
      PROVE  UNCHANGED subVars
  BY <1>2 DEF PublishCall, PublishStep, PublishRLock, EnqueueAppend,
              EnqueueSignal, Signal, PublishReturn
<1>3. ASSUME NEW s \in Subscribers, RunStep(s) \/ Receive(s)
      PROVE  UNCHANGED subVars
  BY <1>3 DEF RunStep, Dequeue, Take, RunSend, Send, RunWake, RunDone, RunExit,
              Receive
<1>4. CASE UNCHANGED vars
  BY <1>4 DEF vars
<1>5. QED BY <1>1, <1>2, <1>3, <1>4 DEF Next, Environment, BrokerStep, Idle

\* Everything the mapping rests on.
MapInv == TypeInv /\ RegistryExact /\ RangeInv /\ ClosedIsFinal /\ CancelInv

LEMMA MapInvariant == Spec => []MapInv
<1>1. Init => CancelInv
  BY DEF Init, CancelInv
<1>2. TypeInv => TypeOK
  BY DEF TypeInv
<1>3. Spec => []CancelInv
  BY <1>1, <1>2, CancelNext, TypeInvariant, PTL DEF Spec
<1>4. QED BY <1>3, TypeInvariant, RegistryIsExact, RangeInvariant,
             ClosedStreamIsFinal, PTL DEF MapInv

-----------------------------------------------------------------------------
(***************************************************************************)
(* Sequences.                                                              *)
(***************************************************************************)

LEMMA StartOfConcat ==
  ASSUME NEW S, NEW a \in Seq(S), NEW b \in Seq(S)
  PROVE  SubSeq(a \o b, 1, Len(a)) = a
<1>1. Len(a) \in Nat
  BY LenProperties
<1>2. CASE Len(a) = 0
  <2>1. a = <<>>
    BY <1>2, EmptySeq
  <2>2. SubSeq(a \o b, 1, 0) = <<>>
    BY SubSeqEmpty
  <2>3. QED BY <1>2, <2>1, <2>2
<1>3. CASE Len(a) # 0
  <2>1. 1 \in 1..Len(a) /\ Len(a) \in 1..Len(a)
    BY <1>1, <1>3
  <2>2. SubSeq(a \o b, 1, Len(a)) = SubSeq(a, 1, Len(a))
    BY <2>1, SubSeqOfConcat1
  <2>3. QED BY <2>2, SubSeqFull
<1>4. QED BY <1>2, <1>3

\* The head and the tail of a sequence that starts with x.
LEMMA HeadTailOfStart ==
  ASSUME NEW S, NEW x \in S, NEW q \in Seq(S)
  PROVE  <<x>> \o q # <<>> /\ Head(<<x>> \o q) = x /\ Tail(<<x>> \o q) = q
<1> DEFINE h == <<x>>
           r == h \o q
<1>1. h \in Seq(S) /\ Len(h) = 1 /\ h[1] = x
  BY ShortSeq
<1> HIDE DEF h
<1>2. /\ r \in Seq(S) /\ Len(q) \in Nat /\ Len(r) = 1 + Len(q)
      /\ \A i \in 1..(1 + Len(q)) : r[i] = IF i <= 1 THEN h[i] ELSE q[i - 1]
  <2>1. /\ r \in Seq(S) /\ Len(r) = Len(h) + Len(q) /\ Len(q) \in Nat
        /\ \A i \in 1..(Len(h) + Len(q)) :
              r[i] = IF i <= Len(h) THEN h[i] ELSE q[i - Len(h)]
    BY <1>1, ConcatProperties, LenProperties
  <2> HIDE DEF r
  <2>2. QED BY <1>1, <2>1
<1> HIDE DEF r
<1>3. r # <<>> /\ r[1] = x
  BY <1>1, <1>2, EmptySeq
<1>4. /\ Tail(r) \in Seq(S) /\ Len(Tail(r)) = Len(q)
      /\ \A i \in 1..Len(Tail(r)) : Tail(r)[i] = r[i + 1]
  BY <1>2, <1>3, HeadTailProperties
<1>5. \A i \in 1..Len(q) : Tail(r)[i] = q[i]
  BY <1>2, <1>4
<1>6. Tail(r) = q
  BY <1>4, <1>5, SeqEqual
<1>7. Head(r) = x
  BY <1>2, <1>3
<1>8. QED BY <1>3, <1>6, <1>7 DEF r, h

\* Taking the head of the first of two sequences.
LEMMA TailOfConcat ==
  ASSUME NEW S, NEW a \in Seq(S), NEW b \in Seq(S), a # <<>>
  PROVE  /\ a \o b # <<>> /\ Head(a \o b) = Head(a)
         /\ Tail(a \o b) = Tail(a) \o b
<1>1. Head(a) \in S /\ Tail(a) \in Seq(S) /\ <<Head(a)>> \in Seq(S)
  BY HeadTailProperties, ShortSeq
<1>2. Tail(a) \o b \in Seq(S)
  BY <1>1, ConcatProperties
<1>3. a \o b = (<<Head(a)>> \o Tail(a)) \o b
  BY HeadThenTail
<1>4. a \o b = <<Head(a)>> \o (Tail(a) \o b)
  BY <1>1, <1>3, ConcatAssociative
<1>5. QED BY <1>1, <1>2, <1>4, HeadTailOfStart

-----------------------------------------------------------------------------
(***************************************************************************)
(* The mapping, point by point.                                            *)
(***************************************************************************)

Phases    == [s \in Subscribers |-> FeedPhase(s)]
Statuses  == [c \in Comments |-> FeedStatus(c)]
Mailboxes == [s \in Subscribers |-> FeedMailbox(s)]

\* The four phases partition the states of the watcher and of run().
LEMMA PhaseOf ==
  ASSUME MapInv, NEW s \in Subscribers
  PROVE  /\ FeedPhase(s) = "new" <=> watch[s] \in {"none", "subscribing"}
         /\ FeedPhase(s) = "member" <=> watch[s] \in {"await", "removing"}
         /\ FeedPhase(s) = "left" <=>
                watch[s] \in {"close", "closed"} /\ run[s] # "closed"
         /\ FeedPhase(s) = "closed" <=> run[s] = "closed"
         /\ FeedPhase(s) \in {"new", "member", "left", "closed"}
<1>1. /\ watch[s] \in WatchStates \ {"lost"}
      /\ watch[s] \in {"none", "subscribing"} => run[s] = "none"
      /\ run[s] = "closed" => watch[s] = "closed"
  BY DEF MapInv, TypeInv, TypeOK, LifeInv, RegistryExact
<1>2. QED BY <1>1 DEF FeedPhase, Registered, OutputClosed, WatchStates

LEMMA PhaseOfNext ==
  ASSUME MapInv', NEW s \in Subscribers
  PROVE  /\ FeedPhase(s)' = "new" <=> watch'[s] \in {"none", "subscribing"}
         /\ FeedPhase(s)' = "member" <=> watch'[s] \in {"await", "removing"}
         /\ FeedPhase(s)' = "left" <=>
                watch'[s] \in {"close", "closed"} /\ run'[s] # "closed"
         /\ FeedPhase(s)' = "closed" <=> run'[s] = "closed"
         /\ FeedPhase(s)' \in {"new", "member", "left", "closed"}
<1>1. /\ watch'[s] \in WatchStates \ {"lost"}
      /\ watch'[s] \in {"none", "subscribing"} => run'[s] = "none"
      /\ run'[s] = "closed" => watch'[s] = "closed"
  BY DEF MapInv, TypeInv, TypeOK, LifeInv, RegistryExact
<1>2. QED BY <1>1 DEF FeedPhase, Registered, OutputClosed, WatchStates

\* The members of a post in the feed are its subscribers in the registry.
LEMMA MembersAre ==
  ASSUME MapInv, NEW p \in Posts
  PROVE  Feed!Members(p) = MembersOf(p)
<1>1. \A s \in Subscribers : Phases[s] = "member" <=> Registered(s)
  BY PhaseOf DEF Phases, Registered
<1>2. MembersOf(p) = {s \in Subscribers : Registered(s) /\ TopicOf[s] = p}
  BY DEF MapInv, RegistryExact
<1>3. Feed!Members(p) = {s \in Subscribers : Phases[s] = "member" /\ TopicOf[s] = p}
  BY DEF Feed!Members, Phases
<1>4. QED BY <1>1, <1>2, <1>3

\* A writer that got the lock finds the feed settled.
LEMMA SettledIfNoReader ==
  ASSUME MapInv, Readers = {}
  PROVE  Feed!Settled
<1>1. \A c \in Comments : pub[c] \notin {"range", "signal"}
  BY DEF Readers
<1>2. \A c \in Comments : FeedStatus(c) # "open"
  BY <1>1 DEF FeedStatus
<1>3. QED BY <1>2 DEF Feed!Settled

\* What a subscriber's mailbox is made of.
LEMMA MailboxParts ==
  ASSUME MapInv, NEW s \in Subscribers
  PROVE  /\ output[s] \in Seq(Comments) /\ hand[s] \in Seq(Comments)
         /\ queue[s] \in Seq(Comments)
         /\ output[s] \o hand[s] \in Seq(Comments)
         /\ hand[s] \o queue[s] \in Seq(Comments)
         /\ (output[s] \o hand[s]) \o queue[s] \in Seq(Comments)
         /\ FeedMailbox(s) = IF run[s] = "closed" THEN output[s]
                             ELSE (output[s] \o hand[s]) \o queue[s]
         /\ FeedMailbox(s) \in Seq(Comments)
<1>1. output[s] \in Seq(Comments) /\ hand[s] \in Seq(Comments) /\ queue[s] \in Seq(Comments)
  BY DEF MapInv, TypeInv, TypeOK
<1>2. output[s] \o hand[s] \in Seq(Comments) /\ hand[s] \o queue[s] \in Seq(Comments)
  BY <1>1, ConcatProperties
<1>3. (output[s] \o hand[s]) \o queue[s] \in Seq(Comments)
  BY <1>1, <1>2, ConcatProperties
<1>4. FeedMailbox(s) = IF run[s] = "closed" THEN output[s]
                       ELSE (output[s] \o hand[s]) \o queue[s]
  BY DEF FeedMailbox, OutputClosed
<1>5. QED BY <1>1, <1>2, <1>3, <1>4

-----------------------------------------------------------------------------
(***************************************************************************)
(* Steps of publishers.                                                    *)
(***************************************************************************)

\* Nothing the mapping looks at has changed.
LEMMA Unmoved ==
  ASSUME \A s \in Subscribers : FeedPhase(s)' = FeedPhase(s),
         \A s \in Subscribers : FeedMailbox(s)' = FeedMailbox(s),
         \A c \in Comments : FeedStatus(c)' = FeedStatus(c),
         UNCHANGED <<ctxDone, todo, received>>
  PROVE  UNCHANGED Feed!vars
<1>1. QED BY DEF Feed!vars

\* Publishers leave the phases alone and only EnqueueAppend fills a mailbox.
LEMMA PublishFrame ==
  ASSUME UNCHANGED <<watch, run, hand, output>>
  PROVE  /\ \A s \in Subscribers : FeedPhase(s)' = FeedPhase(s)
         /\ \A s \in Subscribers :
               queue'[s] = queue[s] => FeedMailbox(s)' = FeedMailbox(s)
<1>1. QED BY DEF FeedPhase, FeedMailbox, Registered, OutputClosed

\* The status of one comment changes.
LEMMA StatusStep ==
  ASSUME MapInv, NEW c \in Comments, NEW next \in PubStates,
         pub' = [pub EXCEPT ![c] = next]
  PROVE  /\ FeedStatus(c) = CASE pub[c] \in {"idle", "rlock"} -> "new"
                              [] pub[c] \in {"range", "signal"} -> "open"
                              [] OTHER -> "done"
         /\ FeedStatus(c)' = CASE next \in {"idle", "rlock"} -> "new"
                               [] next \in {"range", "signal"} -> "open"
                               [] OTHER -> "done"
         /\ \A d \in Comments \ {c} : FeedStatus(d)' = FeedStatus(d)
<1>1. pub'[c] = next /\ \A d \in Comments \ {c} : pub'[d] = pub[d]
  BY DEF MapInv, TypeInv, TypeOK
<1>2. QED BY <1>1 DEF FeedStatus

LEMMA PublishMaps ==
  ASSUME MapInv, NEW c \in Comments, PublishCall(c) \/ PublishStep(c)
  PROVE  Feed!Next \/ UNCHANGED Feed!vars
<1> USE DEF PubStates
<1>1. CASE PublishCall(c)
  <2>1. /\ pub[c] = "idle" /\ pub' = [pub EXCEPT ![c] = "rlock"]
        /\ UNCHANGED <<watch, run, hand, output, queue, ctxDone, todo, received>>
    BY <1>1 DEF PublishCall, subVars, boxVars
  <2>2. \A d \in Comments : FeedStatus(d)' = FeedStatus(d)
    BY <2>1, StatusStep
  <2>3. QED BY <2>1, <2>2, PublishFrame, Unmoved
<1>2. CASE PublishRLock(c)
  <2>1. /\ pub[c] = "rlock" /\ pub' = [pub EXCEPT ![c] = "range"]
        /\ todo' = [todo EXCEPT ![c] = MembersOf(PostOf[c])]
        /\ UNCHANGED <<watch, run, hand, output, queue, ctxDone, received>>
    BY <1>2 DEF PublishRLock, subVars, boxVars
  <2>2. /\ FeedStatus(c) = "new" /\ FeedStatus(c)' = "open"
        /\ \A d \in Comments \ {c} : FeedStatus(d)' = FeedStatus(d)
    BY <2>1, StatusStep
  <2>3. todo' = [todo EXCEPT ![c] = Feed!Members(PostOf[c])]
    BY <2>1, MembersAre, BrokerAssumption
  <2>4. Statuses[c] = "new" /\ Statuses' = [Statuses EXCEPT ![c] = "open"]
    BY <2>2 DEF Statuses
  <2>5. Phases' = Phases /\ Mailboxes' = Mailboxes
    BY <2>1, PublishFrame DEF Phases, Mailboxes
  <2>6. Feed!Begin(c)
    BY <2>1, <2>3, <2>4, <2>5 DEF Feed!Begin, Phases, Statuses, Mailboxes
  <2>7. QED BY <2>6 DEF Feed!Next
<1>3. ASSUME NEW s \in Subscribers, EnqueueAppend(c, s)
      PROVE  Feed!Next
  <2>1. /\ pub[c] = "range" /\ pub' = [pub EXCEPT ![c] = "signal"]
        /\ s \in todo[c] /\ todo' = [todo EXCEPT ![c] = todo[c] \ {s}]
        /\ queue' = [queue EXCEPT ![s] = Append(queue[s], c)]
        /\ UNCHANGED <<watch, run, hand, output, ctxDone, received>>
    BY <1>3 DEF EnqueueAppend, subVars
  <2>2. Statuses[c] = "open" /\ Statuses' = Statuses
    BY <2>1, StatusStep DEF Statuses
  <2>3. run[s] # "closed"
    BY <2>1 DEF MapInv, ClosedIsFinal, Ahead, OutputClosed
  <2>4. FeedMailbox(s)' = Append(FeedMailbox(s), c)
    <3>1. FeedMailbox(s)' = (output[s] \o hand[s]) \o Append(queue[s], c)
      BY <2>1, <2>3 DEF FeedMailbox, OutputClosed, MapInv, TypeInv, TypeOK
    <3>2. /\ FeedMailbox(s) = (output[s] \o hand[s]) \o queue[s]
          /\ output[s] \o hand[s] \in Seq(Comments) /\ queue[s] \in Seq(Comments)
      BY <2>3, MailboxParts
    <3>3. ASSUME NEW x \in Seq(Comments), NEW q \in Seq(Comments)
          PROVE  x \o Append(q, c) = Append(x \o q, c)
      BY AppendToConcat
    <3>4. QED BY <3>1, <3>2, <3>3
  <2>5. \A q \in Subscribers \ {s} : FeedMailbox(q)' = FeedMailbox(q)
    BY <2>1, PublishFrame DEF MapInv, TypeInv, TypeOK
  <2>6. Mailboxes' = [Mailboxes EXCEPT ![s] = Append(Mailboxes[s], c)]
    BY <2>4, <2>5 DEF Mailboxes
  <2>7. Phases' = Phases
    BY <2>1, PublishFrame DEF Phases
  <2>8. Feed!Offer(c, s)
    BY <2>1, <2>2, <2>6, <2>7 DEF Feed!Offer, Phases, Statuses, Mailboxes
  <2>9. QED BY <2>8 DEF Feed!Next, Feed!Publish
<1>4. CASE EnqueueSignal(c)
  <2>1. /\ pub[c] = "signal" /\ pub' = [pub EXCEPT ![c] = "range"]
        /\ UNCHANGED <<watch, run, hand, output, queue, ctxDone, todo, received>>
    BY <1>4 DEF EnqueueSignal, Signal, subVars
  <2>2. \A d \in Comments : FeedStatus(d)' = FeedStatus(d)
    BY <2>1, StatusStep
  <2>3. QED BY <2>1, <2>2, PublishFrame, Unmoved
<1>5. CASE PublishReturn(c)
  <2>1. /\ pub[c] = "range" /\ pub' = [pub EXCEPT ![c] = "returned"]
        /\ todo[c] = {}
        /\ UNCHANGED <<watch, run, hand, output, queue, ctxDone, todo, received>>
    BY <1>5 DEF PublishReturn, subVars, boxVars
  <2>2. /\ FeedStatus(c) = "open" /\ FeedStatus(c)' = "done"
        /\ \A d \in Comments \ {c} : FeedStatus(d)' = FeedStatus(d)
    BY <2>1, StatusStep
  <2>3. Statuses[c] = "open" /\ Statuses' = [Statuses EXCEPT ![c] = "done"]
    BY <2>2 DEF Statuses
  <2>4. Phases' = Phases /\ Mailboxes' = Mailboxes
    BY <2>1, PublishFrame DEF Phases, Mailboxes
  <2>5. Feed!Finish(c)
    BY <2>1, <2>3, <2>4 DEF Feed!Finish, Phases, Statuses, Mailboxes
  <2>6. QED BY <2>5 DEF Feed!Next, Feed!Publish
<1>6. QED BY <1>1, <1>2, <1>3, <1>4, <1>5 DEF PublishStep

-----------------------------------------------------------------------------
(***************************************************************************)
(* Steps of subscribers and their watchers.                                *)
(***************************************************************************)

\* The watcher changes the phase of its own subscriber at most.
LEMMA WatchFrame ==
  ASSUME MapInv, MapInv', NEW s \in Subscribers,
         \A q \in Subscribers \ {s} : watch'[q] = watch[q] /\ run'[q] = run[q]
  PROVE  Phases' = [Phases EXCEPT ![s] = FeedPhase(s)']
<1>1. \A q \in Subscribers \ {s} : FeedPhase(q)' = FeedPhase(q)
  BY DEF FeedPhase, Registered, OutputClosed
<1>2. QED BY <1>1 DEF Phases

LEMMA WatchMaps ==
  ASSUME MapInv, MapInv', NEW s \in Subscribers,
         SubscribeCall(s) \/ Cancel(s) \/ WatchStep(s)
  PROVE  Feed!Next \/ UNCHANGED Feed!vars
<1>0. /\ watch \in [Subscribers -> WatchStates]
      /\ run \in [Subscribers -> RunStates]
  BY DEF MapInv, TypeInv, TypeOK
<1>1. CASE SubscribeCall(s) \/ DeleteCall(s) \/ CloseDone(s)
  <2>1. /\ UNCHANGED <<pub, run, hand, output, queue, ctxDone, todo, received>>
        /\ \/ watch[s] = "none" /\ watch'[s] = "subscribing"
           \/ watch[s] = "await" /\ watch'[s] = "removing"
           \/ watch[s] = "close" /\ watch'[s] = "closed"
        /\ \A q \in Subscribers \ {s} : watch'[q] = watch[q]
    BY <1>0, <1>1 DEF SubscribeCall, DeleteCall, CloseDone, pubVars, boxVars
  <2>2. run[s] = "closed" => watch[s] = "closed"
    BY DEF MapInv, TypeInv, LifeInv
  <2>3. \A q \in Subscribers : FeedPhase(q)' = FeedPhase(q)
    BY <2>1, <2>2 DEF FeedPhase, Registered, OutputClosed
  <2>4. /\ \A q \in Subscribers : FeedMailbox(q)' = FeedMailbox(q)
        /\ \A c \in Comments : FeedStatus(c)' = FeedStatus(c)
    BY <2>1 DEF FeedMailbox, OutputClosed, FeedStatus
  <2>5. QED BY <2>1, <2>3, <2>4, Unmoved
<1>2. CASE Cancel(s)
  <2>1. /\ UNCHANGED <<pub, watch, run, hand, output, queue, todo, received>>
        /\ ~ctxDone[s] /\ ctxDone' = [ctxDone EXCEPT ![s] = TRUE]
    BY <1>2 DEF Cancel, pubVars, boxVars
  <2>2. Phases' = Phases /\ Mailboxes' = Mailboxes /\ Statuses' = Statuses
    BY <2>1 DEF Phases, Mailboxes, Statuses, FeedPhase, FeedMailbox, FeedStatus,
                Registered, OutputClosed
  <2>3. Feed!Cancel(s)
    BY <2>1, <2>2 DEF Feed!Cancel, Phases, Mailboxes, Statuses
  <2>4. QED BY <2>3 DEF Feed!Next
<1>3. CASE Subscribe(s)
  <2>1. /\ UNCHANGED <<pub, hand, output, queue, ctxDone, todo, received>>
        /\ watch[s] = "subscribing" /\ watch'[s] = "await"
        /\ run'[s] = "dequeue" /\ Readers = {}
        /\ \A q \in Subscribers \ {s} : watch'[q] = watch[q] /\ run'[q] = run[q]
    BY <1>0, <1>3 DEF Subscribe, Register, pubVars
  <2>2. /\ Phases[s] = "new" /\ FeedPhase(s)' = "member"
        /\ run[s] = "none"
    BY <2>1, PhaseOf, PhaseOfNext DEF Phases, MapInv, TypeInv, LifeInv
  <2>3. Phases' = [Phases EXCEPT ![s] = "member"]
    BY <2>1, <2>2, WatchFrame
  <2>4. \A q \in Subscribers : run'[q] = "closed" <=> run[q] = "closed"
    BY <2>1, <2>2
  <2>5. Mailboxes' = Mailboxes /\ Statuses' = Statuses
    BY <2>1, <2>4 DEF Mailboxes, Statuses, FeedMailbox, FeedStatus, OutputClosed
  <2>6. Feed!Join(s)
    BY <2>1, <2>2, <2>3, <2>5, SettledIfNoReader
       DEF Feed!Join, Phases, Mailboxes, Statuses
  <2>7. QED BY <2>6 DEF Feed!Next
<1>4. CASE Delete(s)
  <2>1. /\ UNCHANGED <<pub, run, hand, output, queue, ctxDone, todo, received>>
        /\ watch[s] = "removing" /\ watch'[s] \in {"close", "lost"}
        /\ Readers = {}
        /\ \A q \in Subscribers \ {s} : watch'[q] = watch[q]
    BY <1>0, <1>4 DEF Delete, Unregister, pubVars, boxVars
  <2>2. /\ watch'[s] = "close" /\ run'[s] # "closed" /\ ctxDone[s]
    BY <2>1 DEF MapInv, TypeInv, LifeInv, RegistryExact, CancelInv
  <2>3. Phases[s] = "member" /\ FeedPhase(s)' = "left"
    BY <2>1, <2>2, PhaseOf, PhaseOfNext DEF Phases
  <2>4. Phases' = [Phases EXCEPT ![s] = "left"]
    BY <2>1, <2>3, WatchFrame
  <2>5. Mailboxes' = Mailboxes /\ Statuses' = Statuses
    BY <2>1 DEF Mailboxes, Statuses, FeedMailbox, FeedStatus, OutputClosed
  <2>6. Feed!Leave(s)
    BY <2>1, <2>2, <2>3, <2>4, <2>5, SettledIfNoReader
       DEF Feed!Leave, Phases, Mailboxes, Statuses
  <2>7. QED BY <2>6 DEF Feed!Next
<1>5. QED BY <1>1, <1>2, <1>3, <1>4 DEF WatchStep

-----------------------------------------------------------------------------
(***************************************************************************)
(* Steps of run() and of the reader.                                       *)
(***************************************************************************)

\* run() and the reader change the mailbox of their own subscriber at most.
LEMMA RunFrame ==
  ASSUME NEW s \in Subscribers, UNCHANGED <<pub, watch>>,
         \A q \in Subscribers \ {s} :
             /\ run'[q] = run[q] /\ queue'[q] = queue[q]
             /\ hand'[q] = hand[q] /\ output'[q] = output[q]
  PROVE  /\ \A q \in Subscribers \ {s} :
               FeedPhase(q)' = FeedPhase(q) /\ FeedMailbox(q)' = FeedMailbox(q)
         /\ \A c \in Comments : FeedStatus(c)' = FeedStatus(c)
         /\ Mailboxes' = [Mailboxes EXCEPT ![s] = FeedMailbox(s)']
         /\ Phases' = [Phases EXCEPT ![s] = FeedPhase(s)']
         /\ Statuses' = Statuses
<1>1. \A q \in Subscribers \ {s} :
         FeedPhase(q)' = FeedPhase(q) /\ FeedMailbox(q)' = FeedMailbox(q)
  BY DEF FeedPhase, FeedMailbox, Registered, OutputClosed
<1>2. \A c \in Comments : FeedStatus(c)' = FeedStatus(c)
  BY DEF FeedStatus
<1>3. QED BY <1>1, <1>2 DEF Mailboxes, Phases, Statuses

\* Only close(output) tells the watcher's and run()'s states apart.
LEMMA StepInside ==
  ASSUME NEW s \in Subscribers, UNCHANGED <<pub, watch, ctxDone, todo, received>>,
         \A q \in Subscribers \ {s} :
             /\ run'[q] = run[q] /\ queue'[q] = queue[q]
             /\ hand'[q] = hand[q] /\ output'[q] = output[q],
         run[s] # "closed", run'[s] # "closed",
         FeedMailbox(s)' = FeedMailbox(s)
  PROVE  UNCHANGED Feed!vars
<1>1. FeedPhase(s)' = FeedPhase(s)
  BY DEF FeedPhase, Registered, OutputClosed
<1>2. QED BY <1>1, RunFrame, Unmoved

LEMMA RunMaps ==
  ASSUME MapInv, NEW s \in Subscribers, RunStep(s)
  PROVE  Feed!Next \/ UNCHANGED Feed!vars
<1>1. /\ output[s] \in Seq(Comments) /\ hand[s] \in Seq(Comments)
      /\ queue[s] \in Seq(Comments)
      /\ output[s] \o hand[s] \in Seq(Comments)
      /\ hand[s] \o queue[s] \in Seq(Comments)
  BY MailboxParts
<1>2. /\ run \in [Subscribers -> RunStates]
      /\ queue \in [Subscribers -> Seq(Comments)]
      /\ hand \in [Subscribers -> Seq(Comments)]
      /\ output \in [Subscribers -> Seq(Comments)]
  BY DEF MapInv, TypeInv, TypeOK
<1>3. /\ run[s] # "closed"
      /\ UNCHANGED <<pub, watch, ctxDone, todo, received>>
      /\ \A q \in Subscribers \ {s} :
            /\ run'[q] = run[q] /\ queue'[q] = queue[q]
            /\ hand'[q] = hand[q] /\ output'[q] = output[q]
  BY <1>2 DEF RunStep, Dequeue, Take, RunSend, Send, RunWake, RunDone, RunExit,
              pubVars, subVars
<1>4. FeedMailbox(s) = (output[s] \o hand[s]) \o queue[s]
  BY <1>3 DEF FeedMailbox, OutputClosed
<1>5. ASSUME run'[s] # "closed"
      PROVE  FeedMailbox(s)' = (output'[s] \o hand'[s]) \o queue'[s]
  BY <1>5 DEF FeedMailbox, OutputClosed
<1>6. CASE RunWake(s) \/ (Dequeue(s) /\ queue[s] = <<>>)
  <2>1. run'[s] # "closed" /\ UNCHANGED <<hand, output, queue>>
    BY <1>2, <1>6 DEF RunWake, Dequeue, Take
  <2>2. FeedMailbox(s)' = FeedMailbox(s)
    BY <1>4, <1>5, <2>1
  <2>3. QED BY <1>3, <2>1, <2>2, StepInside
<1>7. CASE Dequeue(s) /\ queue[s] # <<>>
  <2>1. /\ run[s] = "dequeue" /\ run'[s] = "send"
        /\ hand'[s] = <<Head(queue[s])>>
        /\ queue'[s] = Tail(queue[s])
        /\ output' = output
    BY <1>2, <1>7 DEF Dequeue, Take
  <2>2. hand[s] = <<>>
    BY <2>1, StreamTypes DEF MapInv
  <2>3. output[s] \o hand[s] = output[s]
    BY <1>1, <2>2, ConcatEmptySeq
  <2>4. (output[s] \o <<Head(queue[s])>>) \o Tail(queue[s]) = output[s] \o queue[s]
    BY <1>1, <1>7, MoveHead
  <2>5. FeedMailbox(s)' = FeedMailbox(s)
    BY <1>4, <1>5, <2>1, <2>3, <2>4
  <2>6. QED BY <1>3, <2>1, <2>5, StepInside
<1>8. CASE RunSend(s)
  <2>1. /\ run'[s] = "dequeue" /\ hand'[s] = <<>>
        /\ output'[s] = output[s] \o hand[s]
        /\ queue' = queue
    BY <1>2, <1>8 DEF RunSend, Send
  <2>2. (output[s] \o hand[s]) \o <<>> = output[s] \o hand[s]
    BY <1>1, ConcatEmptySeq
  <2>3. FeedMailbox(s)' = FeedMailbox(s)
    BY <1>4, <1>5, <2>1, <2>2
  <2>4. QED BY <1>3, <2>1, <2>3, StepInside
<1>9. CASE RunDone(s)
  <2>1. run'[s] = "closed" /\ output' = output /\ watch[s] = "closed"
    BY <1>2, <1>9 DEF RunDone, RunExit, DoneClosed
  <2>2. FeedMailbox(s)' = output[s]
    BY <2>1 DEF FeedMailbox, OutputClosed
  <2>3. Phases[s] = "left" /\ FeedPhase(s)' = "closed"
    BY <1>3, <2>1 DEF Phases, FeedPhase, Registered, OutputClosed
  <2>4. Mailboxes[s] = output[s] \o (hand[s] \o queue[s])
    <3>1. \A x, y, z \in Seq(Comments) : (x \o y) \o z = x \o (y \o z)
      BY Associative
    <3>2. QED BY <1>1, <1>4, <3>1 DEF Mailboxes
  <2> DEFINE n == Len(output[s])
  <2>5. /\ n \in 0..Len(Mailboxes[s]) /\ n <= OutputCap
        /\ SubSeq(Mailboxes[s], 1, n) = output[s]
    <3> DEFINE m == Len(hand[s] \o queue[s])
    <3>1. /\ Len(output[s] \o (hand[s] \o queue[s])) = n + m
          /\ n \in Nat /\ m \in Nat
      BY <1>1, ConcatProperties, LenProperties
    <3>2. n <= OutputCap
      BY DEF MapInv, TypeInv, TypeOK
    <3>3. SubSeq(output[s] \o (hand[s] \o queue[s]), 1, n) = output[s]
      BY <1>1, StartOfConcat
    <3> HIDE DEF n, m
    <3>4. n \in 0..(n + m)
      BY <3>1
    <3>5. QED BY <2>4, <3>1, <3>2, <3>3, <3>4
  <2>6. /\ Mailboxes' = [Mailboxes EXCEPT ![s] = SubSeq(Mailboxes[s], 1, n)]
        /\ Phases' = [Phases EXCEPT ![s] = "closed"]
        /\ Statuses' = Statuses
    BY <1>3, <2>2, <2>3, <2>5, RunFrame
  <2> HIDE DEF n
  <2>7. Feed!Close(s)
    BY <1>3, <2>3, <2>5, <2>6 DEF Feed!Close, Phases, Mailboxes, Statuses
  <2>8. QED BY <2>7 DEF Feed!Next
<1>10. QED BY <1>6, <1>7, <1>8, <1>9 DEF RunStep

LEMMA ReceiveMaps ==
  ASSUME MapInv, NEW s \in Subscribers, Receive(s)
  PROVE  Feed!Next
<1>1. /\ output[s] \in Seq(Comments) /\ hand[s] \in Seq(Comments)
      /\ queue[s] \in Seq(Comments) /\ hand[s] \o queue[s] \in Seq(Comments)
      /\ output \in [Subscribers -> Seq(Comments)]
  BY MailboxParts DEF MapInv, TypeInv, TypeOK
<1>2. /\ output[s] # <<>> /\ output'[s] = Tail(output[s])
      /\ received' = [received EXCEPT ![s] = Append(received[s], Head(output[s]))]
      /\ UNCHANGED <<pub, watch, run, hand, queue, ctxDone, todo>>
      /\ \A q \in Subscribers \ {s} : output'[q] = output[q]
  BY <1>1 DEF Receive, pubVars, subVars
<1>3. /\ Mailboxes[s] # <<>> /\ Head(Mailboxes[s]) = Head(output[s])
      /\ FeedMailbox(s)' = Tail(Mailboxes[s])
  <2>1. CASE run[s] = "closed"
    BY <1>2, <2>1 DEF Mailboxes, FeedMailbox, OutputClosed
  <2>2. CASE run[s] # "closed"
    <3> DEFINE rest == hand[s] \o queue[s]
    <3>1. \A x, y, z \in Seq(Comments) : (x \o y) \o z = x \o (y \o z)
      BY Associative
    <3>2. Tail(output[s]) \in Seq(Comments)
      BY <1>1, <1>2, HeadTailProperties
    <3>3. Mailboxes[s] = output[s] \o rest
      BY <1>1, <2>2, <3>1 DEF Mailboxes, FeedMailbox, OutputClosed
    <3>4. FeedMailbox(s)' = (Tail(output[s]) \o hand[s]) \o queue[s]
      BY <1>2, <2>2 DEF FeedMailbox, OutputClosed
    <3>5. FeedMailbox(s)' = Tail(output[s]) \o rest
      BY <1>1, <3>1, <3>2, <3>4
    <3> HIDE DEF rest
    <3>6. rest \in Seq(Comments)
      BY <1>1 DEF rest
    <3>7. QED BY <1>1, <1>2, <3>3, <3>5, <3>6, TailOfConcat
  <2>3. QED BY <2>1, <2>2
<1>4. FeedPhase(s)' = FeedPhase(s)
  BY <1>2 DEF FeedPhase, Registered, OutputClosed
<1>5. /\ Phases' = Phases /\ Statuses' = Statuses
      /\ Mailboxes' = [Mailboxes EXCEPT ![s] = Tail(Mailboxes[s])]
  BY <1>2, <1>3, <1>4, RunFrame DEF Phases
<1>6. Feed!Deliver(s)
  BY <1>2, <1>3, <1>5 DEF Feed!Deliver, Phases, Mailboxes, Statuses
<1>7. QED BY <1>6 DEF Feed!Next

-----------------------------------------------------------------------------
(***************************************************************************)
(* The refinement.                                                         *)
(***************************************************************************)

LEMMA StepMaps ==
  MapInv /\ MapInv' /\ [Next]_vars => [Feed!Next]_Feed!vars
<1> SUFFICES ASSUME MapInv, MapInv', [Next]_vars
             PROVE  Feed!Next \/ UNCHANGED Feed!vars
  OBVIOUS
<1>1. CASE UNCHANGED vars
  BY <1>1, Unmoved DEF vars, pubVars, subVars, boxVars, FeedPhase, FeedMailbox,
                       FeedStatus, Registered, OutputClosed
<1>2. ASSUME NEW c \in Comments, PublishCall(c) \/ PublishStep(c)
      PROVE  Feed!Next \/ UNCHANGED Feed!vars
  BY <1>2, PublishMaps
<1>3. ASSUME NEW s \in Subscribers, SubscribeCall(s) \/ Cancel(s) \/ WatchStep(s)
      PROVE  Feed!Next \/ UNCHANGED Feed!vars
  BY <1>3, WatchMaps
<1>4. ASSUME NEW s \in Subscribers, RunStep(s) \/ Receive(s)
      PROVE  Feed!Next \/ UNCHANGED Feed!vars
  BY <1>4, RunMaps, ReceiveMaps
<1>5. QED BY <1>1, <1>2, <1>3, <1>4 DEF Next, Environment, BrokerStep, Idle

LEMMA InitMaps == Init => Feed!Init
<1> SUFFICES ASSUME Init PROVE Feed!Init
  OBVIOUS
<1>1. \A s \in Subscribers : FeedPhase(s) = "new"
  BY DEF Init, FeedPhase, Registered, OutputClosed
<1>2. \A c \in Comments : FeedStatus(c) = "new"
  BY DEF Init, FeedStatus
<1>3. \A s \in Subscribers : FeedMailbox(s) = <<>>
  <2>1. <<>> \o <<>> = <<>>
    BY ConcatEmptySeq, EmptySeq
  <2>2. QED BY <2>1 DEF Init, FeedMailbox, OutputClosed
<1>4. ctxDone = [s \in Subscribers |-> FALSE] /\ todo = [c \in Comments |-> {}]
      /\ received = [s \in Subscribers |-> <<>>]
  BY DEF Init
<1>5. QED BY <1>1, <1>2, <1>3, <1>4 DEF Feed!Init

\* The broker's locks, wake-up tokens, goroutines and channels implement the
\* feed step by step, for any number of posts, subscriptions and comments and
\* any capacity of the output channel: nobody joins or leaves while a publish
\* is under way, a publish reaches exactly the members it found, and what a
\* member takes is its mailbox in order, which only a closed one may lose.
THEOREM BrokerImplementsFeed == Spec => ImplementsFeedSteps
<1>1. Init /\ [][Next]_vars /\ []MapInv => ImplementsFeedSteps
  BY InitMaps, StepMaps, PTL DEF ImplementsFeedSteps
<1>2. QED BY <1>1, MapInvariant, PTL DEF Spec
=============================================================================
