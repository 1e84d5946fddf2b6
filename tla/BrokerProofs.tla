---------------------------- MODULE BrokerProofs ----------------------------
(***************************************************************************)
(* Theorems about Broker, for every number of posts, subscriptions and     *)
(* comments and every capacity of the output channel.                      *)
(***************************************************************************)
EXTENDS Broker, SequenceTheorems, TLAPS

-----------------------------------------------------------------------------
(***************************************************************************)
(* Type correctness.                                                       *)
(***************************************************************************)

\* run() has one comment in hand while it is at the send, and none elsewhere.
HandInv ==
    \A s \in Subscribers : Len(hand[s]) = IF run[s] = "send" THEN 1 ELSE 0

\* run() is started by Subscribe and ends only after close(done).
LifeInv ==
    \A s \in Subscribers :
        /\ watch[s] \in {"none", "subscribing"} => run[s] = "none"
        /\ run[s] = "closed" => watch[s] = "closed"

TypeInv == TypeOK /\ HandInv /\ LifeInv

LEMMA TypeInit == Init => TypeInv
<1> SUFFICES ASSUME Init PROVE TypeInv
  OBVIOUS
<1>1. /\ <<>> \in Seq(Comments)
      /\ Len(<<>>) = 0
  BY EmptySeq
<1>2. TypeOK
  BY <1>1, BrokerAssumption DEF Init, TypeOK, PubStates, WatchStates, RunStates
<1>3. HandInv
  BY <1>1 DEF Init, HandInv
<1>4. LifeInv
  BY DEF Init, LifeInv
<1>5. QED BY <1>2, <1>3, <1>4 DEF TypeInv

LEMMA TypePublish ==
  ASSUME TypeInv, NEW c \in Comments, PublishCall(c) \/ PublishStep(c)
  PROVE  TypeInv'
<1> USE DEF TypeInv, TypeOK, HandInv, LifeInv, PubStates, WatchStates, RunStates,
            registry, subVars, boxVars
<1>1. CASE PublishCall(c)
  BY <1>1 DEF PublishCall
<1>2. CASE PublishRLock(c)
  BY <1>2 DEF PublishRLock, MembersOf
<1>3. ASSUME NEW s \in Subscribers, EnqueueAppend(c, s)
      PROVE  TypeInv'
  BY <1>3 DEF EnqueueAppend
<1>4. CASE EnqueueSignal(c)
  BY <1>4 DEF EnqueueSignal, Signal
<1>5. CASE PublishReturn(c)
  BY <1>5 DEF PublishReturn
<1>6. QED BY <1>1, <1>2, <1>3, <1>4, <1>5 DEF PublishStep

LEMMA TypeWatch ==
  ASSUME TypeInv, NEW s \in Subscribers,
         SubscribeCall(s) \/ Cancel(s) \/ WatchStep(s)
  PROVE  TypeInv'
<1> USE BrokerAssumption
    DEF TypeInv, TypeOK, HandInv, LifeInv, PubStates, WatchStates, RunStates,
        registry, pubVars, boxVars
<1>1. CASE SubscribeCall(s)
  BY <1>1 DEF SubscribeCall
<1>2. CASE Subscribe(s)
  <2>1. subscribers' = [p \in DOMAIN subscribers \cup {TopicOf[s]} |->
          IF p = TopicOf[s] THEN MembersOf(TopicOf[s]) \cup {s}
                            ELSE subscribers[p]]
    BY <1>2 DEF Subscribe, Register
  <2>2. MembersOf(TopicOf[s]) \subseteq Subscribers
    BY DEF MembersOf
  <2>3. /\ DOMAIN subscribers' \subseteq Posts
        /\ subscribers' \in [DOMAIN subscribers' -> SUBSET Subscribers]
    BY <2>1, <2>2
  <2>4. /\ watch' = [watch EXCEPT ![s] = "await"]
        /\ run' = [run EXCEPT ![s] = "dequeue"]
        /\ UNCHANGED <<ctxDone, pub, todo, cur, after, audience, queue, wake,
                       hand, output, offered, received>>
    BY <1>2 DEF Subscribe, Register
  <2>5. run[s] # "send"
    BY <1>2 DEF Subscribe, Register
  <2>6. TypeOK'
    BY <2>3, <2>4
  <2>7. HandInv' /\ LifeInv'
    BY <2>4, <2>5
  <2>8. QED BY <2>6, <2>7
<1>3. CASE Cancel(s)
  BY <1>3 DEF Cancel
<1>4. CASE DeleteCall(s)
  BY <1>4 DEF DeleteCall
<1>5. CASE Delete(s)
  BY <1>5 DEF Delete, Unregister
<1>6. CASE CloseDone(s)
  BY <1>6 DEF CloseDone
<1>7. QED BY <1>1, <1>2, <1>3, <1>4, <1>5, <1>6 DEF WatchStep

LEMMA TypeRun ==
  ASSUME TypeInv, NEW s \in Subscribers, RunStep(s) \/ Receive(s)
  PROVE  TypeInv'
<1> USE DEF TypeInv, registry, pubVars, subVars
<1>0. /\ Len(<<>>) = 0
      /\ <<>> \in Seq(Comments)
      /\ run \in [Subscribers -> RunStates]
      /\ hand \in [Subscribers -> Seq(Comments)]
      /\ output[s] \in Seq(Comments)
      /\ Len(output[s]) \in Nat
      /\ OutputCap \in Nat
  BY EmptySeq, LenProperties, BrokerAssumption DEF TypeOK
<1>1. CASE Dequeue(s) /\ queue[s] = <<>>
  <2>1. /\ run[s] = "dequeue"
        /\ run' = [run EXCEPT ![s] = "wait"]
        /\ UNCHANGED <<subscribers, pub, todo, cur, ctxDone, watch, queue, wake,
                       hand, output, offered, received, after, audience>>
    BY <1>1 DEF Dequeue, Take
  <2>2. TypeOK'
    BY <2>1 DEF TypeOK, RunStates
  <2>3. HandInv'
    BY <1>0, <2>1 DEF HandInv
  <2>4. LifeInv'
    BY <1>0, <2>1 DEF LifeInv
  <2>5. QED BY <2>2, <2>3, <2>4
<1>2. CASE Dequeue(s) /\ queue[s] # <<>>
  <2>1. /\ run[s] = "dequeue"
        /\ run' = [run EXCEPT ![s] = "send"]
        /\ hand' = [hand EXCEPT ![s] = <<Head(queue[s])>>]
        /\ queue' = [queue EXCEPT ![s] = Tail(queue[s])]
        /\ UNCHANGED <<subscribers, pub, todo, cur, ctxDone, watch, wake,
                       output, offered, received, after, audience>>
    BY <1>2 DEF Dequeue, Take
  <2>2. /\ Head(queue[s]) \in Comments
        /\ Tail(queue[s]) \in Seq(Comments)
    BY <1>2, HeadTailProperties DEF TypeOK
  <2>3. TypeOK'
    BY <2>1, <2>2 DEF TypeOK, RunStates
  <2>4. HandInv'
    <3>1. /\ hand'[s] = <<Head(queue[s])>>
          /\ run'[s] = "send"
          /\ \A q \in Subscribers \ {s} : hand'[q] = hand[q] /\ run'[q] = run[q]
      BY <1>0, <2>1
    <3>2. Len(hand'[s]) = 1
      BY <3>1
    <3>3. QED BY <1>0, <3>1, <3>2 DEF HandInv
  <2>5. LifeInv'
    BY <1>0, <2>1 DEF LifeInv
  <2>6. QED BY <2>3, <2>4, <2>5
<1>3. CASE RunSend(s)
  <2>1. /\ run[s] = "send"
        /\ Len(output[s]) < OutputCap
        /\ output' = [output EXCEPT ![s] = output[s] \o hand[s]]
        /\ hand' = [hand EXCEPT ![s] = <<>>]
        /\ run' = [run EXCEPT ![s] = "dequeue"]
        /\ UNCHANGED <<subscribers, pub, todo, cur, ctxDone, watch, queue, wake,
                       offered, received, after, audience>>
    BY <1>3 DEF RunSend, HasRoom, Send
  <2>2. Len(hand[s]) = 1
    BY <2>1 DEF HandInv
  <2>3. /\ output[s] \o hand[s] \in Seq(Comments)
        /\ Len(output[s] \o hand[s]) = Len(output[s]) + Len(hand[s])
    BY <1>0, ConcatProperties
  <2>4. TypeOK'
    BY <1>0, <2>1, <2>2, <2>3 DEF TypeOK, RunStates
  <2>5. HandInv'
    <3>1. /\ hand'[s] = <<>>
          /\ run'[s] = "dequeue"
          /\ \A q \in Subscribers \ {s} : hand'[q] = hand[q] /\ run'[q] = run[q]
      BY <1>0, <2>1
    <3>2. QED BY <1>0, <3>1 DEF HandInv
  <2>6. LifeInv'
    BY <1>0, <2>1 DEF LifeInv
  <2>7. QED BY <2>4, <2>5, <2>6
<1>4. CASE RunWake(s)
  <2>1. TypeOK'
    BY <1>4 DEF RunWake, TypeOK, RunStates
  <2>2. HandInv'
    BY <1>0, <1>4 DEF RunWake, HandInv
  <2>3. LifeInv'
    BY <1>0, <1>4 DEF RunWake, LifeInv
  <2>4. QED BY <2>1, <2>2, <2>3
<1>5. CASE RunDone(s)
  <2>1. TypeOK'
    BY <1>0, <1>5 DEF RunDone, RunExit, TypeOK, RunStates
  <2>2. HandInv'
    <3>1. /\ hand'[s] = <<>>
          /\ run'[s] = "closed"
          /\ \A q \in Subscribers \ {s} : hand'[q] = hand[q] /\ run'[q] = run[q]
      BY <1>0, <1>5 DEF RunDone, RunExit
    <3>2. QED BY <1>0, <3>1 DEF HandInv
  <2>3. LifeInv'
    BY <1>0, <1>5 DEF RunDone, RunExit, DoneClosed, LifeInv
  <2>4. QED BY <2>1, <2>2, <2>3
<1>6. CASE Receive(s)
  <2>1. /\ Head(output[s]) \in Comments
        /\ Tail(output[s]) \in Seq(Comments)
        /\ Len(Tail(output[s])) = Len(output[s]) - 1
    BY <1>0, <1>6, HeadTailProperties DEF Receive
  <2>2. TypeOK'
    BY <1>0, <1>6, <2>1 DEF Receive, TypeOK
  <2>3. HandInv' /\ LifeInv'
    BY <1>6 DEF Receive, HandInv, LifeInv
  <2>4. QED BY <2>2, <2>3
<1>7. QED BY <1>1, <1>2, <1>3, <1>4, <1>5, <1>6 DEF RunStep

LEMMA TypeNext == TypeInv /\ [Next]_vars => TypeInv'
<1> SUFFICES ASSUME TypeInv, [Next]_vars PROVE TypeInv'
  OBVIOUS
<1>1. CASE Next
  BY <1>1, TypePublish, TypeWatch, TypeRun
     DEF Next, Environment, BrokerStep, Idle, vars, registry, pubVars, subVars,
         boxVars, TypeInv, TypeOK, HandInv, LifeInv
<1>2. CASE UNCHANGED vars
  BY <1>2 DEF vars, registry, pubVars, subVars, boxVars, TypeInv, TypeOK, HandInv, LifeInv
<1>3. QED BY <1>1, <1>2

LEMMA TypeInvariant == Spec => []TypeInv
<1>1. QED BY TypeInit, TypeNext, PTL DEF Spec

\* Every variable keeps its type and no output channel ever holds more than
\* its capacity, which rests on run() having at most one comment in hand.
THEOREM TypeCorrect == Spec => []TypeOK
<1>1. TypeInv => TypeOK
  BY DEF TypeInv
<1>2. QED BY <1>1, TypeInvariant, PTL

-----------------------------------------------------------------------------
(***************************************************************************)
(* The registry.                                                           *)
(***************************************************************************)

LEMMA RegistryInit == Init => RegistryExact
<1>1. QED BY DEF Init, RegistryExact, MembersOf, Registered

LEMMA RegistryWatch ==
  ASSUME TypeOK, RegistryExact, NEW s \in Subscribers,
         SubscribeCall(s) \/ Cancel(s) \/ WatchStep(s)
  PROVE  RegistryExact'
<1>1. /\ TopicOf[s] \in Posts
      /\ watch \in [Subscribers -> WatchStates]
      /\ DOMAIN subscribers \subseteq Posts
  BY BrokerAssumption DEF TypeOK
<1>2. CASE SubscribeCall(s) \/ Cancel(s) \/ DeleteCall(s) \/ CloseDone(s)
  <2>1. /\ subscribers' = subscribers
        /\ watch'[s] # "lost"
        /\ watch'[s] \in {"await", "removing"} <=> watch[s] \in {"await", "removing"}
        /\ \A q \in Subscribers \ {s} : watch'[q] = watch[q]
    BY <1>1, <1>2 DEF SubscribeCall, Cancel, DeleteCall, CloseDone, registry,
                      RegistryExact
  <2>2. \A q \in Subscribers : Registered(q)' <=> Registered(q)
    BY <2>1 DEF Registered
  <2>3. QED BY <2>1, <2>2 DEF RegistryExact, MembersOf
<1>3. CASE Subscribe(s)
  <2>1. /\ subscribers' = [p \in DOMAIN subscribers \cup {TopicOf[s]} |->
             IF p = TopicOf[s] THEN MembersOf(TopicOf[s]) \cup {s}
                               ELSE subscribers[p]]
        /\ watch' = [watch EXCEPT ![s] = "await"]
    BY <1>3 DEF Subscribe, Register
  <2>2. \A q \in Subscribers : Registered(q)' <=> Registered(q) \/ q = s
    BY <1>1, <2>1 DEF Registered
  <2>3. \A p \in Posts : MembersOf(p)' =
             IF p = TopicOf[s] THEN MembersOf(p) \cup {s} ELSE MembersOf(p)
    BY <2>1 DEF MembersOf
  <2>4. \A p \in Posts :
          MembersOf(p)' = {q \in Subscribers : Registered(q) /\ TopicOf[q] = p}'
    BY <2>2, <2>3 DEF RegistryExact
  <2>5. \A p \in DOMAIN subscribers' : subscribers'[p] # {}
    BY <2>1 DEF RegistryExact
  <2>6. \A q \in Subscribers : watch'[q] # "lost"
    BY <1>1, <2>1 DEF RegistryExact
  <2>7. QED BY <2>4, <2>5, <2>6 DEF RegistryExact
<1>4. CASE Delete(s)
  <2>1. s \in MembersOf(TopicOf[s])
    BY <1>1, <1>4 DEF Delete, Unregister, RegistryExact, Registered
  <2>2. TopicOf[s] \in DOMAIN subscribers /\ s \in subscribers[TopicOf[s]]
    BY <2>1 DEF MembersOf
  <2>3. /\ watch' = [watch EXCEPT ![s] = "close"]
        /\ subscribers' = [p \in DOMAIN subscribers \ Emptied(s) |->
             IF p = TopicOf[s] THEN subscribers[p] \ {s} ELSE subscribers[p]]
    BY <1>4, <2>2 DEF Delete, Unregister
  <2>4. \A p : p \in Emptied(s) <=> p = TopicOf[s] /\ subscribers[p] = {s}
    BY <2>2 DEF Emptied, MembersOf
  <2>5. \A q \in Subscribers : Registered(q)' <=> Registered(q) /\ q # s
    BY <1>1, <2>3 DEF Registered
  <2>6. \A p \in Posts : MembersOf(p)' =
             IF p = TopicOf[s] THEN MembersOf(p) \ {s} ELSE MembersOf(p)
    BY <2>3, <2>4 DEF MembersOf
  <2>7. \A p \in Posts :
          MembersOf(p)' = {q \in Subscribers : Registered(q) /\ TopicOf[q] = p}'
    BY <2>5, <2>6 DEF RegistryExact
  <2>8. \A p \in DOMAIN subscribers' : subscribers'[p] # {}
    BY <2>2, <2>3, <2>4 DEF RegistryExact
  <2>9. \A q \in Subscribers : watch'[q] # "lost"
    BY <1>1, <2>3 DEF RegistryExact
  <2>10. QED BY <2>7, <2>8, <2>9 DEF RegistryExact
<1>5. QED BY <1>2, <1>3, <1>4 DEF WatchStep

LEMMA RegistryNext == TypeOK /\ RegistryExact /\ [Next]_vars => RegistryExact'
<1> SUFFICES ASSUME TypeOK, RegistryExact, [Next]_vars PROVE RegistryExact'
  OBVIOUS
<1>1. ASSUME NEW s \in Subscribers, SubscribeCall(s) \/ Cancel(s) \/ WatchStep(s)
      PROVE  RegistryExact'
  BY <1>1, RegistryWatch
<1>2. ASSUME UNCHANGED <<subscribers, watch>>
      PROVE  RegistryExact'
  BY <1>2 DEF RegistryExact, MembersOf, Registered
<1>3. ASSUME NEW c \in Comments, PublishCall(c) \/ PublishStep(c)
      PROVE  UNCHANGED <<subscribers, watch>>
  BY <1>3 DEF PublishCall, PublishStep, PublishRLock, EnqueueAppend,
              EnqueueSignal, Signal, PublishReturn, registry, subVars
<1>4. ASSUME NEW s \in Subscribers, RunStep(s) \/ Receive(s)
      PROVE  UNCHANGED <<subscribers, watch>>
  BY <1>4 DEF RunStep, Dequeue, Take, RunSend, Send, RunWake, RunDone, RunExit,
              Receive, registry, subVars
<1>5. CASE UNCHANGED vars
  BY <1>2, <1>5 DEF vars, registry, subVars
<1>6. QED BY <1>1, <1>2, <1>3, <1>4, <1>5
          DEF Next, Environment, BrokerStep, Idle

\* The registry holds exactly the live subscriptions and no empty entry, and
\* the watcher always finds the subscriber it removes: its two early returns,
\* which would leave run() running for ever, are dead code.
THEOREM RegistryIsExact == Spec => []RegistryExact
<1>1. QED BY RegistryInit, RegistryNext, TypeCorrect, PTL DEF Spec

-----------------------------------------------------------------------------
(***************************************************************************)
(* The range loop of Publish, and the wake-up token.                       *)
(***************************************************************************)

\* A publisher is inside enqueue exactly when it is at the signal, and has
\* nobody left to visit before and after its loop.
LoopInv ==
    \A c \in Comments :
        /\ pub[c] = "signal" <=> cur[c] # NoSubscriber
        /\ pub[c] \notin {"range", "signal"} => todo[c] = {}

RangeInv == LoopInv /\ RangedMapIsStable

LEMMA RangeInit == Init => RangeInv
<1>1. QED BY DEF Init, RangeInv, LoopInv, RangedMapIsStable

LEMMA RangePublish ==
  ASSUME TypeOK, RangeInv, NEW c \in Comments, PublishCall(c) \/ PublishStep(c)
  PROVE  RangeInv'
<1> USE BrokerAssumption
    DEF TypeOK, RangeInv, LoopInv, RangedMapIsStable, Ahead, MembersOf,
        registry, subVars, boxVars
<1>1. CASE PublishCall(c)
  BY <1>1 DEF PublishCall
<1>2. CASE PublishRLock(c)
  BY <1>2 DEF PublishRLock
<1>3. ASSUME NEW s \in Subscribers, EnqueueAppend(c, s)
      PROVE  RangeInv'
  <2>1. /\ s # NoSubscriber /\ s \in todo[c] /\ pub[c] = "range"
        /\ pub'[c] = "signal" /\ cur'[c] = s /\ todo'[c] = todo[c] \ {s}
        /\ \A d \in Comments \ {c} :
              pub'[d] = pub[d] /\ cur'[d] = cur[d] /\ todo'[d] = todo[d]
        /\ subscribers' = subscribers
    BY <1>3 DEF EnqueueAppend
  <2>2. LoopInv'
    BY <2>1
  <2>3. Ahead(c)' \subseteq Ahead(c)
    BY <2>1
  <2>4. RangedMapIsStable'
    BY <2>1, <2>3
  <2>5. QED BY <2>2, <2>4
<1>4. CASE EnqueueSignal(c)
  BY <1>4 DEF EnqueueSignal, Signal
<1>5. CASE PublishReturn(c)
  BY <1>5 DEF PublishReturn
<1>6. QED BY <1>1, <1>2, <1>3, <1>4, <1>5 DEF PublishStep

LEMMA RangeNext == TypeOK /\ RangeInv /\ [Next]_vars => RangeInv'
<1> SUFFICES ASSUME TypeOK, RangeInv, [Next]_vars PROVE RangeInv'
  OBVIOUS
<1>1. ASSUME NEW c \in Comments, PublishCall(c) \/ PublishStep(c)
      PROVE  RangeInv'
  BY <1>1, RangePublish
<1>2. ASSUME UNCHANGED <<pub, todo, cur>>, subscribers' = subscribers \/ Readers = {}
      PROVE  RangeInv'
  <2>1. LoopInv'
    BY <1>2 DEF RangeInv, LoopInv
  <2>2. RangedMapIsStable'
    BY <1>2 DEF RangeInv, RangedMapIsStable, Ahead, MembersOf, Readers
  <2>3. QED BY <2>1, <2>2 DEF RangeInv
<1>3. ASSUME NEW s \in Subscribers, SubscribeCall(s) \/ Cancel(s) \/ WatchStep(s)
      PROVE  UNCHANGED <<pub, todo, cur>> /\ (subscribers' = subscribers \/ Readers = {})
  BY <1>3 DEF SubscribeCall, Cancel, WatchStep, Subscribe, Register, DeleteCall,
              Delete, Unregister, CloseDone, registry, pubVars
<1>4. ASSUME NEW s \in Subscribers, RunStep(s) \/ Receive(s)
      PROVE  UNCHANGED <<pub, todo, cur, subscribers>>
  BY <1>4 DEF RunStep, Dequeue, Take, RunSend, Send, RunWake, RunDone, RunExit,
              Receive, registry, pubVars
<1>5. CASE UNCHANGED vars
  BY <1>2, <1>5 DEF vars, registry, pubVars
<1>6. QED BY <1>1, <1>2, <1>3, <1>4, <1>5
          DEF Next, Environment, BrokerStep, Idle

LEMMA RangeInvariant == Spec => []RangeInv
<1>1. QED BY RangeInit, RangeNext, TypeCorrect, PTL DEF Spec

\* While Publish ranges over the map of a post, no subscriber it has still to
\* visit is deleted from that map.
THEOREM RangedMapStaysStable == Spec => []RangedMapIsStable
<1>1. RangeInv => RangedMapIsStable
  BY DEF RangeInv
<1>2. QED BY <1>1, RangeInvariant, PTL

\* When the reader sees the end of the stream, no publisher holds on to the
\* subscriber any more: nothing can be enqueued after the close.
THEOREM ClosedStreamIsFinal == Spec => []ClosedIsFinal
<1>1. ASSUME TypeInv, RegistryExact, RangeInv
      PROVE  ClosedIsFinal
  <2>1. SUFFICES ASSUME NEW s \in Subscribers, run[s] = "closed"
                 PROVE  /\ \A p \in DOMAIN subscribers : s \notin subscribers[p]
                        /\ \A c \in Comments : s \notin Ahead(c)
    BY DEF ClosedIsFinal, OutputClosed
  <2>2. ~Registered(s)
    BY <1>1, <2>1 DEF TypeInv, LifeInv, Registered
  <2>3. \A p \in Posts : s \notin MembersOf(p)
    BY <1>1, <2>2 DEF RegistryExact
  <2>4. \A p \in DOMAIN subscribers : s \notin subscribers[p]
    BY <1>1, <2>3 DEF TypeInv, TypeOK, MembersOf
  <2>5. ASSUME NEW c \in Comments PROVE s \notin Ahead(c)
    <3>1. CASE pub[c] \in {"range", "signal"}
      BY <1>1, <2>3, <3>1, BrokerAssumption DEF RangeInv, RangedMapIsStable
    <3>2. CASE pub[c] \notin {"range", "signal"}
      BY <1>1, <3>2 DEF RangeInv, LoopInv, Ahead
    <3>3. QED BY <3>1, <3>2
  <2>6. QED BY <2>4, <2>5
<1>2. QED BY <1>1, TypeInvariant, RegistryIsExact, RangeInvariant, PTL

-----------------------------------------------------------------------------
\* enqueue and run() never lose a wake-up: the append happens before the send
\* on wake, so whenever run() parks with something in its queue a token is in
\* the channel or its publisher is about to put one there.
LEMMA WakeNext ==
  TypeInv /\ RangeInv /\ NoLostWakeup /\ [Next]_vars => NoLostWakeup'
<1> SUFFICES ASSUME TypeInv, RangeInv, NoLostWakeup, [Next]_vars
             PROVE  NoLostWakeup'
  OBVIOUS
<1> USE DEF NoLostWakeup
<1>0. TypeOK /\ LoopInv
  BY DEF TypeInv, RangeInv
<1>1. ASSUME NEW c \in Comments, PublishCall(c) \/ PublishRLock(c) \/ PublishReturn(c)
      PROVE  NoLostWakeup'
  <2>1. /\ UNCHANGED <<cur, run, queue, wake>>
        /\ \A d \in Comments : pub[d] = "signal" => pub'[d] = "signal"
    BY <1>0, <1>1 DEF TypeOK, PublishCall, PublishRLock, PublishReturn, boxVars
  <2>2. QED BY <2>1
<1>2. ASSUME NEW c \in Comments, NEW s \in Subscribers, EnqueueAppend(c, s)
      PROVE  NoLostWakeup'
  <2>1. /\ UNCHANGED <<run, wake>>
        /\ pub'[c] = "signal" /\ cur'[c] = s
        /\ \A d \in Comments \ {c} : pub'[d] = pub[d] /\ cur'[d] = cur[d]
        /\ pub[c] # "signal"
        /\ \A q \in Subscribers \ {s} : queue'[q] = queue[q]
    BY <1>0, <1>2 DEF TypeOK, EnqueueAppend
  <2>2. QED BY <2>1
<1>3. ASSUME NEW c \in Comments, EnqueueSignal(c)
      PROVE  NoLostWakeup'
  <2>1. cur[c] \in Subscribers
    BY <1>0, <1>3 DEF TypeOK, LoopInv, EnqueueSignal, Signal
  <2>2. /\ UNCHANGED <<run, queue>>
        /\ wake'[cur[c]] = TRUE
        /\ \A q \in Subscribers : wake[q] => wake'[q]
        /\ \A d \in Comments \ {c} : pub'[d] = pub[d] /\ cur'[d] = cur[d]
    BY <1>0, <1>3, <2>1 DEF TypeOK, EnqueueSignal, Signal
  <2>3. QED BY <2>1, <2>2
<1>4. ASSUME NEW s \in Subscribers, SubscribeCall(s) \/ Cancel(s) \/ WatchStep(s)
      PROVE  NoLostWakeup'
  <2>1. /\ UNCHANGED <<pub, cur, queue, wake>>
        /\ \A q \in Subscribers : run'[q] = "wait" => run[q] = "wait"
    BY <1>0, <1>4 DEF TypeOK, SubscribeCall, Cancel, WatchStep, Subscribe,
         Register, DeleteCall, Delete, Unregister, CloseDone, boxVars, pubVars
  <2>2. QED BY <2>1
<1>5. ASSUME NEW s \in Subscribers, RunStep(s)
      PROVE  NoLostWakeup'
  <2>1. /\ UNCHANGED <<pub, cur>>
        /\ run'[s] = "wait" => queue'[s] = <<>>
        /\ \A q \in Subscribers \ {s} :
              run'[q] = run[q] /\ queue'[q] = queue[q] /\ wake'[q] = wake[q]
    BY <1>0, <1>5 DEF TypeOK, RunStep, Dequeue, Take, RunSend, Send, RunWake,
         RunDone, RunExit, pubVars
  <2>2. QED BY <2>1
<1>6. ASSUME NEW s \in Subscribers, Receive(s)
      PROVE  NoLostWakeup'
  BY <1>6 DEF Receive, pubVars
<1>7. CASE UNCHANGED vars
  BY <1>7 DEF vars, boxVars, pubVars
<1>8. QED BY <1>1, <1>2, <1>3, <1>4, <1>5, <1>6, <1>7
          DEF Next, Environment, BrokerStep, PublishStep, Idle

\* No interleaving of publishers with run() loses the wake-up of a subscriber.
THEOREM WakeupIsNeverLost == Spec => []NoLostWakeup
<1>1. Init => NoLostWakeup
  BY DEF Init, NoLostWakeup
<1>2. QED BY <1>1, WakeNext, TypeInvariant, RangeInvariant, PTL DEF Spec

-----------------------------------------------------------------------------
(***************************************************************************)
(* Sequences.                                                              *)
(***************************************************************************)

\* Associativity, for the sequences of comments below.
LEMMA Associative ==
  \A x, y, z \in Seq(Comments) : (x \o y) \o z = x \o (y \o z)
<1>1. QED BY ConcatAssociative

LEMMA ShortSeq ==
  ASSUME NEW S, NEW x \in S
  PROVE  <<x>> \in Seq(S) /\ Len(<<x>>) = 1 /\ <<x>>[1] = x
<1>1. QED OBVIOUS

\* Appending to the last of two sequences appends to their concatenation.
LEMMA AppendToConcat ==
  ASSUME NEW S, NEW a \in Seq(S), NEW q \in Seq(S), NEW x \in S
  PROVE  a \o Append(q, x) = Append(a \o q, x)
<1>1. a \o q \in Seq(S) /\ <<x>> \in Seq(S)
  BY ConcatProperties, ShortSeq
<1>2. a \o Append(q, x) = a \o (q \o <<x>>)
  BY AppendIsConcat
<1>3. Append(a \o q, x) = (a \o q) \o <<x>>
  BY <1>1, AppendIsConcat
<1>4. QED BY <1>1, <1>2, <1>3, ConcatAssociative

\* A sequence is its head and its tail.
LEMMA HeadThenTail ==
  ASSUME NEW S, NEW q \in Seq(S), q # <<>>
  PROVE  q = <<Head(q)>> \o Tail(q)
<1> DEFINE h == <<Head(q)>>
<1>1. /\ Head(q) \in S
      /\ Tail(q) \in Seq(S)
      /\ Len(q) \in Nat \ {0}
      /\ Len(Tail(q)) = Len(q) - 1
      /\ \A i \in 1..Len(Tail(q)) : Tail(q)[i] = q[i + 1]
  BY HeadTailProperties, EmptySeq
<1>2. /\ h \in Seq(S) /\ Len(h) = 1
      /\ h[1] = q[1]
  BY <1>1, ShortSeq
<1> HIDE DEF h
<1>3. /\ h \o Tail(q) \in Seq(S)
      /\ Len(h \o Tail(q)) = Len(q)
      /\ \A i \in 1..Len(q) :
            (h \o Tail(q))[i] = IF i <= 1 THEN h[i] ELSE Tail(q)[i - 1]
  <2>1. /\ h \o Tail(q) \in Seq(S)
        /\ Len(h \o Tail(q)) = Len(h) + Len(Tail(q))
        /\ \A i \in 1..(Len(h) + Len(Tail(q))) :
              (h \o Tail(q))[i] = IF i <= Len(h) THEN h[i]
                                                 ELSE Tail(q)[i - Len(h)]
    BY <1>1, <1>2, ConcatProperties
  <2>2. Len(h) + Len(Tail(q)) = Len(q)
    BY <1>1, <1>2
  <2>3. QED BY <1>2, <2>1, <2>2
<1>4. \A i \in 1..Len(q) : q[i] = (h \o Tail(q))[i]
  BY <1>1, <1>2, <1>3
<1>5. q = h \o Tail(q)
  BY <1>3, <1>4, SeqEqual
<1>6. QED BY <1>5 DEF h

\* Moving the head of one sequence to the end of the one before it.
LEMMA MoveHead ==
  ASSUME NEW S, NEW a \in Seq(S), NEW q \in Seq(S), q # <<>>
  PROVE  /\ (a \o <<Head(q)>>) \o Tail(q) = a \o q
         /\ Append(a, Head(q)) \o Tail(q) = a \o q
<1>1. /\ Head(q) \in S /\ Tail(q) \in Seq(S)
      /\ <<Head(q)>> \in Seq(S)
  BY HeadTailProperties, ShortSeq
<1>2. (a \o <<Head(q)>>) \o Tail(q) = a \o (<<Head(q)>> \o Tail(q))
  BY <1>1, ConcatAssociative
<1>3. Append(a, Head(q)) = a \o <<Head(q)>>
  BY <1>1, AppendIsConcat
<1>4. QED BY <1>2, <1>3, HeadThenTail

LEMMA PrefixElements ==
  ASSUME NEW S, NEW a \in Seq(S), NEW b \in Seq(S)
  PROVE  IsPrefix(a, b) <=> /\ Len(a) <= Len(b)
                            /\ \A i \in 1..Len(a) : a[i] = b[i]
<1>1. /\ Len(a) \in Nat /\ Len(b) \in Nat
      /\ \A i \in 1..Len(a) : a[i] \in S
      /\ \A i \in 1..Len(b) : b[i] \in S
  BY LenProperties, ElementOfSeq
<1>2. CASE Len(a) <= Len(b)
  <2>1. /\ SubSeq(a, 1, Len(a)) \in Seq(S)
        /\ Len(SubSeq(a, 1, Len(a))) = Len(a)
        /\ \A i \in 1..Len(a) : SubSeq(a, 1, Len(a))[i] = a[i]
    BY <1>1, SubSeqFull
  <2>2. /\ SubSeq(b, 1, Len(a)) \in Seq(S)
        /\ Len(SubSeq(b, 1, Len(a))) = Len(a)
        /\ \A i \in 1..Len(a) : SubSeq(b, 1, Len(a))[i] = b[i]
    BY <1>1, <1>2, SubSeqProperties
  <2>3. SubSeq(a, 1, Len(a)) = SubSeq(b, 1, Len(a)) <=>
           \A i \in 1..Len(a) : a[i] = b[i]
    BY <2>1, <2>2, SeqEqual
  <2>4. QED BY <1>2, <2>3 DEF IsPrefix
<1>3. QED BY <1>2 DEF IsPrefix

LEMMA PrefixOfConcat ==
  ASSUME NEW S, NEW a \in Seq(S), NEW b \in Seq(S)
  PROVE  IsPrefix(a, a \o b)
<1>1. /\ a \o b \in Seq(S) /\ Len(a) \in Nat /\ Len(b) \in Nat
      /\ Len(a \o b) = Len(a) + Len(b)
      /\ \A i \in 1..Len(a) : (a \o b)[i] = a[i]
  BY ConcatProperties, LenProperties
<1>2. Len(a) <= Len(a \o b)
  BY <1>1
<1>3. QED BY <1>1, <1>2, PrefixElements

LEMMA PrefixOfAppend ==
  ASSUME NEW S, NEW a \in Seq(S), NEW b \in Seq(S), NEW x \in S, IsPrefix(a, b)
  PROVE  IsPrefix(a, Append(b, x))
<1>1. /\ Append(b, x) \in Seq(S) /\ Len(a) \in Nat /\ Len(b) \in Nat
      /\ Len(Append(b, x)) = Len(b) + 1
      /\ \A i \in 1..Len(b) : Append(b, x)[i] = b[i]
  BY AppendProperties, LenProperties
<1>2. Len(a) <= Len(b) /\ \A i \in 1..Len(a) : a[i] = b[i]
  BY PrefixElements
<1>3. Len(a) <= Len(Append(b, x)) /\ \A i \in 1..Len(a) : a[i] = Append(b, x)[i]
  BY <1>1, <1>2
<1>4. QED BY <1>1, <1>3, PrefixElements

-----------------------------------------------------------------------------
(***************************************************************************)
(* The stream of a subscriber.                                             *)
(***************************************************************************)

\* StreamIntact for one subscriber.
Intact(s) ==
    IF OutputClosed(s) THEN IsPrefix(received[s] \o output[s], offered[s])
                       ELSE Stream(s) = offered[s]

LEMMA StreamTypes ==
  ASSUME TypeInv, NEW s \in Subscribers
  PROVE  /\ received[s] \in Seq(Comments)
         /\ output[s] \in Seq(Comments)
         /\ hand[s] \in Seq(Comments)
         /\ queue[s] \in Seq(Comments)
         /\ offered[s] \in Seq(Comments)
         /\ received[s] \o output[s] \in Seq(Comments)
         /\ (received[s] \o output[s]) \o hand[s] \in Seq(Comments)
         /\ run[s] # "send" => hand[s] = <<>>
<1>1. /\ received[s] \in Seq(Comments)
      /\ output[s] \in Seq(Comments)
      /\ hand[s] \in Seq(Comments)
      /\ queue[s] \in Seq(Comments)
      /\ offered[s] \in Seq(Comments)
  BY DEF TypeInv, TypeOK
<1>2. received[s] \o output[s] \in Seq(Comments)
  BY <1>1, ConcatProperties
<1>3. (received[s] \o output[s]) \o hand[s] \in Seq(Comments)
  BY <1>1, <1>2, ConcatProperties
<1>4. run[s] # "send" => hand[s] = <<>>
  BY <1>1, EmptySeq DEF TypeInv, HandInv
<1>5. QED BY <1>1, <1>2, <1>3, <1>4

\* Nothing about s changes but its queue, which grows by one comment.
LEMMA IntactAppend ==
  ASSUME TypeInv, NEW s \in Subscribers, NEW c \in Comments, Intact(s),
         UNCHANGED <<run, hand, output, received>>,
         queue'[s] = Append(queue[s], c), offered'[s] = Append(offered[s], c)
  PROVE  Intact(s)'
<1> DEFINE a == received[s] \o output[s]
<1>1. /\ a \in Seq(Comments) /\ a \o hand[s] \in Seq(Comments)
      /\ queue[s] \in Seq(Comments) /\ offered[s] \in Seq(Comments)
  BY StreamTypes
<1>2. /\ (received[s] \o output[s])' = a
      /\ Stream(s)' = (a \o hand[s]) \o Append(queue[s], c)
      /\ Stream(s) = (a \o hand[s]) \o queue[s]
      /\ OutputClosed(s)' <=> OutputClosed(s)
  BY DEF Stream, OutputClosed
<1> HIDE DEF a
<1>3. CASE OutputClosed(s)
  <2>1. IsPrefix(a, offered[s])
    BY <1>3 DEF Intact, a
  <2>2. IsPrefix(a, offered'[s])
    BY <1>1, <2>1, PrefixOfAppend
  <2>3. QED BY <1>2, <1>3, <2>2 DEF Intact
<1>4. CASE ~OutputClosed(s)
  <2>1. (a \o hand[s]) \o Append(queue[s], c) = Append((a \o hand[s]) \o queue[s], c)
    <3>1. \A x, q \in Seq(Comments) : x \o Append(q, c) = Append(x \o q, c)
      BY AppendToConcat
    <3>2. QED BY <1>1, <3>1
  <2>2. Stream(s)' = Append(Stream(s), c)
    BY <1>2, <2>1
  <2>3. QED BY <1>2, <1>4, <2>2 DEF Intact
<1>5. QED BY <1>3, <1>4

LEMMA IntactRun ==
  ASSUME TypeInv, NEW s \in Subscribers, Intact(s), RunStep(s)
  PROVE  Intact(s)'
<1> DEFINE a == received[s] \o output[s]
<1>1. /\ received[s] \in Seq(Comments) /\ output[s] \in Seq(Comments)
      /\ a \in Seq(Comments) /\ a \o hand[s] \in Seq(Comments)
      /\ hand[s] \in Seq(Comments) /\ queue[s] \in Seq(Comments)
      /\ run[s] # "send" => hand[s] = <<>>
  BY StreamTypes
<1>2. /\ run \in [Subscribers -> RunStates]
      /\ queue \in [Subscribers -> Seq(Comments)]
      /\ hand \in [Subscribers -> Seq(Comments)]
      /\ output \in [Subscribers -> Seq(Comments)]
  BY DEF TypeInv, TypeOK
<1>3. /\ run[s] # "closed"
      /\ UNCHANGED <<offered, received>>
  BY DEF RunStep, Dequeue, Take, RunSend, Send, RunWake, RunDone, RunExit
<1>4. (a \o hand[s]) \o queue[s] = offered[s]
  BY <1>3 DEF Intact, OutputClosed, Stream
<1>5. CASE RunWake(s) \/ (Dequeue(s) /\ queue[s] = <<>>)
  <2>1. run'[s] # "closed" /\ UNCHANGED <<hand, output, queue>>
    BY <1>2, <1>5 DEF RunWake, Dequeue, Take
  <2>2. QED BY <1>3, <1>4, <2>1 DEF Intact, OutputClosed, Stream
<1>6. CASE Dequeue(s) /\ queue[s] # <<>>
  <2>1. /\ run[s] = "dequeue" /\ run'[s] = "send"
        /\ hand'[s] = <<Head(queue[s])>>
        /\ queue'[s] = Tail(queue[s])
        /\ output' = output
    BY <1>2, <1>6 DEF Dequeue, Take
  <2>2. a \o hand[s] = a
    BY <1>1, <2>1, ConcatEmptySeq
  <2>3. (a \o <<Head(queue[s])>>) \o Tail(queue[s]) = offered[s]
    BY <1>1, <1>4, <1>6, <2>2, MoveHead
  <2>4. Stream(s)' = (a \o <<Head(queue[s])>>) \o Tail(queue[s])
    BY <1>3, <2>1 DEF Stream
  <2>5. QED BY <1>3, <2>1, <2>3, <2>4 DEF Intact, OutputClosed
<1>7. CASE RunSend(s)
  <2>1. /\ run'[s] = "dequeue" /\ hand'[s] = <<>>
        /\ output'[s] = output[s] \o hand[s]
        /\ queue' = queue
    BY <1>2, <1>7 DEF RunSend, Send
  <2>2. received[s] \o (output[s] \o hand[s]) = a \o hand[s]
    <3>1. /\ received[s] \in Seq(Comments) /\ output[s] \in Seq(Comments)
          /\ hand[s] \in Seq(Comments)
      BY <1>1
    <3>2. QED BY <3>1, Associative, Zenon
  <2>3. (a \o hand[s]) \o <<>> = a \o hand[s]
    BY <1>1, ConcatEmptySeq
  <2>4. Stream(s)' = ((received[s] \o (output[s] \o hand[s])) \o <<>>) \o queue[s]
    BY <1>3, <2>1 DEF Stream
  <2>5. QED BY <1>3, <1>4, <2>1, <2>2, <2>3, <2>4 DEF Intact, OutputClosed
<1>8. CASE RunDone(s)
  <2>1. run'[s] = "closed" /\ output' = output
    BY <1>2, <1>8 DEF RunDone, RunExit
  <2>2. (a \o hand[s]) \o queue[s] = a \o (hand[s] \o queue[s])
    <3>1. /\ a \in Seq(Comments) /\ hand[s] \in Seq(Comments)
          /\ queue[s] \in Seq(Comments)
      BY <1>1
    <3> HIDE DEF a
    <3>2. QED BY <3>1, Associative, Zenon
  <2>3. hand[s] \o queue[s] \in Seq(Comments)
    BY <1>1, ConcatProperties
  <2>4. IsPrefix(a, offered[s])
    BY <1>1, <1>4, <2>2, <2>3, PrefixOfConcat
  <2>5. QED BY <1>3, <2>1, <2>4 DEF Intact, OutputClosed
<1>9. QED BY <1>5, <1>6, <1>7, <1>8 DEF RunStep

LEMMA IntactReceive ==
  ASSUME TypeInv, NEW s \in Subscribers, Intact(s), Receive(s)
  PROVE  Intact(s)'
<1>1. received[s] \in Seq(Comments) /\ output[s] \in Seq(Comments)
  BY StreamTypes
<1>2. /\ output[s] # <<>>
      /\ output'[s] = Tail(output[s])
      /\ received'[s] = Append(received[s], Head(output[s]))
      /\ UNCHANGED <<run, queue, hand, offered>>
  BY DEF Receive, TypeInv, TypeOK
<1>3. (received[s] \o output[s])' = received[s] \o output[s]
  BY <1>1, <1>2, MoveHead
<1>4. Stream(s)' = Stream(s)
  BY <1>2, <1>3 DEF Stream
<1>5. QED BY <1>2, <1>3, <1>4 DEF Intact, OutputClosed

LEMMA IntactFrame ==
  ASSUME NEW s \in Subscribers, Intact(s),
         queue'[s] = queue[s], hand'[s] = hand[s], output'[s] = output[s],
         received'[s] = received[s], offered'[s] = offered[s],
         run'[s] = "closed" <=> run[s] = "closed"
  PROVE  Intact(s)'
<1>1. QED BY DEF Intact, OutputClosed, Stream

LEMMA StreamNext == TypeInv /\ StreamIntact /\ [Next]_vars => StreamIntact'
<1> SUFFICES ASSUME TypeInv, StreamIntact, [Next]_vars,
                    NEW q \in Subscribers
             PROVE  Intact(q)'
  BY DEF StreamIntact, Intact
<1>0. Intact(q) /\ TypeOK /\ LifeInv
  BY DEF StreamIntact, Intact, TypeInv
<1>1. ASSUME NEW c \in Comments, NEW s \in Subscribers, EnqueueAppend(c, s)
      PROVE  Intact(q)'
  <2>1. CASE q = s
    <3>1. /\ queue'[q] = Append(queue[q], c)
          /\ offered'[q] = Append(offered[q], c)
          /\ UNCHANGED <<run, hand, output, received>>
      BY <1>0, <1>1, <2>1 DEF TypeOK, EnqueueAppend
    <3>2. QED BY <1>0, <3>1, IntactAppend
  <2>2. CASE q # s
    BY <1>0, <1>1, <2>2, IntactFrame DEF TypeOK, EnqueueAppend
  <2>3. QED BY <2>1, <2>2
<1>2. ASSUME NEW c \in Comments,
             PublishCall(c) \/ PublishRLock(c) \/ EnqueueSignal(c) \/ PublishReturn(c)
      PROVE  Intact(q)'
  BY <1>0, <1>2, IntactFrame
     DEF PublishCall, PublishRLock, EnqueueSignal, Signal, PublishReturn, boxVars
<1>3. ASSUME NEW s \in Subscribers, SubscribeCall(s) \/ Cancel(s) \/ WatchStep(s)
      PROVE  Intact(q)'
  <2>1. UNCHANGED <<queue, hand, output, received, offered>>
    BY <1>3 DEF SubscribeCall, Cancel, WatchStep, Subscribe, Register, DeleteCall,
                Delete, Unregister, CloseDone, boxVars
  <2>2. run'[q] = "closed" <=> run[q] = "closed"
    BY <1>0, <1>3 DEF TypeOK, LifeInv, SubscribeCall, Cancel, WatchStep,
       Subscribe, Register, DeleteCall, Delete, Unregister, CloseDone, boxVars
  <2>3. QED BY <1>0, <2>1, <2>2, IntactFrame
<1>4. ASSUME NEW s \in Subscribers, RunStep(s) \/ Receive(s)
      PROVE  Intact(q)'
  <2>1. CASE q = s
    BY <1>0, <1>4, <2>1, IntactRun, IntactReceive
  <2>2. CASE q # s
    <3>1. /\ queue'[q] = queue[q] /\ hand'[q] = hand[q] /\ run'[q] = run[q]
          /\ output'[q] = output[q] /\ received'[q] = received[q]
          /\ offered'[q] = offered[q]
      BY <1>0, <1>4, <2>2 DEF TypeOK, RunStep, Dequeue, Take, RunSend, Send,
         RunWake, RunDone, RunExit, Receive
    <3>2. QED BY <1>0, <3>1, IntactFrame
  <2>3. QED BY <2>1, <2>2
<1>5. CASE UNCHANGED vars
  BY <1>0, <1>5, IntactFrame DEF vars, boxVars
<1>6. QED BY <1>1, <1>2, <1>3, <1>4, <1>5
          DEF Next, Environment, BrokerStep, PublishStep, Idle

\* Between enqueue and the reader no comment is lost, doubled or reordered,
\* and a closed stream is a prefix of what was enqueued.
THEOREM StreamStaysIntact == Spec => []StreamIntact
<1>1. Init => StreamIntact
  <2>1. \A s \in Subscribers : <<>> \o <<>> = <<>>
    BY ConcatEmptySeq, EmptySeq
  <2>2. QED BY <2>1 DEF Init, StreamIntact, Stream, OutputClosed
<1>2. QED BY <1>1, StreamNext, TypeInvariant, PTL DEF Spec

-----------------------------------------------------------------------------
(***************************************************************************)
(* Who gets a comment.                                                     *)
(***************************************************************************)

\* The audience of a publish are subscriptions of its post that have been set
\* up, so they can leave the registry but not enter it again.
AudienceInv ==
    \A c \in Comments : \A s \in audience[c] :
        TopicOf[s] = PostOf[c] /\ watch[s] \notin {"none", "subscribing"}

\* From the moment the range loop starts, a member of the audience that is
\* still registered is in the rest of the loop or has got the comment.
ReachInv ==
    \A c \in Comments : \A s \in audience[c] :
        pub[c] \notin {"idle", "rlock"} /\ Registered(s) =>
            s \in todo[c] \/ c \in ToSet(offered[s])

MissInv == AudienceInv /\ ReachInv

LEMMA ToSetAppend ==
  ASSUME NEW S, NEW q \in Seq(S), NEW x \in S
  PROVE  ToSet(Append(q, x)) = ToSet(q) \cup {x}
<1>1. /\ Len(q) \in Nat
      /\ DOMAIN q = 1..Len(q)
      /\ DOMAIN Append(q, x) = 1..(Len(q) + 1)
      /\ \A i \in 1..Len(q) : Append(q, x)[i] = q[i]
      /\ Append(q, x)[Len(q) + 1] = x
  BY AppendProperties, LenProperties
<1>2. \A i : i \in 1..(Len(q) + 1) <=> i \in 1..Len(q) \/ i = Len(q) + 1
  BY <1>1
<1>3. QED BY <1>1, <1>2 DEF ToSet

LEMMA MissPublish ==
  ASSUME TypeOK, RegistryExact, MissInv, NEW c \in Comments,
         PublishCall(c) \/ PublishStep(c)
  PROVE  MissInv'
<1> USE DEF TypeOK, MissInv, registry, subVars, boxVars
<1>1. CASE PublishCall(c)
  <2>1. AudienceInv'
    BY <1>1 DEF PublishCall, AudienceInv, Registered
  <2>2. ReachInv'
    BY <1>1 DEF PublishCall, ReachInv, Registered
  <2>3. QED BY <2>1, <2>2
<1>2. CASE PublishRLock(c)
  <2>1. /\ todo'[c] = MembersOf(PostOf[c])
        /\ \A d \in Comments \ {c} : todo'[d] = todo[d] /\ pub'[d] = pub[d]
        /\ UNCHANGED <<audience, watch, offered>>
    BY <1>2 DEF PublishRLock
  <2>2. AudienceInv'
    BY <2>1 DEF AudienceInv
  <2>3. \A s \in audience[c] : Registered(s) => s \in MembersOf(PostOf[c])
    BY BrokerAssumption DEF AudienceInv, RegistryExact
  <2>4. ReachInv'
    BY <2>1, <2>3 DEF ReachInv, Registered
  <2>5. QED BY <2>2, <2>4
<1>3. ASSUME NEW s \in Subscribers, EnqueueAppend(c, s)
      PROVE  MissInv'
  <2>1. /\ pub[c] = "range"
        /\ todo'[c] = todo[c] \ {s}
        /\ offered'[s] = Append(offered[s], c)
        /\ \A d \in Comments \ {c} : todo'[d] = todo[d] /\ pub'[d] = pub[d]
        /\ \A q \in Subscribers \ {s} : offered'[q] = offered[q]
        /\ UNCHANGED <<audience, watch>>
    BY <1>3 DEF EnqueueAppend
  <2>2. ToSet(offered'[s]) = ToSet(offered[s]) \cup {c}
    BY <2>1, ToSetAppend
  <2>3. AudienceInv'
    BY <2>1 DEF AudienceInv
  <2>4. ASSUME NEW d \in Comments, NEW q \in audience'[d],
               pub'[d] \notin {"idle", "rlock"}, Registered(q)'
        PROVE  q \in todo'[d] \/ d \in ToSet(offered'[q])
    <3>1. q \in Subscribers /\ q \in audience[d] /\ Registered(q)
      BY <2>1, <2>4 DEF Registered
    <3>2. pub[d] \notin {"idle", "rlock"}
      BY <2>1, <2>4
    <3>3. q \in todo[d] \/ d \in ToSet(offered[q])
      BY <3>1, <3>2 DEF ReachInv
    <3>4. ToSet(offered[q]) \subseteq ToSet(offered'[q])
      BY <2>1, <2>2, <3>1
    <3>5. q \in todo[d] => q \in todo'[d] \/ (d = c /\ q = s)
      BY <2>1
    <3>6. QED BY <2>2, <3>3, <3>4, <3>5
  <2>5. ReachInv'
    BY <2>4 DEF ReachInv
  <2>6. QED BY <2>3, <2>5
<1>4. CASE EnqueueSignal(c) \/ PublishReturn(c)
  <2>1. /\ pub[c] \in {"signal", "range"}
        /\ \A d \in Comments \ {c} : pub'[d] = pub[d]
        /\ UNCHANGED <<todo, audience, watch, offered>>
    BY <1>4 DEF EnqueueSignal, Signal, PublishReturn
  <2>2. AudienceInv' /\ ReachInv'
    BY <2>1 DEF AudienceInv, ReachInv, Registered
  <2>3. QED BY <2>2
<1>5. QED BY <1>1, <1>2, <1>3, <1>4 DEF PublishStep

LEMMA MissNext ==
  TypeOK /\ RegistryExact /\ MissInv /\ [Next]_vars => MissInv'
<1> SUFFICES ASSUME TypeOK, RegistryExact, MissInv, [Next]_vars PROVE MissInv'
  OBVIOUS
<1>1. ASSUME NEW c \in Comments, PublishCall(c) \/ PublishStep(c)
      PROVE  MissInv'
  BY <1>1, MissPublish
<1>2. ASSUME NEW s \in Subscribers, SubscribeCall(s) \/ Cancel(s) \/ WatchStep(s)
      PROVE  MissInv'
  <2>1. /\ UNCHANGED <<pub, todo, audience, offered>>
        /\ \A q \in Subscribers :
              watch[q] \notin {"none", "subscribing"} =>
                 /\ watch'[q] \notin {"none", "subscribing"}
                 /\ watch'[q] \in {"await", "removing"} =>
                       watch[q] \in {"await", "removing"}
    BY <1>2 DEF TypeOK, SubscribeCall, Cancel, WatchStep, Subscribe, Register,
                DeleteCall, Delete, Unregister, CloseDone, pubVars, boxVars
  <2>2. \A c \in Comments : audience[c] \subseteq Subscribers
    BY DEF TypeOK
  <2>3. AudienceInv'
    BY <2>1, <2>2 DEF MissInv, AudienceInv
  <2>4. ReachInv'
    BY <2>1, <2>2 DEF MissInv, AudienceInv, ReachInv, Registered
  <2>5. QED BY <2>3, <2>4 DEF MissInv
<1>3. ASSUME UNCHANGED <<pub, todo, audience, offered, watch>>
      PROVE  MissInv'
  BY <1>3 DEF MissInv, AudienceInv, ReachInv, Registered
<1>4. ASSUME NEW s \in Subscribers, RunStep(s) \/ Receive(s)
      PROVE  UNCHANGED <<pub, todo, audience, offered, watch>>
  BY <1>4 DEF RunStep, Dequeue, Take, RunSend, Send, RunWake, RunDone, RunExit,
              Receive, pubVars, subVars
<1>5. CASE UNCHANGED vars
  BY <1>3, <1>5 DEF vars, pubVars, subVars, boxVars
<1>6. QED BY <1>1, <1>2, <1>3, <1>4, <1>5
          DEF Next, Environment, BrokerStep, Idle

LEMMA MissInvariant == Spec => []MissInv
<1>1. Init => MissInv
  BY DEF Init, MissInv, AudienceInv, ReachInv
<1>2. QED BY <1>1, MissNext, TypeCorrect, RegistryIsExact, PTL DEF Spec

\* A Publish that has returned reached every subscription of the post that was
\* set up before it and lives on.
THEOREM NoCommentIsMissed == Spec => []NoMissedComment
<1>1. TypeInv /\ RangeInv /\ MissInv => NoMissedComment
  BY DEF RangeInv, LoopInv, MissInv, ReachInv, NoMissedComment
<1>2. QED BY <1>1, TypeInvariant, RangeInvariant, MissInvariant, PTL

-----------------------------------------------------------------------------
(***************************************************************************)
(* The order in which a reader sees the comments.                          *)
(***************************************************************************)

\* "Before it" means returned: a history never holds a publish under way.
AfterInv == \A c \in Comments : \A d \in after[c] : pub[d] = "returned"

\* A comment whose loop has not started, or has not come to s, is new to s.
FreshInv ==
    \A c \in Comments, s \in Subscribers :
        pub[c] \in {"idle", "rlock"} \/ s \in todo[c] =>
            \A i \in 1..Len(offered[s]) : offered[s][i] # c

\* What ReceivedInPublishOrder says of received, said of a sequence q.
Ordered(q, s) ==
    \A i \in 1..Len(q) :
        /\ PostOf[q[i]] = TopicOf[s]
        /\ \A j \in (i + 1)..Len(q) : q[j] # q[i] /\ q[j] \notin after[q[i]]

OrderInv == AfterInv /\ FreshInv /\ \A s \in Subscribers : Ordered(offered[s], s)

\* A new element of the right post that was not over before any other began.
LEMMA OrderedAppend ==
  ASSUME NEW s, NEW c \in Comments, NEW q \in Seq(Comments), Ordered(q, s),
         PostOf[c] = TopicOf[s],
         \A i \in 1..Len(q) : q[i] # c /\ c \notin after[q[i]]
  PROVE  Ordered(Append(q, c), s)
<1>1. /\ Len(q) \in Nat
      /\ Len(Append(q, c)) = Len(q) + 1
      /\ \A i \in 1..Len(q) : Append(q, c)[i] = q[i]
      /\ Append(q, c)[Len(q) + 1] = c
  BY AppendProperties, LenProperties
<1> DEFINE r == Append(q, c)
<1> HIDE DEF r
<1>2. \A i \in 1..(Len(q) + 1) : \A j \in (i + 1)..(Len(q) + 1) :
         i \in 1..Len(q) /\ (j \in (i + 1)..Len(q) \/ j = Len(q) + 1)
  BY <1>1
<1>3. \A i \in 1..(Len(q) + 1) : i \in 1..Len(q) \/ i = Len(q) + 1
  BY <1>1
<1>4. \A i \in 1..(Len(q) + 1) : PostOf[r[i]] = TopicOf[s]
  BY <1>1, <1>3 DEF Ordered, r
<1>5. \A i \in 1..(Len(q) + 1) : \A j \in (i + 1)..(Len(q) + 1) :
         r[j] # r[i] /\ r[j] \notin after[r[i]]
  <2>1. SUFFICES ASSUME NEW i \in 1..(Len(q) + 1), NEW j \in (i + 1)..(Len(q) + 1)
                 PROVE  r[j] # r[i] /\ r[j] \notin after[r[i]]
    OBVIOUS
  <2>2. i \in 1..Len(q) /\ r[i] = q[i]
    BY <1>1, <1>2 DEF r
  <2>3. CASE j = Len(q) + 1
    BY <1>1, <2>2, <2>3 DEF r
  <2>4. CASE j \in (i + 1)..Len(q)
    <3>1. j \in 1..Len(q)
      BY <1>1, <2>2, <2>4
    <3>2. r[j] = q[j]
      BY <1>1, <3>1 DEF r
    <3>3. QED BY <2>2, <2>4, <3>2 DEF Ordered
  <2>5. QED BY <1>2, <2>3, <2>4
<1>6. QED BY <1>1, <1>4, <1>5 DEF Ordered, r

LEMMA OrderPublish ==
  ASSUME TypeOK, RegistryExact, RangeInv, OrderInv, NEW c \in Comments,
         PublishCall(c) \/ PublishStep(c)
  PROVE  OrderInv'
<1> USE DEF OrderInv
<1>1. CASE PublishCall(c)
  <2>1. /\ pub[c] = "idle" /\ pub'[c] = "rlock"
        /\ \A d \in Comments \ {c} : pub'[d] = pub[d] /\ after'[d] = after[d]
        /\ after'[c] = {d \in Comments : pub[d] = "returned"}
        /\ UNCHANGED <<todo, offered>>
    BY <1>1 DEF TypeOK, PublishCall, boxVars
  <2>2. AfterInv'
    BY <2>1 DEF TypeOK, AfterInv
  <2>3. FreshInv'
    BY <2>1 DEF FreshInv
  <2>4. ASSUME NEW s \in Subscribers PROVE Ordered(offered[s], s)'
    <3>1. offered[s] \in Seq(Comments)
      BY DEF TypeOK
    <3>2. \A i \in 1..Len(offered[s]) : offered[s][i] # c /\ offered[s][i] \in Comments
      BY <2>1, <3>1, ElementOfSeq DEF FreshInv
    <3>3. \A i \in 1..Len(offered[s]) : after'[offered[s][i]] = after[offered[s][i]]
      BY <2>1, <3>2
    <3>4. Ordered(offered[s], s)
      OBVIOUS
    <3>5. QED BY <2>1, <3>3, <3>4 DEF Ordered
  <2>5. QED BY <2>2, <2>3, <2>4
<1>2. CASE PublishRLock(c)
  <2>1. /\ pub[c] = "rlock" /\ pub'[c] = "range"
        /\ \A d \in Comments \ {c} : pub'[d] = pub[d] /\ todo'[d] = todo[d]
        /\ UNCHANGED <<offered, after>>
    BY <1>2 DEF TypeOK, PublishRLock, boxVars
  <2>2. AfterInv'
    BY <2>1 DEF TypeOK, AfterInv
  <2>3. FreshInv'
    BY <2>1 DEF FreshInv
  <2>4. QED BY <2>1, <2>2, <2>3 DEF Ordered
<1>3. ASSUME NEW s \in Subscribers, EnqueueAppend(c, s)
      PROVE  OrderInv'
  <2>1. /\ pub[c] = "range" /\ pub'[c] = "signal"
        /\ s \in todo[c] /\ todo'[c] = todo[c] \ {s}
        /\ offered'[s] = Append(offered[s], c)
        /\ \A d \in Comments \ {c} : todo'[d] = todo[d] /\ pub'[d] = pub[d]
        /\ \A q \in Subscribers \ {s} : offered'[q] = offered[q]
        /\ after' = after
        /\ offered[s] \in Seq(Comments)
    BY <1>3 DEF TypeOK, EnqueueAppend
  <2>2. AfterInv'
    BY <2>1 DEF TypeOK, AfterInv
  <2>3. PostOf[c] = TopicOf[s]
    <3>1. s \in MembersOf(PostOf[c])
      BY <2>1 DEF RangeInv, RangedMapIsStable, Ahead
    <3>2. QED BY <3>1, BrokerAssumption DEF RegistryExact
  <2>4. FreshInv'
    <3>1. SUFFICES ASSUME NEW d \in Comments, NEW q \in Subscribers,
                          pub'[d] \in {"idle", "rlock"} \/ q \in todo'[d],
                          NEW i \in 1..Len(offered'[q])
                   PROVE  offered'[q][i] # d
      BY DEF FreshInv
    <3>2. pub[d] \in {"idle", "rlock"} \/ q \in todo[d]
      BY <2>1, <3>1
    <3>3. CASE q # s
      BY <2>1, <3>1, <3>2, <3>3 DEF FreshInv
    <3>4. CASE q = s
      <4>1. d # c
        BY <2>1, <3>1, <3>4
      <4>2. /\ Len(offered[s]) \in Nat
            /\ Len(offered'[s]) = Len(offered[s]) + 1
            /\ \A k \in 1..Len(offered[s]) : offered'[s][k] = offered[s][k]
            /\ offered'[s][Len(offered[s]) + 1] = c
        BY <2>1, AppendProperties, LenProperties
      <4>3. i \in 1..Len(offered[s]) \/ i = Len(offered[s]) + 1
        BY <3>1, <3>4, <4>2
      <4>4. \A k \in 1..Len(offered[s]) : offered[s][k] # d
        BY <3>2, <3>4 DEF FreshInv
      <4>5. QED BY <3>4, <4>1, <4>2, <4>3, <4>4
    <3>5. QED BY <3>3, <3>4
  <2>5. Ordered(offered[s], s) /\ \A i \in 1..Len(offered[s]) :
           offered[s][i] # c /\ c \notin after[offered[s][i]]
    <3>1. \A i \in 1..Len(offered[s]) : offered[s][i] # c /\ offered[s][i] \in Comments
      BY <2>1, ElementOfSeq DEF FreshInv
    <3>2. \A d \in Comments : c \notin after[d]
      BY <2>1 DEF AfterInv
    <3>3. QED BY <3>1, <3>2
  <2>6. Ordered(Append(offered[s], c), s)
    BY <2>1, <2>3, <2>5, OrderedAppend
  <2>7. ASSUME NEW q \in Subscribers PROVE Ordered(offered[q], q)'
    <3>1. Ordered(offered'[q], q)
      BY <2>1, <2>6
    <3>2. QED BY <2>1, <3>1 DEF Ordered
  <2>8. QED BY <2>2, <2>4, <2>7
<1>4. CASE EnqueueSignal(c) \/ PublishReturn(c)
  <2>1. /\ pub[c] \in {"signal", "range"} /\ pub'[c] \in {"range", "returned"}
        /\ \A d \in Comments \ {c} : pub'[d] = pub[d]
        /\ UNCHANGED <<todo, offered, after>>
    BY <1>4 DEF TypeOK, EnqueueSignal, Signal, PublishReturn, boxVars
  <2>2. AfterInv'
    BY <2>1 DEF TypeOK, AfterInv
  <2>3. FreshInv'
    BY <2>1 DEF FreshInv
  <2>4. QED BY <2>1, <2>2, <2>3 DEF Ordered
<1>5. QED BY <1>1, <1>2, <1>3, <1>4 DEF PublishStep

LEMMA OrderNext ==
  TypeOK /\ RegistryExact /\ RangeInv /\ OrderInv /\ [Next]_vars => OrderInv'
<1> SUFFICES ASSUME TypeOK, RegistryExact, RangeInv, OrderInv, [Next]_vars
             PROVE  OrderInv'
  OBVIOUS
<1>1. ASSUME NEW c \in Comments, PublishCall(c) \/ PublishStep(c)
      PROVE  OrderInv'
  BY <1>1, OrderPublish
<1>2. ASSUME UNCHANGED <<pub, todo, offered, after>>
      PROVE  OrderInv'
  BY <1>2 DEF OrderInv, AfterInv, FreshInv, Ordered
<1>3. ASSUME NEW s \in Subscribers, SubscribeCall(s) \/ Cancel(s) \/ WatchStep(s)
      PROVE  UNCHANGED <<pub, todo, offered, after>>
  BY <1>3 DEF SubscribeCall, Cancel, WatchStep, Subscribe, Register, DeleteCall,
              Delete, Unregister, CloseDone, pubVars, boxVars
<1>4. ASSUME NEW s \in Subscribers, RunStep(s) \/ Receive(s)
      PROVE  UNCHANGED <<pub, todo, offered, after>>
  BY <1>4 DEF RunStep, Dequeue, Take, RunSend, Send, RunWake, RunDone, RunExit,
              Receive, pubVars
<1>5. CASE UNCHANGED vars
  BY <1>2, <1>5 DEF vars, pubVars, boxVars
<1>6. QED BY <1>1, <1>2, <1>3, <1>4, <1>5
          DEF Next, Environment, BrokerStep, Idle

LEMMA OrderInvariant == Spec => []OrderInv
<1>1. Init => OrderInv
  <2>1. Len(<<>>) = 0
    BY EmptySeq
  <2>2. QED BY <2>1 DEF Init, OrderInv, AfterInv, FreshInv, Ordered
<1>2. QED BY <1>1, OrderNext, TypeCorrect, RegistryIsExact, RangeInvariant, PTL
          DEF Spec

\* What the reader has taken is a prefix of what was enqueued for it.
LEMMA ReceivedPrefix ==
  ASSUME TypeInv, StreamIntact, NEW s \in Subscribers
  PROVE  /\ Len(received[s]) <= Len(offered[s])
         /\ \A i \in 1..Len(received[s]) : received[s][i] = offered[s][i]
<1> DEFINE a == received[s] \o output[s]
<1>1. /\ received[s] \in Seq(Comments) /\ offered[s] \in Seq(Comments)
      /\ output[s] \in Seq(Comments) /\ a \in Seq(Comments)
      /\ hand[s] \in Seq(Comments) /\ queue[s] \in Seq(Comments)
  BY StreamTypes
<1>2. IsPrefix(received[s], a)
  BY <1>1, PrefixOfConcat
<1>3. IsPrefix(a, offered[s])
  <2>1. CASE OutputClosed(s)
    BY <2>1 DEF StreamIntact
  <2>2. CASE ~OutputClosed(s)
    <3> HIDE DEF a
    <3>1. (a \o hand[s]) \o queue[s] = offered[s]
      BY <2>2 DEF StreamIntact, Stream, a
    <3>2. (a \o hand[s]) \o queue[s] = a \o (hand[s] \o queue[s])
      BY <1>1, Associative, Zenon
    <3>3. hand[s] \o queue[s] \in Seq(Comments)
      BY <1>1, ConcatProperties
    <3>4. QED BY <1>1, <3>1, <3>2, <3>3, PrefixOfConcat
  <2>3. QED BY <2>1, <2>2
<1> HIDE DEF a
<1>4. /\ Len(received[s]) <= Len(a)
      /\ \A i \in 1..Len(received[s]) : received[s][i] = a[i]
  BY <1>1, <1>2, PrefixElements
<1>5. /\ Len(a) <= Len(offered[s])
      /\ \A i \in 1..Len(a) : a[i] = offered[s][i]
  BY <1>1, <1>3, PrefixElements
<1>6. Len(received[s]) \in Nat /\ Len(a) \in Nat /\ Len(offered[s]) \in Nat
  BY <1>1, LenProperties
<1>7. QED BY <1>4, <1>5, <1>6

\* A reader sees each comment of its post at most once, and never one whose
\* Publish had returned before the Publish of an earlier one began.
THEOREM ReceivedInOrder == Spec => []ReceivedInPublishOrder
<1>1. ASSUME TypeInv, StreamIntact, OrderInv
      PROVE  ReceivedInPublishOrder
  <2>1. SUFFICES ASSUME NEW s \in Subscribers
                 PROVE  Ordered(received[s], s)
    BY DEF ReceivedInPublishOrder, Ordered
  <2>2. /\ Len(received[s]) <= Len(offered[s])
        /\ \A i \in 1..Len(received[s]) : received[s][i] = offered[s][i]
    BY <1>1, ReceivedPrefix
  <2>3. Len(received[s]) \in Nat /\ Len(offered[s]) \in Nat
    BY <1>1, LenProperties DEF TypeInv, TypeOK
  <2>4. Ordered(offered[s], s)
    BY <1>1 DEF OrderInv
  <2>5. SUFFICES ASSUME NEW i \in 1..Len(received[s])
                 PROVE  /\ PostOf[received[s][i]] = TopicOf[s]
                        /\ \A j \in (i + 1)..Len(received[s]) :
                              /\ received[s][j] # received[s][i]
                              /\ received[s][j] \notin after[received[s][i]]
    BY DEF Ordered
  <2>6. /\ i \in 1..Len(offered[s])
        /\ \A j \in (i + 1)..Len(received[s]) :
              j \in (i + 1)..Len(offered[s]) /\ j \in 1..Len(received[s])
    BY <2>2, <2>3
  <2>7. QED BY <2>2, <2>4, <2>6 DEF Ordered
<1>2. QED BY <1>1, TypeInvariant, StreamStaysIntact, OrderInvariant, PTL
=============================================================================
