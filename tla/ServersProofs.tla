--------------------------- MODULE ServersProofs ---------------------------
(***************************************************************************)
(* Theorems about Servers, for any number of requests and WebSockets, any  *)
(* set of stuck handlers and any number of starts.                         *)
(***************************************************************************)
EXTENDS Servers, TLAPS

-----------------------------------------------------------------------------
(***************************************************************************)
(* The inductive invariant.  Whether a stop was clean is known long before *)
(* the exit code is: from the moment at which Shutdown has sent its result *)
(* no request is accepted, and from the moment at which GracefulStop has   *)
(* returned no handler is started.                                         *)
(***************************************************************************)

\* A state of post-service: what is open, and what its goroutines have said to
\* each other.
PostOK(p) ==
    /\ p \in PostStates
    /\ p.client => p.storage /\ p.main \in {"ready", "serving", "closed", "closing"}
    /\ p.storage => p.main \notin {"down", "open", "exit"}
    /\ p.main \in {"setup", "ready", "serving", "closed"} => p.storage
    /\ p.main \in {"down", "open", "setup"} => p.shutter = "off"
    /\ p.chan # "empty" => p.shutter = "sent"
    /\ p.chan = "nil" => Busy = {}
    /\ p.main \in {"closing", "closing storage", "exit"} /\ p.code = "0" =>
          p.shutter = "sent" /\ Busy = {}

\* A state of sso.
SsoOK(s) ==
    /\ s \in SsoStates
    /\ s.storage => s.main \notin {"down", "boot", "exit"}
    /\ s.grace = "done" => Running = {}
    /\ s.main = "collect" /\ ~s.forced => s.grace = "done"
    /\ s.main = "closing" /\ s.code = "0" /\ ~s.forced => s.grace = "done"

CallType ==
    /\ kind \in [Calls -> {"query", "api"}]
    /\ at \in [Calls -> {"new", "auth", "verify", "handle", "open", "answered",
                        "failed", "refused", "lost"}]
    /\ rpc \in [Calls -> {"none", "sent", "running", "ok", "refused", "broken"}]
    /\ handler \in [Calls -> {"none", "running"}]
    /\ verified \in [Calls -> BOOLEAN]

\* A call asks sso once: a handler that is still running has not been
\* answered for, and can only belong to a call that waits or has ended.
CallOK ==
    \A c \in Calls :
        /\ rpc[c] # "none" => at[c] = "verify"
        /\ handler[c] = "running" =>
              at[c] \in {"verify", "refused", "lost"} /\ rpc[c] \notin {"sent", "ok", "refused"}
        /\ rpc[c] = "ok" => verified[c]
        /\ at[c] \in {"handle", "open", "answered", "failed"} => verified[c]
        /\ at[c] \in {"new", "auth"} => handler[c] = "none"

Inv == PostOK(post) /\ SsoOK(sso) /\ CallType /\ CallOK

LEMMA InvInit == Init => Inv
BY ServersAssumption
   DEF Init, Inv, PostOK, SsoOK, CallType, CallOK, PostDown, SsoDown, PostStates,
       SsoStates, Busy, Inside, Running

-----------------------------------------------------------------------------
\* Steps of one process leave the other, and the calls, alone.

LEMMA PostKeeps ==
  ASSUME Inv, NEW p, Post(p), PostOK(p)
  PROVE  Inv'
<1>1. post' = p /\ UNCHANGED <<sso, kind, at, rpc, handler, verified>>
  BY DEF Post, callVars
<1>2. Busy' = Busy /\ Running' = Running
  BY <1>1 DEF Busy, Inside, Running
<1>3. PostOK(post)'
  BY <1>1, <1>2 DEF PostOK
<1>4. SsoOK(sso)'
  BY <1>1, <1>2 DEF SsoOK, Inv
<1>5. QED BY <1>1, <1>3, <1>4 DEF Inv, CallType, CallOK

LEMMA SsoKeeps ==
  ASSUME Inv, NEW s, Sso(s), SsoOK(s)
  PROVE  Inv'
<1>1. sso' = s /\ UNCHANGED <<post, kind, at, rpc, handler, verified>>
  BY DEF Sso, callVars
<1>2. Busy' = Busy /\ Running' = Running
  BY <1>1 DEF Busy, Inside, Running
<1>3. PostOK(post)'
  BY <1>1, <1>2 DEF PostOK, Inv
<1>4. SsoOK(sso)'
  BY <1>1, <1>2 DEF SsoOK
<1>5. QED BY <1>1, <1>3, <1>4 DEF Inv, CallType, CallOK

LEMMA PostSteps ==
  ASSUME Inv,
         \/ Start \/ OpenStorage \/ Migrate \/ Listen \/ AcceptFails \/ Interrupt
         \/ Shutdown \/ ShutdownDone \/ ShutdownExpires \/ ServerClosed \/ Collect
         \/ CloseClient \/ CloseStorage
  PROVE  Inv'
<1> DEFINE Fine(p) == Post(p) /\ PostOK(p)
<1> USE DEF Inv, PostOK, PostStates, Returns
<1>1. CASE Start
  <2>1. post.lives + 1 \in 0..MaxLives
    <3>1. post.lives \in 0..MaxLives
      OBVIOUS
    <3>2. post.lives < MaxLives /\ MaxLives \in Nat
      BY <1>1, ServersAssumption DEF Start
    <3> HIDE DEF Inv
    <3>3. QED BY <3>1, <3>2
  <2>2. Fine([PostDown EXCEPT !.main = "open", !.lives = post.lives + 1])
    BY <1>1, <2>1 DEF Start, PostDown
  <2>3. QED BY <2>2, PostKeeps
<1>2. CASE OpenStorage
  <2>1. \/ Fine([post EXCEPT !.main = "setup", !.storage = TRUE])
        \/ Fine(Returns(post, "1"))
    BY <1>2 DEF OpenStorage
  <2>2. QED BY <2>1, PostKeeps
<1>3. CASE Migrate
  <2>1. \/ Fine([post EXCEPT !.main = "ready", !.client = TRUE, !.shutter = "waiting"])
        \/ Fine(Returns(post, "1"))
    BY <1>3 DEF Migrate
  <2>2. QED BY <2>1, PostKeeps
<1>4. CASE Listen
  <2>1. \/ Fine([post EXCEPT !.main = "serving"])
        \/ Fine([post EXCEPT !.main = "closed"])
        \/ Fine(Returns(post, "1"))
    BY <1>4 DEF Listen
  <2>2. QED BY <2>1, PostKeeps
<1>5. CASE AcceptFails
  <2>1. Fine(Returns(post, "1"))
    BY <1>5 DEF AcceptFails
  <2>2. QED BY <2>1, PostKeeps
<1>6. CASE Interrupt
  <2>1. Fine([post EXCEPT !.interrupted = TRUE])
    BY <1>6 DEF Interrupt
  <2>2. QED BY <2>1, PostKeeps
<1>7. CASE Shutdown
  <2>1. Fine([post EXCEPT !.shutter = "shutdown"])
    BY <1>7 DEF Shutdown
  <2>2. QED BY <2>1, PostKeeps
<1>8. CASE ShutdownDone
  <2>1. Fine([post EXCEPT !.shutter = "sent", !.chan = "nil"])
    BY <1>8 DEF ShutdownDone, ShutdownSends
  <2>2. QED BY <2>1, PostKeeps
<1>9. CASE ShutdownExpires
  <2>1. Fine([post EXCEPT !.shutter = "sent", !.chan = "deadline"])
    BY <1>9 DEF ShutdownExpires, ShutdownSends
  <2>2. QED BY <2>1, PostKeeps
<1>10. CASE ServerClosed
  <2>1. Fine([post EXCEPT !.main = "closed"])
    BY <1>10 DEF ServerClosed, ServerClosedTo
  <2>2. QED BY <2>1, PostKeeps
<1>11. CASE Collect
  <2>1. \/ Fine(Returns([post EXCEPT !.chan = "empty"], "0"))
        \/ Fine(Returns([post EXCEPT !.chan = "empty"], "1"))
    BY <1>11 DEF Collect, CollectAs
  <2>2. QED BY <2>1, PostKeeps
<1>12. CASE CloseClient
  <2>1. Fine([[post EXCEPT !.client = FALSE] EXCEPT !.main = "closing storage"])
    BY <1>12 DEF CloseClient
  <2>2. QED BY <2>1, PostKeeps
<1>13. CASE CloseStorage
  <2>1. Fine([post EXCEPT !.main = "exit", !.storage = FALSE])
    BY <1>13 DEF CloseStorage
  <2>2. QED BY <2>1, PostKeeps
<1>14. QED BY <1>1, <1>2, <1>3, <1>4, <1>5, <1>6, <1>7, <1>8, <1>9, <1>10, <1>11,
              <1>12, <1>13

LEMMA SsoSteps ==
  ASSUME Inv,
         \/ StartSso \/ BootSso \/ Serve \/ ServeFails \/ ServeReturns \/ InterruptSso
         \/ SelectSso \/ GracefulStop \/ Stopped \/ CollectSso \/ CloseSso
  PROVE  Inv'
<1> DEFINE Fine(s) == Sso(s) /\ SsoOK(s)
<1> USE DEF Inv, SsoOK, SsoStates, ReturnsSso
<1>1. CASE StartSso
  <2>1. sso.lives + 1 \in 0..MaxLives
    <3>1. sso.lives \in 0..MaxLives
      OBVIOUS
    <3>2. QED BY <1>1, <3>1, ServersAssumption DEF StartSso
  <2>2. Fine([SsoDown EXCEPT !.main = "boot", !.lives = sso.lives + 1])
    BY <1>1, <2>1 DEF StartSso, SsoDown
  <2>3. QED BY <2>2, SsoKeeps
<1>2. CASE BootSso
  <2>1. \/ Fine([sso EXCEPT !.main = "select", !.server = "starting", !.storage = TRUE])
        \/ \E opened \in BOOLEAN : Fine(ReturnsSso([sso EXCEPT !.storage = opened], "1"))
    BY <1>2 DEF BootSso
  <2>2. QED BY <2>1, SsoKeeps
<1>3. CASE Serve
  <2>1. \/ Fine([sso EXCEPT !.server = "serving"])
        \/ Fine([sso EXCEPT !.server = "returned", !.chan = "ErrServerStopped"])
    BY <1>3 DEF Serve
  <2>2. QED BY <2>1, SsoKeeps
<1>4. CASE ServeFails
  <2>1. Fine([sso EXCEPT !.server = "returned", !.chan = "error"])
    BY <1>4 DEF ServeFails
  <2>2. QED BY <2>1, SsoKeeps
<1>5. CASE ServeReturns
  <2>1. Fine([sso EXCEPT !.server = "returned", !.chan = "nil"])
    BY <1>5 DEF ServeReturns
  <2>2. QED BY <2>1, SsoKeeps
<1>6. CASE InterruptSso
  <2>1. Fine([sso EXCEPT !.interrupted = TRUE])
    BY <1>6 DEF InterruptSso
  <2>2. QED BY <2>1, SsoKeeps
<1>7. CASE SelectSso
  <2>1. \/ Fine([sso EXCEPT !.main = "stopping", !.grace = "draining"])
        \/ Fine(ReturnsSso([sso EXCEPT !.chan = "empty"], "1"))
    BY <1>7 DEF SelectSso
  <2>2. QED BY <2>1, SsoKeeps
<1>8. CASE GracefulStop
  <2>1. Fine([sso EXCEPT !.grace = "done"])
    BY <1>8 DEF GracefulStop, GracefulStopIf
  <2>2. QED BY <2>1, SsoKeeps
<1>9. CASE Stopped
  <2>1. Fine([sso EXCEPT !.main = "collect"])
    BY <1>9 DEF Stopped
  <2>2. QED BY <2>1, SsoKeeps
<1>10. CASE CollectSso
  <2>1. \/ Fine(ReturnsSso([sso EXCEPT !.chan = "empty"], "0"))
        \/ Fine(ReturnsSso([sso EXCEPT !.chan = "empty"], "1"))
    BY <1>10 DEF CollectSso
  <2>2. QED BY <2>1, SsoKeeps
<1>11. CASE CloseSso
  <2>1. Fine([sso EXCEPT !.main = "exit", !.storage = FALSE])
    BY <1>11 DEF CloseSso
  <2>2. QED BY <2>1, SsoKeeps
<1>12. QED BY <1>1, <1>2, <1>3, <1>4, <1>5, <1>6, <1>7, <1>8, <1>9, <1>10, <1>11

-----------------------------------------------------------------------------
\* The steps that end processes and break calls.

\* A call that leaves post-service makes room: nothing that held of the busy
\* calls is lost.
LEMMA PostGone ==
  ASSUME Inv, NEW code \in {"none", "0", "1", "killed"}, NEW interrupted \in BOOLEAN,
         Gone(code, interrupted)
  PROVE  Inv'
<1>1. UNCHANGED <<sso, kind, handler, verified>>
  BY DEF Gone
<1>2. PostOK(post)'
  BY DEF Gone, Inv, PostOK, PostDown, PostStates
<1>3. SsoOK(sso)'
  BY <1>1 DEF Inv, SsoOK, Running
<1>4. CallType'
  BY <1>1 DEF Gone, Inv, CallType
<1>5. CallOK'
  BY <1>1 DEF Gone, Inv, CallType, CallOK, Inside
<1>6. QED BY <1>2, <1>3, <1>4, <1>5 DEF Inv

LEMMA SsoGone ==
  ASSUME Inv, NEW code \in {"none", "0", "1", "killed"}, NEW interrupted \in BOOLEAN,
         GoneSso(code, interrupted)
  PROVE  Inv'
<1>1. UNCHANGED <<post, kind, at, verified>>
  BY DEF GoneSso
<1>2. SsoOK(sso)'
  BY DEF GoneSso, Inv, SsoOK, SsoDown, SsoStates
<1>3. PostOK(post)'
  BY <1>1 DEF Inv, PostOK, Busy, Inside
<1>4. CallType'
  BY <1>1 DEF GoneSso, Inv, CallType
<1>5. CallOK'
  BY <1>1 DEF GoneSso, Inv, CallType, CallOK, Running
<1>6. QED BY <1>2, <1>3, <1>4, <1>5 DEF Inv

LEMMA Breaks ==
  ASSUME Inv, Exit \/ Kill \/ ExitSso \/ KillSso \/ Stop
  PROVE  Inv'
<1>1. CASE Exit
  BY <1>1, PostGone DEF Exit, Inv, PostOK, PostStates
<1>2. CASE Kill
  BY <1>2, PostGone DEF Kill
<1>3. CASE ExitSso
  BY <1>3, SsoGone DEF ExitSso, Inv, SsoOK, SsoStates
<1>4. CASE KillSso
  BY <1>4, SsoGone DEF KillSso
<1>5. CASE Stop
  <2>1. UNCHANGED <<post, kind, at, handler, verified>>
    BY <1>5 DEF Stop, StopWhen
  <2>2. SsoOK(sso)'
    <3>1. sso' = [sso EXCEPT !.main = "collect", !.forced = TRUE]
      BY <1>5 DEF Stop, StopWhen
    <3>2. SsoOK([sso EXCEPT !.main = "collect", !.forced = TRUE])
      BY DEF Inv, SsoOK, SsoStates
    <3>3. Running' = Running
      BY <2>1 DEF Running
    <3>4. QED BY <3>1, <3>2, <3>3 DEF SsoOK
  <2>3. PostOK(post)'
    BY <2>1 DEF Inv, PostOK, Busy, Inside
  <2>4. CallType' /\ CallOK'
    BY <1>5, <2>1 DEF Stop, StopWhen, Inv, CallType, CallOK
  <2>5. QED BY <2>2, <2>3, <2>4 DEF Inv
<1>6. QED BY <1>1, <1>2, <1>3, <1>4, <1>5

-----------------------------------------------------------------------------
\* Steps of a call.

\* A request is only accepted, and a handler only started, while nothing has
\* been said about a stop.
LEMMA CallKeeps ==
  ASSUME Inv, NEW c \in Calls,
         UNCHANGED <<post, sso>>,
         Busy' \subseteq Busy \/ post.shutter = "waiting",
         Running' \subseteq Running \/ sso.grace = "off",
         CallType', CallOK'
  PROVE  Inv'
<1>1. PostOK(post)'
  BY DEF Inv, PostOK, PostStates
<1>2. SsoOK(sso)'
  BY DEF Inv, SsoOK, SsoStates
<1>3. QED BY <1>1, <1>2 DEF Inv

LEMMA CallSteps ==
  ASSUME Inv, NEW c \in Calls,
         Accept(c) \/ CallStep(c) \/ HandlerStep(c) \/ Cut(c) \/ Hangup(c)
  PROVE  Inv'
<1> USE DEF Move, Rpc
<1>0. UNCHANGED <<post, sso, kind>> /\ CallType /\ CallOK
  BY DEF Accept, CallStep, Malformed, AskSso, Arrive, Break, BreakIf, Verified,
         VerifiedIf, HandlerStep, Handle, Operate, Cut, Hangup, Inv
<1> USE DEF CallType, CallOK, Busy, Inside, Running
<1>1. CASE Accept(c)
  <2>1. CallType' /\ CallOK' /\ Running' = Running /\ post.shutter = "waiting"
    BY <1>0, <1>1 DEF Accept
  <2>2. QED BY <1>0, <2>1, CallKeeps
<1>2. CASE Malformed(c)
  <2>1. CallType' /\ CallOK' /\ Running' = Running /\ Busy' \subseteq Busy
    BY <1>0, <1>2 DEF Malformed
  <2>2. QED BY <1>0, <2>1, CallKeeps
<1>3. CASE AskSso(c)
  <2>1. CallType' /\ CallOK' /\ Running' = Running /\ Busy' \subseteq Busy
    BY <1>0, <1>3 DEF AskSso
  <2>2. QED BY <1>0, <2>1, CallKeeps
<1>4. CASE Arrive(c)
  <2>1. CallType' /\ CallOK' /\ Busy' \subseteq Busy /\ sso.grace = "off"
    BY <1>0, <1>4 DEF Arrive, Reachable
  <2>2. QED BY <1>0, <2>1, CallKeeps
<1>5. CASE Break(c) \/ Cut(c)
  <2>1. CallType' /\ CallOK' /\ Running' = Running /\ Busy' \subseteq Busy
    BY <1>0, <1>5 DEF Break, Cut, BreakIf
  <2>2. QED BY <1>0, <2>1, CallKeeps
<1>6. CASE Verified(c)
  <2>1. CallType' /\ CallOK' /\ Running' = Running /\ Busy' \subseteq Busy
    BY <1>0, <1>6 DEF Verified, VerifiedIf
  <2>2. QED BY <1>0, <2>1, CallKeeps
<1>7. CASE Handle(c)
  <2>1. CallType' /\ CallOK' /\ Running' \subseteq Running /\ Busy' \subseteq Busy
    BY <1>0, <1>7 DEF Handle
  <2>2. QED BY <1>0, <2>1, CallKeeps
<1>8. CASE Operate(c)
  <2>1. CallType' /\ CallOK' /\ Running' = Running /\ Busy' \subseteq Busy
    BY <1>0, <1>8 DEF Operate
  <2>2. QED BY <1>0, <2>1, CallKeeps
<1>9. CASE Hangup(c)
  <2>1. CallType' /\ CallOK' /\ Running' = Running /\ Busy' \subseteq Busy
    BY <1>0, <1>9 DEF Hangup
  <2>2. QED BY <1>0, <2>1, CallKeeps
<1>10. QED BY <1>1, <1>2, <1>3, <1>4, <1>5, <1>6, <1>7, <1>8, <1>9
           DEF CallStep, HandlerStep

LEMMA InvNext == Inv /\ [Next]_vars => Inv'
<1> SUFFICES ASSUME Inv, [Next]_vars PROVE Inv'
  OBVIOUS
<1>1. CASE UNCHANGED vars
  <2>1. UNCHANGED <<post, sso, kind, at, rpc, handler, verified>>
    BY <1>1 DEF vars, callVars
  <2>2. Busy' = Busy /\ Running' = Running
    BY <2>1 DEF Busy, Inside, Running
  <2>3. PostOK(post)' /\ SsoOK(sso)'
    BY <2>1, <2>2 DEF Inv, PostOK, SsoOK
  <2>4. QED BY <2>1, <2>3 DEF Inv, CallType, CallOK
<1>2. QED BY <1>1, PostSteps, SsoSteps, Breaks, CallSteps
          DEF Next, PostStep, SsoStep

LEMMA InvAlways == Spec => []Inv
BY InvInit, InvNext, PTL DEF Spec

-----------------------------------------------------------------------------

\* Every variable keeps its type, and the resources of the two processes are
\* open only between the step that opens them and the deferred call that closes
\* them (app.go:44-68, sso/main.go:50-76).
THEOREM TypeCorrect == Spec => []TypeOK
<1>1. Inv => TypeOK
  BY DEF Inv, PostOK, SsoOK, CallType, TypeOK
<1>2. QED BY <1>1, InvAlways, PTL

\* Exit code 0 is reached only after Shutdown has sent nil, when no request is
\* inside post-service and none can enter any more (app.go:104-124); sso closes
\* its database under a handler only after Stop, or when Serve has failed
\* (sso/main.go:85-113).
THEOREM StopsClean == Spec => []CleanStop
<1>1. Inv => CleanStop
  BY DEF Inv, PostOK, SsoOK, CleanStop
<1>2. QED BY <1>1, InvAlways, PTL

\* No failure of sso, of the network or of either process lets a call through
\* that sso has not accepted (transport/rest/middleware/auth.go, transport/rest/api.go).
THEOREM OnlyVerifiedHandled == Spec => []HandledIsVerified
<1>1. Inv => HandledIsVerified
  BY DEF Inv, CallOK, HandledIsVerified
<1>2. QED BY <1>1, InvAlways, PTL
=============================================================================
