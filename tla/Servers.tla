------------------------------ MODULE Servers ------------------------------
(***************************************************************************)
(* The two processes of the deployment and the calls that pass through     *)
(* both: run() of sso/main.go, Run() of post-service/internal/app/app.go,  *)
(* and what becomes of an HTTP request or a WebSocket while the processes  *)
(* start, are interrupted, stop in an orderly way or in a hurry, or die.   *)
(*                                                                         *)
(* A call is accepted by post-service, asks sso (Verify, Login or          *)
(* Register), and, when it is for GraphQL, goes on with the database of    *)
(* post-service.  What sso does with a call is the module Sso; here it is  *)
(* a handler that holds the database of sso for a while and may be stuck.  *)
(***************************************************************************)
EXTENDS Naturals, FiniteSets

CONSTANTS
    Requests,     \* HTTP requests: POST /query, /api/login, /api/register
    Sockets,      \* WebSocket connections: GET /query
    Stuck,        \* the calls whose handlers may never come back
    MaxLives      \* bound of the model: starts of each process

Calls == Requests \cup Sockets

ASSUME ServersAssumption ==
    /\ Requests \cap Sockets = {}
    /\ Stuck \subseteq Calls
    /\ MaxLives \in Nat

VARIABLES
    post,         \* post-service: see PostStates
    sso,          \* sso: see SsoStates
    kind,         \* the route of a call
    at,           \* where a call is in post-service, or how it has ended
    rpc,          \* its request to sso, as the client in post-service sees it
    handler,      \* its handler in sso
    verified      \* history: sso has accepted it

callVars == <<kind, at, rpc, handler, verified>>
vars     == <<post, sso, callVars>>

\* main and shutter are the two goroutines of Run, chan is chanError, storage
\* and client say that the pool and the connection to sso are open.
PostStates ==
    [main : {"down", "open", "setup", "ready", "serving", "closed", "closing",
             "closing storage", "exit"},
     shutter : {"off", "waiting", "shutdown", "sent"},
     chan : {"empty", "nil", "deadline"},
     interrupted : BOOLEAN, storage : BOOLEAN, client : BOOLEAN,
     code : {"none", "0", "1", "killed"}, lives : 0..MaxLives]

\* server is the gRPC server as its goroutine sees it, grace the goroutine of
\* GracefulStop, chan is errChan, forced says that Stop was called.
SsoStates ==
    [main : {"down", "boot", "select", "stopping", "collect", "closing", "exit"},
     server : {"off", "starting", "serving", "returned"},
     grace : {"off", "draining", "done"},
     chan : {"empty", "nil", "error", "ErrServerStopped"},
     interrupted : BOOLEAN, storage : BOOLEAN, forced : BOOLEAN,
     code : {"none", "0", "1", "killed"}, lives : 0..MaxLives]

PostDown ==
    [main |-> "down", shutter |-> "off", chan |-> "empty", interrupted |-> FALSE,
     storage |-> FALSE, client |-> FALSE, code |-> "none", lives |-> 0]

SsoDown ==
    [main |-> "down", server |-> "off", grace |-> "off", chan |-> "empty",
     interrupted |-> FALSE, storage |-> FALSE, forced |-> FALSE,
     code |-> "none", lives |-> 0]

Init ==
    /\ post = PostDown /\ sso = SsoDown
    /\ kind \in [Calls -> {"query", "api"}]
    /\ \A w \in Sockets : kind[w] = "query"
    /\ at = [c \in Calls |-> "new"]
    /\ rpc = [c \in Calls |-> "none"]
    /\ handler = [c \in Calls |-> "none"]
    /\ verified = [c \in Calls |-> FALSE]

\* The calls that are inside post-service, and those that Shutdown waits for:
\* the connection of a WebSocket is hijacked.
Inside == {c \in Calls : at[c] \in {"auth", "verify", "handle", "open"}}
Busy == Inside \cap Requests

\* The calls whose handlers run in sso.
Running == {c \in Calls : handler[c] = "running"}

-----------------------------------------------------------------------------
\* Run of post-service.  Only os.Interrupt is handled, and only after the
\* set-up: until then, and for any other signal, see Kill.

Post(next) == post' = next /\ UNCHANGED <<sso, callVars>>

Start ==
    /\ post.main = "down" /\ post.lives < MaxLives
    /\ Post([PostDown EXCEPT !.main = "open", !.lives = post.lives + 1])

\* Run returns: the deferred calls are next.
Returns(p, exitCode) == [p EXCEPT !.main = "closing", !.code = exitCode]

OpenStorage ==
    /\ post.main = "open"
    /\ \/ Post([post EXCEPT !.main = "setup", !.storage = TRUE])
       \/ Post(Returns(post, "1"))

\* Migrate, and NewClient, which does not wait for sso.
Migrate ==
    /\ post.main = "setup"
    /\ \/ Post([post EXCEPT !.main = "ready", !.client = TRUE, !.shutter = "waiting"])
       \/ Post(Returns(post, "1"))

\* ListenAndServe: the port may be taken, Shutdown may have come first.
Listen ==
    /\ post.main = "ready"
    /\ \/ /\ post.shutter = "waiting"
          /\ Post([post EXCEPT !.main = "serving"])
       \/ /\ post.shutter # "waiting"
          /\ Post([post EXCEPT !.main = "closed"])
       \/ Post(Returns(post, "1"))

AcceptFails == post.main = "serving" /\ post.shutter = "waiting" /\ Post(Returns(post, "1"))

Interrupt ==
    /\ post.shutter = "waiting" /\ post.main \in {"ready", "serving"}
    /\ ~post.interrupted
    /\ Post([post EXCEPT !.interrupted = TRUE])

Shutdown ==
    /\ post.shutter = "waiting" /\ post.interrupted
    /\ post.main \in {"ready", "serving"}
    /\ Post([post EXCEPT !.shutter = "shutdown"])

ShutdownSends(result) ==
    /\ post.shutter = "shutdown"
    /\ Post([post EXCEPT !.shutter = "sent", !.chan = result])

\* Shutdown returns when every connection it knows is idle, or at the end of
\* GracefulShutdownTime.
ShutdownDone == Busy = {} /\ ShutdownSends("nil")

\* Mutant: Shutdown without a deadline.
ShutdownExpiresNot == Busy = {} /\ ShutdownSends("deadline")

ShutdownExpires == ShutdownSends("deadline")

ServerClosedTo(p) ==
    /\ post.main = "serving" /\ post.shutter # "waiting"
    /\ Post(p)

\* ListenAndServe returns ErrServerClosed when Shutdown begins, not when it
\* ends.
ServerClosed == ServerClosedTo([post EXCEPT !.main = "closed"])

CollectAs(exit(_)) ==
    /\ post.main = "closed" /\ post.chan # "empty"
    /\ Post(Returns([post EXCEPT !.chan = "empty"], exit(post.chan)))

\* Mutant: the result of Shutdown is received and dropped.
CollectAndDrop == CollectAs(LAMBDA err : "0")

Collect == CollectAs(LAMBDA err : IF err = "nil" THEN "0" ELSE "1")

\* The deferred calls, last first.
CloseClient ==
    /\ post.main = "closing"
    /\ Post([post EXCEPT !.main = "closing storage", !.client = FALSE])

CloseStorage ==
    /\ post.main = "closing storage"
    /\ Post([post EXCEPT !.main = "exit", !.storage = FALSE])

\* The process is gone, and the calls inside it with it.
Gone(exitCode, interrupted) ==
    /\ post' = [PostDown EXCEPT !.lives = post.lives, !.code = exitCode,
                                !.interrupted = interrupted]
    /\ at' = [c \in Calls |-> IF c \in Inside THEN "lost" ELSE at[c]]
    /\ rpc' = [c \in Calls |-> IF c \in Inside THEN "none" ELSE rpc[c]]
    /\ UNCHANGED <<sso, kind, handler, verified>>

Exit == post.main = "exit" /\ Gone(post.code, post.interrupted)

Kill == post.main # "down" /\ Gone("killed", FALSE)

PostStep ==
    \/ OpenStorage \/ Migrate \/ Listen \/ ServerClosed \/ Collect
    \/ CloseClient \/ CloseStorage \/ Exit

-----------------------------------------------------------------------------
\* run of sso.

Sso(next) == sso' = next /\ UNCHANGED <<post, callVars>>

StartSso ==
    /\ sso.main = "down" /\ sso.lives < MaxLives
    /\ Sso([SsoDown EXCEPT !.main = "boot", !.lives = sso.lives + 1])

ReturnsSso(s, exitCode) == [s EXCEPT !.main = "closing", !.code = exitCode]

\* db.New, Migrate, EnsureAdmin, EnsureApp (see Sso) and net.Listen; then the
\* goroutine that calls Serve is started.
BootSso ==
    /\ sso.main = "boot"
    /\ \/ Sso([sso EXCEPT !.main = "select", !.server = "starting", !.storage = TRUE])
       \/ \E opened \in BOOLEAN : Sso(ReturnsSso([sso EXCEPT !.storage = opened], "1"))

\* Serve accepts connections, or finds the server stopped before it began.
Serve ==
    /\ sso.server = "starting"
    /\ Sso(IF sso.grace = "off"
           THEN [sso EXCEPT !.server = "serving"]
           ELSE [sso EXCEPT !.server = "returned", !.chan = "ErrServerStopped"])

\* Accept fails for good.
ServeFails ==
    /\ sso.server = "serving" /\ sso.grace = "off"
    /\ Sso([sso EXCEPT !.server = "returned", !.chan = "error"])

\* Serve returns nil once Stop or GracefulStop is done.
ServeReturns ==
    /\ sso.server = "serving" /\ (sso.grace = "done" \/ sso.forced)
    /\ Sso([sso EXCEPT !.server = "returned", !.chan = "nil"])

InterruptSso ==
    /\ sso.main = "select" /\ ~sso.interrupted
    /\ Sso([sso EXCEPT !.interrupted = TRUE])

\* The select: a signal, or the end of Serve.
SelectSso ==
    /\ sso.main = "select"
    /\ \/ /\ sso.interrupted
          /\ Sso([sso EXCEPT !.main = "stopping", !.grace = "draining"])
       \/ /\ sso.chan # "empty"
          /\ Sso(ReturnsSso([sso EXCEPT !.chan = "empty"], "1"))

GracefulStopIf(drained) ==
    /\ sso.grace = "draining" /\ drained
    /\ Sso([sso EXCEPT !.grace = "done"])

\* Mutant: the goroutine calls Stop.
GracefulStopAtOnce == GracefulStopIf(TRUE)

\* GracefulStop waits for the handlers.
GracefulStop == GracefulStopIf(Running = {})

Stopped ==
    /\ sso.main = "stopping" /\ sso.grace = "done"
    /\ Sso([sso EXCEPT !.main = "collect"])

StopWhen(expired) ==
    /\ sso.main = "stopping" /\ expired
    /\ sso' = [sso EXCEPT !.main = "collect", !.forced = TRUE]
    /\ rpc' = [c \in Calls |-> IF rpc[c] = "running" THEN "broken" ELSE rpc[c]]
    /\ UNCHANGED <<post, kind, at, handler, verified>>

\* Mutant: no deadline for GracefulStop.
StopNever == StopWhen(FALSE)

\* After gracefulShutdownTime, Stop breaks the connections and waits for no
\* handler.
Stop == StopWhen(TRUE)

\* <-errChan, where nil and ErrServerStopped are no errors.
CollectSso ==
    /\ sso.main = "collect" /\ sso.chan # "empty"
    /\ Sso(ReturnsSso([sso EXCEPT !.chan = "empty"],
                      IF sso.chan = "error" THEN "1" ELSE "0"))

CloseSso ==
    /\ sso.main = "closing"
    /\ Sso([sso EXCEPT !.main = "exit", !.storage = FALSE])

GoneSso(exitCode, interrupted) ==
    /\ sso' = [SsoDown EXCEPT !.lives = sso.lives, !.code = exitCode,
                              !.interrupted = interrupted]
    /\ handler' = [c \in Calls |-> IF c \in Running THEN "none" ELSE handler[c]]
    /\ rpc' = [c \in Calls |-> IF rpc[c] = "running" THEN "broken" ELSE rpc[c]]
    /\ UNCHANGED <<post, kind, at, verified>>

ExitSso == sso.main = "exit" /\ GoneSso(sso.code, sso.interrupted)

KillSso == sso.main # "down" /\ GoneSso("killed", FALSE)

SsoStep ==
    \/ BootSso \/ Serve \/ ServeReturns \/ SelectSso \/ Stopped \/ Stop
    \/ CollectSso \/ CloseSso \/ ExitSso

-----------------------------------------------------------------------------
\* Calls.

Move(c, place, request) ==
    /\ at' = [at EXCEPT ![c] = place]
    /\ rpc' = [rpc EXCEPT ![c] = request]
    /\ UNCHANGED <<post, sso, kind>>

Rpc(c, request) == Move(c, at[c], request)

Accept(c) ==
    /\ at[c] = "new" /\ post.main = "serving" /\ post.shutter = "waiting"
    /\ Move(c, "auth", "none")
    /\ UNCHANGED <<handler, verified>>

\* tokenFromAuthorization finds no token, the body is not JSON, or a WebSocket
\* says nothing for InitTimeout.
Malformed(c) ==
    /\ at[c] = "auth"
    /\ Move(c, "refused", "none")
    /\ UNCHANGED <<handler, verified>>

AskSso(c) ==
    /\ at[c] = "auth"
    /\ Move(c, "verify", "sent")
    /\ UNCHANGED <<handler, verified>>

Reachable == sso.server = "serving" /\ sso.grace = "off" /\ post.client

\* The request reaches a server that serves.
Arrive(c) ==
    /\ rpc[c] = "sent" /\ Reachable
    /\ handler' = [handler EXCEPT ![c] = "running"]
    /\ Rpc(c, "running")
    /\ UNCHANGED verified

BreakIf(c, broken) ==
    /\ rpc[c] \in {"sent", "running"} /\ broken
    /\ Rpc(c, "broken")
    /\ UNCHANGED <<handler, verified>>

\* Mutant: the call waits for sso to become ready.
BreakIfClosed(c) == BreakIf(c, ~post.client)

\* There is no server, it is stopping, or the connection has been closed.
Break(c) == BreakIf(c, ~post.client \/ (rpc[c] = "sent" /\ ~Reachable))

\* The network fails, or the caller leaves, which ends the context of the call.
Cut(c) == BreakIf(c, TRUE)

\* The handler in sso comes to an end.  With its storage closed it fails.
Handle(c) ==
    /\ handler[c] = "running"
    /\ handler' = [handler EXCEPT ![c] = "none"]
    /\ \E accepted \in BOOLEAN :
         /\ accepted => sso.storage
         /\ verified' = [verified EXCEPT ![c] = accepted]
         /\ Rpc(c, IF rpc[c] # "running" THEN rpc[c]
                   ELSE IF accepted THEN "ok" ELSE "refused")

VerifiedIf(c, accepted) ==
    /\ at[c] = "verify" /\ rpc[c] \in {"ok", "refused", "broken"}
    /\ Move(c, IF rpc[c] \notin accepted THEN "refused"
               ELSE IF kind[c] = "api" THEN "answered"
               ELSE IF c \in Requests THEN "handle" ELSE "open", "none")
    /\ UNCHANGED <<handler, verified>>

\* Mutant: only a call that sso has turned down is turned away.
VerifiedUnlessRefused(c) == VerifiedIf(c, {"ok", "broken"})

\* Auth, WebsocketInit and the two REST handlers: any error is a refusal.
Verified(c) == VerifiedIf(c, {"ok"})

\* The operation of a request comes to an end: with the storage closed, with
\* an error of the code INTERNAL.
Operate(c) ==
    /\ at[c] = "handle"
    /\ Move(c, IF post.storage THEN "answered" ELSE "failed", "none")
    /\ UNCHANGED <<handler, verified>>

\* The client closes the WebSocket.
Hangup(c) ==
    /\ at[c] = "open"
    /\ Move(c, "answered", "none")
    /\ UNCHANGED <<handler, verified>>

CallStep(c) == Malformed(c) \/ AskSso(c) \/ Arrive(c) \/ Break(c) \/ Verified(c)

HandlerStep(c) == Handle(c) \/ Operate(c)

Next ==
    \/ Start \/ PostStep \/ AcceptFails \/ Interrupt \/ Kill
    \/ Shutdown \/ ShutdownDone \/ ShutdownExpires
    \/ StartSso \/ SsoStep \/ GracefulStop \/ ServeFails \/ InterruptSso \/ KillSso
    \/ \E c \in Calls : Accept(c) \/ CallStep(c) \/ HandlerStep(c) \/ Cut(c) \/ Hangup(c)

\* Goroutines run and timers fire; a handler that is not stuck comes back.
\* Nobody has to start or to interrupt a process, or to hang up.
Fairness ==
    /\ WF_vars(PostStep) /\ WF_vars(Shutdown) /\ WF_vars(ShutdownExpires)
    /\ WF_vars(BootSso) /\ WF_vars(Serve) /\ WF_vars(ServeReturns)
    /\ WF_vars(SelectSso) /\ WF_vars(Stop) /\ WF_vars(CollectSso)
    /\ WF_vars(CloseSso) /\ WF_vars(ExitSso)
    /\ \A c \in Calls : WF_vars(CallStep(c))
    /\ \A c \in Calls \ Stuck : WF_vars(HandlerStep(c))

Spec == Init /\ [][Next]_vars /\ Fairness

-----------------------------------------------------------------------------
\* Properties.

\* The types, and when a resource is open: never before the step that opens it
\* or after the deferred call that closes it, and the connection to sso no
\* longer than the database.
TypeOK ==
    /\ post \in PostStates /\ sso \in SsoStates
    /\ kind \in [Calls -> {"query", "api"}]
    /\ at \in [Calls -> {"new", "auth", "verify", "handle", "open", "answered",
                        "failed", "refused", "lost"}]
    /\ rpc \in [Calls -> {"none", "sent", "running", "ok", "refused", "broken"}]
    /\ handler \in [Calls -> {"none", "running"}]
    /\ verified \in [Calls -> BOOLEAN]
    /\ post.client => post.storage /\ post.main \in {"ready", "serving", "closed", "closing"}
    /\ post.storage => post.main \notin {"down", "open", "exit"}
    /\ sso.storage => sso.main \notin {"down", "boot", "exit"}

\* The exit code 0 is a promise: no request was inside post-service when its
\* database was closed, and none is cut off; after the deadline of Shutdown, and
\* when the listener fails, the code is 1.  sso closes its database under a
\* handler only after Stop has replaced GracefulStop or Serve has failed.
CleanStop ==
    /\ post.main \in {"closing", "closing storage", "exit"} /\ post.code = "0" => Busy = {}
    /\ sso.main = "closing" /\ sso.code = "0" /\ ~sso.forced => Running = {}

\* Whatever sso and the network do: GraphQL, and the answer 200, are only for
\* calls that sso has accepted, which it does with its database open.
HandledIsVerified ==
    \A c \in Calls :
        at[c] \in {"handle", "open", "answered", "failed"} => verified[c]

\* An interrupted process ends, whatever its own handlers and the other
\* process do.
InterruptEnds ==
    /\ post.interrupted ~> post.main = "down"
    /\ sso.interrupted ~> sso.main = "down"

Ended(c) == at[c] \in {"answered", "failed", "refused", "lost"}

StuckInHandler(c) == c \in Stuck /\ (handler[c] = "running" \/ at[c] = "handle")

\* A call waits for no other: it comes to an end, or to an open WebSocket,
\* unless a handler of its own is stuck.  It does not wait for sso to be
\* started.
CallEnds ==
    \A c \in Calls :
        at[c] # "new" ~> Ended(c) \/ at[c] = "open" \/ StuckInHandler(c)
=============================================================================
