-------------------------------- MODULE Sso --------------------------------
(***************************************************************************)
(* The sso service: several instances of it over one database.             *)
(*                                                                         *)
(* An instance migrates the schema, makes sure that an administrator and   *)
(* the configured application exist (sso/main.go), and then serves         *)
(* Register, Login, Verify and IsAdmin.  Each of them is a few database    *)
(* statements (sso/core/service.go, sso/adapters/db/storage.go) with       *)
(* nothing to hold them together: accounts and secrets may change between  *)
(* any two of them, a statement may fail, an INSERT may commit although    *)
(* its answer is lost, and an instance may die at every point.             *)
(*                                                                         *)
(* A password hash stands for its password; HMAC for the secret that       *)
(* signed the token; the text of a token for its claims.                   *)
(***************************************************************************)
EXTENDS Naturals, FiniteSets

CONSTANTS
    Instances,     \* processes that run sso/main.go
    Nowhere,       \* where a call runs that does not
    Clients,       \* callers; a caller has one call in flight
    Emails, Passwords,
    TooLong,       \* the passwords bcrypt refuses, of more than 72 bytes
    AdminEmail, AdminPassword,
    Apps,          \* application ids; no id is 0
    OwnApp,        \* cfg.App.ID
    Secrets, NoSecret,
    Foreign,       \* tokens from elsewhere: another database, another app
    NoToken, Malformed,
    TTL,           \* cfg.TokenTTL
    MaxTime, MaxTokens, MaxFaults    \* bounds of the model

Blank == ""

Token == [uid : Nat, email : Emails, app : Apps, key : Secrets, exp : Nat]
User  == [id : Nat, email : Emails, password : Passwords, admin : BOOLEAN]

ASSUME SsoAssumption ==
    /\ AdminEmail \in Emails
    /\ AdminPassword \in Passwords \ TooLong
    /\ Nowhere \notin Instances
    /\ Blank \notin Emails \cup Passwords
    /\ TooLong \subseteq Passwords
    /\ OwnApp \in Apps
    /\ 0 \notin Apps
    /\ NoSecret \notin Secrets
    /\ Foreign \subseteq Token
    /\ NoToken \notin Token
    /\ Malformed \notin Token
    /\ TTL \in Nat \ {0}
    /\ MaxTime \in Nat /\ MaxTokens \in Nat /\ MaxFaults \in Nat

VARIABLES
    schema,        \* sso_schema_migrations: none, dirty or ready
    users, lastId, \* the table users and its sequence
    secret,        \* the table apps: id -> secret
    server,        \* control state of an instance
    config,        \* its cfg.App.Secret
    faults,        \* crashes and failed statements so far
    clock,
    pc, on,        \* control state of a call, and the instance that runs it
    input,         \* its arguments
    found,         \* what it has read
    answer,
    promised,      \* history: the accounts whose registration was answered
    tokens,        \* history: the tokens that were answered
    window         \* history: what was true while the call was running

dbVars    == <<schema, users, lastId, secret>>
bootVars  == <<server, config>>
callVars  == <<pc, on, input, found, answer, promised, tokens>>
vars      == <<dbVars, bootVars, faults, clock, callVars, window>>

ServerStates == {"down", "migrate", "migrating", "admin", "insert", "app",
                 "listen", "serving"}

CallStates == {"idle", "save", "user", "app", "sign", "appOf", "check",
               "adminOf", "isAdmin", "done"}

Codes == {"none", "OK", "InvalidArgument", "AlreadyExists", "NotFound",
          "Internal", "Unavailable"}

Presented == tokens \cup Foreign \cup {Malformed, NoToken}

NoInput == [op |-> "none", email |-> Blank, password |-> Blank, app |-> 0,
            uid |-> 0, token |-> NoToken]

NothingFound == [uid |-> 0, key |-> NoSecret]

NoAnswer == [code |-> "none", uid |-> 0, admin |-> FALSE, token |-> NoToken]

Init ==
    /\ schema = "none"
    /\ users = {}
    /\ lastId = 0
    /\ secret = [a \in Apps |-> NoSecret]
    /\ server = [i \in Instances |-> "down"]
    /\ config = [i \in Instances |-> NoSecret]
    /\ faults = 0
    /\ clock = 0
    /\ pc = [c \in Clients |-> "idle"]
    /\ on = [c \in Clients |-> Nowhere]
    /\ input = [c \in Clients |-> NoInput]
    /\ found = [c \in Clients |-> NothingFound]
    /\ answer = [c \in Clients |-> NoAnswer]
    /\ promised = {}
    /\ tokens = {}
    /\ window = [c \in Clients |-> {}]

-----------------------------------------------------------------------------
\* The table users.

Rows(email) == {u \in users : u.email = email}

NewRow(email, password, admin) ==
    [id |-> lastId + 1, email |-> email, password |-> password, admin |-> admin]

\* Mutants: the e-mail is not unique; the row that is there is replaced.
SaveUserTwice(email, password, admin) ==
    /\ lastId' = lastId + 1
    /\ users' = users \cup {NewRow(email, password, admin)}
SaveUserOver(email, password, admin) ==
    /\ lastId' = lastId + 1
    /\ users' = (users \ Rows(email)) \cup {NewRow(email, password, admin)}

\* INSERT INTO users, or the violation of its unique index.  (A violation also
\* leaves a gap in the sequence; nothing depends on gaps.)
SaveUser(email, password, admin) ==
    /\ Rows(email) = {}
    /\ lastId' = lastId + 1
    /\ users' = users \cup {NewRow(email, password, admin)}

UserExists(email) == Rows(email) # {} /\ UNCHANGED <<users, lastId>>

AdminExists == \E u \in users : u.admin

\* INSERT INTO apps ... ON CONFLICT DO UPDATE.
SaveApp(app, key) == secret' = [secret EXCEPT ![app] = key]

-----------------------------------------------------------------------------
\* The start of an instance.

Goto(i, state) == server' = [server EXCEPT ![i] = state]

\* The process is started, with the configuration of the day.
Start(i) ==
    /\ server[i] = "down"
    /\ \E s \in Secrets : config' = [config EXCEPT ![i] = s]
    /\ Goto(i, "migrate")
    /\ UNCHANGED <<dbVars, faults, clock, callVars>>

\* run() returns an error: the process ends, to be started again.
Exit(i) ==
    /\ config' = [config EXCEPT ![i] = NoSecret]
    /\ Goto(i, "down")

Proceed(i, state) == Goto(i, state) /\ UNCHANGED config

\* Up: a dirty version is refused, a current one is no change, and otherwise
\* the version is marked dirty, under the lock of the migration table.
MigrateUp(i) ==
    /\ server[i] = "migrate"
    /\ \A j \in Instances : server[j] # "migrating"
    /\ \/ schema = "none" /\ schema' = "dirty" /\ Proceed(i, "migrating")
       \/ schema = "dirty" /\ Exit(i) /\ UNCHANGED schema
       \/ schema = "ready" /\ Proceed(i, "admin") /\ UNCHANGED schema
    /\ UNCHANGED <<users, lastId, secret, faults, clock, callVars>>

Migrate(i) ==
    /\ server[i] = "migrating"
    /\ schema' = "ready"
    /\ Proceed(i, "admin")
    /\ UNCHANGED <<users, lastId, secret, faults, clock, callVars>>

AfterLook(i, present, absent) ==
    /\ server[i] = "admin"
    /\ Proceed(i, IF AdminExists THEN present ELSE absent)
    /\ UNCHANGED <<dbVars, faults, clock, callVars>>

\* Mutants: with an administrator the set-up is taken to be complete; the
\* insert is tried without looking.
IsAdminExistAll(i) == AfterLook(i, "listen", "insert")
IsAdminExistBlind(i) == AfterLook(i, "insert", "insert")

\* EnsureAdmin: one statement to look, another one to insert.
IsAdminExist(i) == AfterLook(i, "app", "insert")

EnsureAdmin(i) ==
    /\ server[i] = "insert"
    /\ \/ SaveUser(AdminEmail, AdminPassword, TRUE) /\ Proceed(i, "app")
       \/ UserExists(AdminEmail) /\ Exit(i)
    /\ UNCHANGED <<schema, secret, faults, clock, callVars>>

\* Nothing reads the configured secret after this.
EnsureApp(i) ==
    /\ server[i] = "app"
    /\ SaveApp(OwnApp, config[i])
    /\ Goto(i, "listen")
    /\ config' = [config EXCEPT ![i] = NoSecret]
    /\ UNCHANGED <<schema, users, lastId, faults, clock, callVars>>

Serve(i) ==
    /\ server[i] = "listen"
    /\ Proceed(i, "serving")
    /\ UNCHANGED <<dbVars, faults, clock, callVars>>

\* The process dies, or a step of run() fails and ends it: the same to the
\* database and to the callers, whose connections break.
Crash(i) ==
    /\ server[i] # "down"
    /\ faults < MaxFaults
    /\ faults' = faults + 1
    /\ Exit(i)
    /\ LET cut == {c \in Clients : on[c] = i}
           left(f, v) == [c \in Clients |-> IF c \in cut THEN v ELSE f[c]]
       IN  /\ pc' = left(pc, "done")
           /\ on' = left(on, Nowhere)
           /\ found' = left(found, NothingFound)
           /\ answer' = left(answer, [NoAnswer EXCEPT !.code = "Unavailable"])
    /\ UNCHANGED <<dbVars, clock, input, promised, tokens>>

BootStep(i) ==
    \/ MigrateUp(i) \/ Migrate(i) \/ IsAdminExist(i) \/ EnsureAdmin(i)
    \/ EnsureApp(i) \/ Serve(i)

-----------------------------------------------------------------------------
\* Calls.  Call is the handler of sso/adapters/grpc/server.go up to the first
\* statement: a call with an empty argument ends there.

Reply(c, reply) ==
    /\ pc' = [pc EXCEPT ![c] = "done"]
    /\ on' = [on EXCEPT ![c] = Nowhere]
    /\ found' = [found EXCEPT ![c] = NothingFound]
    /\ answer' = [answer EXCEPT ![c] = reply]

Status(c, code) == Reply(c, [NoAnswer EXCEPT !.code = code])

\* The handler ends with a status at once, or goes on to its first statement.
Call(c, i, in, code, state) ==
    /\ pc[c] \in {"idle", "done"}
    /\ server[i] = "serving"
    /\ IF code # "none"
       THEN /\ Status(c, code)
            /\ input' = [input EXCEPT ![c] = NoInput]
       ELSE /\ pc' = [pc EXCEPT ![c] = state]
            /\ on' = [on EXCEPT ![c] = i]
            /\ input' = [input EXCEPT ![c] = in]
            /\ answer' = [answer EXCEPT ![c] = NoAnswer]
            /\ UNCHANGED found
    /\ UNCHANGED <<dbVars, bootVars, faults, clock, promised, tokens>>

Register(c, i, email, password) ==
    Call(c, i, [NoInput EXCEPT !.op = "Register", !.email = email,
                               !.password = password],
         IF Blank \in {email, password} THEN "InvalidArgument"
         ELSE IF password \in TooLong THEN "Internal" ELSE "none",
         "save")

Login(c, i, email, password, app) ==
    /\ Cardinality(tokens) < MaxTokens
    /\ Call(c, i, [NoInput EXCEPT !.op = "Login", !.email = email,
                                  !.password = password, !.app = app],
            IF Blank \in {email, password} \/ app = 0
            THEN "InvalidArgument" ELSE "none",
            "user")

Verify(c, i, token) ==
    Call(c, i, [NoInput EXCEPT !.op = "Verify", !.token = token],
         IF token \in {NoToken, Malformed} THEN "InvalidArgument" ELSE "none",
         "appOf")

IsAdmin(c, i, uid) ==
    Call(c, i, [NoInput EXCEPT !.op = "IsAdmin", !.uid = uid],
         IF uid = 0 THEN "InvalidArgument" ELSE "none",
         "isAdmin")

-----------------------------------------------------------------------------
\* RegisterNewUser.

RegisterUser(c) ==
    /\ pc[c] = "save"
    /\ \/ /\ SaveUser(input[c].email, input[c].password, FALSE)
          /\ Reply(c, [NoAnswer EXCEPT !.code = "OK", !.uid = lastId + 1])
          /\ promised' = promised \cup (users' \ users)
       \/ /\ UserExists(input[c].email)
          /\ Status(c, "AlreadyExists")
          /\ UNCHANGED promised
    /\ UNCHANGED <<schema, secret, bootVars, faults, clock, input, tokens>>

\* The row is there, but the answer of the database is lost.
RegisterLost(c) ==
    /\ pc[c] = "save"
    /\ faults < MaxFaults
    /\ faults' = faults + 1
    /\ SaveUser(input[c].email, input[c].password, FALSE)
    /\ Status(c, "Internal")
    /\ UNCHANGED <<schema, secret, bootVars, clock, input, promised, tokens>>

\* A statement of a call fails and leaves nothing behind.
StatementFails(c) ==
    /\ pc[c] \in {"save", "user", "app", "appOf", "adminOf", "isAdmin"}
    /\ faults < MaxFaults
    /\ faults' = faults + 1
    /\ Status(c, "Internal")
    /\ UNCHANGED <<dbVars, bootVars, clock, input, promised, tokens>>

-----------------------------------------------------------------------------
\* Login: the row, the password, the application, the signature.

Continue(c, state, read) ==
    /\ pc' = [pc EXCEPT ![c] = state]
    /\ found' = [found EXCEPT ![c] = read]
    /\ UNCHANGED <<on, answer>>

Quiet == UNCHANGED <<dbVars, bootVars, faults, clock, input, promised>>

LoginUserIf(c, accepted(_)) ==
    /\ pc[c] = "user"
    /\ \/ Rows(input[c].email) = {} /\ Status(c, "NotFound")
       \/ \E u \in Rows(input[c].email) :
             IF accepted(u.password)
             THEN Continue(c, "app", [found[c] EXCEPT !.uid = u.id])
             ELSE Status(c, "InvalidArgument")
    /\ UNCHANGED tokens
    /\ Quiet

\* Mutant: any password of the right length will do.
LoginUserAny(c) == LoginUserIf(c, LAMBDA p : input[c].password \notin TooLong)

LoginUser(c) == LoginUserIf(c, LAMBDA p : p = input[c].password)

LoginAppIf(c, missing(_)) ==
    /\ pc[c] = "app"
    /\ LET app == input[c].app
       IN  IF missing(app)
           THEN Status(c, "Internal")
           ELSE Continue(c, "sign", [found[c] EXCEPT !.key = secret[app]])
    /\ UNCHANGED tokens
    /\ Quiet

\* Mutant: no row for the application is taken for an empty secret.
LoginAppEmpty(c) == LoginAppIf(c, LAMBDA app : FALSE)

LoginApp(c) == LoginAppIf(c, LAMBDA app : secret[app] = NoSecret)

NewToken(c) ==
    /\ pc[c] = "sign"
    /\ LET token == [uid |-> found[c].uid, email |-> input[c].email,
                     app |-> input[c].app, key |-> found[c].key,
                     exp |-> clock + TTL]
       IN  /\ tokens' = tokens \cup {token}
           /\ Reply(c, [NoAnswer EXCEPT !.code = "OK", !.token = token])
    /\ Quiet

-----------------------------------------------------------------------------
\* Verify: the secret of the application that the token names, the signature
\* and the time, the role of the user.

VerifyApp(c) ==
    /\ pc[c] = "appOf"
    /\ LET app == input[c].token.app
       IN  IF secret[app] = NoSecret
           THEN Status(c, "Internal")
           ELSE Continue(c, "check", [found[c] EXCEPT !.key = secret[app]])
    /\ UNCHANGED tokens
    /\ Quiet

VerifyCheckIf(c, accepted(_)) ==
    /\ pc[c] = "check"
    /\ LET token == input[c].token
       IN  IF accepted(token)
           THEN Continue(c, "adminOf", [found[c] EXCEPT !.uid = token.uid])
           ELSE Status(c, "InvalidArgument")
    /\ UNCHANGED tokens
    /\ Quiet

\* Mutant: the expiry is a claim like any other.
VerifyCheckSignature(c) == VerifyCheckIf(c, LAMBDA t : t.key = found[c].key)

VerifyCheck(c) ==
    VerifyCheckIf(c, LAMBDA t : t.key = found[c].key /\ clock < t.exp)

\* SELECT is_admin: an unknown user is an error like any other.
AnswerRole(c, uid) ==
    LET rows == {u \in users : u.id = uid}
    IN  \/ rows = {} /\ Status(c, "Internal")
        \/ \E u \in rows : Reply(c, [code |-> "OK", uid |-> uid,
                                     admin |-> u.admin, token |-> NoToken])

VerifyAdmin(c) ==
    /\ pc[c] = "adminOf"
    /\ AnswerRole(c, found[c].uid)
    /\ UNCHANGED tokens
    /\ Quiet

AnswerIsAdmin(c) ==
    /\ pc[c] = "isAdmin"
    /\ AnswerRole(c, input[c].uid)
    /\ UNCHANGED tokens
    /\ Quiet

CallStep(c) ==
    \/ RegisterUser(c)
    \/ LoginUser(c) \/ LoginApp(c) \/ NewToken(c)
    \/ VerifyApp(c) \/ VerifyCheck(c) \/ VerifyAdmin(c)
    \/ AnswerIsAdmin(c)

ClientStep(c) ==
    \E i \in Instances :
        \/ \E email \in Emails \cup {Blank}, password \in Passwords \cup {Blank} :
              \/ Register(c, i, email, password)
              \/ \E app \in Apps \cup {0} : Login(c, i, email, password, app)
        \/ \E token \in Presented : Verify(c, i, token)
        \/ \E uid \in 0..lastId + 1 : IsAdmin(c, i, uid)

Tick ==
    /\ clock < MaxTime
    /\ clock' = clock + 1
    /\ UNCHANGED <<dbVars, bootVars, faults, callVars>>

-----------------------------------------------------------------------------
\* The history: the secrets and the times a running call has lived through.

Glimpse(in, s, now) ==
    LET app == IF in.op = "Verify" THEN in.token.app ELSE in.app
    IN  [key |-> IF app \in Apps THEN s[app] ELSE NoSecret,
         live |-> in.op = "Verify" /\ now < in.token.exp]

Watch ==
    window' = [c \in Clients |->
        IF input'[c].op \notin {"Login", "Verify"} THEN {}
        ELSE IF pc[c] = "done" /\ pc'[c] = "done" THEN window[c]
        ELSE (IF pc[c] \in {"idle", "done"} THEN {} ELSE window[c])
             \cup {Glimpse(input'[c], secret', clock')}]

Step ==
    \/ \E i \in Instances : Start(i) \/ BootStep(i) \/ Crash(i)
    \/ \E c \in Clients :
          ClientStep(c) \/ CallStep(c) \/ RegisterLost(c) \/ StatementFails(c)
    \/ Tick

Next == Step /\ Watch

\* restart: unless-stopped brings an instance back; a process runs on; a
\* statement is answered.  Nobody has to call, and no clock has to move.
Fairness ==
    /\ \A i \in Instances : WF_vars((Start(i) \/ BootStep(i)) /\ Watch)
    /\ \A c \in Clients : WF_vars(CallStep(c) /\ Watch)

Spec == Init /\ [][Next]_vars /\ Fairness

-----------------------------------------------------------------------------
\* Properties.

TypeOK ==
    /\ schema \in {"none", "dirty", "ready"}
    /\ users \subseteq User
    /\ lastId \in Nat
    /\ secret \in [Apps -> Secrets \cup {NoSecret}]
    /\ server \in [Instances -> ServerStates]
    /\ config \in [Instances -> Secrets \cup {NoSecret}]
    /\ faults \in 0..MaxFaults
    /\ clock \in 0..MaxTime
    /\ pc \in [Clients -> CallStates]
    /\ on \in [Clients -> Instances \cup {Nowhere}]
    /\ \A c \in Clients :
          /\ input[c].token \in Presented
          /\ found[c].uid \in Nat
          /\ found[c].key \in Secrets \cup {NoSecret}
          /\ answer[c].code \in Codes
    /\ promised \subseteq User
    /\ tokens \subseteq Token

\* EnsureAdmin looks and then inserts, so instances that start together all
\* insert: only the unique e-mail keeps the service from having two
\* administrators (sso/core/service.go:53-77).
OneAdmin == \A u, v \in users : u.admin /\ v.admin => u = v

\* Whatever crashed before, an instance that serves has an administrator and
\* its application to serve with (sso/main.go:64-69).
ServingIsReady ==
    \A i \in Instances : server[i] = "serving" =>
        /\ schema = "ready"
        /\ AdminExists
        /\ secret[OwnApp] # NoSecret

\* A registration that was answered stays: no later one takes the account
\* over, and of two that race for an e-mail one is told so.
RegisteredStays ==
    /\ promised \subseteq users
    /\ \A a, b \in promised : a.email = b.email => a = b

\* A Login is answered with a token for the account whose password was given,
\* signed with a secret that the application had while the call was running.
LoginIsLinearizable ==
    \A c \in Clients :
        LET token == answer[c].token
        IN  input[c].op = "Login" /\ answer[c].code = "OK" =>
              /\ \E u \in users : /\ u.id = token.uid
                                  /\ u.email = token.email
                                  /\ u.password = input[c].password
              /\ \E glimpse \in window[c] : glimpse.key = token.key

\* A Verify that accepts a token does so because the application had that
\* secret, and the token time left, at a moment while the call was running; a
\* Verify that calls it invalid has seen a moment when one of them failed.
VerifyIsLinearizable ==
    \A c \in Clients :
        LET token == input[c].token
            good(glimpse) == glimpse.key = token.key /\ glimpse.live
        IN  input[c].op = "Verify" =>
              /\ answer[c].code = "OK" =>
                    /\ \E glimpse \in window[c] : good(glimpse)
                    /\ \E u \in users : u.id = token.uid /\ u.id = answer[c].uid
                                       /\ u.admin = answer[c].admin
              /\ answer[c].code = "InvalidArgument" =>
                    \E glimpse \in window[c] : ~good(glimpse)

\* When nothing fails any more, every instance serves: the loser of the race
\* for the administrator comes back and finds him.  Only a migration that was
\* cut short keeps them all from it.
StartsAgain ==
    <>[](schema = "dirty" \/ \A i \in Instances : server[i] = "serving")

Promise == INSTANCE Authority WITH
    accounts <- users

ImplementsAuthority == Promise!Spec
=============================================================================
