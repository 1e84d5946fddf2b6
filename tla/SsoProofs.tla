----------------------------- MODULE SsoProofs -----------------------------
(***************************************************************************)
(* Theorems about Sso, for every number of instances, callers, accounts,   *)
(* applications, secrets and passwords, and every bound on the faults.     *)
(***************************************************************************)
EXTENDS Sso, TLAPS

-----------------------------------------------------------------------------
(***************************************************************************)
(* Type correctness.  The state of a call says what its arguments are.     *)
(***************************************************************************)

Operations == {"none", "Register", "Login", "Verify", "IsAdmin"}

Inputs == [op : Operations, email : Emails \cup {Blank},
           password : Passwords \cup {Blank}, app : Apps \cup {0}, uid : Nat,
           token : Token \cup {NoToken, Malformed}]

Findings == [uid : Nat, key : Secrets \cup {NoSecret}]

Answers == [code : Codes, uid : Nat, admin : BOOLEAN,
            token : Token \cup {NoToken}]

CallType ==
    /\ input \in [Clients -> Inputs]
    /\ found \in [Clients -> Findings]
    /\ answer \in [Clients -> Answers]

\* The arguments of a call that has passed the tests of its handler.
ArgumentInv ==
    \A c \in Clients :
        /\ pc[c] \in {"save", "user", "app", "sign"} =>
              input[c].email \in Emails /\ input[c].password \in Passwords
        /\ pc[c] = "save" => input[c].op = "Register"
        /\ pc[c] \in {"user", "app", "sign"} =>
              input[c].op = "Login" /\ input[c].app \in Apps
        /\ pc[c] \in {"appOf", "check", "adminOf"} =>
              input[c].op = "Verify" /\ input[c].token \in Token
        /\ pc[c] = "isAdmin" => input[c].op = "IsAdmin"
        /\ pc[c] \in {"sign", "check"} => found[c].key \in Secrets

\* Until EnsureApp an instance holds the secret of its configuration.
ConfigInv ==
    \A i \in Instances :
        server[i] \in {"migrate", "migrating", "admin", "insert", "app"} =>
            config[i] \in Secrets

TypeInv == TypeOK /\ CallType /\ ArgumentInv /\ ConfigInv

LEMMA ConstantTypes ==
  /\ NoInput \in Inputs /\ NoInput.token = NoToken /\ NoInput.op = "none"
  /\ NothingFound \in Findings
  /\ NoAnswer \in Answers /\ NoAnswer.code = "none"
  /\ \A code \in Codes : [NoAnswer EXCEPT !.code = code] \in Answers
BY SsoAssumption
   DEF NoInput, Inputs, Operations, NothingFound, Findings, NoAnswer, Answers, Codes

LEMMA TypeInit == Init => TypeInv
<1> SUFFICES ASSUME Init PROVE TypeInv
  OBVIOUS
<1> USE ConstantTypes DEF Init
<1>1. CallType
  BY DEF CallType
<1>2. TypeOK
  BY SsoAssumption
     DEF TypeOK, ServerStates, CallStates, Codes, Presented, NothingFound, NoAnswer, NoInput
<1>3. ArgumentInv /\ ConfigInv
  BY DEF ArgumentInv, ConfigInv
<1>4. QED BY <1>1, <1>2, <1>3 DEF TypeInv

\* A row that is inserted has the type of a row.
LEMMA NewRowType ==
  ASSUME TypeInv, NEW email \in Emails, NEW password \in Passwords,
         NEW admin \in BOOLEAN, SaveUser(email, password, admin)
  PROVE  users' \subseteq User /\ lastId' \in Nat /\ users \subseteq users'
BY DEF TypeInv, TypeOK, SaveUser, NewRow, User

LEMMA TypeBoot ==
  ASSUME TypeInv, NEW i \in Instances, Start(i) \/ BootStep(i)
  PROVE  TypeInv'
<1> USE DEF TypeInv, TypeOK, CallType, ArgumentInv, ConfigInv, ServerStates,
            dbVars, bootVars, callVars, Goto, Proceed, Exit, Presented
<1>1. CASE Start(i)
  BY <1>1 DEF Start
<1>2. CASE MigrateUp(i)
  BY <1>2 DEF MigrateUp
<1>3. CASE Migrate(i)
  BY <1>3 DEF Migrate
<1>4. CASE IsAdminExist(i)
  BY <1>4 DEF IsAdminExist, AfterLook
<1>5. CASE EnsureAdmin(i)
  <2>1. CASE SaveUser(AdminEmail, AdminPassword, TRUE) /\ Proceed(i, "app")
    <3>1. users' \subseteq User /\ lastId' \in Nat
      BY <2>1, NewRowType, SsoAssumption
    <3>2. QED BY <1>5, <2>1, <3>1 DEF EnsureAdmin
  <2>2. CASE UserExists(AdminEmail) /\ Exit(i)
    BY <1>5, <2>2 DEF EnsureAdmin, UserExists
  <2>3. QED BY <1>5, <2>1, <2>2 DEF EnsureAdmin
<1>6. CASE EnsureApp(i)
  BY <1>6, SsoAssumption DEF EnsureApp, SaveApp
<1>7. CASE Serve(i)
  BY <1>7 DEF Serve
<1>8. QED BY <1>1, <1>2, <1>3, <1>4, <1>5, <1>6, <1>7 DEF BootStep

LEMMA TypeCrash ==
  ASSUME TypeInv, NEW i \in Instances, Crash(i)
  PROVE  TypeInv'
<1> USE DEF TypeInv, dbVars
<1>1. /\ server' = [server EXCEPT ![i] = "down"]
      /\ config' = [config EXCEPT ![i] = NoSecret]
      /\ faults' = faults + 1 /\ faults < MaxFaults
      /\ pc' = [c \in Clients |-> IF on[c] = i THEN "done" ELSE pc[c]]
      /\ on' = [c \in Clients |-> IF on[c] = i THEN Nowhere ELSE on[c]]
      /\ found' = [c \in Clients |-> IF on[c] = i THEN NothingFound ELSE found[c]]
      /\ answer' = [c \in Clients |->
            IF on[c] = i THEN [NoAnswer EXCEPT !.code = "Unavailable"] ELSE answer[c]]
      /\ UNCHANGED <<schema, users, lastId, secret, clock, input, promised, tokens>>
  BY DEF Crash, Exit, Goto
<1>2. /\ NothingFound \in Findings
      /\ [NoAnswer EXCEPT !.code = "Unavailable"] \in Answers
  BY ConstantTypes DEF Codes
<1>3. CallType'
  BY <1>1, <1>2 DEF CallType
<1>4. TypeOK'
  <2>1. \A c \in Clients : found'[c].uid \in Nat
                           /\ found'[c].key \in Secrets \cup {NoSecret}
                           /\ answer'[c].code \in Codes
    BY <1>3 DEF CallType, Findings, Answers
  <2>2. faults' \in 0..MaxFaults
    BY <1>1, SsoAssumption DEF TypeOK
  <2>3. QED BY <1>1, <2>1, <2>2 DEF TypeOK, ServerStates, CallStates, Presented
<1>5. ArgumentInv'
  BY <1>1 DEF ArgumentInv, TypeOK
<1>6. ConfigInv'
  BY <1>1 DEF ConfigInv, TypeOK
<1>7. QED BY <1>3, <1>4, <1>5, <1>6

\* What a reply does to a call, spelled out.
LEMMA ReplyEffect ==
  ASSUME TypeInv, NEW c \in Clients, NEW reply \in Answers, Reply(c, reply)
  PROVE  /\ pc' = [pc EXCEPT ![c] = "done"]
         /\ on' = [on EXCEPT ![c] = Nowhere]
         /\ found' \in [Clients -> Findings]
         /\ \A d \in Clients \ {c} : found'[d] = found[d]
         /\ answer' = [answer EXCEPT ![c] = reply]
         /\ answer' \in [Clients -> Answers]
BY ConstantTypes DEF Reply, TypeInv, CallType

LEMMA StatusEffect ==
  ASSUME TypeInv, NEW c \in Clients, NEW code \in Codes, Status(c, code)
  PROVE  \E reply \in Answers : reply.code = code /\ Reply(c, reply)
<1>1. [NoAnswer EXCEPT !.code = code] \in Answers
  BY ConstantTypes
<1>2. [NoAnswer EXCEPT !.code = code].code = code
  BY DEF NoAnswer
<1>3. QED BY <1>1, <1>2 DEF Status

\* A call that ends keeps the types, whatever it has inserted.
LEMMA TypeReply ==
  ASSUME TypeInv, NEW c \in Clients, NEW reply \in Answers, Reply(c, reply),
         users' \subseteq User, lastId' \in Nat, promised' \subseteq User,
         tokens' \subseteq Token, tokens \subseteq tokens',
         faults' \in 0..MaxFaults,
         UNCHANGED <<schema, secret, bootVars, clock, input>>
  PROVE  TypeInv'
<1> USE DEF TypeInv
<1>1. /\ pc' = [pc EXCEPT ![c] = "done"]
      /\ on' = [on EXCEPT ![c] = Nowhere]
      /\ found' \in [Clients -> Findings]
      /\ \A d \in Clients \ {c} : found'[d] = found[d]
      /\ answer' \in [Clients -> Answers]
  BY ReplyEffect
<1>2. CallType'
  BY <1>1 DEF CallType
<1>3. TypeOK'
  BY <1>1 DEF TypeOK, bootVars, CallStates, Presented, Findings, Answers
<1>4. ArgumentInv'
  BY <1>1 DEF ArgumentInv, TypeOK
<1>5. ConfigInv'
  BY DEF ConfigInv, bootVars
<1>6. QED BY <1>2, <1>3, <1>4, <1>5

LEMMA TypeCall ==
  ASSUME TypeInv, NEW c \in Clients, NEW i \in Instances, NEW in \in Inputs,
         NEW code \in Codes, NEW state \in {"save", "user", "appOf", "isAdmin"},
         in.token \in Presented,
         Call(c, i, in, code, state),
         code = "none" =>
            /\ state \in {"save", "user"} =>
                  in.email \in Emails /\ in.password \in Passwords
            /\ state = "save" => in.op = "Register"
            /\ state = "user" => in.op = "Login" /\ in.app \in Apps
            /\ state = "appOf" => in.op = "Verify" /\ in.token \in Token
            /\ state = "isAdmin" => in.op = "IsAdmin"
  PROVE  TypeInv'
<1> USE DEF TypeInv
<1>1. CASE code # "none"
  <2>1. PICK reply \in Answers : reply.code = code /\ Reply(c, reply)
    BY <1>1, StatusEffect DEF Call
  <2>2. /\ pc' = [pc EXCEPT ![c] = "done"]
        /\ on' = [on EXCEPT ![c] = Nowhere]
        /\ found' \in [Clients -> Findings]
        /\ \A d \in Clients \ {c} : found'[d] = found[d]
        /\ answer' \in [Clients -> Answers]
    BY <2>1, ReplyEffect
  <2>3. /\ input' = [input EXCEPT ![c] = NoInput]
        /\ UNCHANGED <<dbVars, bootVars, faults, clock, promised, tokens>>
    BY <1>1 DEF Call
  <2>4. CallType'
    BY <2>2, <2>3, ConstantTypes DEF CallType
  <2>5. TypeOK'
    BY <2>2, <2>3, ConstantTypes
       DEF TypeOK, dbVars, bootVars, CallStates, Presented, Findings, Answers
  <2>6. ArgumentInv'
    BY <2>2, <2>3 DEF ArgumentInv, TypeOK
  <2>7. ConfigInv'
    BY <2>3 DEF ConfigInv, bootVars
  <2>8. QED BY <2>4, <2>5, <2>6, <2>7
<1>2. CASE code = "none"
  <2>1. /\ pc' = [pc EXCEPT ![c] = state]
        /\ on' = [on EXCEPT ![c] = i]
        /\ input' = [input EXCEPT ![c] = in]
        /\ answer' = [answer EXCEPT ![c] = NoAnswer]
        /\ UNCHANGED <<found, dbVars, bootVars, faults, clock, promised, tokens>>
    BY <1>2 DEF Call
  <2>2. CallType'
    BY <2>1, ConstantTypes DEF CallType
  <2>3. TypeOK'
    BY <2>1, ConstantTypes
       DEF TypeOK, dbVars, bootVars, CallStates, Presented, Codes
  <2>4. ArgumentInv'
    BY <1>2, <2>1 DEF ArgumentInv, TypeOK, CallType
  <2>5. ConfigInv'
    BY <2>1 DEF ConfigInv, bootVars
  <2>6. QED BY <2>2, <2>3, <2>4, <2>5
<1>3. QED BY <1>1, <1>2

LEMMA TypeClient ==
  ASSUME TypeInv, NEW c \in Clients, ClientStep(c)
  PROVE  TypeInv'
<1> USE DEF NoInput, Inputs, Operations, Codes, Presented
<1>1. PICK i \in Instances :
        \/ \E email \in Emails \cup {Blank}, password \in Passwords \cup {Blank} :
              \/ Register(c, i, email, password)
              \/ \E app \in Apps \cup {0} : Login(c, i, email, password, app)
        \/ \E token \in Presented : Verify(c, i, token)
        \/ \E uid \in 0..lastId + 1 : IsAdmin(c, i, uid)
  BY DEF ClientStep
<1>2. tokens \cup Foreign \subseteq Token /\ lastId \in Nat
  BY SsoAssumption DEF TypeInv, TypeOK
<1>3. ASSUME NEW email \in Emails \cup {Blank}, NEW password \in Passwords \cup {Blank},
             Register(c, i, email, password)
      PROVE  TypeInv'
  <2> DEFINE in == [NoInput EXCEPT !.op = "Register", !.email = email,
                                   !.password = password]
             code == IF Blank \in {email, password} THEN "InvalidArgument"
                     ELSE IF password \in TooLong THEN "Internal" ELSE "none"
  <2>1. /\ in \in Inputs /\ in.token = NoToken /\ in.op = "Register"
        /\ in.email = email /\ in.password = password
    OBVIOUS
  <2>2. code \in Codes /\ (code = "none" => email \in Emails /\ password \in Passwords)
    OBVIOUS
  <2>3. Call(c, i, in, code, "save")
    BY <1>3 DEF Register
  <2> HIDE DEF in, code
  <2>4. QED BY <2>1, <2>2, <2>3, TypeCall
<1>4. ASSUME NEW email \in Emails \cup {Blank}, NEW password \in Passwords \cup {Blank},
             NEW app \in Apps \cup {0}, Login(c, i, email, password, app)
      PROVE  TypeInv'
  <2> DEFINE in == [NoInput EXCEPT !.op = "Login", !.email = email,
                                   !.password = password, !.app = app]
             code == IF Blank \in {email, password} \/ app = 0
                     THEN "InvalidArgument" ELSE "none"
  <2>1. /\ in \in Inputs /\ in.token = NoToken /\ in.op = "Login"
        /\ in.email = email /\ in.password = password /\ in.app = app
    OBVIOUS
  <2>2. /\ code \in Codes
        /\ code = "none" => email \in Emails /\ password \in Passwords /\ app \in Apps
    OBVIOUS
  <2>3. Call(c, i, in, code, "user")
    BY <1>4 DEF Login
  <2> HIDE DEF in, code
  <2>4. QED BY <2>1, <2>2, <2>3, TypeCall
<1>5. ASSUME NEW token \in Presented, Verify(c, i, token)
      PROVE  TypeInv'
  <2> DEFINE in == [NoInput EXCEPT !.op = "Verify", !.token = token]
             code == IF token \in {NoToken, Malformed} THEN "InvalidArgument" ELSE "none"
  <2>1. in \in Inputs /\ in.token = token /\ in.op = "Verify"
    BY <1>2
  <2>2. code \in Codes /\ (code = "none" => token \in Token)
    BY <1>2
  <2>3. Call(c, i, in, code, "appOf")
    BY <1>5 DEF Verify
  <2> HIDE DEF in, code
  <2>4. QED BY <2>1, <2>2, <2>3, TypeCall
<1>6. ASSUME NEW uid \in 0..lastId + 1, IsAdmin(c, i, uid)
      PROVE  TypeInv'
  <2> DEFINE in == [NoInput EXCEPT !.op = "IsAdmin", !.uid = uid]
             code == IF uid = 0 THEN "InvalidArgument" ELSE "none"
  <2>1. uid \in Nat
    BY <1>2
  <2>2. in \in Inputs /\ in.token = NoToken /\ in.op = "IsAdmin" /\ code \in Codes
    BY <2>1
  <2>3. Call(c, i, in, code, "isAdmin")
    BY <1>6 DEF IsAdmin
  <2> HIDE DEF in, code
  <2>4. QED BY <2>2, <2>3, TypeCall
<1>7. QED BY <1>1, <1>3, <1>4, <1>5, <1>6

\* A call that goes on keeps the types.
LEMMA TypeContinue ==
  ASSUME TypeInv, NEW c \in Clients, NEW read \in Findings,
         NEW state \in {"app", "sign", "check", "adminOf"},
         Continue(c, state, read), Quiet, UNCHANGED tokens,
         state \in {"sign", "check"} => read.key \in Secrets,
         state \in {"app", "sign"} =>
            /\ input[c].email \in Emails /\ input[c].password \in Passwords
            /\ input[c].op = "Login" /\ input[c].app \in Apps,
         state \in {"check", "adminOf"} =>
            input[c].op = "Verify" /\ input[c].token \in Token
  PROVE  TypeInv'
<1> USE DEF TypeInv
<1>1. /\ pc' = [pc EXCEPT ![c] = state]
      /\ found' = [found EXCEPT ![c] = read]
      /\ UNCHANGED <<on, answer, tokens, dbVars, bootVars, faults, clock, input, promised>>
  BY DEF Continue, Quiet
<1>2. CallType'
  BY <1>1 DEF CallType
<1>3. TypeOK'
  BY <1>1 DEF TypeOK, dbVars, bootVars, CallStates, Presented, Findings
<1>4. ArgumentInv'
  BY <1>1 DEF ArgumentInv, TypeOK, CallType
<1>5. ConfigInv'
  BY <1>1 DEF ConfigInv, bootVars
<1>6. QED BY <1>2, <1>3, <1>4, <1>5

\* A call that only reads, and ends with a reply.
LEMMA TypeQuietReply ==
  ASSUME TypeInv, NEW c \in Clients, NEW reply \in Answers, Reply(c, reply),
         Quiet, UNCHANGED tokens
  PROVE  TypeInv'
<1>1. /\ users' \subseteq User /\ lastId' \in Nat /\ promised' \subseteq User
      /\ tokens' \subseteq Token /\ tokens \subseteq tokens' /\ faults' \in 0..MaxFaults
      /\ UNCHANGED <<schema, secret, bootVars, clock, input>>
  BY DEF Quiet, dbVars, TypeInv, TypeOK
<1>2. QED BY <1>1, TypeReply

LEMMA TypeQuietStatus ==
  ASSUME TypeInv, NEW c \in Clients, NEW code \in Codes, Status(c, code),
         Quiet, UNCHANGED tokens
  PROVE  TypeInv'
BY StatusEffect, TypeQuietReply

\* The token that NewToken signs.
Signed(c) == [uid |-> found[c].uid, email |-> input[c].email, app |-> input[c].app,
              key |-> found[c].key, exp |-> clock + TTL]

LEMMA SignedType ==
  ASSUME TypeInv, NEW c \in Clients, pc[c] = "sign"
  PROVE  Signed(c) \in Token
<1>1. /\ found[c].uid \in Nat /\ found[c].key \in Secrets
      /\ input[c].email \in Emails /\ input[c].app \in Apps
      /\ clock + TTL \in Nat
  BY SsoAssumption DEF TypeInv, TypeOK, ArgumentInv
<1>2. QED BY <1>1 DEF Signed, Token

LEMMA TypeCallStep ==
  ASSUME TypeInv, NEW c \in Clients, CallStep(c)
  PROVE  TypeInv'
<1>0. /\ found[c] \in Findings /\ found[c].uid \in Nat
      /\ \A uid \in Nat : [found[c] EXCEPT !.uid = uid] \in Findings
      /\ \A key \in Secrets : /\ [found[c] EXCEPT !.key = key] \in Findings
                              /\ [found[c] EXCEPT !.key = key].key \in Secrets
      /\ {"NotFound", "InvalidArgument", "Internal", "AlreadyExists"} \subseteq Codes
      /\ \A a \in Apps : secret[a] # NoSecret => secret[a] \in Secrets
      /\ \A u \in users : u.id \in Nat /\ u.admin \in BOOLEAN
  BY DEF TypeInv, CallType, TypeOK, Findings, Codes, User
<1>1. CASE RegisterUser(c)
  <2>1. /\ pc[c] = "save" /\ input[c].email \in Emails /\ input[c].password \in Passwords
        /\ faults' \in 0..MaxFaults
        /\ UNCHANGED <<schema, secret, bootVars, faults, clock, input, tokens>>
    BY <1>1 DEF RegisterUser, TypeInv, ArgumentInv, TypeOK
  <2>2. CASE /\ SaveUser(input[c].email, input[c].password, FALSE)
             /\ Reply(c, [NoAnswer EXCEPT !.code = "OK", !.uid = lastId + 1])
             /\ promised' = promised \cup (users' \ users)
    <3>1. users' \subseteq User /\ lastId' \in Nat
      BY <2>1, <2>2, NewRowType
    <3>2. [NoAnswer EXCEPT !.code = "OK", !.uid = lastId + 1] \in Answers
      <4>1. lastId + 1 \in Nat
        BY DEF TypeInv, TypeOK
      <4>2. QED BY <4>1 DEF NoAnswer, Answers, Codes
    <3>3. promised' \subseteq User /\ tokens' \subseteq Token /\ tokens \subseteq tokens'
      BY <2>1, <2>2, <3>1 DEF TypeInv, TypeOK
    <3>4. QED BY <2>1, <2>2, <3>1, <3>2, <3>3, TypeReply
  <2>3. CASE UserExists(input[c].email) /\ Status(c, "AlreadyExists") /\ UNCHANGED promised
    <3>1. Quiet /\ UNCHANGED tokens
      BY <2>1, <2>3 DEF Quiet, UserExists, dbVars
    <3>2. QED BY <1>0, <2>3, <3>1, TypeQuietStatus
  <2>4. QED BY <1>1, <2>2, <2>3 DEF RegisterUser
<1>2. CASE LoginUser(c)
  <2>1. /\ pc[c] = "user" /\ Quiet /\ UNCHANGED tokens
        /\ input[c].email \in Emails /\ input[c].password \in Passwords
        /\ input[c].op = "Login" /\ input[c].app \in Apps
    BY <1>2 DEF LoginUser, LoginUserIf, TypeInv, ArgumentInv
  <2>2. ASSUME NEW u \in users, Continue(c, "app", [found[c] EXCEPT !.uid = u.id])
        PROVE  TypeInv'
    BY <1>0, <2>1, <2>2, TypeContinue
  <2>3. \/ \E code \in Codes : Status(c, code)
        \/ \E u \in users : Continue(c, "app", [found[c] EXCEPT !.uid = u.id])
    BY <1>0, <1>2 DEF LoginUser, LoginUserIf, Rows
  <2>4. QED BY <2>1, <2>2, <2>3, TypeQuietStatus
<1>3. CASE LoginApp(c)
  <2>1. /\ pc[c] = "app" /\ Quiet /\ UNCHANGED tokens
        /\ input[c].email \in Emails /\ input[c].password \in Passwords
        /\ input[c].op = "Login" /\ input[c].app \in Apps
    BY <1>3 DEF LoginApp, LoginAppIf, TypeInv, ArgumentInv
  <2>2. CASE secret[input[c].app] = NoSecret
    BY <1>0, <1>3, <2>1, <2>2, TypeQuietStatus DEF LoginApp, LoginAppIf
  <2>3. CASE secret[input[c].app] # NoSecret
    <3>1. Continue(c, "sign", [found[c] EXCEPT !.key = secret[input[c].app]])
      BY <1>3, <2>3 DEF LoginApp, LoginAppIf
    <3>2. QED BY <1>0, <2>1, <2>3, <3>1, TypeContinue
  <2>4. QED BY <2>2, <2>3
<1>4. CASE NewToken(c)
  <2>1. /\ pc[c] = "sign" /\ Quiet /\ tokens' = tokens \cup {Signed(c)}
        /\ Reply(c, [NoAnswer EXCEPT !.code = "OK", !.token = Signed(c)])
    BY <1>4 DEF NewToken, Signed
  <2>2. Signed(c) \in Token
    BY <2>1, SignedType
  <2>3. [NoAnswer EXCEPT !.code = "OK", !.token = Signed(c)] \in Answers
    BY <2>2 DEF NoAnswer, Answers, Codes
  <2>4. /\ users' \subseteq User /\ lastId' \in Nat /\ promised' \subseteq User
        /\ tokens' \subseteq Token /\ tokens \subseteq tokens' /\ faults' \in 0..MaxFaults
        /\ UNCHANGED <<schema, secret, bootVars, clock, input>>
    BY <2>1, <2>2 DEF Quiet, dbVars, TypeInv, TypeOK
  <2>5. QED BY <2>1, <2>3, <2>4, TypeReply
<1>5. CASE VerifyApp(c)
  <2>1. /\ pc[c] = "appOf" /\ Quiet /\ UNCHANGED tokens
        /\ input[c].op = "Verify" /\ input[c].token \in Token
    BY <1>5 DEF VerifyApp, TypeInv, ArgumentInv
  <2>2. CASE secret[input[c].token.app] = NoSecret
    BY <1>0, <1>5, <2>1, <2>2, TypeQuietStatus DEF VerifyApp
  <2>3. CASE secret[input[c].token.app] # NoSecret
    <3>1. Continue(c, "check", [found[c] EXCEPT !.key = secret[input[c].token.app]])
      BY <1>5, <2>3 DEF VerifyApp
    <3>2. input[c].token.app \in Apps
      BY <2>1 DEF Token
    <3>3. QED BY <1>0, <2>1, <2>3, <3>1, <3>2, TypeContinue
  <2>4. QED BY <2>2, <2>3
<1>6. CASE VerifyCheck(c)
  <2>1. /\ pc[c] = "check" /\ Quiet /\ UNCHANGED tokens
        /\ input[c].op = "Verify" /\ input[c].token \in Token
        /\ input[c].token.uid \in Nat
    BY <1>6 DEF VerifyCheck, VerifyCheckIf, TypeInv, ArgumentInv, Token
  <2>2. \/ Status(c, "InvalidArgument")
        \/ Continue(c, "adminOf", [found[c] EXCEPT !.uid = input[c].token.uid])
    BY <1>6 DEF VerifyCheck, VerifyCheckIf
  <2>3. QED BY <1>0, <2>1, <2>2, TypeContinue, TypeQuietStatus
<1>7. ASSUME NEW uid \in Nat, AnswerRole(c, uid), Quiet, UNCHANGED tokens
      PROVE  TypeInv'
  <2>1. ASSUME NEW u \in users,
               Reply(c, [code |-> "OK", uid |-> uid, admin |-> u.admin, token |-> NoToken])
        PROVE  TypeInv'
    <3>1. [code |-> "OK", uid |-> uid, admin |-> u.admin, token |-> NoToken] \in Answers
      BY <1>0 DEF Answers, Codes
    <3>2. QED BY <1>7, <2>1, <3>1, TypeQuietReply
  <2>2. QED BY <1>0, <1>7, <2>1, TypeQuietStatus DEF AnswerRole
<1>8. CASE VerifyAdmin(c)
  BY <1>0, <1>7, <1>8 DEF VerifyAdmin
<1>9. CASE AnswerIsAdmin(c)
  <2>1. input[c].uid \in Nat
    BY DEF TypeInv, CallType, Inputs
  <2>2. QED BY <1>7, <1>9, <2>1 DEF AnswerIsAdmin
<1>10. QED BY <1>1, <1>2, <1>3, <1>4, <1>5, <1>6, <1>8, <1>9 DEF CallStep

LEMMA TypeFault ==
  ASSUME TypeInv, NEW c \in Clients, RegisterLost(c) \/ StatementFails(c)
  PROVE  TypeInv'
<1>1. PICK reply \in Answers : Reply(c, reply)
  BY StatusEffect DEF RegisterLost, StatementFails, Codes
<1>2. faults' \in 0..MaxFaults
  <2>1. faults \in 0..MaxFaults /\ MaxFaults \in Nat
    BY SsoAssumption DEF TypeInv, TypeOK
  <2>2. faults < MaxFaults /\ faults' = faults + 1
    BY DEF RegisterLost, StatementFails
  <2>3. QED BY <2>1, <2>2
<1>3. CASE RegisterLost(c)
  <2>1. input[c].email \in Emails /\ input[c].password \in Passwords
    BY <1>3 DEF RegisterLost, TypeInv, ArgumentInv
  <2>2. users' \subseteq User /\ lastId' \in Nat
    BY <1>3, <2>1, NewRowType DEF RegisterLost
  <2>3. /\ promised' \subseteq User /\ tokens' \subseteq Token /\ tokens \subseteq tokens'
        /\ UNCHANGED <<schema, secret, bootVars, clock, input>>
    BY <1>3 DEF RegisterLost, TypeInv, TypeOK
  <2>4. QED BY <1>1, <1>2, <2>2, <2>3, TypeReply
<1>4. CASE StatementFails(c)
  <2>1. /\ users' \subseteq User /\ lastId' \in Nat /\ promised' \subseteq User
        /\ tokens' \subseteq Token /\ tokens \subseteq tokens'
        /\ UNCHANGED <<schema, secret, bootVars, clock, input>>
    BY <1>4 DEF StatementFails, dbVars, TypeInv, TypeOK
  <2>2. QED BY <1>1, <1>2, <2>1, TypeReply
<1>5. QED BY <1>3, <1>4

LEMMA TypeNext == TypeInv /\ [Next]_vars => TypeInv'
<1> SUFFICES ASSUME TypeInv, [Next]_vars PROVE TypeInv'
  OBVIOUS
<1>1. CASE UNCHANGED vars
  BY <1>1 DEF vars, dbVars, bootVars, callVars, TypeInv, TypeOK, CallType,
              ArgumentInv, ConfigInv, Presented
<1>2. CASE Tick
  BY <1>2, SsoAssumption
     DEF Tick, dbVars, bootVars, callVars, TypeInv, TypeOK, CallType, ArgumentInv,
         ConfigInv, Presented
<1>3. QED BY <1>1, <1>2, TypeBoot, TypeCrash, TypeClient, TypeCallStep, TypeFault
          DEF Next, Step

\* Every variable of the service keeps its type, for any number of instances,
\* callers, accounts and applications (sso/main.go, sso/core/service.go).
THEOREM TypeCorrect == Spec => []TypeOK
<1>1. TypeInv => TypeOK
  BY DEF TypeInv
<1>2. QED BY <1>1, TypeInit, TypeNext, PTL DEF Spec

-----------------------------------------------------------------------------
(***************************************************************************)
(* The store: what any step may do to the tables, and what an instance may *)
(* rely on at each point of its start.                                     *)
(***************************************************************************)

\* Ids come from the sequence and, like e-mails, name one row; the
\* administrator is the one of the configuration.
UsersInv ==
    /\ \A u \in users : u.id <= lastId
    /\ \A u, v \in users : u.id = v.id \/ u.email = v.email => u = v
    /\ \A u \in users : u.admin => u.email = AdminEmail

SetUpInv ==
    \A i \in Instances :
        /\ server[i] \in {"admin", "insert", "app", "listen", "serving"} =>
              schema = "ready"
        /\ server[i] \in {"app", "listen", "serving"} => AdminExists
        /\ server[i] \in {"listen", "serving"} => secret[OwnApp] # NoSecret

StoreInv == UsersInv /\ SetUpInv /\ promised \subseteq users

\* The changes of the tables: a row at most, of the configured administrator if
\* it is one; a new secret at most.
UsersStep ==
    \/ UNCHANGED <<users, lastId>>
    \/ \E email \in Emails, password \in Passwords, admin \in BOOLEAN :
          SaveUser(email, password, admin) /\ (admin => email = AdminEmail)

SecretStep ==
    \/ UNCHANGED secret
    \/ \E key \in Secrets : SaveApp(OwnApp, key)

StoreStep ==
    /\ UsersStep
    /\ SecretStep
    /\ schema = "ready" => schema' = "ready"
    /\ promised' \subseteq promised \cup users'
    /\ clock' \in Nat /\ clock <= clock'

LEMMA QuietStore ==
  ASSUME TypeInv, UNCHANGED <<dbVars, promised, clock>>
  PROVE  StoreStep
BY DEF StoreStep, UsersStep, SecretStep, dbVars, TypeInv, TypeOK

LEMMA RowInserted ==
  ASSUME NEW email \in Emails, NEW password \in Passwords, NEW admin \in BOOLEAN,
         admin => email = AdminEmail,
         SaveUser(email, password, admin) \/ UserExists(email)
  PROVE  UsersStep
BY DEF UserExists, UsersStep

LEMMA StoreChanges ==
  ASSUME TypeInv, [Next]_vars
  PROVE  StoreStep
<1>0. clock \in Nat
  BY DEF TypeInv, TypeOK
<1>1. CASE UNCHANGED vars
  BY <1>1, QuietStore DEF vars, callVars
<1>2. CASE Tick
  BY <1>0, <1>2 DEF Tick, StoreStep, UsersStep, SecretStep, dbVars, callVars
<1>3. ASSUME NEW i \in Instances, Start(i) \/ BootStep(i) \/ Crash(i)
      PROVE  StoreStep
  <2>1. CASE Start(i) \/ IsAdminExist(i) \/ Serve(i)
    BY <2>1, QuietStore DEF Start, IsAdminExist, AfterLook, Serve, callVars
  <2>2. CASE Crash(i)
    BY <2>2, QuietStore DEF Crash
  <2>3. CASE MigrateUp(i) \/ Migrate(i)
    BY <1>0, <2>3
       DEF MigrateUp, Migrate, StoreStep, UsersStep, SecretStep, callVars
  <2>4. CASE EnsureAdmin(i)
    <3>1. SaveUser(AdminEmail, AdminPassword, TRUE) \/ UserExists(AdminEmail)
      BY <2>4 DEF EnsureAdmin
    <3>2. UsersStep
      BY <3>1, RowInserted, SsoAssumption
    <3>3. UNCHANGED <<schema, secret, clock, promised>>
      BY <2>4 DEF EnsureAdmin, callVars
    <3>4. QED BY <1>0, <3>2, <3>3 DEF StoreStep, SecretStep
  <2>5. CASE EnsureApp(i)
    <3>1. config[i] \in Secrets
      BY <2>5 DEF EnsureApp, TypeInv, ConfigInv
    <3>2. QED BY <1>0, <2>5, <3>1
             DEF EnsureApp, StoreStep, UsersStep, SecretStep, callVars
  <2>6. QED BY <1>3, <2>1, <2>2, <2>3, <2>4, <2>5 DEF BootStep
<1>4. ASSUME NEW c \in Clients,
             ClientStep(c) \/ CallStep(c) \/ RegisterLost(c) \/ StatementFails(c)
      PROVE  StoreStep
  <2>1. CASE ClientStep(c) \/ StatementFails(c)
    BY <2>1, QuietStore
       DEF ClientStep, Register, Login, Verify, IsAdmin, Call, StatementFails
  <2>2. pc[c] = "save" => input[c].email \in Emails /\ input[c].password \in Passwords
    BY DEF TypeInv, ArgumentInv
  <2>3. CASE RegisterUser(c) \/ RegisterLost(c)
    <3>1. \/ SaveUser(input[c].email, input[c].password, FALSE)
          \/ UserExists(input[c].email)
      BY <2>3 DEF RegisterUser, RegisterLost
    <3>2. pc[c] = "save"
      BY <2>3 DEF RegisterUser, RegisterLost
    <3>3. UsersStep
      BY <2>2, <3>1, <3>2, RowInserted
    <3>4. UNCHANGED <<schema, secret, clock>> /\ promised' \subseteq promised \cup users'
      BY <2>3 DEF RegisterUser, RegisterLost
    <3>5. QED BY <1>0, <3>3, <3>4 DEF StoreStep, SecretStep
  <2>4. CASE CallStep(c) /\ ~RegisterUser(c)
    BY <2>4, QuietStore
       DEF CallStep, Quiet, LoginUser, LoginUserIf, LoginApp, LoginAppIf, NewToken,
           VerifyApp, VerifyCheck, VerifyCheckIf, VerifyAdmin, AnswerIsAdmin
  <2>5. QED BY <1>4, <2>1, <2>3, <2>4
<1>5. QED BY <1>1, <1>2, <1>3, <1>4 DEF Next, Step

\* What the other proofs need of it.
LEMMA StoreGrows ==
  ASSUME TypeInv, [Next]_vars
  PROVE  /\ users \subseteq users'
         /\ AdminExists => AdminExists'
         /\ \A a \in Apps : secret[a] # NoSecret => secret'[a] # NoSecret
         /\ clock \in Nat /\ clock' \in Nat /\ clock <= clock'
<1>1. StoreStep
  BY StoreChanges
<1>2. users \subseteq users'
  BY <1>1 DEF StoreStep, UsersStep, SaveUser
<1>3. secret \in [Apps -> Secrets \cup {NoSecret}] /\ clock \in Nat
  BY DEF TypeInv, TypeOK
<1>4. QED BY <1>1, <1>2, <1>3, SsoAssumption
         DEF StoreStep, SecretStep, SaveApp, AdminExists

LEMMA StoreInit == Init => StoreInv
BY DEF Init, StoreInv, UsersInv, SetUpInv

LEMMA UsersNext ==
  ASSUME TypeInv, UsersInv, [Next]_vars
  PROVE  UsersInv'
<1>1. UsersStep
  BY StoreChanges DEF StoreStep
<1>2. CASE UNCHANGED <<users, lastId>>
  BY <1>2 DEF UsersInv
<1>3. ASSUME NEW email \in Emails, NEW password \in Passwords, NEW admin \in BOOLEAN,
             SaveUser(email, password, admin), admin => email = AdminEmail
      PROVE  UsersInv'
  <2>1. /\ lastId \in Nat /\ lastId' = lastId + 1
        /\ users' = users \cup {NewRow(email, password, admin)}
        /\ \A u \in users : u.id \in Nat /\ u.email # email
    BY <1>3 DEF SaveUser, Rows, TypeInv, TypeOK, User
  <2>2. /\ NewRow(email, password, admin).id = lastId + 1
        /\ NewRow(email, password, admin).email = email
        /\ NewRow(email, password, admin).admin = admin
    BY DEF NewRow
  <2> HIDE DEF NewRow
  <2>3. QED BY <1>3, <2>1, <2>2 DEF UsersInv
<1>4. QED BY <1>1, <1>2, <1>3 DEF UsersStep

LEMMA SetUpNext ==
  ASSUME TypeInv, SetUpInv, [Next]_vars
  PROVE  SetUpInv'
<1>1. /\ schema = "ready" => schema' = "ready"
      /\ AdminExists => AdminExists'
      /\ secret[OwnApp] # NoSecret => secret'[OwnApp] # NoSecret
  BY StoreChanges, StoreGrows, SsoAssumption DEF StoreStep
<1>2. ASSUME UNCHANGED server PROVE SetUpInv'
  BY <1>1, <1>2 DEF SetUpInv
<1>3. ASSUME NEW i \in Instances, NEW state \in ServerStates, Goto(i, state),
             state \in {"admin", "insert", "app", "listen", "serving"} =>
                schema' = "ready",
             state \in {"app", "listen", "serving"} => AdminExists',
             state \in {"listen", "serving"} => secret'[OwnApp] # NoSecret
      PROVE  SetUpInv'
  <2>1. server' = [server EXCEPT ![i] = state] /\ server \in [Instances -> ServerStates]
    BY <1>3 DEF Goto, TypeInv, TypeOK
  <2>2. QED BY <1>1, <1>3, <2>1 DEF SetUpInv
<1>4. ASSUME NEW i \in Instances, Start(i) \/ Crash(i)
      PROVE  SetUpInv'
  <2>1. Goto(i, "migrate") \/ Goto(i, "down")
    BY <1>4 DEF Start, Crash, Exit
  <2>2. QED BY <1>3, <2>1 DEF ServerStates
<1>5. ASSUME NEW i \in Instances, MigrateUp(i) \/ Migrate(i)
      PROVE  SetUpInv'
  <2>1. \/ Goto(i, "migrating") \/ Goto(i, "down")
        \/ Goto(i, "admin") /\ schema' = "ready"
    BY <1>5 DEF MigrateUp, Migrate, Proceed, Exit
  <2>2. QED BY <1>3, <2>1 DEF ServerStates
<1>6. ASSUME NEW i \in Instances, IsAdminExist(i)
      PROVE  SetUpInv'
  <2>1. /\ Goto(i, IF AdminExists THEN "app" ELSE "insert")
        /\ server[i] = "admin"
    BY <1>6 DEF IsAdminExist, AfterLook, Proceed
  <2>2. schema' = "ready"
    BY <1>1, <2>1 DEF SetUpInv
  <2>3. QED BY <1>1, <1>3, <2>1, <2>2 DEF ServerStates
<1>7. ASSUME NEW i \in Instances, EnsureAdmin(i)
      PROVE  SetUpInv'
  <2>1. server[i] = "insert" /\ schema' = "ready"
    BY <1>1, <1>7 DEF EnsureAdmin, SetUpInv
  <2>2. CASE SaveUser(AdminEmail, AdminPassword, TRUE) /\ Proceed(i, "app")
    <3>1. AdminExists'
      <4>1. users' = users \cup {NewRow(AdminEmail, AdminPassword, TRUE)}
        BY <2>2 DEF SaveUser
      <4>2. NewRow(AdminEmail, AdminPassword, TRUE).admin
        BY DEF NewRow
      <4>3. QED BY <4>1, <4>2 DEF AdminExists
    <3>2. QED BY <1>3, <2>1, <2>2, <3>1 DEF Proceed, ServerStates
  <2>3. CASE Exit(i)
    BY <1>3, <2>3 DEF Exit, ServerStates
  <2>4. QED BY <1>7, <2>2, <2>3 DEF EnsureAdmin
<1>8. ASSUME NEW i \in Instances, EnsureApp(i)
      PROVE  SetUpInv'
  <2>1. /\ Goto(i, "listen") /\ server[i] = "app" /\ SaveApp(OwnApp, config[i])
        /\ config[i] \in Secrets
    BY <1>8 DEF EnsureApp, TypeInv, ConfigInv
  <2>2. secret'[OwnApp] # NoSecret
    BY <2>1, SsoAssumption DEF SaveApp, TypeInv, TypeOK
  <2>3. schema' = "ready" /\ AdminExists'
    BY <1>1, <2>1 DEF SetUpInv
  <2>4. QED BY <1>3, <2>1, <2>2, <2>3 DEF ServerStates
<1>9. ASSUME NEW i \in Instances, Serve(i)
      PROVE  SetUpInv'
  <2>1. Goto(i, "serving") /\ server[i] = "listen"
    BY <1>9 DEF Serve, Proceed
  <2>2. QED BY <1>1, <1>3, <2>1 DEF SetUpInv, ServerStates
<1>10. ASSUME NEW c \in Clients,
              ClientStep(c) \/ CallStep(c) \/ RegisterLost(c) \/ StatementFails(c)
       PROVE  SetUpInv'
  <2>1. UNCHANGED server
    BY <1>10
       DEF ClientStep, Register, Login, Verify, IsAdmin, Call, RegisterUser,
           RegisterLost, StatementFails, CallStep, Quiet, LoginUser, LoginUserIf,
           LoginApp, LoginAppIf, NewToken, VerifyApp, VerifyCheck, VerifyCheckIf,
           VerifyAdmin, AnswerIsAdmin, bootVars
  <2>2. QED BY <1>2, <2>1
<1>11. CASE UNCHANGED vars \/ Tick
  BY <1>2, <1>11 DEF vars, Tick, bootVars
<1>12. QED BY <1>4, <1>5, <1>6, <1>7, <1>8, <1>9, <1>10, <1>11
           DEF Next, Step, BootStep

LEMMA StoreNext ==
  ASSUME TypeInv, StoreInv, [Next]_vars
  PROVE  StoreInv'
<1>1. promised' \subseteq users'
  BY StoreChanges, StoreGrows DEF StoreInv, StoreStep
<1>2. QED BY <1>1, UsersNext, SetUpNext DEF StoreInv

LEMMA StoreAlways == Spec => [](TypeInv /\ StoreInv)
BY TypeInit, StoreInit, TypeNext, StoreNext, PTL DEF Spec

\* However many instances start together, crash and come back, there is never a
\* second administrator (sso/core/service.go:53-77).
THEOREM AdminIsOne == Spec => []OneAdmin
<1>1. StoreInv => OneAdmin
  BY DEF StoreInv, UsersInv, OneAdmin
<1>2. QED BY <1>1, StoreAlways, PTL

\* An instance that serves has its schema, an administrator and the secret of
\* its application, wherever earlier starts were cut short (sso/main.go:57-69).
THEOREM ReadyWhenServing == Spec => []ServingIsReady
<1>1. StoreInv => ServingIsReady
  BY DEF StoreInv, SetUpInv, ServingIsReady
<1>2. QED BY <1>1, StoreAlways, PTL

\* An account whose registration was answered is never replaced or doubled
\* (sso/adapters/db/storage.go:41-56).
THEOREM RegistrationsStay == Spec => []RegisteredStays
<1>1. StoreInv => RegisteredStays
  BY DEF StoreInv, UsersInv, RegisteredStays
<1>2. QED BY <1>1, StoreAlways, PTL

-----------------------------------------------------------------------------
(***************************************************************************)
(* The calls.  What a call has read stays true of the table users, and is  *)
(* in the window of its secrets and times, until the call is answered.     *)
(***************************************************************************)

Vouched(c, uid) ==
    \E u \in users : /\ u.id = uid
                     /\ u.email = input[c].email
                     /\ u.password = input[c].password

Good(glimpse, token) == glimpse.key = token.key /\ glimpse.live

LoginAnswered(c) ==
    input[c].op = "Login" /\ answer[c].code = "OK" =>
        LET token == answer[c].token
        IN  /\ \E u \in users : /\ u.id = token.uid
                                /\ u.email = token.email
                                /\ u.password = input[c].password
            /\ \E glimpse \in window[c] : glimpse.key = token.key

VerifyAnswered(c) ==
    input[c].op = "Verify" =>
        LET token == input[c].token
        IN  /\ answer[c].code = "OK" =>
                  /\ \E glimpse \in window[c] : Good(glimpse, token)
                  /\ \E u \in users : u.id = token.uid /\ u.id = answer[c].uid
                                      /\ u.admin = answer[c].admin
            /\ answer[c].code = "InvalidArgument" =>
                  \E glimpse \in window[c] : ~Good(glimpse, token)

\* A secret that was read before a tick is still in the window after it, with
\* the time of the reading, which is no later than now.
CallInv(c) ==
    /\ pc[c] # "done" => answer[c].code = "none"
    /\ pc[c] \in {"app", "sign"} => Vouched(c, found[c].uid)
    /\ pc[c] = "sign" => \E glimpse \in window[c] : glimpse.key = found[c].key
    /\ pc[c] = "check" =>
          \E glimpse \in window[c] :
              /\ glimpse.key = found[c].key
              /\ clock < input[c].token.exp => glimpse.live
    /\ pc[c] = "adminOf" =>
          /\ found[c].uid = input[c].token.uid
          /\ \E glimpse \in window[c] : Good(glimpse, input[c].token)
    /\ LoginAnswered(c)
    /\ VerifyAnswered(c)

CallsInv == \A c \in Clients : CallInv(c)

LEMMA CallsInit == Init => CallsInv
BY DEF Init, CallsInv, CallInv, LoginAnswered, VerifyAnswered, NoInput, NoAnswer

\* The window of a Login or a Verify only grows until it is answered, and then
\* stays.
LEMMA WindowGrows ==
  ASSUME NEW c \in Clients, Watch, input'[c] = input[c],
         input[c].op \in {"Login", "Verify"}, pc[c] # "idle",
         pc[c] = "done" => pc'[c] = "done"
  PROVE  /\ window[c] \subseteq window'[c]
         /\ pc[c] # "done" => Glimpse(input[c], secret', clock') \in window'[c]
BY DEF Watch

Kept(c) == /\ pc'[c] = pc[c] /\ input'[c] = input[c]
           /\ found'[c] = found[c] /\ answer'[c] = answer[c]

\* A call that does not move keeps what it knows, whatever the others do.
LEMMA CallKept ==
  ASSUME TypeInv, NEW c \in Clients, CallInv(c), Kept(c),
         Watch \/ UNCHANGED window,
         users \subseteq users', clock \in Nat, clock' \in Nat, clock <= clock'
  PROVE  CallInv(c)'
<1> USE DEF Kept, CallInv
<1>1. CASE input[c].op \notin {"Login", "Verify"}
  <2>1. pc[c] \notin {"app", "sign", "check", "adminOf"}
    BY <1>1 DEF TypeInv, ArgumentInv
  <2>2. QED BY <1>1, <2>1 DEF LoginAnswered, VerifyAnswered
<1>2. CASE pc[c] = "idle"
  BY <1>2 DEF LoginAnswered, VerifyAnswered
<1>3. CASE input[c].op \in {"Login", "Verify"} /\ pc[c] # "idle"
  <2>1. window[c] \subseteq window'[c]
    BY <1>3, WindowGrows
  <2>2. Vouched(c, found[c].uid) => Vouched(c, found[c].uid)'
    BY DEF Vouched
  <2>3. LoginAnswered(c)'
    BY <2>1 DEF LoginAnswered
  <2>4. VerifyAnswered(c)'
    BY <2>1 DEF VerifyAnswered, Good
  <2>5. pc'[c] = "check" =>
          \E glimpse \in window'[c] :
              /\ glimpse.key = found'[c].key
              /\ clock' < input'[c].token.exp => glimpse.live
    <3>1. SUFFICES ASSUME pc[c] = "check"
                   PROVE  \E glimpse \in window'[c] :
                             /\ glimpse.key = found[c].key
                             /\ clock' < input[c].token.exp => glimpse.live
      OBVIOUS
    <3>2. input[c].token.exp \in Nat
      BY <3>1 DEF TypeInv, ArgumentInv, Token
    <3>3. QED BY <2>1, <3>1, <3>2
  <2>6. QED BY <2>1, <2>2, <2>3, <2>4, <2>5 DEF Good
<1>4. QED BY <1>1, <1>2, <1>3

\* A call that ends without a promise has nothing to keep.
LEMMA CallEnds ==
  ASSUME NEW c \in Clients, pc'[c] = "done",
         \/ input'[c].op \notin {"Login", "Verify"}
         \/ input'[c].op = "Login" /\ answer'[c].code # "OK"
         \/ answer'[c].code \notin {"OK", "InvalidArgument"}
  PROVE  CallInv(c)'
BY DEF CallInv, LoginAnswered, VerifyAnswered

\* A handler that is entered knows nothing yet.
LEMMA CallEffect ==
  ASSUME TypeInv, NEW d \in Clients, NEW i, NEW in, NEW code, NEW state,
         Call(d, i, in, code, state), state \in {"save", "user", "appOf", "isAdmin"}
  PROVE  /\ \A c \in Clients : c # d => Kept(c)
         /\ CallInv(d)' /\ pc'[d] # "sign"
<1> USE DEF Call, Kept, TypeInv, TypeOK, CallType
<1>1. CASE code # "none"
  <2>1. \A c \in Clients : c # d => Kept(c)
    BY <1>1 DEF Status, Reply
  <2>2. pc'[d] = "done" /\ input'[d].op = "none"
    BY <1>1 DEF Status, Reply, NoInput
  <2>3. QED BY <2>1, <2>2, CallEnds
<1>2. CASE code = "none"
  <2>1. \A c \in Clients : c # d => Kept(c)
    BY <1>2
  <2>2. pc'[d] = state /\ answer'[d].code = "none"
    BY <1>2 DEF NoAnswer
  <2>3. QED BY <2>1, <2>2 DEF CallInv, LoginAnswered, VerifyAnswered
<1>3. QED BY <1>1, <1>2

LEMMA ClientEffect ==
  ASSUME TypeInv, NEW d \in Clients, ClientStep(d)
  PROVE  /\ \A c \in Clients : c # d => Kept(c)
         /\ CallInv(d)' /\ pc'[d] # "sign"
<1> DEFINE Goal == /\ \A c \in Clients : c # d => Kept(c)
                   /\ CallInv(d)' /\ pc'[d] # "sign"
<1>1. PICK i \in Instances :
        \/ \E email \in Emails \cup {Blank}, password \in Passwords \cup {Blank} :
              \/ Register(d, i, email, password)
              \/ \E app \in Apps \cup {0} : Login(d, i, email, password, app)
        \/ \E token \in Presented : Verify(d, i, token)
        \/ \E uid \in 0..lastId + 1 : IsAdmin(d, i, uid)
  BY DEF ClientStep
<1>2. \A in, code, state :
        Call(d, i, in, code, state) /\ state \in {"save", "user", "appOf", "isAdmin"}
        => Goal
  BY CallEffect
<1> HIDE DEF Goal
<1>3. ASSUME NEW email, NEW password, Register(d, i, email, password) PROVE Goal
  BY <1>2, <1>3 DEF Register
<1>4. ASSUME NEW email, NEW password, NEW app, Login(d, i, email, password, app)
      PROVE Goal
  BY <1>2, <1>4 DEF Login
<1>5. ASSUME NEW token, Verify(d, i, token) PROVE Goal
  BY <1>2, <1>5 DEF Verify
<1>6. ASSUME NEW uid, IsAdmin(d, i, uid) PROVE Goal
  BY <1>2, <1>6 DEF IsAdmin
<1>7. Goal
  BY <1>1, <1>3, <1>4, <1>5, <1>6
<1>8. QED BY <1>7 DEF Goal

\* Steps of a call do not move the others.
LEMMA OthersKept ==
  ASSUME TypeInv, NEW c \in Clients, NEW d \in Clients, c # d,
         ClientStep(d) \/ CallStep(d) \/ RegisterLost(d) \/ StatementFails(d)
  PROVE  Kept(c)
<1> USE DEF Kept, TypeInv, TypeOK, CallType
<1>1. CASE ClientStep(d)
  BY <1>1, ClientEffect
<1>2. CASE RegisterUser(d) \/ RegisterLost(d) \/ StatementFails(d)
  BY <1>2 DEF RegisterUser, RegisterLost, StatementFails, Status, Reply
<1>3. CASE LoginUser(d)
  BY <1>3 DEF LoginUser, LoginUserIf, Status, Reply, Continue, Quiet
<1>4. CASE LoginApp(d) \/ NewToken(d)
  BY <1>4 DEF LoginApp, LoginAppIf, NewToken, Status, Reply, Continue, Quiet
<1>5. CASE VerifyApp(d) \/ VerifyCheck(d)
  BY <1>5 DEF VerifyApp, VerifyCheck, VerifyCheckIf, Status, Reply, Continue, Quiet
<1>6. CASE VerifyAdmin(d) \/ AnswerIsAdmin(d)
  BY <1>6 DEF VerifyAdmin, AnswerIsAdmin, AnswerRole, Status, Reply, Quiet
<1>7. QED BY <1>1, <1>2, <1>3, <1>4, <1>5, <1>6 DEF CallStep

LEMMA LoginSteps ==
  ASSUME TypeInv, NEW c \in Clients, CallInv(c), Watch, users \subseteq users',
         LoginUser(c) \/ LoginApp(c) \/ NewToken(c)
  PROVE  CallInv(c)'
<1> USE DEF TypeInv, TypeOK, CallType
<1>1. /\ UNCHANGED <<users, secret, clock, input>>
      /\ input[c].op = "Login" /\ input[c].app \in Apps
      /\ pc[c] \in {"user", "app", "sign"}
  BY DEF LoginUser, LoginUserIf, LoginApp, LoginAppIf, NewToken, Quiet, dbVars,
         ArgumentInv
<1>2. window[c] \subseteq window'[c] /\ Glimpse(input[c], secret', clock') \in window'[c]
  BY <1>1, WindowGrows
<1>3. Glimpse(input[c], secret', clock').key = secret[input[c].app]
  BY <1>1 DEF Glimpse
<1>4. ASSUME NEW code \in {"NotFound", "InvalidArgument", "Internal"}, Status(c, code)
      PROVE  CallInv(c)'
  <2>1. pc'[c] = "done" /\ answer'[c].code = code
    BY <1>4 DEF Status, Reply, NoAnswer
  <2>2. QED BY <1>1, <2>1, CallEnds
<1>5. ASSUME NEW state \in {"app", "sign"}, NEW read, Continue(c, state, read)
      PROVE  /\ pc'[c] = state /\ found'[c] = read /\ answer'[c].code = "none"
             /\ LoginAnswered(c)' /\ VerifyAnswered(c)'
  <2>1. pc'[c] = state /\ found'[c] = read /\ answer'[c].code = "none"
    BY <1>1, <1>5 DEF Continue, CallInv
  <2>2. QED BY <2>1 DEF LoginAnswered, VerifyAnswered
<1>6. CASE LoginUser(c)
  <2>1. ASSUME NEW u \in Rows(input[c].email), u.password = input[c].password,
               Continue(c, "app", [found[c] EXCEPT !.uid = u.id])
        PROVE  CallInv(c)'
    <3>1. found'[c].uid = u.id
      BY <1>5, <2>1 DEF Findings
    <3>2. Vouched(c, found[c].uid)'
      BY <1>1, <2>1, <3>1 DEF Vouched, Rows
    <3>3. QED BY <1>5, <2>1, <3>2 DEF CallInv
  <2>2. QED BY <1>4, <1>6, <2>1 DEF LoginUser, LoginUserIf
<1>7. CASE LoginApp(c)
  <2>1. ASSUME Continue(c, "sign", [found[c] EXCEPT !.key = secret[input[c].app]])
        PROVE  CallInv(c)'
    <3>1. found'[c].uid = found[c].uid /\ found'[c].key = secret[input[c].app]
      BY <1>5, <2>1 DEF Findings
    <3>2. Vouched(c, found[c].uid)'
      BY <1>1, <1>7, <3>1 DEF LoginApp, LoginAppIf, CallInv, Vouched
    <3>3. QED BY <1>2, <1>3, <1>5, <2>1, <3>1, <3>2 DEF CallInv
  <2>2. QED BY <1>4, <1>7, <2>1 DEF LoginApp, LoginAppIf
<1>8. CASE NewToken(c)
  <2>1. /\ pc'[c] = "done" /\ answer'[c].token.uid = found[c].uid
        /\ answer'[c].token.email = input[c].email
        /\ answer'[c].token.key = found[c].key
    BY <1>8 DEF NewToken, Reply, NoAnswer
  <2>2. Vouched(c, found[c].uid) /\ \E glimpse \in window[c] : glimpse.key = found[c].key
    BY <1>8 DEF NewToken, CallInv
  <2>3. LoginAnswered(c)'
    BY <1>1, <1>2, <2>1, <2>2 DEF LoginAnswered, Vouched
  <2>4. QED BY <1>1, <2>1, <2>3 DEF CallInv, VerifyAnswered
<1>9. QED BY <1>6, <1>7, <1>8

LEMMA VerifySteps ==
  ASSUME TypeInv, NEW c \in Clients, CallInv(c), Watch,
         VerifyApp(c) \/ VerifyCheck(c) \/ VerifyAdmin(c)
  PROVE  CallInv(c)'
<1> USE DEF TypeInv, TypeOK, CallType
<1>1. /\ UNCHANGED <<users, secret, clock, input>>
      /\ input[c].op = "Verify" /\ input[c].token \in Token
      /\ pc[c] \in {"appOf", "check", "adminOf"}
  BY DEF VerifyApp, VerifyCheck, VerifyCheckIf, VerifyAdmin, Quiet, dbVars,
         ArgumentInv
<1> DEFINE token == input[c].token
           now == Glimpse(input[c], secret', clock')
<1>2. window[c] \subseteq window'[c] /\ now \in window'[c]
  BY <1>1, WindowGrows
<1>3. now.key = secret[token.app] /\ (now.live <=> clock < token.exp)
  BY <1>1 DEF Glimpse, Token
<1>4. ASSUME Status(c, "Internal") PROVE CallInv(c)'
  <2>1. pc'[c] = "done" /\ answer'[c].code = "Internal"
    BY <1>4 DEF Status, Reply, NoAnswer
  <2>2. QED BY <2>1, CallEnds
<1>5. ASSUME NEW state \in {"check", "adminOf"}, NEW read, Continue(c, state, read)
      PROVE  /\ pc'[c] = state /\ found'[c] = read /\ answer'[c].code = "none"
             /\ LoginAnswered(c)' /\ VerifyAnswered(c)'
  <2>1. pc'[c] = state /\ found'[c] = read /\ answer'[c].code = "none"
    BY <1>1, <1>5 DEF Continue, CallInv
  <2>2. QED BY <2>1 DEF LoginAnswered, VerifyAnswered
<1> HIDE DEF now
<1>6. CASE VerifyApp(c)
  <2>1. ASSUME Continue(c, "check", [found[c] EXCEPT !.key = secret[token.app]])
        PROVE  CallInv(c)'
    <3>1. found'[c].key = secret[token.app]
      BY <1>5, <2>1 DEF Findings
    <3>2. now.key = found'[c].key /\ (clock' < input'[c].token.exp => now.live)
      BY <1>1, <1>3, <3>1
    <3>3. QED BY <1>2, <1>5, <2>1, <3>2 DEF CallInv
  <2>2. QED BY <1>4, <1>6, <2>1 DEF VerifyApp
<1>7. CASE VerifyCheck(c)
  <2>1. PICK glimpse \in window[c] : /\ glimpse.key = found[c].key
                                     /\ clock < token.exp => glimpse.live
    BY <1>7 DEF VerifyCheck, VerifyCheckIf, CallInv
  <2>2. ASSUME token.key = found[c].key, clock < token.exp,
               Continue(c, "adminOf", [found[c] EXCEPT !.uid = token.uid])
        PROVE  CallInv(c)'
    <3>1. found'[c].uid = token.uid
      BY <1>5, <2>2 DEF Findings
    <3>2. Good(glimpse, token) /\ glimpse \in window'[c]
      BY <1>2, <2>1, <2>2 DEF Good
    <3>3. QED BY <1>1, <1>5, <2>2, <3>1, <3>2 DEF CallInv
  <2>3. ASSUME ~(token.key = found[c].key /\ clock < token.exp),
               Status(c, "InvalidArgument")
        PROVE  CallInv(c)'
    <3>1. pc'[c] = "done" /\ answer'[c].code = "InvalidArgument"
      BY <2>3 DEF Status, Reply, NoAnswer
    <3>2. \E seen \in window'[c] : ~Good(seen, token)
      BY <1>2, <1>3, <2>1, <2>3 DEF Good
    <3>3. LoginAnswered(c)' /\ VerifyAnswered(c)'
      BY <1>1, <3>1, <3>2 DEF LoginAnswered, VerifyAnswered
    <3>4. QED BY <3>1, <3>3 DEF CallInv
  <2>4. QED BY <1>7, <2>2, <2>3 DEF VerifyCheck, VerifyCheckIf
<1>8. CASE VerifyAdmin(c)
  <2>1. /\ found[c].uid = token.uid
        /\ \E glimpse \in window[c] : Good(glimpse, token)
    BY <1>8 DEF VerifyAdmin, CallInv
  <2>2. ASSUME NEW u \in users, u.id = token.uid,
               Reply(c, [code |-> "OK", uid |-> token.uid,
                         admin |-> u.admin, token |-> NoToken])
        PROVE  CallInv(c)'
    <3>1. pc'[c] = "done" /\ answer'[c].code = "OK" /\ answer'[c].uid = token.uid
          /\ answer'[c].admin = u.admin
      BY <2>2 DEF Reply
    <3>2. VerifyAnswered(c)'
      BY <1>1, <1>2, <2>1, <2>2, <3>1 DEF VerifyAnswered
    <3>3. QED BY <1>1, <3>1, <3>2 DEF CallInv, LoginAnswered
  <2>3. QED BY <1>4, <1>8, <2>1, <2>2 DEF VerifyAdmin, AnswerRole
<1>9. QED BY <1>6, <1>7, <1>8

LEMMA CallsNext ==
  ASSUME TypeInv, CallsInv, [Next]_vars
  PROVE  CallsInv'
<1>0. /\ users \subseteq users'
      /\ clock \in Nat /\ clock' \in Nat /\ clock <= clock'
  BY StoreGrows
<1>1. ASSUME NEW c \in Clients, Kept(c), Watch \/ UNCHANGED window
      PROVE  CallInv(c)'
  BY <1>0, <1>1, CallKept DEF CallsInv
<1>2. CASE UNCHANGED vars
  <2>1. \A c \in Clients : Kept(c)
    BY <1>2 DEF Kept, vars, callVars
  <2>2. QED BY <1>1, <1>2, <2>1 DEF CallsInv, vars
<1>3. CASE Tick \/ \E i \in Instances : Start(i) \/ BootStep(i)
  <2>1. UNCHANGED <<pc, input, found, answer>>
    BY <1>3 DEF Tick, Start, BootStep, MigrateUp, Migrate, IsAdminExist, AfterLook,
                EnsureAdmin, EnsureApp, Serve, callVars
  <2>2. Watch \/ UNCHANGED window
    BY DEF Next, vars
  <2>3. QED BY <1>1, <2>1, <2>2 DEF CallsInv, Kept
<1>4. ASSUME NEW i \in Instances, Crash(i), Watch PROVE CallsInv'
  <2>1. UNCHANGED input
    BY <1>4 DEF Crash
  <2>2. ASSUME NEW c \in Clients, on[c] # i PROVE CallInv(c)'
    BY <1>1, <1>4, <2>1, <2>2 DEF Crash, Kept
  <2>3. ASSUME NEW c \in Clients, on[c] = i PROVE CallInv(c)'
    <3>1. pc'[c] = "done" /\ answer'[c].code = "Unavailable"
      BY <1>4, <2>3 DEF Crash, NoAnswer
    <3>2. QED BY <3>1, CallEnds
  <2>4. QED BY <2>2, <2>3 DEF CallsInv
<1>5. ASSUME NEW d \in Clients, Watch,
             ClientStep(d) \/ CallStep(d) \/ RegisterLost(d) \/ StatementFails(d)
      PROVE  CallsInv'
  <2>1. ASSUME NEW c \in Clients, c # d PROVE CallInv(c)'
    BY <1>1, <1>5, <2>1, OthersKept
  <2>2. CallInv(d)'
    <3>1. CASE ClientStep(d)
      BY <3>1, ClientEffect
    <3>2. CASE RegisterUser(d) \/ RegisterLost(d) \/ AnswerIsAdmin(d)
      <4>1. /\ pc[d] \in {"save", "isAdmin"} /\ UNCHANGED input
            /\ pc'[d] = "done"
        BY <3>2 DEF RegisterUser, RegisterLost, AnswerIsAdmin, AnswerRole, Status,
                    Reply, Quiet, TypeInv, TypeOK
      <4>2. input'[d].op \notin {"Login", "Verify"}
        BY <4>1 DEF TypeInv, ArgumentInv
      <4>3. QED BY <4>1, <4>2, CallEnds
    <3>3. CASE StatementFails(d)
      <4>1. pc'[d] = "done" /\ answer'[d].code = "Internal"
        BY <3>3 DEF StatementFails, Status, Reply, NoAnswer, TypeInv, TypeOK, CallType
      <4>2. QED BY <4>1, CallEnds
    <3>4. CASE LoginUser(d) \/ LoginApp(d) \/ NewToken(d)
      BY <1>0, <1>5, <3>4, LoginSteps DEF CallsInv
    <3>5. CASE VerifyApp(d) \/ VerifyCheck(d) \/ VerifyAdmin(d)
      BY <1>5, <3>5, VerifySteps DEF CallsInv
    <3>6. QED BY <1>5, <3>1, <3>2, <3>3, <3>4, <3>5 DEF CallStep
  <2>3. QED BY <2>1, <2>2 DEF CallsInv
<1>6. QED BY <1>2, <1>3, <1>4, <1>5 DEF Next, Step

LEMMA CallsAlways == Spec => [](TypeInv /\ StoreInv /\ CallsInv)
BY TypeInit, StoreInit, CallsInit, TypeNext, StoreNext, CallsNext, PTL DEF Spec

\* However its statements interleave with starts, crashes and new secrets, a
\* Login is answered as if it had been one step (sso/core/service.go:88-118).
THEOREM LoginIsOneStep == Spec => []LoginIsLinearizable
<1>1. CallsInv => LoginIsLinearizable
  BY DEF CallsInv, CallInv, LoginAnswered, LoginIsLinearizable
<1>2. QED BY <1>1, CallsAlways, PTL

\* And so is a Verify, whether it accepts the token or calls it invalid
\* (sso/core/service.go:120-152).
THEOREM VerifyIsOneStep == Spec => []VerifyIsLinearizable
<1>1. CallsInv => VerifyIsLinearizable
  BY DEF CallsInv, CallInv, VerifyAnswered, Good, VerifyIsLinearizable
<1>2. QED BY <1>1, CallsAlways, PTL

-----------------------------------------------------------------------------
(***************************************************************************)
(* The service implements its promise: an INSERT opens an account, the     *)
(* upsert of EnsureApp configures, a signature issues, and the rest stays  *)
(* invisible.                                                              *)
(***************************************************************************)

Shown == <<users, secret, tokens, clock>>

\* The abstract step needs an account and a secret at the moment of the
\* signature: rows and applications are never taken away.
IssueInv ==
    \A c \in Clients : pc[c] = "sign" => secret[input[c].app] # NoSecret

LEMMA IssueInit == Init => IssueInv
BY DEF Init, IssueInv

LEMMA IssueNext ==
  ASSUME TypeInv, IssueInv, [Next]_vars
  PROVE  IssueInv'
<1>1. \A a \in Apps : secret[a] # NoSecret => secret'[a] # NoSecret
  BY StoreGrows
<1>2. ASSUME NEW c \in Clients, pc[c] = "sign", pc'[c] = "sign", input'[c] = input[c]
      PROVE  secret'[input'[c].app] # NoSecret
  BY <1>1, <1>2 DEF IssueInv, TypeInv, ArgumentInv
<1>3. ASSUME NEW c \in Clients, LoginApp(c), pc'[c] = "sign"
      PROVE  secret'[input'[c].app] # NoSecret
  <2>1. UNCHANGED <<secret, input>>
    BY <1>3 DEF LoginApp, LoginAppIf, Quiet, dbVars
  <2>2. pc[c] = "app" /\ secret[input[c].app] = NoSecret => pc'[c] = "done"
    BY <1>3 DEF LoginApp, LoginAppIf, Status, Reply, TypeInv, TypeOK
  <2>3. QED BY <1>3, <2>1, <2>2 DEF LoginApp, LoginAppIf
<1>4. ASSUME NEW c \in Clients, pc'[c] = "sign"
      PROVE  LoginApp(c) \/ (pc[c] = "sign" /\ input'[c] = input[c])
  <2>1. CASE UNCHANGED vars
    BY <1>4, <2>1 DEF vars, callVars
  <2>2. CASE Tick \/ \E i \in Instances : Start(i) \/ BootStep(i)
    BY <1>4, <2>2
       DEF Tick, Start, BootStep, MigrateUp, Migrate, IsAdminExist, AfterLook,
           EnsureAdmin, EnsureApp, Serve, callVars
  <2>3. CASE \E i \in Instances : Crash(i)
    BY <1>4, <2>3 DEF Crash
  <2>4. ASSUME NEW d \in Clients, d # c,
               ClientStep(d) \/ CallStep(d) \/ RegisterLost(d) \/ StatementFails(d)
        PROVE  pc[c] = "sign" /\ input'[c] = input[c]
    BY <1>4, <2>4, OthersKept DEF Kept
  <2>5. CASE ClientStep(c)
    BY <1>4, <2>5, ClientEffect
  <2>6. CASE RegisterUser(c) \/ RegisterLost(c) \/ StatementFails(c) \/ NewToken(c)
    BY <1>4, <2>6
       DEF RegisterUser, RegisterLost, StatementFails, NewToken, Status, Reply,
           TypeInv, TypeOK
  <2>7. CASE LoginUser(c)
    BY <1>4, <2>7 DEF LoginUser, LoginUserIf, Status, Reply, Continue, TypeInv, TypeOK
  <2>8. CASE VerifyApp(c) \/ VerifyCheck(c) \/ VerifyAdmin(c) \/ AnswerIsAdmin(c)
    BY <1>4, <2>8
       DEF VerifyApp, VerifyCheck, VerifyCheckIf, VerifyAdmin, AnswerIsAdmin,
           AnswerRole, Status, Reply, Continue, TypeInv, TypeOK
  <2>9. QED BY <2>1, <2>2, <2>3, <2>4, <2>5, <2>6, <2>7, <2>8 DEF Next, Step, CallStep
<1>5. QED BY <1>2, <1>3, <1>4 DEF IssueInv

LEMMA ShownInit == Init => Promise!Init
BY DEF Init, Promise!Init

LEMMA OpenStep ==
  ASSUME TypeInv, StoreInv, NEW email \in Emails, NEW password \in Passwords,
         NEW admin \in BOOLEAN, SaveUser(email, password, admin),
         admin => email = AdminEmail, UNCHANGED <<secret, tokens, clock>>
  PROVE  Promise!Next
<1> DEFINE row == NewRow(email, password, admin)
<1>1. /\ users' = users \cup {row} /\ lastId \in Nat
      /\ \A u \in users : u.id \in Nat /\ u.id <= lastId /\ u.email # email
      /\ \A u \in users : u.admin => u.email = AdminEmail
  BY DEF SaveUser, Rows, TypeInv, TypeOK, User, StoreInv, UsersInv
<1>2. row.id = lastId + 1 /\ row.email = email /\ row.admin = admin
  BY DEF NewRow
<1> HIDE DEF row
<1>3. \A u \in users : u.id # row.id /\ u.email # row.email /\ ~(u.admin /\ row.admin)
  BY <1>1, <1>2
<1>4. Promise!Open(row) /\ row \in users'
  BY <1>1, <1>3 DEF Promise!Open
<1>5. QED BY <1>4 DEF Promise!Next

LEMMA ShownNext ==
  ASSUME TypeInv, StoreInv, CallsInv, IssueInv, [Next]_vars
  PROVE  [Promise!Next]_(Promise!authorityVars)
<1> DEFINE Goal == [Promise!Next]_(Promise!authorityVars)
<1>0. UNCHANGED Shown => Goal
  BY DEF Shown, Promise!authorityVars
<1>1. Promise!Next => Goal
  OBVIOUS
<1> HIDE DEF Goal
<1>2. ASSUME UNCHANGED vars PROVE Goal
  BY <1>0, <1>2 DEF vars, dbVars, callVars, Shown
<1>3. ASSUME Tick PROVE Goal
  <2>1. Promise!Tick
    BY <1>3 DEF Tick, Promise!Tick, dbVars, callVars
  <2>2. QED BY <1>1, <2>1 DEF Promise!Next
<1>4. ASSUME NEW i \in Instances,
             \/ Start(i) \/ Crash(i) \/ MigrateUp(i) \/ Migrate(i)
             \/ IsAdminExist(i) \/ Serve(i)
      PROVE  Goal
  BY <1>0, <1>4
     DEF Start, Crash, MigrateUp, Migrate, IsAdminExist, AfterLook, Serve,
         dbVars, callVars, Shown
<1>5. ASSUME NEW i \in Instances, EnsureAdmin(i) PROVE Goal
  <2>1. UNCHANGED <<secret, tokens, clock>>
    BY <1>5 DEF EnsureAdmin, callVars
  <2>2. CASE SaveUser(AdminEmail, AdminPassword, TRUE)
    BY <1>1, <2>1, <2>2, OpenStep, SsoAssumption
  <2>3. CASE UserExists(AdminEmail)
    BY <1>0, <2>1, <2>3 DEF UserExists, Shown
  <2>4. QED BY <1>5, <2>2, <2>3 DEF EnsureAdmin
<1>6. ASSUME NEW i \in Instances, EnsureApp(i) PROVE Goal
  <2>1. config[i] \in Secrets /\ OwnApp \in Apps /\ config[i] # NoSecret
    BY <1>6, SsoAssumption DEF EnsureApp, TypeInv, ConfigInv
  <2>2. Promise!Configure(OwnApp, config[i])
    BY <1>6, <2>1 DEF EnsureApp, SaveApp, Promise!Configure, callVars
  <2>3. QED BY <1>1, <2>1, <2>2 DEF Promise!Next
<1>7. ASSUME NEW c \in Clients, RegisterUser(c) \/ RegisterLost(c) PROVE Goal
  <2>1. /\ UNCHANGED <<secret, tokens, clock>>
        /\ input[c].email \in Emails /\ input[c].password \in Passwords
    BY <1>7 DEF RegisterUser, RegisterLost, TypeInv, ArgumentInv
  <2>2. CASE SaveUser(input[c].email, input[c].password, FALSE)
    BY <1>1, <2>1, <2>2, OpenStep
  <2>3. CASE UserExists(input[c].email)
    BY <1>0, <2>1, <2>3 DEF UserExists, Shown
  <2>4. QED BY <1>7, <2>2, <2>3 DEF RegisterUser, RegisterLost
<1>8. ASSUME NEW c \in Clients, NewToken(c) PROVE Goal
  <2> DEFINE token == [uid |-> found[c].uid, email |-> input[c].email,
                       app |-> input[c].app, key |-> found[c].key,
                       exp |-> clock + TTL]
  <2>1. /\ token.uid = found[c].uid /\ token.email = input[c].email
        /\ token.app = input[c].app /\ token.key = found[c].key
        /\ token.exp = clock + TTL
    OBVIOUS
  <2>2. UNCHANGED <<users, secret, clock>> /\ tokens' = tokens \cup {token}
    BY <1>8 DEF NewToken, Quiet, dbVars
  <2>3. \E u \in users : u.id = token.uid /\ u.email = token.email
    BY <1>8, <2>1 DEF NewToken, CallsInv, CallInv, Vouched
  <2>4. token.key \in Secrets /\ secret[token.app] # NoSecret
    BY <1>8, <2>1 DEF NewToken, TypeInv, ArgumentInv, IssueInv
  <2>5. clock < token.exp
    BY <2>1, SsoAssumption DEF TypeInv, TypeOK
  <2> HIDE DEF token
  <2>6. Promise!Issue(token) /\ token \in tokens'
    BY <2>2, <2>3, <2>4, <2>5 DEF Promise!Issue
  <2>7. QED BY <1>1, <2>6 DEF Promise!Next
<1>9. ASSUME NEW c \in Clients, ClientStep(c) \/ StatementFails(c) PROVE Goal
  <2>1. UNCHANGED <<dbVars, clock, tokens>>
    BY <1>9 DEF ClientStep, Register, Login, Verify, IsAdmin, Call, StatementFails
  <2>2. QED BY <1>0, <2>1 DEF dbVars, Shown
<1>10. ASSUME NEW c \in Clients,
              \/ LoginUser(c) \/ LoginApp(c) \/ VerifyApp(c) \/ VerifyCheck(c)
              \/ VerifyAdmin(c) \/ AnswerIsAdmin(c)
       PROVE  Goal
  BY <1>0, <1>10
     DEF LoginUser, LoginUserIf, LoginApp, LoginAppIf, VerifyApp, VerifyCheck,
         VerifyCheckIf, VerifyAdmin, AnswerIsAdmin, Quiet, dbVars, Shown
<1>11. ASSUME NEW i \in Instances, Start(i) \/ BootStep(i) \/ Crash(i) PROVE Goal
  BY <1>4, <1>5, <1>6, <1>11 DEF BootStep
<1>12. ASSUME NEW c \in Clients,
              ClientStep(c) \/ CallStep(c) \/ RegisterLost(c) \/ StatementFails(c)
       PROVE  Goal
  BY <1>7, <1>8, <1>9, <1>10, <1>12 DEF CallStep
<1>13. Goal
  BY <1>2, <1>3, <1>11, <1>12 DEF Next, Step
<1>14. QED BY <1>13 DEF Goal

\* The service, with its statements, starts and crashes, keeps the promise of
\* Authority (sso/core/service.go).
THEOREM SsoImplementsAuthority == Spec => ImplementsAuthority
<1>1. Spec => [](TypeInv /\ StoreInv /\ CallsInv /\ IssueInv)
  BY CallsAlways, IssueInit, IssueNext, TypeNext, PTL DEF Spec
<1>2. QED BY <1>1, ShownInit, ShownNext, PTL
         DEF Spec, ImplementsAuthority, Promise!Spec, Promise!Steps
=============================================================================
