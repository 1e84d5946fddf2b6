----------------------------- MODULE Authority -----------------------------
(***************************************************************************)
(* What the sso service promises to whoever calls it: accounts that are    *)
(* opened once and stay, one administrator, applications with a secret     *)
(* that a new configuration may replace, and tokens that name an account   *)
(* and are good as long as the application keeps the secret that signed    *)
(* them and their time has not come.  Sso implements it.                   *)
(***************************************************************************)
EXTENDS Naturals

CONSTANTS Apps, Secrets, NoSecret

VARIABLES
    accounts,    \* the rows of users
    secret,      \* the secret of an application, NoSecret before it has one
    tokens,      \* the tokens that have been issued
    clock

authorityVars == <<accounts, secret, tokens, clock>>

Init ==
    /\ accounts = {}
    /\ secret = [a \in Apps |-> NoSecret]
    /\ tokens = {}
    /\ clock = 0

\* A token that Verify accepts now.
Valid(t) == secret[t.app] = t.key /\ clock < t.exp

Open(account) ==
    /\ \A a \in accounts :
          /\ a.id # account.id
          /\ a.email # account.email
          /\ ~(a.admin /\ account.admin)
    /\ accounts' = accounts \cup {account}
    /\ UNCHANGED <<secret, tokens, clock>>

Configure(app, key) ==
    /\ key # NoSecret
    /\ secret' = [secret EXCEPT ![app] = key]
    /\ UNCHANGED <<accounts, tokens, clock>>

Issue(t) ==
    /\ \E a \in accounts : a.id = t.uid /\ a.email = t.email
    /\ secret[t.app] # NoSecret
    /\ t.key \in Secrets
    /\ clock < t.exp
    /\ tokens' = tokens \cup {t}
    /\ UNCHANGED <<accounts, secret, clock>>

Tick ==
    /\ clock' = clock + 1
    /\ UNCHANGED <<accounts, secret, tokens>>

Next ==
    \/ \E account \in accounts' : Open(account)
    \/ \E app \in Apps, key \in Secrets : Configure(app, key)
    \/ \E t \in tokens' : Issue(t)
    \/ Tick

Steps == [][Next]_authorityVars

Spec == Init /\ Steps
=============================================================================
