------------------------------- MODULE MCSso -------------------------------
(***************************************************************************)
(* Instances of Sso for TLC.                                               *)
(***************************************************************************)
EXTENDS Sso

\* A token of an application that nobody configured, and one that was issued
\* before the database was wiped.
ForeignTokens ==
    {[uid |-> 1, email |-> "admin", app |-> 2, key |-> "s1", exp |-> 1],
     [uid |-> 9, email |-> "guest", app |-> 1, key |-> "s1", exp |-> 1]}
=============================================================================
