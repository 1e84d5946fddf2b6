-------------------------- MODULE MCCommentStream --------------------------
(***************************************************************************)
(* Instances of CommentStream for TLC: one post, of which the definitions  *)
(* below make every comment and every subscription a part.                 *)
(***************************************************************************)
EXTENDS CommentStream, TLC

CONSTANTS p1

OnePostOf  == [c \in Comments |-> p1]
OneTopicOf == [s \in Subscribers |-> p1]

\* Sound for safety only.
Symmetric == Permutations(Comments) \cup Permutations(Subscribers)
=============================================================================
