------------------------------ MODULE MCBroker ------------------------------
(***************************************************************************)
(* Instances of Broker for TLC.  Posts, subscribers and comments are model *)
(* values; the operators below say which post each of them belongs to.     *)
(***************************************************************************)
EXTENDS Broker, TLC

CONSTANTS p1, p2

\* All comments and subscriptions are about one post.
OnePostOf  == [c \in Comments |-> p1]
OneTopicOf == [s \in Subscribers |-> p1]

\* One subscription is about p2 and the others are about p1.
TwoTopicsOf == [OneTopicOf EXCEPT ![CHOOSE s \in Subscribers : TRUE] = p2]

\* Sound with the one-post instance only, and only for safety.
CommentSymmetry == Permutations(Comments)
Symmetric == CommentSymmetry \cup Permutations(Subscribers)
=============================================================================
