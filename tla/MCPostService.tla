--------------------------- MODULE MCPostService ---------------------------
(***************************************************************************)
(* Instances of PostService for TLC.                                       *)
(***************************************************************************)
EXTENDS PostService, TLC

CONSTANTS p1, p2, p3, r1, r2, r3, r4

\* Everything is about one post.
OnePostOf  == [r \in Requests |-> p1]
OneTopicOf == [s \in Subscribers |-> p1]

\* Two requests are about p1, one about p2 and one about p3.
ThreePostsOf == [r \in Requests |->
    CASE r \in {r1, r2} -> p1 [] r = r3 -> p2 [] r = r4 -> p3]

\* Sound with the one-post instance only, and only for safety.
Symmetric == Permutations(Requests) \cup Permutations(Subscribers)
=============================================================================
