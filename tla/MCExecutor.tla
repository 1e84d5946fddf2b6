---------------------------- MODULE MCExecutor ----------------------------
(***************************************************************************)
(* Instances of Executor for TLC.                                          *)
(***************************************************************************)
EXTENDS Executor

Field(name, modes) == [name |-> name, comments |-> modes]

Query(names) ==
    {[op |-> "query", fields |-> [f \in 1..Len(names) |-> Field(names[f], modes[f])]] :
        modes \in [1..Len(names) -> SUBSET Modes]}

MCDocuments ==
    Query(<<"posts">>) \cup Query(<<"posts", "post">>) \cup
    {[op |-> "mutation",
      fields |-> <<Field("createPost", modes), Field("createComment", {})>>] :
        modes \in SUBSET Modes} \cup
    {[op |-> "mutation",
      fields |-> <<Field("createComment", {}), Field("createPost", {"plain"})>>]}
=============================================================================
