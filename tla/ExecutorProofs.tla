--------------------------- MODULE ExecutorProofs ---------------------------
(***************************************************************************)
(* Theorems about Executor, for documents of any length with any number of *)
(* posts in the answer.                                                    *)
(***************************************************************************)
EXTENDS Executor, FiniteSetTheorems, SequenceTheorems, TLAPS

-----------------------------------------------------------------------------
(***************************************************************************)
(* The inductive invariant.                                                *)
(***************************************************************************)

Outcomes == {"off", "running", "failed", "ok"}

Types ==
    /\ doc \in Documents /\ transport \in Transports
    /\ got \in [Fields -> {"running", "rejected", "failed", "resolved"}]
    /\ count \in [Fields -> 0..MaxPosts]
    /\ post \in [Places -> {"off", "dispatching", Null, "object"}]
    /\ comments \in [Modes -> [Places -> Outcomes]]
    /\ reader \in {"calling", "holding", "ended", "left"}

Response ==
    [path : {<<>>} \cup Places,
     data : [null : BOOLEAN, fields : SUBSET (Fields \X (0..MaxPosts))],
     errors : SUBSET ((Fields \X (0..MaxPosts)) \X
                      {"rejected", "failed", "plain", "deferred"}),
     hasNext : {"absent", "true", "false"}]

\* The groups that were started.
Started == {p \in Places : comments["deferred"][p] # "off"}

\* A post exists when its field is resolved, and is null when its comments
\* failed; only a post that is not null has a group.
PostInv ==
    \A p \in Places :
        /\ post[p] # "off" <=> got[p[1]] = "resolved" /\ p[2] <= count[p[1]]
        /\ post[p] = "off" => comments["plain"][p] = "off"
        /\ comments["deferred"][p] # "off" => post[p] = "object"
        /\ post[p] \in {Null, "object"} =>
              /\ comments["plain"][p] # "running"
              /\ post[p] = Null <=> comments["plain"][p] = "failed"

\* The two counters of the execution context count what they are named for.
GroupInv ==
    /\ received \subseteq Started
    /\ \A p \in received : comments["deferred"][p] \in {"ok", "failed"}
    /\ deferred = Cardinality(Started)
    /\ pending \in Nat
    /\ pending + Cardinality(received) = Cardinality(Started)

GroupData(p) == [null |-> comments["deferred"][p] = "failed", fields |-> {}]

\* The first response was made when every field was done, and each later one
\* from a group of its own.
ResponseInv ==
    /\ responses \in Seq(Response)
    /\ responses = <<>> => received = {} /\ reader \notin {"holding", "ended"}
    /\ responses # <<>> =>
          /\ \A f \in Fields : FieldDone(f)
          /\ responses[1].path = <<>>
          /\ responses[1].data = Data
          /\ responses[1].errors = FirstErrors
    /\ \A k \in 2..Len(responses) :
          /\ responses[k].path \in received
          /\ responses[k].data = GroupData(responses[k].path)
          /\ responses[k].errors = GroupErrors(responses[k].path)
    /\ \A j, k \in 2..Len(responses) : responses[j].path = responses[k].path => j = k
    /\ \A p \in received : \E k \in 2..Len(responses) : responses[k].path = p

NextInv ==
    /\ responses # <<>> => responses[Len(responses)].hasNext = HasNext(pending)
    /\ \A k \in 1..Len(responses) : k < Len(responses) => responses[k].hasNext = "true"
    /\ reader = "ended" => doc.op = "mutation" \/ pending = 0

IInv == Types /\ PostInv /\ GroupInv /\ ResponseInv /\ NextInv /\ MutationsInOrder

-----------------------------------------------------------------------------
(***************************************************************************)
(* Fields, places and what a state says of them.                           *)
(***************************************************************************)

LEMMA FieldsAreNumbers ==
  ASSUME Types
  PROVE  /\ Len(doc.fields) \in Nat \ {0} /\ MaxPosts \in Nat \ {0}
         /\ doc.op \in {"query", "mutation"}
         /\ \A f \in Fields : Name(f) \in Names /\ doc.fields[f].comments \subseteq Modes
<1>1. doc.op \in {"query", "mutation"}
      /\ doc.fields \in Seq([name : Names, comments : SUBSET Modes]) /\ doc.fields # <<>>
  BY ExecutorAssumption DEF Types, IsDocument
<1>2. Len(doc.fields) \in Nat \ {0}
  BY <1>1, LenProperties, EmptySeq
<1>3. \A f \in Fields : doc.fields[f] \in [name : Names, comments : SUBSET Modes]
  BY <1>1, ElementOfSeq DEF Fields
<1>4. QED BY <1>1, <1>2, <1>3, ExecutorAssumption DEF Name

LEMMA PlacesAreFinite ==
  ASSUME Types
  PROVE  IsFiniteSet(Places)
<1>1. Len(doc.fields) \in Int /\ MaxPosts \in Int
  BY FieldsAreNumbers
<1>2. IsFiniteSet(Fields) /\ IsFiniteSet(1..MaxPosts)
  BY <1>1, FS_Interval DEF Fields
<1>3. QED BY <1>2, FS_Product DEF Places

LEMMA PlaceOf ==
  ASSUME Types, NEW f \in Fields
  PROVE  /\ PostsOf(f) \subseteq Places
         /\ \A i \in 1..count[f] : <<f, i>> \in Places /\ <<f, i>> \in PostsOf(f)
         /\ \A p \in Places : p \in PostsOf(f) <=> p[1] = f /\ p[2] <= count[f]
<1>1. count[f] \in 0..MaxPosts /\ MaxPosts \in Nat
  BY FieldsAreNumbers DEF Types
<1>2. \A i \in 1..count[f] : i \in 1..MaxPosts
  BY <1>1
<1>3. \A i \in 1..count[f] : <<f, i>> \in Places /\ <<f, i>> \in PostsOf(f)
  BY <1>2 DEF Places, PostsOf
<1>4. \A p \in PostsOf(f) : p \in Places /\ p[1] = f /\ p[2] <= count[f]
  BY <1>1, <1>3 DEF PostsOf
<1>5. ASSUME NEW p \in Places, p[1] = f, p[2] <= count[f] PROVE p \in PostsOf(f)
  <2>1. PICK g \in Fields, i \in 1..MaxPosts : p = <<g, i>>
    BY DEF Places
  <2>2. i \in 1..count[f] /\ p = <<f, i>>
    BY <1>1, <1>5, <2>1
  <2>3. QED BY <2>2 DEF PostsOf
<1>6. QED BY <1>3, <1>4, <1>5

LEMMA GroupsAreFinite ==
  ASSUME Types, GroupInv
  PROVE  /\ IsFiniteSet(Started) /\ IsFiniteSet(received)
         /\ Cardinality(Started) \in Nat /\ Cardinality(received) \in Nat
         /\ deferred \in Nat /\ pending <= deferred
         /\ deferred <= Cardinality(Places)
         /\ pending = 0 => received = Started
<1>1. IsFiniteSet(Started) /\ Cardinality(Started) <= Cardinality(Places)
  <2>1. Started \in SUBSET Places
    BY DEF Started
  <2>2. QED BY <2>1, PlacesAreFinite, FS_Subset
<1>2. /\ IsFiniteSet(received)
      /\ Cardinality(Started) = Cardinality(received) => Started = received
  BY <1>1, FS_Subset DEF GroupInv
<1>3. Cardinality(Started) \in Nat /\ Cardinality(received) \in Nat
  BY <1>1, <1>2, FS_CardinalityType
<1>4. QED BY <1>1, <1>2, <1>3 DEF GroupInv

\* Once every field is done nothing can start any more.
LEMMA AllDone ==
  ASSUME Types, PostInv, \A f \in Fields : FieldDone(f)
  PROVE  /\ \A f \in Fields : got[f] # "running"
         /\ \A p \in Places : post[p] # "dispatching" /\ comments["plain"][p] # "running"
<1>1. \A f \in Fields : got[f] # "running"
  BY DEF FieldDone
<1>2. ASSUME NEW p \in Places, post[p] # "off" PROVE post[p] \in {Null, "object"}
  <2>1. p[1] \in Fields
    BY DEF Places
  <2>2. got[p[1]] = "resolved" /\ p \in PostsOf(p[1])
    BY <1>2, <2>1, PlaceOf DEF PostInv
  <2>3. QED BY <2>1, <2>2 DEF FieldDone
<1>3. ASSUME NEW p \in Places
      PROVE  post[p] # "dispatching" /\ comments["plain"][p] # "running"
  <2>1. CASE post[p] = "off"
    BY <2>1 DEF PostInv
  <2>2. CASE post[p] # "off"
    BY <1>2, <2>2 DEF PostInv, Null
  <2>3. QED BY <2>1, <2>2
<1>4. QED BY <1>1, <1>3

LEMMA InvInit == Init => IInv
<1> SUFFICES ASSUME Init PROVE IInv
  OBVIOUS
<1>1. Types
  <2>1. MaxPosts \in Nat
    BY ExecutorAssumption
  <2>2. QED BY <2>1 DEF Init, Types, Outcomes
<1>2. PostInv
  <2>1. \A p \in Places : p[1] \in Fields
    BY DEF Places
  <2>2. QED BY <2>1 DEF Init, PostInv, Null, Modes
<1>3. GroupInv
  <2>1. Started = {} /\ received = {}
    BY DEF Init, Started, Modes
  <2>2. QED BY <2>1, FS_EmptySet DEF Init, GroupInv
<1>4. ResponseInv
  <2>1. responses = <<>> /\ Len(responses) = 0 /\ received = {} /\ reader = "calling"
    BY DEF Init
  <2>2. QED BY <2>1 DEF ResponseInv
<1>5. NextInv
  BY DEF Init, NextInv
<1>6. MutationsInOrder
  BY DEF Init, MutationsInOrder
<1>7. QED BY <1>1, <1>2, <1>3, <1>4, <1>5, <1>6 DEF IInv

-----------------------------------------------------------------------------
(***************************************************************************)
(* What the steps do.                                                      *)
(***************************************************************************)

LEMMA FieldEffect ==
  ASSUME Types, PostInv, NEW f \in Fields, FieldStep(f)
  PROVE  /\ UNCHANGED <<doc, transport, received, deferred, pending, reader, responses>>
         /\ reader = "calling" /\ got[f] = "running"
         /\ doc.op = "query" \/ \A g \in 1..(f - 1) : FieldDone(g)
         /\ \E how \in {"rejected", "failed", "resolved"} : got' = [got EXCEPT ![f] = how]
         /\ count' \in [Fields -> 0..MaxPosts]
         /\ \A g \in Fields : g # f => count'[g] = count[g]
         /\ post' \in [Places -> {"off", "dispatching", Null, "object"}]
         /\ comments' \in [Modes -> [Places -> Outcomes]]
         /\ comments'["deferred"] = comments["deferred"]
         /\ \A p \in Places :
               IF p[1] = f /\ got'[f] = "resolved" /\ p[2] <= count'[f]
               THEN post'[p] = "dispatching" /\ comments'["plain"][p] # "failed"
               ELSE post'[p] = post[p] /\ comments'["plain"][p] = comments["plain"][p]
<1> USE DEF Types
<1>1. MaxPosts \in Nat \ {0}
  BY FieldsAreNumbers
<1>2. ASSUME Reject(f) \/ ResolveFails(f)
      PROVE  /\ UNCHANGED <<doc, transport, received, deferred, pending, reader, responses>>
             /\ reader = "calling" /\ Runnable(f)
             /\ UNCHANGED <<count, post, comments>>
             /\ \E how \in {"rejected", "failed"} : got' = [got EXCEPT ![f] = how]
  BY <1>2 DEF Reject, ResolveFails, FailsAs, groups, stream, request
<1>3. CASE Reject(f) \/ ResolveFails(f)
  BY <1>2, <1>3 DEF Runnable
<1>4. CASE Resolve(f)
  <2>1. PICK n \in Counts(f) :
          /\ count' = [count EXCEPT ![f] = n]
          /\ post' = [p \in Places |->
                        IF p[1] = f /\ p[2] <= n THEN "dispatching" ELSE post[p]]
          /\ comments' = [comments EXCEPT !["plain"] = [p \in Places |->
                        IF p[1] = f /\ p[2] <= n /\ Selected(f, "plain")
                        THEN "running" ELSE comments["plain"][p]]]
    BY <1>4 DEF Resolve
  <2>2. n \in 0..MaxPosts
    BY <1>1 DEF Counts, QueriedPosts, CreatedPosts
  <2>3. /\ UNCHANGED <<doc, transport, received, deferred, pending, reader, responses>>
        /\ reader = "calling" /\ got[f] = "running"
        /\ doc.op = "query" \/ \A g \in 1..(f - 1) : FieldDone(g)
        /\ got' = [got EXCEPT ![f] = "resolved"]
    BY <1>4 DEF Resolve, Runnable, groups, stream, request
  <2>4. /\ count' \in [Fields -> 0..MaxPosts] /\ count'[f] = n
        /\ \A g \in Fields : g # f => count'[g] = count[g]
        /\ got'[f] = "resolved"
    BY <2>1, <2>2, <2>3
  <2>5. post' \in [Places -> {"off", "dispatching", Null, "object"}]
    BY <2>1
  <2>6. /\ "plain" \in Modes /\ "deferred" \in Modes
        /\ comments["plain"] \in [Places -> Outcomes]
    BY DEF Modes
  <2>7. comments' \in [Modes -> [Places -> Outcomes]]
    <3>1. [p \in Places |->
                        IF p[1] = f /\ p[2] <= n /\ Selected(f, "plain")
                        THEN "running" ELSE comments["plain"][p]] \in [Places -> Outcomes]
      BY <2>6 DEF Outcomes
    <3>2. QED BY <2>1, <3>1
  <2>8. comments'["deferred"] = comments["deferred"]
    BY <2>1, <2>6
  <2>9. ASSUME NEW p \in Places
        PROVE  IF p[1] = f /\ p[2] <= n
               THEN post'[p] = "dispatching" /\ comments'["plain"][p] # "failed"
               ELSE post'[p] = post[p] /\ comments'["plain"][p] = comments["plain"][p]
    <3>1. comments'["plain"][p] = IF p[1] = f /\ p[2] <= n /\ Selected(f, "plain")
                                  THEN "running" ELSE comments["plain"][p]
      BY <2>1, <2>6
    <3>2. p[1] = f => comments["plain"][p] = "off"
      BY <2>3 DEF PostInv
    <3>3. QED BY <2>1, <3>1, <3>2
  <2>10. QED BY <2>3, <2>4, <2>5, <2>7, <2>8, <2>9
<1>5. QED BY <1>3, <1>4 DEF FieldStep

LEMMA DispatchEffect ==
  ASSUME Types, PostInv, NEW p \in Places, Dispatch(p)
  PROVE  /\ UNCHANGED <<doc, transport, got, count, received, reader, responses>>
         /\ post[p] = "dispatching" /\ comments["plain"][p] # "running"
         /\ comments["deferred"][p] = "off"
         /\ comments'["plain"] = comments["plain"]
         /\ post' = [post EXCEPT ![p] = IF Invalid(p) THEN Null ELSE "object"]
         /\ \/ UNCHANGED <<comments, deferred, pending>>
            \/ /\ ~Invalid(p)
               /\ comments' \in [Modes -> [Places -> Outcomes]]
               /\ comments'["deferred"] = [comments["deferred"] EXCEPT ![p] = "running"]
               /\ deferred' = deferred + 1 /\ pending' = pending + 1
<1> USE DEF Types
<1>1. "plain" \in Modes /\ "deferred" \in Modes
  BY DEF Modes
<1>2. /\ UNCHANGED <<doc, transport, got, count, received, reader, responses>>
      /\ post[p] = "dispatching" /\ comments["plain"][p] # "running"
      /\ post' = [post EXCEPT ![p] = IF Invalid(p) THEN Null ELSE "object"]
      /\ \/ UNCHANGED <<comments, deferred, pending>>
         \/ /\ ~Invalid(p)
            /\ comments' = [comments EXCEPT !["deferred"][p] = "running"]
            /\ deferred' = deferred + 1 /\ pending' = pending + 1
  BY DEF Dispatch, DispatchWith, request, stream
<1>3. comments["deferred"][p] = "off"
  BY <1>2 DEF PostInv
<1>4. ASSUME comments' = [comments EXCEPT !["deferred"][p] = "running"]
      PROVE  /\ comments' \in [Modes -> [Places -> Outcomes]]
             /\ comments'["plain"] = comments["plain"]
             /\ comments'["deferred"] = [comments["deferred"] EXCEPT ![p] = "running"]
  BY <1>1, <1>4 DEF Outcomes
<1>5. QED BY <1>2, <1>3, <1>4

LEMMA ReturnEffect ==
  ASSUME Types, NEW p \in Places, NEW m \in Modes, ReturnComments(p, m)
  PROVE  /\ UNCHANGED <<doc, transport, got, count, post, deferred, pending, received,
                        reader, responses>>
         /\ comments[m][p] = "running"
         /\ comments' \in [Modes -> [Places -> Outcomes]]
         /\ \E outcome \in {"ok", "failed"} :
               comments'[m] = [comments[m] EXCEPT ![p] = outcome]
         /\ \A n \in Modes : n # m => comments'[n] = comments[n]
<1> USE DEF Types
<1>1. PICK outcome \in {"ok", "failed"} :
        comments' = [comments EXCEPT ![m][p] = outcome]
  BY DEF ReturnComments
<1>2. /\ UNCHANGED <<doc, transport, got, count, post, deferred, pending, received,
                     reader, responses>>
      /\ comments[m][p] = "running"
  BY DEF ReturnComments, request, values, groups, stream
<1>3. comments' \in [Modes -> [Places -> Outcomes]]
  BY <1>1 DEF Outcomes
<1>4. comments'[m] = [comments[m] EXCEPT ![p] = outcome]
      /\ \A n \in Modes : n # m => comments'[n] = comments[n]
  BY <1>1
<1>5. QED BY <1>2, <1>3, <1>4

StreamStep == Respond \/ End \/ CallAgain \/ Leave \/ \E p \in Places : Receive(p)

LEMMA StreamEffect ==
  ASSUME Types, StreamStep
  PROVE  /\ UNCHANGED <<doc, transport, got, count, post, comments, deferred>>
         /\ reader' \in {"calling", "holding", "ended", "left"}
BY DEF StreamStep, Respond, EndIf, End, CallAgain, Leave, Receive, ReceiveWith, request,
       values, groups, stream, Types

\* Every step is one of these.
LEMMA Cases ==
  ASSUME [Next]_vars
  PROVE  \/ \E f \in Fields : FieldStep(f)
         \/ \E p \in Places : Dispatch(p) \/ \E m \in Modes : ReturnComments(p, m)
         \/ StreamStep
         \/ UNCHANGED vars
BY DEF Next, PlaceStep, StreamStep

LEMMA SameDocument ==
  ASSUME Types, [Next]_vars
  PROVE  doc' = doc /\ Fields' = Fields /\ Places' = Places
<1>1. doc' = doc
  <2>1. CASE \E f \in Fields : FieldStep(f)
    BY <2>1 DEF FieldStep, Resolve, Reject, ResolveFails, FailsAs, request
  <2>2. CASE \E p \in Places : Dispatch(p) \/ \E m \in Modes : ReturnComments(p, m)
    BY <2>2 DEF Dispatch, DispatchWith, ReturnComments, request
  <2>3. CASE StreamStep
    BY <2>3, StreamEffect
  <2>4. CASE UNCHANGED vars
    BY <2>4 DEF vars, request
  <2>5. QED BY <2>1, <2>2, <2>3, <2>4, Cases
<1>2. QED BY <1>1 DEF Fields, Places

LEMMA TypesNext ==
  ASSUME Types, PostInv, [Next]_vars
  PROVE  Types'
<1>0. doc' = doc /\ Fields' = Fields /\ Places' = Places
  BY SameDocument
<1>1. ASSUME NEW f \in Fields, FieldStep(f) PROVE Types'
  <2>1. got' \in [Fields -> {"running", "rejected", "failed", "resolved"}]
    BY <1>1, FieldEffect DEF Types
  <2>2. QED BY <1>0, <1>1, <2>1, FieldEffect DEF Types
<1>2. ASSUME NEW p \in Places, Dispatch(p) PROVE Types'
  <2>1. /\ post' \in [Places -> {"off", "dispatching", Null, "object"}]
        /\ comments' \in [Modes -> [Places -> Outcomes]]
    BY <1>2, DispatchEffect DEF Types
  <2>2. QED BY <1>0, <1>2, <2>1, DispatchEffect DEF Types
<1>3. ASSUME NEW p \in Places, NEW m \in Modes, ReturnComments(p, m) PROVE Types'
  BY <1>0, <1>3, ReturnEffect DEF Types
<1>4. CASE StreamStep
  BY <1>0, <1>4, StreamEffect DEF Types
<1>5. CASE UNCHANGED vars
  BY <1>0, <1>5 DEF vars, request, values, groups, stream, Types
<1>6. QED BY <1>1, <1>2, <1>3, <1>4, <1>5, Cases

LEMMA PostKept ==
  ASSUME PostInv, Places' = Places, UNCHANGED <<got, count, post, comments>>
  PROVE  PostInv'
BY DEF PostInv

LEMMA PostNext ==
  ASSUME Types, PostInv, [Next]_vars
  PROVE  PostInv'
<1>0. doc' = doc /\ Fields' = Fields /\ Places' = Places
  BY SameDocument
<1>1. ASSUME NEW f \in Fields, FieldStep(f) PROVE PostInv'
  <2>1. /\ got[f] = "running"
        /\ \E how \in {"rejected", "failed", "resolved"} : got' = [got EXCEPT ![f] = how]
        /\ \A g \in Fields : g # f => count'[g] = count[g]
        /\ comments'["deferred"] = comments["deferred"]
        /\ \A p \in Places :
              IF p[1] = f /\ got'[f] = "resolved" /\ p[2] <= count'[f]
              THEN post'[p] = "dispatching"
              ELSE post'[p] = post[p] /\ comments'["plain"][p] = comments["plain"][p]
    BY <1>1, FieldEffect
  <2>2. \A p \in Places : p[1] = f => post[p] = "off" /\ comments["deferred"][p] = "off"
    BY <2>1 DEF PostInv
  <2>3. \A g \in Fields : g # f => got'[g] = got[g]
    BY <2>1 DEF Types
  <2>4. ASSUME NEW p \in Places
        PROVE  /\ post'[p] # "off" <=> got'[p[1]] = "resolved" /\ p[2] <= count'[p[1]]
               /\ post'[p] = "off" => comments'["plain"][p] = "off"
               /\ comments'["deferred"][p] # "off" => post'[p] = "object"
               /\ post'[p] \in {Null, "object"} =>
                     /\ comments'["plain"][p] # "running"
                     /\ post'[p] = Null <=> comments'["plain"][p] = "failed"
    <3>1. p[1] \in Fields
      BY DEF Places
    <3>2. CASE p[1] # f
      BY <2>1, <2>3, <3>1, <3>2 DEF PostInv
    <3>3. CASE p[1] = f /\ got'[f] = "resolved" /\ p[2] <= count'[f]
      BY <2>1, <2>2, <3>3 DEF Null
    <3>4. CASE p[1] = f /\ ~(got'[f] = "resolved" /\ p[2] <= count'[f])
      BY <2>1, <2>2, <3>4 DEF PostInv, Null
    <3>5. QED BY <3>2, <3>3, <3>4
  <2>5. QED BY <1>0, <2>4 DEF PostInv
<1>2. ASSUME NEW p \in Places, Dispatch(p) PROVE PostInv'
  <2>1. /\ UNCHANGED <<got, count>>
        /\ post[p] = "dispatching" /\ comments["plain"][p] # "running"
        /\ comments["deferred"][p] = "off"
        /\ comments'["plain"] = comments["plain"]
        /\ post' = [post EXCEPT ![p] = IF Invalid(p) THEN Null ELSE "object"]
    BY <1>2, DispatchEffect
  <2>2. /\ \A q \in Places : q # p => comments'["deferred"][q] = comments["deferred"][q]
        /\ comments'["deferred"][p] # "off" => ~Invalid(p)
    BY <1>2, <2>1, DispatchEffect DEF Types, Modes
  <2>3. post'[p] = (IF Invalid(p) THEN Null ELSE "object")
        /\ \A q \in Places : q # p => post'[q] = post[q]
    BY <2>1 DEF Types
  <2>4. QED BY <1>0, <2>1, <2>2, <2>3 DEF PostInv, Invalid, Null
<1>3. ASSUME NEW p \in Places, NEW m \in Modes, ReturnComments(p, m) PROVE PostInv'
  <2>1. PICK outcome \in {"ok", "failed"} :
          /\ UNCHANGED <<got, count, post>> /\ comments[m][p] = "running"
          /\ comments'[m] = [comments[m] EXCEPT ![p] = outcome]
          /\ \A n \in Modes : n # m => comments'[n] = comments[n]
    BY <1>3, ReturnEffect
  <2>2. CASE m = "plain"
    <3>1. post[p] \notin {"off", Null, "object"} /\ comments'["deferred"] = comments["deferred"]
      BY <2>1, <2>2 DEF PostInv, Modes
    <3>2. \A q \in Places : q # p => comments'["plain"][q] = comments["plain"][q]
      BY <2>1, <2>2 DEF Types, Modes
    <3>3. QED BY <1>0, <2>1, <3>1, <3>2 DEF PostInv
  <2>3. CASE m = "deferred"
    <3>1. comments'["plain"] = comments["plain"]
      BY <2>1, <2>3 DEF Modes
    <3>2. \A q \in Places :
            comments'["deferred"][q] # "off" => comments["deferred"][q] # "off"
      BY <2>1, <2>3 DEF Types, Modes
    <3>3. QED BY <1>0, <2>1, <3>1, <3>2 DEF PostInv
  <2>4. QED BY <2>2, <2>3 DEF Modes
<1>4. CASE StreamStep
  BY <1>0, <1>4, StreamEffect, PostKept
<1>5. CASE UNCHANGED vars
  BY <1>0, <1>5, PostKept DEF vars, values
<1>6. QED BY <1>1, <1>2, <1>3, <1>4, <1>5, Cases

LEMMA GroupKept ==
  ASSUME GroupInv, Places' = Places, UNCHANGED <<received, deferred, pending>>,
         \A p \in Places : comments'["deferred"][p] = comments["deferred"][p]
  PROVE  GroupInv'
<1>1. Started' = Started
  BY DEF Started
<1>2. QED BY <1>1 DEF GroupInv, Started

LEMMA GroupNext ==
  ASSUME Types, PostInv, GroupInv, [Next]_vars
  PROVE  GroupInv'
<1>0. doc' = doc /\ Fields' = Fields /\ Places' = Places
  BY SameDocument
<1>1. ASSUME NEW f \in Fields, FieldStep(f) PROVE GroupInv'
  BY <1>0, <1>1, FieldEffect, GroupKept
<1>2. ASSUME NEW p \in Places, Dispatch(p) PROVE GroupInv'
  <2>1. CASE UNCHANGED <<comments, deferred, pending>>
    BY <1>0, <1>2, <2>1, DispatchEffect, GroupKept
  <2>2. CASE /\ comments'["deferred"] = [comments["deferred"] EXCEPT ![p] = "running"]
             /\ deferred' = deferred + 1 /\ pending' = pending + 1
    <3>1. /\ Started' = Started \cup {p} /\ p \notin Started /\ received' = received
          /\ \A q \in received : q # p
      <4>1. received' = received /\ comments["deferred"][p] = "off"
        BY <1>2, DispatchEffect
      <4>2. \A q \in Places : comments'["deferred"][q] =
               IF q = p THEN "running" ELSE comments["deferred"][q]
        BY <2>2 DEF Types, Modes
      <4>3. QED BY <1>0, <4>1, <4>2 DEF Started, GroupInv
    <3>2. Cardinality(Started') = Cardinality(Started) + 1
      BY <3>1, GroupsAreFinite, FS_AddElement
    <3>3. \A q \in received' : comments'["deferred"][q] \in {"ok", "failed"}
      BY <2>2, <3>1 DEF GroupInv, Types, Modes, Started
    <3>4. pending' \in Nat /\ pending' + Cardinality(received') = Cardinality(Started')
      BY <2>2, <3>1, <3>2, GroupsAreFinite DEF GroupInv
    <3>5. deferred' = Cardinality(Started') /\ received' \subseteq Started'
      BY <2>2, <3>1, <3>2 DEF GroupInv
    <3>6. QED BY <3>3, <3>4, <3>5 DEF GroupInv
  <2>3. QED BY <1>2, <2>1, <2>2, DispatchEffect
<1>3. ASSUME NEW p \in Places, NEW m \in Modes, ReturnComments(p, m) PROVE GroupInv'
  <2>1. PICK outcome \in {"ok", "failed"} :
          /\ UNCHANGED <<received, deferred, pending>> /\ comments[m][p] = "running"
          /\ comments'[m] = [comments[m] EXCEPT ![p] = outcome]
          /\ \A n \in Modes : n # m => comments'[n] = comments[n]
    BY <1>3, ReturnEffect
  <2>2. CASE m = "plain"
    BY <1>0, <2>1, <2>2, GroupKept DEF Modes
  <2>3. CASE m = "deferred"
    <3>1. Started' = Started
      BY <1>0, <2>1, <2>3 DEF Started, Types, Modes
    <3>2. \A q \in received' : comments'["deferred"][q] \in {"ok", "failed"}
      BY <2>1, <2>3 DEF GroupInv, Started, Types, Modes
    <3>3. QED BY <2>1, <3>1, <3>2 DEF GroupInv
  <2>4. QED BY <2>2, <2>3 DEF Modes
<1>4. ASSUME NEW p \in Places, Receive(p) PROVE GroupInv'
  <2>1. /\ comments["deferred"][p] \in {"ok", "failed"} /\ p \notin received
        /\ received' = received \cup {p} /\ pending > 0 /\ pending' = pending - 1
        /\ UNCHANGED <<comments, deferred>>
    BY <1>4 DEF Receive, ReceiveWith
  <2>2. Cardinality(received') = Cardinality(received) + 1
    BY <2>1, GroupsAreFinite, FS_AddElement
  <2>3. Started' = Started /\ p \in Started
    BY <1>0, <2>1 DEF Started
  <2>4. pending' \in Nat /\ pending' + Cardinality(received') = Cardinality(Started')
    BY <2>1, <2>2, <2>3, GroupsAreFinite DEF GroupInv
  <2>5. QED BY <2>1, <2>3, <2>4 DEF GroupInv
<1>5. CASE Respond \/ End \/ CallAgain \/ Leave
  BY <1>0, <1>5, GroupKept DEF Respond, End, EndIf, CallAgain, Leave, groups
<1>6. CASE UNCHANGED vars
  BY <1>0, <1>6, GroupKept DEF vars, groups
<1>7. QED BY <1>1, <1>2, <1>3, <1>4, <1>5, <1>6, Cases DEF StreamStep

-----------------------------------------------------------------------------
(***************************************************************************)
(* The responses.                                                          *)
(***************************************************************************)

\* A field that is done stays so.
LEMMA DoneStays ==
  ASSUME Types, PostInv, [Next]_vars, NEW g \in Fields, FieldDone(g)
  PROVE  FieldDone(g)'
<1>1. ASSUME got'[g] = got[g], count'[g] = count[g],
             \A p \in PostsOf(g) : post[p] \in {Null, "object"} => post'[p] = post[p]
      PROVE  FieldDone(g)'
  BY <1>1 DEF FieldDone, PostsOf
<1>2. ASSUME NEW f \in Fields, FieldStep(f) PROVE FieldDone(g)'
  <2>1. /\ got[f] = "running"
        /\ \E how \in {"rejected", "failed", "resolved"} : got' = [got EXCEPT ![f] = how]
        /\ \A h \in Fields : h # f => count'[h] = count[h]
        /\ \A p \in Places : p[1] # f => post'[p] = post[p]
    BY <1>2, FieldEffect
  <2>2. g # f
    BY <2>1 DEF FieldDone
  <2>3. \A p \in PostsOf(g) : p \in Places /\ p[1] # f
    BY <2>2, PlaceOf
  <2>4. QED BY <1>1, <2>1, <2>2, <2>3 DEF Types
<1>3. ASSUME NEW p \in Places, Dispatch(p) PROVE FieldDone(g)'
  <2>1. /\ UNCHANGED <<got, count>> /\ post[p] = "dispatching"
        /\ post' = [post EXCEPT ![p] = IF Invalid(p) THEN Null ELSE "object"]
    BY <1>3, DispatchEffect
  <2>2. \A q \in PostsOf(g) : q \in Places
    BY PlaceOf
  <2>3. QED BY <1>1, <2>1, <2>2 DEF Types, Null
<1>4. CASE \E p \in Places, m \in Modes : ReturnComments(p, m)
  BY <1>1, <1>4, ReturnEffect
<1>5. CASE StreamStep
  BY <1>1, <1>5, StreamEffect
<1>6. CASE UNCHANGED vars
  BY <1>1, <1>6 DEF vars, values
<1>7. QED BY <1>2, <1>3, <1>4, <1>5, <1>6, Cases

LEMMA OrderNext ==
  ASSUME Types, PostInv, MutationsInOrder, [Next]_vars
  PROVE  MutationsInOrder'
<1>0. doc' = doc /\ Fields' = Fields
  BY SameDocument
<1> SUFFICES ASSUME doc.op = "mutation", NEW f \in Fields, got'[f] # "running",
                    NEW g \in 1..(f - 1)
             PROVE  FieldDone(g)'
  BY <1>0 DEF MutationsInOrder
<1>1. g \in Fields
  <2>1. f \in Nat /\ f <= Len(doc.fields) /\ Len(doc.fields) \in Nat
    BY FieldsAreNumbers DEF Fields
  <2>2. QED BY <2>1 DEF Fields
<1>2. CASE got[f] # "running"
  BY <1>1, <1>2, DoneStays DEF MutationsInOrder
<1>3. CASE got[f] = "running"
  <2>1. FieldStep(f)
    <3>1. CASE \E h \in Fields : FieldStep(h)
      <4>1. PICK h \in Fields : FieldStep(h)
        BY <3>1
      <4>2. \E how \in {"rejected", "failed", "resolved"} : got' = [got EXCEPT ![h] = how]
        BY <4>1, FieldEffect
      <4>3. h = f
        BY <1>3, <4>2 DEF Types
      <4>4. QED BY <4>1, <4>3
    <3>2. CASE \E p \in Places : Dispatch(p) \/ \E m \in Modes : ReturnComments(p, m)
      BY <1>3, <3>2, DispatchEffect, ReturnEffect
    <3>3. CASE StreamStep
      BY <1>3, <3>3, StreamEffect
    <3>4. CASE UNCHANGED vars
      BY <1>3, <3>4 DEF vars, values
    <3>5. QED BY <3>1, <3>2, <3>3, <3>4, Cases
  <2>2. \A h \in 1..(f - 1) : FieldDone(h)
    BY <2>1, FieldEffect
  <2>3. QED BY <1>1, <2>2, DoneStays
<1>4. QED BY <1>2, <1>3

\* Before the first response there is nothing to say of the others.
LEMMA EarlyKept ==
  ASSUME ResponseInv, NextInv, responses = <<>>, UNCHANGED <<responses, received, reader>>
  PROVE  ResponseInv' /\ NextInv'
<1>1. responses' = <<>> /\ Len(responses') = 0 /\ received' = {}
      /\ reader' \notin {"holding", "ended"}
  BY DEF ResponseInv
<1>2. ResponseInv'
  BY <1>1 DEF ResponseInv
<1>3. NextInv'
  BY <1>1 DEF NextInv
<1>4. QED BY <1>2, <1>3

\* While a field, a post or a list of comments is being resolved there is none.
LEMMA NoneYet ==
  ASSUME Types, PostInv, ResponseInv,
         \/ \E f \in Fields : got[f] = "running"
         \/ \E p \in Places : post[p] = "dispatching" \/ comments["plain"][p] = "running"
  PROVE  responses = <<>>
BY AllDone DEF ResponseInv

\* Afterwards what was said stays true.
LEMMA ValuesKept ==
  ASSUME doc' = doc, UNCHANGED <<got, count, post>>, comments'["plain"] = comments["plain"]
  PROVE  /\ \A f \in Fields : FieldDone(f)' <=> FieldDone(f)
         /\ Data' = Data /\ FirstErrors' = FirstErrors /\ Response' = Response
<1>1. Fields' = Fields /\ Places' = Places
  BY DEF Fields, Places
<1>2. \A f \in Fields : FieldDone(f)' <=> FieldDone(f)
  BY DEF FieldDone, PostsOf
<1>3. \A f \in Fields : (FieldNull(f)' <=> FieldNull(f)) /\ (Required(f)' <=> Required(f))
  BY DEF FieldNull, PostsOf, Required, Name
<1>4. Data' = Data
  BY <1>1, <1>3 DEF Data
<1>5. FirstErrors' = FirstErrors
  BY <1>1 DEF FirstErrors
<1>6. Response' = Response
  BY <1>1 DEF Response
<1>7. QED BY <1>2, <1>4, <1>5, <1>6

LEMMA LaterKept ==
  ASSUME Types, ResponseInv, doc' = doc,
         UNCHANGED <<got, count, post, received, responses>>,
         comments'["plain"] = comments["plain"],
         \A p \in received : comments'["deferred"][p] = comments["deferred"][p],
         reader' \in {"holding", "ended"} => responses # <<>>
  PROVE  ResponseInv'
<1>1. \A p \in received : GroupData(p)' = GroupData(p) /\ GroupErrors(p)' = GroupErrors(p)
  BY DEF GroupData, GroupErrors
<1>2. /\ \A f \in Fields : FieldDone(f)' <=> FieldDone(f)
      /\ Data' = Data /\ FirstErrors' = FirstErrors /\ Response' = Response
      /\ Fields' = Fields
  BY ValuesKept DEF Fields
<1>3. responses' \in Seq(Response')
  BY <1>2 DEF ResponseInv
<1>4. \A k \in 2..Len(responses') :
         /\ responses'[k].path \in received'
         /\ responses'[k].data = GroupData(responses[k].path)'
         /\ responses'[k].errors = GroupErrors(responses[k].path)'
  BY <1>1 DEF ResponseInv
<1>5. responses' # <<>> =>
          /\ \A f \in Fields' : FieldDone(f)'
          /\ responses'[1].path = <<>>
          /\ responses'[1].data = Data'
          /\ responses'[1].errors = FirstErrors'
  BY <1>2 DEF ResponseInv
<1>6. QED BY <1>3, <1>4, <1>5 DEF ResponseInv

LEMMA ResponseTypes ==
  ASSUME Types
  PROVE  /\ Data \in [null : BOOLEAN, fields : SUBSET (Fields \X (0..MaxPosts))]
         /\ FirstErrors \in SUBSET ((Fields \X (0..MaxPosts)) \X
                                    {"rejected", "failed", "plain", "deferred"})
         /\ \A p \in Places :
               /\ GroupData(p) \in [null : BOOLEAN, fields : SUBSET (Fields \X (0..MaxPosts))]
               /\ GroupErrors(p) \in SUBSET ((Fields \X (0..MaxPosts)) \X
                                             {"rejected", "failed", "plain", "deferred"})
         /\ \A n \in Nat : HasNext(n) \in {"absent", "true", "false"}
<1>0. MaxPosts \in Nat \ {0}
  BY FieldsAreNumbers
<1>1. \A f \in Fields : <<f, count[f]>> \in Fields \X (0..MaxPosts)
  BY DEF Types
<1>2. Data \in [null : BOOLEAN, fields : SUBSET (Fields \X (0..MaxPosts))]
  <2>1. {<<f, count[f]>> : f \in {g \in Fields : ~FieldNull(g)}}
            \in SUBSET (Fields \X (0..MaxPosts))
    BY <1>1
  <2>2. QED BY <2>1 DEF Data
<1>3. \A f \in Fields : <<f, 0>> \in Fields \X (0..MaxPosts)
  BY <1>0
<1>4. \A p \in Places : p \in Fields \X (0..MaxPosts)
  <2>1. 1..MaxPosts \subseteq 0..MaxPosts
    BY <1>0
  <2>2. QED BY <2>1 DEF Places
<1>5. FirstErrors \in SUBSET ((Fields \X (0..MaxPosts)) \X
                              {"rejected", "failed", "plain", "deferred"})
  BY <1>3, <1>4 DEF FirstErrors
<1>6. ASSUME NEW p \in Places
      PROVE  /\ GroupData(p) \in [null : BOOLEAN, fields : SUBSET (Fields \X (0..MaxPosts))]
             /\ GroupErrors(p) \in SUBSET ((Fields \X (0..MaxPosts)) \X
                                           {"rejected", "failed", "plain", "deferred"})
  BY <1>4 DEF GroupData, GroupErrors
<1>7. QED BY <1>2, <1>5, <1>6 DEF HasNext

LEMMA FirstResponse ==
  ASSUME Types, GroupInv, ResponseInv, Respond
  PROVE  ResponseInv' /\ NextInv'
<1> DEFINE first == [path |-> <<>>, data |-> Data, errors |-> FirstErrors,
                     hasNext |-> HasNext(pending)]
<1>1. /\ responses = <<>> /\ responses' = <<first>> /\ reader' = "holding"
      /\ \A f \in Fields : FieldDone(f)
      /\ UNCHANGED <<doc, got, count, post, comments, received, deferred, pending>>
  BY DEF Respond, request, values, groups
<1>2. /\ \A f \in Fields : FieldDone(f)'
      /\ Data' = Data /\ FirstErrors' = FirstErrors /\ Response' = Response
      /\ Fields' = Fields
  BY <1>1, ValuesKept DEF Fields
<1>3. first \in Response
  BY ResponseTypes DEF Response, GroupInv
<1>4. /\ responses' \in Seq(Response) /\ Len(responses') = 1 /\ responses'[1] = first
      /\ responses' # <<>>
  BY <1>1, <1>3
<1>5. received' = {}
  BY <1>1 DEF ResponseInv
<1>6. ResponseInv'
  <2>1. 2..Len(responses') = {}
    BY <1>4
  <2>2. QED BY <1>2, <1>4, <1>5, <2>1 DEF ResponseInv
<1>7. NextInv'
  <2>1. HasNext(pending)' = HasNext(pending)
    BY <1>1 DEF HasNext
  <2>2. QED BY <1>1, <1>4, <2>1 DEF NextInv
<1>8. QED BY <1>6, <1>7

LEMMA LaterResponse ==
  ASSUME Types, GroupInv, ResponseInv, NextInv, NEW p \in Places, Receive(p)
  PROVE  ResponseInv' /\ NextInv'
<1> DEFINE n == Len(responses)
           later == [path |-> p, data |-> GroupData(p), errors |-> GroupErrors(p),
                     hasNext |-> HasNext(pending - 1)]
<1>1. /\ responses # <<>> /\ responses' = Append(responses, later) /\ reader' = "holding"
      /\ doc.op = "query" /\ pending > 0 /\ pending' = pending - 1
      /\ p \notin received /\ received' = received \cup {p}
      /\ UNCHANGED <<doc, got, count, post, comments, deferred>>
  BY DEF Receive, ReceiveWith, request, values, GroupData
<1>2. /\ pending \in Nat /\ pending - 1 \in Nat /\ deferred # 0
  BY <1>1, GroupsAreFinite DEF GroupInv
<1>3. later \in Response
  BY <1>2, ResponseTypes DEF Response
<1>4. /\ n \in Nat \ {0} /\ responses \in Seq(Response)
  BY <1>1, LenProperties, EmptySeq DEF ResponseInv
<1>5. /\ responses' \in Seq(Response) /\ Len(responses') = n + 1
      /\ responses'[n + 1] = later
      /\ \A k \in 1..n : responses'[k] = responses[k]
  BY <1>1, <1>3, <1>4, AppendProperties
<1>6. /\ \A f \in Fields : FieldDone(f)' <=> FieldDone(f)
      /\ Data' = Data /\ FirstErrors' = FirstErrors /\ Response' = Response
      /\ Fields' = Fields
      /\ \A q \in Places : GroupData(q)' = GroupData(q) /\ GroupErrors(q)' = GroupErrors(q)
  BY <1>1, ValuesKept DEF Fields, GroupData, GroupErrors
<1>7. received \subseteq Places
  BY DEF GroupInv, Started
<1>8. \A k \in 2..Len(responses') : k \in 2..n \/ k = n + 1
  BY <1>4, <1>5
<1>9. n + 1 \in 2..Len(responses') /\ 1 \in 1..n /\ 2..n \subseteq 1..n
      /\ 2..n \subseteq 2..Len(responses')
  BY <1>4, <1>5
<1> HIDE DEF n, later
<1>10. /\ later.path = p /\ later.data = GroupData(p) /\ later.errors = GroupErrors(p)
       /\ later.hasNext = HasNext(pending - 1)
  BY DEF later
<1>11. ResponseInv'
  <2>1. responses' # <<>>
    BY <1>4, <1>5
  <2>2. /\ \A f \in Fields' : FieldDone(f)'
        /\ responses'[1].path = <<>>
        /\ responses'[1].data = Data'
        /\ responses'[1].errors = FirstErrors'
    BY <1>1, <1>5, <1>6, <1>9 DEF ResponseInv
  <2>3. \A k \in 2..n :
           /\ responses'[k].path \in received
           /\ responses'[k].data = GroupData(responses'[k].path)
           /\ responses'[k].errors = GroupErrors(responses'[k].path)
    BY <1>5, <1>9 DEF ResponseInv, n
  <2>4. \A k \in 2..Len(responses') :
           /\ responses'[k].path \in received'
           /\ responses'[k].data = GroupData(responses'[k].path)
           /\ responses'[k].errors = GroupErrors(responses'[k].path)
    BY <1>1, <1>5, <1>8, <1>10, <2>3
  <2>5. (\A k \in 2..Len(responses) :
           /\ responses[k].path \in received
           /\ responses[k].data = GroupData(responses[k].path)
           /\ responses[k].errors = GroupErrors(responses[k].path))'
    BY <1>1, <2>4 DEF GroupData, GroupErrors
  <2>6. \A j, k \in 2..Len(responses') : responses'[j].path = responses'[k].path => j = k
    <3>1. \A j, k \in 2..n : responses'[j].path = responses'[k].path => j = k
      BY <1>5, <1>9 DEF ResponseInv, n
    <3>2. QED BY <1>1, <1>5, <1>8, <1>10, <2>3, <3>1
  <2>7. \A q \in received' : \E k \in 2..Len(responses') : responses'[k].path = q
    <3>1. \A q \in received : \E k \in 2..n : responses'[k].path = q
      BY <1>5, <1>9 DEF ResponseInv, n
    <3>2. QED BY <1>1, <1>5, <1>9, <1>10, <3>1
  <2>8. QED BY <1>1, <1>5, <1>6, <2>1, <2>2, <2>5, <2>6, <2>7 DEF ResponseInv
<1>12. NextInv'
  <2>1. HasNext(pending)' = HasNext(pending - 1)
    BY <1>1 DEF HasNext
  <2>2. \A k \in 1..n : k < n => responses'[k].hasNext = "true"
    BY <1>5 DEF NextInv, n
  <2>3. n \in 1..n /\ responses'[n].hasNext = "true"
    <3>1. responses[n].hasNext = HasNext(pending)
      BY <1>1 DEF NextInv, n
    <3>2. HasNext(pending) = "true"
      BY <1>1, <1>2 DEF HasNext
    <3>3. QED BY <1>4, <1>5, <3>1, <3>2
  <2>4. \A k \in 1..Len(responses') : k < Len(responses') =>
            k \in 1..n /\ (k < n \/ k = n)
    BY <1>4, <1>5
  <2>5. QED BY <1>1, <1>5, <1>10, <2>1, <2>2, <2>3, <2>4 DEF NextInv
<1>13. QED BY <1>11, <1>12

LEMMA ResponsesNext ==
  ASSUME Types, PostInv, GroupInv, ResponseInv, NextInv, [Next]_vars
  PROVE  ResponseInv' /\ NextInv'
<1>0. doc' = doc /\ "plain" \in Modes /\ "deferred" \in Modes
  BY SameDocument DEF Modes
<1>1. ASSUME UNCHANGED <<got, count, post, received, responses, pending, deferred>>,
             comments'["plain"] = comments["plain"],
             \A p \in received : comments'["deferred"][p] = comments["deferred"][p],
             reader' \in {"holding", "ended"} => responses # <<>>,
             reader' = "ended" => doc.op = "mutation" \/ pending = 0
      PROVE  ResponseInv' /\ NextInv'
  <2>1. ResponseInv'
    BY <1>0, <1>1, LaterKept
  <2>2. HasNext(pending)' = HasNext(pending)
    BY <1>0, <1>1 DEF HasNext
  <2>3. NextInv'
    BY <1>0, <1>1, <2>2 DEF NextInv
  <2>4. QED BY <2>1, <2>3
<1>2. ASSUME NEW f \in Fields, FieldStep(f) PROVE ResponseInv' /\ NextInv'
  <2>1. responses = <<>>
    BY <1>2, FieldEffect, NoneYet
  <2>2. QED BY <1>2, <2>1, FieldEffect, EarlyKept
<1>3. ASSUME NEW p \in Places, Dispatch(p) PROVE ResponseInv' /\ NextInv'
  <2>1. responses = <<>>
    BY <1>3, DispatchEffect, NoneYet
  <2>2. QED BY <1>3, <2>1, DispatchEffect, EarlyKept
<1>4. ASSUME NEW p \in Places, NEW m \in Modes, ReturnComments(p, m)
      PROVE  ResponseInv' /\ NextInv'
  <2>1. PICK outcome \in {"ok", "failed"} :
          /\ UNCHANGED <<got, count, post, received, deferred, pending, reader, responses>>
          /\ comments[m][p] = "running"
          /\ comments'[m] = [comments[m] EXCEPT ![p] = outcome]
          /\ \A n \in Modes : n # m => comments'[n] = comments[n]
    BY <1>4, ReturnEffect
  <2>2. CASE m = "plain"
    <3>1. responses = <<>>
      BY <2>1, <2>2, NoneYet
    <3>2. QED BY <2>1, <3>1, EarlyKept
  <2>3. CASE m = "deferred"
    <3>1. comments'["plain"] = comments["plain"]
      BY <1>0, <2>1, <2>3
    <3>2. \A q \in received : q # p /\ q \in Places
      BY <2>1, <2>3 DEF GroupInv, Started
    <3>3. \A q \in received : comments'["deferred"][q] = comments["deferred"][q]
      BY <1>0, <2>1, <2>3, <3>2 DEF Types
    <3>4. /\ reader' \in {"holding", "ended"} => responses # <<>>
          /\ reader' = "ended" => doc.op = "mutation" \/ pending = 0
      BY <2>1 DEF ResponseInv, NextInv
    <3>5. QED BY <1>1, <2>1, <3>1, <3>3, <3>4
  <2>4. QED BY <2>2, <2>3 DEF Modes
<1>5. CASE End \/ CallAgain \/ Leave
  <2>1. UNCHANGED <<got, count, post, comments, received, responses, pending, deferred>>
    BY <1>5 DEF End, EndIf, CallAgain, Leave, values, groups
  <2>2. /\ reader' \in {"holding", "ended"} => responses # <<>>
        /\ reader' = "ended" => doc.op = "mutation" \/ pending = 0
    BY <1>5 DEF End, EndIf, CallAgain, Leave
  <2>3. QED BY <1>1, <2>1, <2>2
<1>6. CASE UNCHANGED vars
  <2>1. /\ UNCHANGED <<got, count, post, comments, received, responses, pending, deferred>>
        /\ reader' = reader
    BY <1>6 DEF vars, values, groups, stream
  <2>2. /\ reader' \in {"holding", "ended"} => responses # <<>>
        /\ reader' = "ended" => doc.op = "mutation" \/ pending = 0
    BY <2>1 DEF ResponseInv, NextInv
  <2>3. QED BY <1>1, <2>1, <2>2
<1>7. QED BY <1>2, <1>3, <1>4, <1>5, <1>6, FirstResponse, LaterResponse, Cases DEF StreamStep

LEMMA InvAlways == Spec => []IInv
<1>1. Init => IInv
  BY InvInit
<1>2. IInv /\ [Next]_vars => IInv'
  BY TypesNext, PostNext, GroupNext, ResponsesNext, OrderNext DEF IInv
<1>3. QED BY <1>1, <1>2, PTL DEF Spec

-----------------------------------------------------------------------------
(***************************************************************************)
(* The theorems.                                                           *)
(***************************************************************************)

\* Every variable has its type; of the two counters of generated.go:2862,
\* PendingDeferred is never below zero nor above Deferred.
THEOREM TypeCorrect == Spec => []TypeOK
<1>1. ASSUME IInv PROVE TypeOK
  <2>1. Types /\ GroupInv
    BY <1>1 DEF IInv
  <2>2. /\ deferred \in Nat /\ pending \in Nat /\ pending <= deferred
        /\ deferred <= Cardinality(Places) /\ Cardinality(Places) \in Nat
    BY <2>1, GroupsAreFinite, PlacesAreFinite, FS_CardinalityType DEF GroupInv
  <2>3. deferred \in 0..Cardinality(Places) /\ pending \in 0..deferred
    BY <2>2
  <2>4. QED BY <2>1, <2>3 DEF TypeOK, Types, Outcomes
<1>2. QED BY <1>1, InvAlways, PTL

\* However the goroutines of out.Concurrently are scheduled, the data that _Query,
\* _Mutation and _Post put together is what the nullability of the schema says.
THEOREM DataFollows == Spec => []DataFollowsSchema
<1>1. ASSUME IInv PROVE DataFollowsSchema
  <2> SUFFICES ASSUME responses # <<>> PROVE responses[1].data = SpecData
    BY DEF DataFollowsSchema
  <2>1. /\ responses[1].data = Data /\ \A f \in Fields : FieldDone(f)
        /\ Types /\ PostInv
    BY <1>1 DEF IInv, ResponseInv
  <2>2. ASSUME NEW f \in Fields PROVE FieldNull(f) <=> SpecNull(f)
    <3>1. CASE got[f] \in {"rejected", "failed"}
      BY <3>1 DEF FieldNull, SpecNull
    <3>2. CASE got[f] \notin {"rejected", "failed"}
      <4>1. got[f] = "resolved" /\ \A p \in PostsOf(f) : post[p] \in {Null, "object"}
        BY <2>1, <3>2 DEF FieldDone
      <4>2. \A p \in PostsOf(f) : post[p] = Null <=> comments["plain"][p] = "failed"
        BY <2>1, <4>1, PlaceOf DEF PostInv
      <4>3. FieldNull(f) <=> \E p \in PostsOf(f) : comments["plain"][p] = "failed"
        BY <4>1, <4>2 DEF FieldNull
      <4>4. SpecNull(f) <=> \E i \in 1..count[f] : comments["plain"][<<f, i>>] = "failed"
        BY <4>1 DEF SpecNull
      <4>5. QED BY <4>3, <4>4 DEF PostsOf
    <3>3. QED BY <3>1, <3>2
  <2>3. \A f \in Fields : Required(f) <=> ~Nullable(f)
    BY DEF Required, Nullable
  <2>4. Data = SpecData
    <3>1. CASE \E f \in Fields : Required(f) /\ FieldNull(f)
      <4>1. \E f \in Fields : SpecNull(f) /\ ~Nullable(f)
        BY <2>2, <2>3, <3>1
      <4>2. QED BY <3>1, <4>1 DEF Data, SpecData
    <3>2. CASE ~ \E f \in Fields : Required(f) /\ FieldNull(f)
      <4>1. ~ \E f \in Fields : SpecNull(f) /\ ~Nullable(f)
        BY <2>2, <2>3, <3>2
      <4>2. {g \in Fields : ~FieldNull(g)} = {g \in Fields : ~SpecNull(g)}
        BY <2>2
      <4>3. QED BY <3>2, <4>1, <4>2 DEF Data, SpecData
    <3>3. QED BY <3>1, <3>2
  <2>5. QED BY <2>1, <2>4
<1>2. QED BY <1>1, InvAlways, PTL

\* The HasNext of generated.go:303 and 313 is computed from PendingDeferred while
\* groups are still being resolved, and is right on every response all the same.
THEOREM HasNextTrue == Spec => []HasNextIsTruthful
<1>1. ASSUME IInv PROVE HasNextIsTruthful
  <2>1. /\ responses # <<>> => responses[Len(responses)].hasNext = HasNext(pending)
        /\ \A k \in 1..Len(responses) : k < Len(responses) => responses[k].hasNext = "true"
        /\ reader = "ended" => doc.op = "mutation" \/ pending = 0
        /\ reader = "ended" => responses # <<>>
    BY <1>1 DEF IInv, NextInv, ResponseInv
  <2>2. reader = "ended" => HasNext(pending) # "true"
    BY <2>1 DEF HasNext
  <2>3. QED BY <2>1, <2>2 DEF HasNextIsTruthful
<1>2. QED BY <1>1, InvAlways, PTL

\* Each group sent on DeferredResults is received at most once, and the nil that
\* ends a query comes after the last of them: PendingDeferred counts them exactly.
THEOREM GroupsOnce == Spec => []GroupsDeliveredOnce
<1>1. ASSUME IInv PROVE GroupsDeliveredOnce
  <2>0. Types /\ GroupInv /\ ResponseInv /\ NextInv
    BY <1>1 DEF IInv
  <2>1. Len(responses) \in Nat
    BY <2>0, LenProperties DEF ResponseInv
  <2>2. \A k \in 1..Len(responses) : k = 1 \/ k \in 2..Len(responses)
    BY <2>1
  <2>3. \A k \in 2..Len(responses) : responses[k].path \in Places
    BY <2>0 DEF ResponseInv, GroupInv, Started
  <2>4. \A p \in Places : p # <<>>
    BY DEF Places
  <2>5. ASSUME NEW j \in 1..Len(responses), NEW k \in 1..Len(responses),
               responses[j].path = responses[k].path
        PROVE  j = k
    <3>1. responses # <<>>
      BY <2>1, EmptySeq
    <3>2. responses[1].path = <<>>
      BY <2>0, <3>1 DEF ResponseInv
    <3>3. QED BY <2>0, <2>2, <2>3, <2>4, <2>5, <3>2 DEF ResponseInv
  <2>6. ASSUME reader = "ended", doc.op = "query", NEW p \in Places,
               comments["deferred"][p] # "off"
        PROVE  \E k \in 1..Len(responses) : responses[k].path = p
    <3>1. pending = 0
      BY <2>0, <2>6 DEF NextInv
    <3>2. p \in received
      BY <2>0, <2>6, <3>1, GroupsAreFinite DEF Started
    <3>3. PICK k \in 2..Len(responses) : responses[k].path = p
      BY <2>0, <3>2 DEF ResponseInv
    <3>4. k \in 1..Len(responses)
      BY <2>1
    <3>5. QED BY <3>3, <3>4
  <2>7. QED BY <2>5, <2>6 DEF GroupsDeliveredOnce
<1>2. QED BY <1>1, InvAlways, PTL

\* A client that reads until hasNext is not true has every deferred group, and
\* none of them twice (generated.go:295-322).
THEOREM DeferredDelivered == Spec => []DeferredIsDelivered
BY HasNextTrue, GroupsOnce, PTL DEF DeferredIsDelivered

\* _Post tests out.Invalids before it starts the deferred groups (generated.go:2855).
THEOREM NoGroupOfNull == Spec => []NoGroupOfNullPost
<1>1. IInv => NoGroupOfNullPost
  BY DEF IInv, PostInv, NoGroupOfNullPost
<1>2. QED BY <1>1, InvAlways, PTL

\* The errors of a group are collected in a context of its own (generated.go:309), so
\* that none is lost when the first response has gone, and none is sent twice.
THEOREM FailuresOnce == Spec => []FailuresReportedOnce
<1>1. ASSUME IInv PROVE FailuresReportedOnce
  <2>0. Types /\ PostInv /\ GroupInv /\ ResponseInv /\ NextInv
    BY <1>1 DEF IInv
  <2>1. Len(responses) \in Nat
    BY <2>0, LenProperties DEF ResponseInv
  <2>2. \A k \in 1..Len(responses) : k = 1 \/ k \in 2..Len(responses)
    BY <2>1
  <2>3. responses # <<>> =>
          /\ responses[1].data = Data /\ responses[1].errors = FirstErrors
          /\ \A f \in Fields : FieldDone(f)
    BY <2>0 DEF ResponseInv
  <2>4. \A k \in 2..Len(responses) :
          /\ responses[k].path \in Places
          /\ responses[k].data = GroupData(responses[k].path)
          /\ responses[k].errors = GroupErrors(responses[k].path)
    BY <2>0 DEF ResponseInv, GroupInv, Started
  <2>5. FirstErrors \subseteq Failures
    BY DEF FirstErrors, Failures, Modes
  <2>6. \A p \in Places : GroupErrors(p) \subseteq Failures
    BY DEF GroupErrors, Failures, Modes
  <2>7. /\ \A p \in Places : \A y \in GroupErrors(p) : y = <<p, "deferred">>
        /\ \A p \in Places :
              comments["deferred"][p] = "failed" => <<p, "deferred">> \in GroupErrors(p)
    BY DEF GroupErrors
  <2>13. Data.null => FirstErrors # {}
    <3> SUFFICES ASSUME Data.null PROVE FirstErrors # {}
      OBVIOUS
    <3>1. PICK f \in Fields : FieldNull(f)
      BY DEF Data
    <3>2. CASE got[f] \in {"rejected", "failed"}
      <4>1. <<<<f, 0>>, got[f]>> \in FirstErrors
        BY <3>2 DEF FirstErrors
      <4>2. QED BY <4>1
    <3>3. CASE got[f] \notin {"rejected", "failed"}
      <4>1. PICK p \in PostsOf(f) : post[p] = Null
        BY <3>1, <3>3 DEF FieldNull
      <4>2. p \in Places /\ comments["plain"][p] = "failed"
        BY <2>0, <4>1, PlaceOf DEF PostInv
      <4>3. <<p, "plain">> \in FirstErrors
        BY <4>2 DEF FirstErrors
      <4>4. QED BY <4>3
    <3>4. QED BY <3>2, <3>3
  <2>8. \A p \in Places : GroupData(p).null => GroupErrors(p) # {}
    BY DEF GroupData, GroupErrors
  <2>9. \A k \in 1..Len(responses) : responses # <<>>
    BY <2>1, EmptySeq
  <2>10. \A k \in 1..Len(responses) :
            /\ responses[k].errors \subseteq Failures
            /\ responses[k].data.null => responses[k].errors # {}
    BY <2>2, <2>3, <2>4, <2>5, <2>6, <2>13, <2>8, <2>9
  <2>11. ASSUME reader = "ended", doc.op = "query", NEW x \in Failures
         PROVE  \E k \in 1..Len(responses) :
                   /\ x \in responses[k].errors
                   /\ \A j \in 1..Len(responses) : x \in responses[j].errors => j = k
    <3>1. responses # <<>> /\ pending = 0
      BY <2>0, <2>11 DEF ResponseInv, NextInv
    <3>2. 1 \in 1..Len(responses)
      BY <2>1, <3>1, EmptySeq, <2>0 DEF ResponseInv
    <3>3. CASE x \in FirstErrors
      <4>1. x[2] # "deferred"
        BY <3>3 DEF FirstErrors
      <4>2. \A j \in 2..Len(responses) : x \notin responses[j].errors
        <5>1. \A p \in Places : x \notin GroupErrors(p)
          BY <2>7, <4>1
        <5>2. QED BY <2>4, <5>1
      <4>3. QED BY <2>2, <2>3, <3>1, <3>2, <3>3, <4>2
    <3>4. CASE x \notin FirstErrors
      <4>1. PICK p \in Places : x = <<p, "deferred">> /\ comments["deferred"][p] = "failed"
        <5>1. x \in Places \X Modes /\ comments[x[2]][x[1]] = "failed"
          BY <3>4 DEF Failures, FirstErrors
        <5>2. PICK p \in Places, m \in Modes : x = <<p, m>>
          BY <5>1
        <5>3. m # "plain"
          BY <3>4, <5>1, <5>2 DEF FirstErrors
        <5>4. QED BY <5>1, <5>2, <5>3 DEF Modes
      <4>2. p \in received
        BY <2>0, <3>1, <4>1, GroupsAreFinite DEF Started
      <4>3. PICK k \in 2..Len(responses) : responses[k].path = p
        BY <2>0, <4>2 DEF ResponseInv
      <4>4. x \in responses[k].errors /\ k \in 1..Len(responses)
        <5>1. x \in GroupErrors(p)
          BY <2>7, <4>1
        <5>2. responses[k].errors = GroupErrors(p)
          BY <2>4, <4>3
        <5>3. QED BY <2>1, <5>1, <5>2
      <4>5. ASSUME NEW j \in 1..Len(responses), x \in responses[j].errors PROVE j = k
        <5>1. j \in 2..Len(responses)
          BY <2>2, <2>3, <3>1, <3>4, <4>5
        <5>2. responses[j].path = p
          <6>1. responses[j].path \in Places /\ x \in GroupErrors(responses[j].path)
            BY <2>4, <4>5, <5>1
          <6>2. x = <<responses[j].path, "deferred">>
            BY <2>7, <6>1
          <6>3. QED BY <4>1, <6>2
        <5>3. QED BY <2>0, <4>3, <5>1, <5>2 DEF ResponseInv
      <4>6. QED BY <4>4, <4>5
    <3>5. QED BY <3>3, <3>4
  <2>12. QED BY <2>10, <2>11 DEF FailuresReportedOnce
<1>2. QED BY <1>1, InvAlways, PTL

\* _Mutation runs its fields one after the other (generated.go:2688): a later one
\* finds the earlier ones complete.
THEOREM MutationsOrdered == Spec => []MutationsInOrder
<1>1. IInv => MutationsInOrder
  BY DEF IInv
<1>2. QED BY <1>1, InvAlways, PTL
=============================================================================
