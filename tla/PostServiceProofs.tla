------------------------- MODULE PostServiceProofs -------------------------
(***************************************************************************)
(* Theorems about PostService, for any number of posts, requests and       *)
(* subscribers, and any Buffer.                                            *)
(***************************************************************************)
EXTENDS PostService, SequenceTheorems, TLAPS

-----------------------------------------------------------------------------
(***************************************************************************)
(* The inductive invariant.                                                *)
(***************************************************************************)

FeedType ==
    /\ phase \in [Subscribers -> {"new", "member", "left", "closed"}]
    /\ cancelled \in [Subscribers -> BOOLEAN]
    /\ status \in [Requests -> {"new", "open", "done"}]
    /\ pending \in [Requests -> SUBSET Subscribers]
    /\ mailbox \in [Subscribers -> Seq(Requests)]
    /\ received \in [Subscribers -> Seq(Requests)]

TypeInv == TypeOK /\ FeedType /\ \A r \in Requests : id[r] <= lastId

\* What GetPost and GetComment have found about a request.  Rows stay, so it
\* is still true when the row of the request becomes visible.
Checked(r) ==
    /\ PostOf[r] \in posts \cap Enabled
    /\ parent[r] # NoParent =>
          parent[r] \in DOMAIN rows /\ rows[parent[r]].post = PostOf[r]

\* A row is the work of one committed statement.
RowsInv ==
    /\ \A i \in DOMAIN rows :
          LET r == rows[i].by
          IN  /\ insert[r] = "committed" /\ id[r] = i
              /\ rows[i].post = PostOf[r] /\ rows[i].parent = parent[r]
    /\ \A r \in Requests :
          insert[r] = "committed" => id[r] \in DOMAIN rows /\ rows[id[r]].by = r

\* How far a request is, and what that says of its statement.
RequestInv ==
    \A r \in Requests :
        /\ pc[r] \in {"idle", "post", "parent", "insert", "refused"} => insert[r] = "none"
        /\ pc[r] \in {"publish", "publishing", "ok"} => insert[r] = "committed"
        /\ pc[r] = "parent" => PostOf[r] \in posts \cap Enabled
        /\ pc[r] = "insert" \/ insert[r] # "none" => Checked(r)
        /\ insert[r] # "none" /\ parent[r] # NoParent => parent[r] < id[r]

\* And what it says of its place in the feed.
PublishInv ==
    \A r \in Requests :
        /\ status[r] # "new" => pc[r] \in {"publishing", "ok", "failed"}
                                /\ insert[r] = "committed"
        /\ status[r] = "open" => pc[r] = "publishing"
        /\ pc[r] = "ok" => status[r] = "done"
        /\ status[r] # "open" => pending[r] = {}

\* Requests that were answered before another was made.
AckInv ==
    \A r \in Requests :
        /\ acked[r] \subseteq {q \in Requests : pc[q] = "ok"}
        /\ id[r] # 0 => \A q \in acked[r] : id[q] < id[r]

\* What has been put into the stream of a subscriber, and what is on its way.
SentInv ==
    \A s \in Subscribers :
        /\ \A k \in 1..Len(Sent(s)) :
              status[Sent(s)[k]] # "new" /\ PostOf[Sent(s)[k]] = TopicOf[s]
        /\ \A k, l \in 1..Len(Sent(s)) : Sent(s)[k] = Sent(s)[l] => k = l
        /\ \A r \in Requests : \A k \in 1..Len(Sent(s)) :
              s \in pending[r] => Sent(s)[k] # r
        /\ \A r \in Requests :
              s \in pending[r] => PostOf[r] = TopicOf[s]

OrderInv ==
    \A s \in Subscribers, r \in Requests : \A q \in acked[r] :
        \A k, l \in 1..Len(Sent(s)) : Sent(s)[k] = q /\ Sent(s)[l] = r => k < l

\* A comment that is announced reaches a member that has read: it was read, or
\* is on its way, or has arrived.
GapInv ==
    \A s \in Subscribers :
        /\ s \in hasRead => phase[s] # "new"
        /\ phase[s] = "member" /\ s \in hasRead =>
              \A r \in Requests :
                  status[r] # "new" /\ PostOf[r] = TopicOf[s] =>
                      \/ r \in page[s] \/ s \in pending[r]
                      \/ \E k \in 1..Len(Sent(s)) : Sent(s)[k] = r

StoreInv == TypeInv /\ RowsInv /\ RequestInv

LEMMA StoreInit == Init => StoreInv
BY ServiceAssumption
   DEF Init, Feed!Init, StoreInv, TypeInv, TypeOK, FeedType, RowsInv, RequestInv, Ids,
       PcStates, Ended

-----------------------------------------------------------------------------
(***************************************************************************)
(* The database and the requests.                                          *)
(***************************************************************************)

\* Steps that leave the database and the requests alone.
LEMMA StoreKept ==
  ASSUME StoreInv, UNCHANGED <<dbVars, callVars>>, FeedType',
         access' \in [Subscribers -> {"unknown", "granted", "refused"}],
         hasRead' \subseteq Subscribers, page' \in [Subscribers -> SUBSET Requests]
  PROVE  StoreInv'
BY DEF StoreInv, TypeInv, TypeOK, RowsInv, RequestInv, Checked, dbVars, callVars, Ids

\* A request moves on; the database stays as it is.
LEMMA RequestMoves ==
  ASSUME StoreInv, NEW r \in Requests, NEW next \in PcStates, Goto(r, next),
         UNCHANGED <<dbVars, readerVars>>, FeedType',
         acked' \in [Requests -> SUBSET Requests],
         UNCHANGED parent,
         next \in {"idle", "post", "parent", "insert", "refused"} => insert[r] = "none",
         next \in {"publish", "publishing", "ok"} => insert[r] = "committed",
         next = "parent" => PostOf[r] \in posts \cap Enabled,
         next = "insert" => Checked(r)
  PROVE  StoreInv'
<1>1. /\ pc' = [pc EXCEPT ![r] = next]
      /\ UNCHANGED <<posts, rows, lastId, insert, id, access, hasRead, page, parent>>
  BY DEF Goto, dbVars, readerVars
<1>2. TypeInv'
  BY <1>1 DEF StoreInv, TypeInv, TypeOK, Ids
<1>3. RowsInv'
  BY <1>1 DEF StoreInv, RowsInv
<1>4. RequestInv'
  BY <1>1 DEF StoreInv, TypeInv, TypeOK, RequestInv, Checked
<1>5. QED BY <1>2, <1>3, <1>4 DEF StoreInv

LEMMA FeedTypeKept ==
  ASSUME FeedType, UNCHANGED feedVars
  PROVE  FeedType'
BY DEF FeedType, feedVars

LEMMA StoreCreate ==
  ASSUME StoreInv, NEW r \in Requests, NEW i \in (1..(lastId + 1)) \cup {NoParent},
         CreateComment(r, i)
  PROVE  StoreInv'
<1> USE DEF StoreInv, TypeInv, TypeOK
<1>1. /\ pc[r] = "idle" /\ insert[r] = "none" /\ pc' = [pc EXCEPT ![r] = "post"]
      /\ parent' = [parent EXCEPT ![r] = i] /\ i \in Nat \cup {NoParent}
      /\ acked' \in [Requests -> SUBSET Requests]
      /\ UNCHANGED <<posts, rows, lastId, insert, id, access, hasRead, page, feedVars>>
  BY DEF CreateComment, Goto, RequestInv, dbVars, readerVars
<1>2. TypeInv'
  BY <1>1, FeedTypeKept DEF Ids, PcStates
<1>3. RowsInv'
  BY <1>1 DEF RowsInv
<1>4. RequestInv'
  BY <1>1 DEF RequestInv, Checked
<1>5. QED BY <1>2, <1>3, <1>4

LEMMA StoreInsert ==
  ASSUME StoreInv, NEW r \in Requests, Insert(r)
  PROVE  StoreInv'
<1> USE DEF StoreInv, TypeInv, TypeOK
<1>1. /\ pc[r] = "insert" /\ insert[r] = "none" /\ id[r] \notin Ids
      /\ pc' = [pc EXCEPT ![r] = "await"]
      /\ insert' = [insert EXCEPT ![r] = "open"]
      /\ lastId' = lastId + 1
      /\ id' = [id EXCEPT ![r] = lastId + 1]
      /\ UNCHANGED <<posts, rows, parent, acked, access, hasRead, page, feedVars>>
  BY DEF Insert, InsertAs, Goto, RequestInv, readerVars
<1>2. lastId \in Nat /\ lastId + 1 \in Nat /\ Ids \subseteq Ids' /\ lastId + 1 \in Ids'
  BY <1>1 DEF Ids
<1>3. \A q \in Requests : id[q] \in Nat /\ id[q] <= lastId /\ id[q] # lastId + 1
  BY <1>2
<1>4. TypeInv'
  <2>1. /\ insert' \in [Requests -> {"none", "open", "committed", "aborted"}]
        /\ id' \in [Requests -> Nat] /\ pc' \in [Requests -> PcStates]
    BY <1>1, <1>2 DEF PcStates
  <2>2. \A q \in Requests : insert'[q] # "none" <=> id'[q] \in Ids'
    BY <1>1, <1>2, <1>3 DEF Ids
  <2>3. \A p, q \in Requests : id'[p] = id'[q] /\ id'[p] # 0 => p = q
    BY <1>1, <1>3
  <2>4. \A q \in Requests : id'[q] <= lastId'
    BY <1>1, <1>2, <1>3
  <2>5. /\ DOMAIN rows' \subseteq Ids'
        /\ \A i \in DOMAIN rows' :
              rows'[i] \in [by : Requests, post : Posts, parent : Ids' \cup {NoParent}]
    BY <1>1, <1>2
  <2>6. QED BY <1>1, <1>2, <2>1, <2>2, <2>3, <2>4, <2>5, FeedTypeKept
<1>5. RowsInv'
  BY <1>1, <1>3 DEF RowsInv
<1>6. RequestInv'
  <2>1. parent[r] # NoParent => parent[r] < lastId + 1
    BY <1>1, <1>2 DEF RequestInv, Checked, Ids
  <2>2. QED BY <1>1, <2>1 DEF RequestInv, Checked
<1>7. QED BY <1>4, <1>5, <1>6

LEMMA StoreCommit ==
  ASSUME StoreInv, NEW r \in Requests, Commit(r)
  PROVE  StoreInv'
<1> USE DEF StoreInv, TypeInv, TypeOK
<1> DEFINE row == [by |-> r, post |-> PostOf[r], parent |-> parent[r]]
<1>1. /\ insert[r] = "open"
      /\ insert' = [insert EXCEPT ![r] = "committed"]
      /\ DOMAIN rows' = DOMAIN rows \cup {id[r]}
      /\ rows'[id[r]] = row
      /\ \A i \in DOMAIN rows \ {id[r]} : rows'[i] = rows[i]
      /\ UNCHANGED <<posts, lastId, id, pc, parent, acked, access, hasRead, page, feedVars>>
  BY DEF Commit, callVars, readerVars
<1>2. id[r] \in Ids /\ id[r] \notin DOMAIN rows
  <2>1. id[r] \in Ids /\ id[r] # 0
    BY <1>1 DEF Ids
  <2>2. \A i \in DOMAIN rows : rows[i].by \in Requests /\ id[rows[i].by] = i
                               /\ insert[rows[i].by] = "committed"
    BY DEF RowsInv
  <2>3. QED BY <1>1, <2>1, <2>2
<1>3. Checked(r) /\ row \in [by : Requests, post : Posts, parent : Ids \cup {NoParent}]
  BY <1>1, ServiceAssumption DEF RequestInv, Checked
<1>4. TypeInv'
  BY <1>1, <1>2, <1>3, FeedTypeKept DEF Ids
<1>5. RowsInv'
  <2>1. \A i \in DOMAIN rows : rows[i].by \in Requests /\ rows[i].by # r
    BY <1>1 DEF RowsInv
  <2>2. \A i \in DOMAIN rows' :
           LET q == rows'[i].by
           IN  /\ insert'[q] = "committed" /\ id'[q] = i
               /\ rows'[i].post = PostOf[q] /\ rows'[i].parent = parent'[q]
    BY <1>1, <1>2, <2>1 DEF RowsInv
  <2>3. \A q \in Requests :
           insert'[q] = "committed" => id'[q] \in DOMAIN rows' /\ rows'[id'[q]].by = q
    BY <1>1, <1>2 DEF RowsInv
  <2>4. QED BY <2>2, <2>3 DEF RowsInv
<1>6. RequestInv'
  BY <1>1, <1>2 DEF RequestInv, Checked
<1>7. QED BY <1>4, <1>5, <1>6

LEMMA StoreAbort ==
  ASSUME StoreInv, NEW r \in Requests, Abort(r)
  PROVE  StoreInv'
<1> USE DEF StoreInv, TypeInv, TypeOK
<1>1. /\ insert[r] = "open"
      /\ insert' = [insert EXCEPT ![r] = "aborted"]
      /\ UNCHANGED <<posts, rows, lastId, id, pc, parent, acked, access, hasRead, page,
                     feedVars>>
  BY DEF Abort, callVars, readerVars
<1>2. TypeInv'
  BY <1>1, FeedTypeKept DEF Ids
<1>3. RowsInv' /\ RequestInv'
  BY <1>1 DEF RowsInv, RequestInv, Checked
<1>4. QED BY <1>2, <1>3

\* The feed keeps its types.
LEMMA FeedTypeNext ==
  ASSUME FeedType,
         \/ \E r \in Requests :
               Feed!Begin(r) \/ Feed!Finish(r) \/ \E s \in Subscribers : Feed!Offer(r, s)
         \/ \E s \in Subscribers :
               \/ Feed!Join(s) \/ Feed!Cancel(s) \/ Feed!Leave(s) \/ Feed!Close(s)
               \/ Feed!Deliver(s)
  PROVE  FeedType'
<1> USE DEF FeedType
<1>1. ASSUME NEW r \in Requests, Feed!Begin(r) \/ Feed!Finish(r) PROVE FeedType'
  BY <1>1 DEF Feed!Begin, Feed!Finish, Feed!Members
<1>2. ASSUME NEW r \in Requests, NEW s \in Subscribers, Feed!Offer(r, s) PROVE FeedType'
  BY <1>2 DEF Feed!Offer
<1>3. ASSUME NEW s \in Subscribers, Feed!Join(s) \/ Feed!Cancel(s) \/ Feed!Leave(s)
      PROVE  FeedType'
  BY <1>3 DEF Feed!Join, Feed!Cancel, Feed!Leave
<1>4. ASSUME NEW s \in Subscribers, Feed!Close(s) PROVE FeedType'
  <2>1. PICK n \in 0..Len(mailbox[s]) :
           mailbox' = [mailbox EXCEPT ![s] = SubSeq(mailbox[s], 1, n)]
    BY <1>4 DEF Feed!Close
  <2>2. SubSeq(mailbox[s], 1, n) \in Seq(Requests)
    <3>1. mailbox[s] \in Seq(Requests)
      OBVIOUS
    <3>2. \A k \in 1..n : mailbox[s][k] \in Requests
      BY <3>1
    <3>3. QED BY <3>1, <3>2
  <2>3. QED BY <1>4, <2>1, <2>2 DEF Feed!Close
<1>5. ASSUME NEW s \in Subscribers, Feed!Deliver(s) PROVE FeedType'
  <2>1. Head(mailbox[s]) \in Requests /\ Tail(mailbox[s]) \in Seq(Requests)
    BY <1>5 DEF Feed!Deliver
  <2>2. QED BY <1>5, <2>1 DEF Feed!Deliver
<1>6. QED BY <1>1, <1>2, <1>3, <1>4, <1>5

LEMMA StoreRequests ==
  ASSUME StoreInv, NEW r \in Requests,
         Refuse(r) \/ GetPost(r) \/ GetComment(r) \/ Reply(r) \/ Fail(r) \/ Publish(r)
  PROVE  StoreInv'
<1> USE DEF PcStates, Ended, ConvertError
<1>1. acked \in [Requests -> SUBSET Requests] /\ FeedType /\ pc[r] \in PcStates
  BY DEF StoreInv, TypeInv, TypeOK
<1>2. CASE Refuse(r)
  <2>1. /\ Goto(r, "refused") /\ insert[r] = "none"
        /\ UNCHANGED <<dbVars, readerVars, feedVars, parent, acked>>
    BY <1>2 DEF Refuse, StoreInv, RequestInv
  <2>2. QED BY <1>1, <2>1, RequestMoves, FeedTypeKept
<1>3. CASE GetPost(r)
  <2>1. PICK next \in {"failed", "refused", "insert", "parent"} :
           /\ Goto(r, next) /\ insert[r] = "none"
           /\ next \in {"insert", "parent"} => PostOf[r] \in posts \cap Enabled
           /\ next = "insert" => parent[r] = NoParent
           /\ UNCHANGED <<dbVars, readerVars, feedVars, parent, acked>>
    BY <1>3 DEF GetPost, PostCheck, StoreInv, RequestInv
  <2>2. next = "insert" => Checked(r)
    BY <2>1 DEF Checked
  <2>3. QED BY <1>1, <2>1, <2>2, RequestMoves, FeedTypeKept
<1>4. CASE GetComment(r)
  <2>1. PICK next \in {"failed", "refused", "insert"} :
           /\ Goto(r, next) /\ insert[r] = "none"
           /\ next = "insert" => parent[r] \in DOMAIN rows
                                 /\ rows[parent[r]].post = PostOf[r]
           /\ PostOf[r] \in posts \cap Enabled
           /\ UNCHANGED <<dbVars, readerVars, feedVars, parent, acked>>
    BY <1>4 DEF GetComment, ParentCheck, StoreInv, RequestInv
  <2>2. next = "insert" => Checked(r)
    BY <2>1 DEF Checked
  <2>3. QED BY <1>1, <2>1, <2>2, RequestMoves, FeedTypeKept
<1>5. CASE Reply(r) \/ Fail(r)
  <2>1. PICK next \in {"failed", "publish"} :
           /\ Goto(r, next)
           /\ next = "publish" => insert[r] = "committed"
           /\ UNCHANGED <<dbVars, readerVars, feedVars, parent, acked>>
    BY <1>5 DEF Reply, ReplyWhen, Fail
  <2>2. QED BY <1>1, <2>1, RequestMoves, FeedTypeKept
<1>6. CASE Publish(r)
  <2>1. /\ Goto(r, "publishing") /\ insert[r] = "committed"
        /\ UNCHANGED <<dbVars, readerVars, parent, acked>>
    BY <1>6 DEF Publish, BeginWhen, StoreInv, RequestInv
  <2>2. FeedType'
    BY <1>1, <1>6, FeedTypeNext DEF Publish, BeginWhen
  <2>3. QED BY <1>1, <2>1, <2>2, RequestMoves
<1>7. QED BY <1>2, <1>3, <1>4, <1>5, <1>6

LEMMA StoreAnswer ==
  ASSUME StoreInv, PublishInv, NEW r \in Requests, Answer(r)
  PROVE  StoreInv'
<1>1. /\ Goto(r, "ok") /\ insert[r] = "committed" /\ FeedType
      /\ acked \in [Requests -> SUBSET Requests]
      /\ UNCHANGED <<dbVars, readerVars, parent, acked>>
  BY DEF Answer, Feed!Finish, PublishInv, StoreInv, TypeInv, TypeOK
<1>2. FeedType'
  BY <1>1, FeedTypeNext DEF Answer
<1>3. QED BY <1>1, <1>2, RequestMoves DEF PcStates, Ended

LEMMA StoreReaders ==
  ASSUME StoreInv, NEW s \in Subscribers,
         \/ CheckAccess(s) \/ Subscribe(s) \/ ReadComments(s) \/ ReaderStep(s)
         \/ \E r \in Requests : Offer(r)
  PROVE  StoreInv'
<1>1. /\ UNCHANGED <<dbVars, callVars>>
      /\ FeedType /\ hasRead \subseteq Subscribers /\ page \in [Subscribers -> SUBSET Requests]
      /\ access \in [Subscribers -> {"unknown", "granted", "refused"}]
      /\ \A i \in DOMAIN rows : rows[i].by \in Requests
  BY DEF CheckAccess, Subscribe, ReadComments, ReaderStep, Offer, StoreInv, TypeInv, TypeOK
<1>2. CASE CheckAccess(s)
  <2>1. access' \in [Subscribers -> {"unknown", "granted", "refused"}]
        /\ UNCHANGED <<hasRead, page, feedVars>>
    BY <1>1, <1>2 DEF CheckAccess
  <2>2. QED BY <1>1, <2>1, StoreKept, FeedTypeKept
<1>3. CASE ReadComments(s)
  <2>1. hasRead' \subseteq Subscribers /\ page' \in [Subscribers -> SUBSET Requests]
        /\ UNCHANGED <<access, feedVars>>
    BY <1>1, <1>3 DEF ReadComments
  <2>2. QED BY <1>1, <2>1, StoreKept, FeedTypeKept
<1>4. CASE Subscribe(s) \/ ReaderStep(s) \/ \E r \in Requests : Offer(r)
  <2>1. UNCHANGED <<access, hasRead, page>>
    BY <1>4 DEF Subscribe, ReaderStep, Offer, readerVars
  <2>2. FeedType'
    BY <1>1, <1>4, FeedTypeNext DEF Subscribe, ReaderStep, Offer
  <2>3. QED BY <1>1, <2>1, <2>2, StoreKept
<1>5. QED BY <1>2, <1>3, <1>4

LEMMA StoreOffer ==
  ASSUME StoreInv, NEW r \in Requests, Offer(r)
  PROVE  StoreInv'
BY StoreReaders DEF Offer

LEMMA StoreCrash ==
  ASSUME StoreInv, Crash
  PROVE  StoreInv'
<1> USE DEF StoreInv, TypeInv, TypeOK
<1>1. /\ pc' = [r \in Requests |->
              IF pc[r] \in {"idle"} \cup Ended THEN pc[r] ELSE "failed"]
      /\ access' \in [Subscribers -> {"unknown", "granted", "refused"}]
      /\ UNCHANGED <<posts, rows, lastId, insert, id, parent, acked, hasRead, page>>
  BY DEF Crash, dbVars
<1>2. FeedType'
  BY DEF Crash, FeedType
<1>3. TypeInv'
  BY <1>1, <1>2 DEF Ids, PcStates, Ended
<1>4. RowsInv' /\ RequestInv'
  BY <1>1 DEF RowsInv, RequestInv, Checked, Ended
<1>5. QED BY <1>3, <1>4

LEMMA StoreCreatePost ==
  ASSUME StoreInv, NEW p \in Posts, CreatePost(p)
  PROVE  StoreInv'
<1>1. /\ posts' = posts \cup {p}
      /\ UNCHANGED <<rows, lastId, insert, id, pc, parent, acked, access, hasRead, page,
                     feedVars>>
  BY DEF CreatePost, callVars, readerVars
<1>2. QED BY <1>1, FeedTypeKept
         DEF StoreInv, TypeInv, TypeOK, RowsInv, RequestInv, Checked, Ids

LEMMA StoreNext ==
  ASSUME StoreInv, PublishInv, [Next]_vars
  PROVE  StoreInv'
<1>1. CASE UNCHANGED vars
  <2>1. /\ UNCHANGED <<dbVars, callVars, access, hasRead, page, feedVars>>
        /\ access \in [Subscribers -> {"unknown", "granted", "refused"}]
        /\ hasRead \subseteq Subscribers /\ page \in [Subscribers -> SUBSET Requests]
        /\ FeedType
    BY <1>1 DEF vars, readerVars, StoreInv, TypeInv, TypeOK
  <2>2. QED BY <2>1, StoreKept, FeedTypeKept
<1>2. CASE \E p \in Posts : CreatePost(p)
  BY <1>2, StoreCreatePost
<1>3. ASSUME NEW r \in Requests,
             \/ Refuse(r) \/ RequestStep(r) \/ Fail(r) \/ Commit(r) \/ Abort(r)
             \/ \E i \in (1..(lastId + 1)) \cup {NoParent} : CreateComment(r, i)
      PROVE  StoreInv'
  BY <1>3, StoreCreate, StoreInsert, StoreCommit, StoreAbort, StoreRequests, StoreOffer,
     StoreAnswer DEF RequestStep
<1>4. ASSUME NEW s \in Subscribers,
             CheckAccess(s) \/ Subscribe(s) \/ ReadComments(s) \/ ReaderStep(s)
      PROVE  StoreInv'
  BY <1>4, StoreReaders
<1>5. CASE Crash
  BY <1>5, StoreCrash
<1>6. CASE Quiet
  BY <1>1, <1>6 DEF Quiet
<1>7. QED BY <1>1, <1>2, <1>3, <1>4, <1>5, <1>6 DEF Next

-----------------------------------------------------------------------------
(***************************************************************************)
(* The stream of a subscriber, position by position: an offer adds a       *)
(* comment at its end, a delivery moves one across, the end of the         *)
(* subscription cuts off a tail, and nothing else touches it.              *)
(***************************************************************************)

LEMMA OfferedAtEnd ==
  ASSUME NEW a \in Seq(Requests), NEW q \in Seq(Requests), NEW x \in Requests
  PROVE  /\ Len(a \o Append(q, x)) = Len(a \o q) + 1
         /\ (a \o Append(q, x))[Len(a \o q) + 1] = x
         /\ \A k \in 1..Len(a \o q) : (a \o Append(q, x))[k] = (a \o q)[k]
<1>1. /\ Append(q, x) \in Seq(Requests)
      /\ Len(Append(q, x)) = Len(q) + 1
      /\ \A k \in 1..Len(q) : Append(q, x)[k] = q[k]
      /\ Append(q, x)[Len(q) + 1] = x
  BY AppendProperties
<1>2. /\ Len(a \o q) = Len(a) + Len(q)
      /\ \A k \in 1..Len(a) + Len(q) :
            (a \o q)[k] = IF k <= Len(a) THEN a[k] ELSE q[k - Len(a)]
  BY ConcatProperties
<1>4. Len(a) \in Nat /\ Len(q) \in Nat
  BY LenProperties
<1>3. /\ Len(a \o Append(q, x)) = Len(a) + Len(q) + 1
      /\ \A k \in 1..Len(a) + Len(q) + 1 :
            (a \o Append(q, x))[k] =
                IF k <= Len(a) THEN a[k] ELSE Append(q, x)[k - Len(a)]
  <2>1. Len(a) + Len(Append(q, x)) = Len(a) + Len(q) + 1
    BY <1>1, <1>4
  <2>2. /\ Len(a \o Append(q, x)) = Len(a) + Len(Append(q, x))
        /\ \A k \in 1..Len(a) + Len(Append(q, x)) :
              (a \o Append(q, x))[k] =
                  IF k <= Len(a) THEN a[k] ELSE Append(q, x)[k - Len(a)]
    BY <1>1, ConcatProperties
  <2>3. QED BY <2>1, <2>2
<1>5. QED BY <1>1, <1>2, <1>3, <1>4

LEMMA TakenFromFront ==
  ASSUME NEW a \in Seq(Requests), NEW q \in Seq(Requests), q # <<>>
  PROVE  /\ Len(Append(a, Head(q)) \o Tail(q)) = Len(a \o q)
         /\ \A k \in 1..Len(a \o q) : (Append(a, Head(q)) \o Tail(q))[k] = (a \o q)[k]
<1>1. /\ Head(q) \in Requests /\ Head(q) = q[1]
      /\ Tail(q) \in Seq(Requests)
      /\ Len(Tail(q)) = Len(q) - 1
      /\ \A k \in 1..Len(Tail(q)) : Tail(q)[k] = q[k + 1]
  BY HeadTailProperties
<1>2. /\ Append(a, Head(q)) \in Seq(Requests)
      /\ Len(Append(a, Head(q))) = Len(a) + 1
      /\ \A k \in 1..Len(a) : Append(a, Head(q))[k] = a[k]
      /\ Append(a, Head(q))[Len(a) + 1] = Head(q)
  BY <1>1, AppendProperties
<1>3. /\ Len(a \o q) = Len(a) + Len(q)
      /\ \A k \in 1..Len(a) + Len(q) :
            (a \o q)[k] = IF k <= Len(a) THEN a[k] ELSE q[k - Len(a)]
  BY ConcatProperties
<1>4. Len(a) \in Nat /\ Len(q) \in Nat \ {0}
  BY LenProperties, EmptySeq
<1>5. /\ Len(Append(a, Head(q)) \o Tail(q)) = Len(a) + Len(q)
      /\ \A k \in 1..Len(a) + Len(q) :
            (Append(a, Head(q)) \o Tail(q))[k] =
                IF k <= Len(a) + 1 THEN Append(a, Head(q))[k] ELSE Tail(q)[k - (Len(a) + 1)]
  <2>1. Len(Append(a, Head(q))) + Len(Tail(q)) = Len(a) + Len(q)
    BY <1>1, <1>2, <1>4
  <2>2. QED BY <1>1, <1>2, <2>1, ConcatProperties
<1>6. ASSUME NEW k \in 1..Len(a) + Len(q)
      PROVE  (Append(a, Head(q)) \o Tail(q))[k] = (a \o q)[k]
  <2>1. CASE k <= Len(a)
    BY <1>2, <1>3, <1>4, <1>5, <2>1
  <2>2. CASE k = Len(a) + 1
    BY <1>1, <1>2, <1>3, <1>4, <1>5, <2>2
  <2>3. CASE k > Len(a) + 1
    <3>1. k - (Len(a) + 1) \in 1..Len(Tail(q)) /\ k - (Len(a) + 1) + 1 = k - Len(a)
      BY <1>1, <1>4, <2>3
    <3>2. Tail(q)[k - (Len(a) + 1)] = q[k - Len(a)]
      BY <1>1, <3>1
    <3>3. QED BY <1>3, <1>4, <1>5, <2>3, <3>2
  <2>4. QED BY <1>4, <2>1, <2>2, <2>3
<1>7. QED BY <1>3, <1>5, <1>6

LEMMA CutAtEnd ==
  ASSUME NEW a \in Seq(Requests), NEW q \in Seq(Requests), NEW n \in 0..Len(q)
  PROVE  /\ Len(a \o SubSeq(q, 1, n)) \in Nat
         /\ Len(a \o SubSeq(q, 1, n)) <= Len(a \o q)
         /\ \A k \in 1..Len(a \o SubSeq(q, 1, n)) :
               (a \o SubSeq(q, 1, n))[k] = (a \o q)[k]
<1>0. Len(a) \in Nat /\ Len(q) \in Nat /\ n \in Nat /\ n <= Len(q)
  BY LenProperties
<1>1. \A k \in 1..n : q[k] \in Requests
  BY <1>0, ElementOfSeq
<1>2. /\ SubSeq(q, 1, n) \in Seq(Requests)
      /\ Len(SubSeq(q, 1, n)) = n
      /\ \A k \in 1..n : SubSeq(q, 1, n)[k] = q[k]
  BY <1>0, <1>1, SubSeqProperties
<1>3. /\ Len(a \o q) = Len(a) + Len(q)
      /\ \A k \in 1..Len(a) + Len(q) :
            (a \o q)[k] = IF k <= Len(a) THEN a[k] ELSE q[k - Len(a)]
  BY ConcatProperties
<1>4. /\ Len(a \o SubSeq(q, 1, n)) = Len(a) + n
      /\ \A k \in 1..Len(a) + n :
            (a \o SubSeq(q, 1, n))[k] =
                IF k <= Len(a) THEN a[k] ELSE SubSeq(q, 1, n)[k - Len(a)]
  BY <1>2, ConcatProperties
<1>5. QED BY <1>0, <1>2, <1>3, <1>4

LEMMA StartOfConcat ==
  ASSUME NEW a \in Seq(Requests), NEW q \in Seq(Requests)
  PROVE  /\ Len(a) <= Len(a \o q)
         /\ \A k \in 1..Len(a) : a[k] = (a \o q)[k]
<1>1. Len(a) \in Nat /\ Len(q) \in Nat
  BY LenProperties
<1>2. /\ Len(a \o q) = Len(a) + Len(q)
      /\ \A k \in 1..Len(a) + Len(q) :
            (a \o q)[k] = IF k <= Len(a) THEN a[k] ELSE q[k - Len(a)]
  BY ConcatProperties
<1>3. QED BY <1>1, <1>2

Kept(s) == /\ Len(Sent(s)') = Len(Sent(s))
           /\ \A k \in 1..Len(Sent(s)) : (Sent(s)')[k] = Sent(s)[k]

Cut(s) == /\ Len(Sent(s)') <= Len(Sent(s))
          /\ \A k \in 1..Len(Sent(s)') : (Sent(s)')[k] = Sent(s)[k]

Extended(s, r) == /\ Len(Sent(s)') = Len(Sent(s)) + 1
                  /\ (Sent(s)')[Len(Sent(s)) + 1] = r
                  /\ \A k \in 1..Len(Sent(s)) : (Sent(s)')[k] = Sent(s)[k]

LEMMA SentLength ==
  ASSUME FeedType, NEW s \in Subscribers
  PROVE  Len(Sent(s)) \in Nat
BY ConcatProperties, LenProperties DEF FeedType, Sent

LEMMA SentOffer ==
  ASSUME FeedType, NEW r \in Requests, NEW t \in Subscribers, Feed!Offer(r, t),
         NEW s \in Subscribers
  PROVE  IF s = t THEN Extended(s, r) ELSE Kept(s)
<1>1. /\ received' = received
      /\ mailbox' = [mailbox EXCEPT ![t] = Append(mailbox[t], r)]
  BY DEF Feed!Offer
<1>2. CASE s = t
  <2>1. Sent(s)' = received[s] \o Append(mailbox[s], r)
    BY <1>1, <1>2 DEF Sent, FeedType
  <2>2. received[s] \in Seq(Requests) /\ mailbox[s] \in Seq(Requests)
    BY DEF FeedType
  <2>3. /\ Len(received[s] \o Append(mailbox[s], r)) = Len(received[s] \o mailbox[s]) + 1
        /\ (received[s] \o Append(mailbox[s], r))[Len(received[s] \o mailbox[s]) + 1] = r
        /\ \A k \in 1..Len(received[s] \o mailbox[s]) :
              (received[s] \o Append(mailbox[s], r))[k] = (received[s] \o mailbox[s])[k]
    BY <2>2, OfferedAtEnd
  <2>4. QED BY <1>2, <2>1, <2>3 DEF Extended, Sent
<1>3. CASE s # t
  BY <1>1, <1>3 DEF Sent, FeedType, Kept
<1>4. QED BY <1>2, <1>3

LEMMA SentDeliver ==
  ASSUME FeedType, NEW t \in Subscribers, Feed!Deliver(t), NEW s \in Subscribers
  PROVE  Kept(s)
<1>1. /\ mailbox[t] # <<>>
      /\ mailbox' = [mailbox EXCEPT ![t] = Tail(mailbox[t])]
      /\ received' = [received EXCEPT ![t] = Append(received[t], Head(mailbox[t]))]
  BY DEF Feed!Deliver
<1>2. CASE s = t
  <2>1. Sent(s)' = Append(received[s], Head(mailbox[s])) \o Tail(mailbox[s])
    BY <1>1, <1>2 DEF Sent, FeedType
  <2>2. received[s] \in Seq(Requests) /\ mailbox[s] \in Seq(Requests)
    BY DEF FeedType
  <2>3. /\ Len(Append(received[s], Head(mailbox[s])) \o Tail(mailbox[s]))
                = Len(received[s] \o mailbox[s])
        /\ \A k \in 1..Len(received[s] \o mailbox[s]) :
              (Append(received[s], Head(mailbox[s])) \o Tail(mailbox[s]))[k]
                = (received[s] \o mailbox[s])[k]
    BY <1>1, <1>2, <2>2, TakenFromFront
  <2>4. QED BY <1>2, <2>1, <2>3 DEF Kept, Sent
<1>3. CASE s # t
  BY <1>1, <1>3 DEF Sent, FeedType, Kept
<1>4. QED BY <1>2, <1>3

LEMMA SentClose ==
  ASSUME FeedType, NEW t \in Subscribers, Feed!Close(t), NEW s \in Subscribers
  PROVE  IF s = t THEN Cut(s) ELSE Kept(s)
<1>1. PICK n \in 0..Len(mailbox[t]) :
        mailbox' = [mailbox EXCEPT ![t] = SubSeq(mailbox[t], 1, n)]
  BY DEF Feed!Close
<1>2. received' = received
  BY DEF Feed!Close
<1>3. CASE s = t
  <2>1. Sent(s)' = received[s] \o SubSeq(mailbox[s], 1, n)
    BY <1>1, <1>2, <1>3 DEF Sent, FeedType
  <2>2. received[s] \in Seq(Requests) /\ mailbox[s] \in Seq(Requests)
    BY DEF FeedType
  <2>3. /\ Len(received[s] \o SubSeq(mailbox[s], 1, n)) <= Len(received[s] \o mailbox[s])
        /\ \A k \in 1..Len(received[s] \o SubSeq(mailbox[s], 1, n)) :
              (received[s] \o SubSeq(mailbox[s], 1, n))[k] = (received[s] \o mailbox[s])[k]
    <3>1. n \in 0..Len(mailbox[s])
      BY <1>3
    <3>2. QED BY <2>2, <3>1, CutAtEnd
  <2>4. QED BY <1>3, <2>1, <2>3 DEF Cut, Sent
<1>4. CASE s # t
  BY <1>1, <1>2, <1>4 DEF Sent, FeedType, Kept
<1>5. QED BY <1>3, <1>4

LEMMA SentCrash ==
  ASSUME FeedType, Crash, NEW s \in Subscribers
  PROVE  Cut(s)
<1>1. received' = received /\ mailbox'[s] = <<>>
  BY DEF Crash
<1>2. received[s] \in Seq(Requests) /\ mailbox[s] \in Seq(Requests)
  BY DEF FeedType
<1>3. Sent(s)' = received[s]
  BY <1>1, <1>2, ConcatEmptySeq DEF Sent
<1>4. QED BY <1>2, <1>3, StartOfConcat DEF Cut, Sent

-----------------------------------------------------------------------------
(***************************************************************************)
(* What a step of the service may do to the feed.                          *)
(***************************************************************************)

Moves ==
    /\ \A r \in Requests :
          /\ status[r] # "new" => status'[r] # "new"
          /\ status[r] = "new" /\ status'[r] # "new" =>
                pending'[r] = Feed!Members(PostOf[r]) /\ phase' = phase
    /\ \A s \in Subscribers :
          /\ \/ Kept(s)
             \/ Cut(s) /\ phase'[s] # "member"
             \/ \E r \in Requests : /\ status[r] = "open" /\ s \in pending[r]
                                   /\ s \notin pending'[r] /\ Extended(s, r)
          /\ \A r \in Requests :
                /\ s \in pending[r] =>
                      s \in pending'[r] \/ phase'[s] # "member" \/ Extended(s, r)
                /\ s \in pending'[r] =>
                      \/ s \in pending[r]
                      \/ status[r] = "new" /\ s \in Feed!Members(PostOf[r])

LEMMA QuietMoves ==
  ASSUME UNCHANGED <<status, pending, mailbox, received>>
  PROVE  Moves
BY DEF Moves, Kept, Sent

LEMMA FeedMoves ==
  ASSUME StoreInv, PublishInv, [Next]_vars
  PROVE  Moves
<1> USE DEF StoreInv, TypeInv
<1>1. CASE UNCHANGED feedVars
  BY <1>1, QuietMoves DEF feedVars
<1>2. ASSUME NEW r \in Requests, Feed!Begin(r) PROVE Moves
  <2>1. /\ status[r] = "new" /\ phase' = phase
        /\ status' = [status EXCEPT ![r] = "open"]
        /\ pending' = [pending EXCEPT ![r] = Feed!Members(PostOf[r])]
        /\ pending[r] = {}
    BY <1>2 DEF Feed!Begin, PublishInv
  <2>2. \A s \in Subscribers : Kept(s)
    BY <1>2 DEF Feed!Begin, Kept, Sent
  <2>3. QED BY <2>1, <2>2 DEF Moves, FeedType
<1>3. ASSUME NEW r \in Requests, NEW t \in Subscribers, Feed!Offer(r, t) PROVE Moves
  <2>1. /\ status[r] = "open" /\ t \in pending[r] /\ status' = status
        /\ pending' = [pending EXCEPT ![r] = pending[r] \ {t}]
    BY <1>3 DEF Feed!Offer
  <2>2. \A s \in Subscribers : IF s = t THEN Extended(s, r) ELSE Kept(s)
    BY <1>3, SentOffer
  <2>3. QED BY <2>1, <2>2 DEF Moves, FeedType
<1>4. ASSUME NEW r \in Requests, Feed!Finish(r) PROVE Moves
  BY <1>4 DEF Feed!Finish, Moves, Kept, Sent, FeedType
<1>5. ASSUME NEW t \in Subscribers, Feed!Join(t) \/ Feed!Cancel(t) \/ Feed!Leave(t)
      PROVE  Moves
  BY <1>5, QuietMoves DEF Feed!Join, Feed!Cancel, Feed!Leave
<1>6. ASSUME NEW t \in Subscribers, Feed!Close(t) PROVE Moves
  <2>1. UNCHANGED <<status, pending>> /\ phase' = [phase EXCEPT ![t] = "closed"]
    BY <1>6 DEF Feed!Close
  <2>2. \A s \in Subscribers : IF s = t THEN Cut(s) ELSE Kept(s)
    BY <1>6, SentClose
  <2>3. QED BY <2>1, <2>2 DEF Moves, FeedType
<1>7. ASSUME NEW t \in Subscribers, Feed!Deliver(t) PROVE Moves
  <2>1. UNCHANGED <<status, pending>>
    BY <1>7 DEF Feed!Deliver
  <2>2. \A s \in Subscribers : Kept(s)
    BY <1>7, SentDeliver
  <2>3. QED BY <2>1, <2>2 DEF Moves
<1>8. CASE Crash
  <2>1. /\ \A s \in Subscribers : phase'[s] # "member"
        /\ \A r \in Requests : status'[r] = "new" <=> status[r] = "new"
        /\ \A r \in Requests : pending'[r] = {}
    BY <1>8 DEF Crash, FeedType
  <2>2. \A s \in Subscribers : Cut(s)
    BY <1>8, SentCrash
  <2>3. QED BY <2>1, <2>2 DEF Moves
<1>9. CASE UNCHANGED vars \/ Quiet
  BY <1>1, <1>9 DEF vars, Quiet
<1>10. ASSUME NEW r \in Requests,
              \/ Refuse(r) \/ RequestStep(r) \/ Fail(r) \/ Commit(r) \/ Abort(r)
              \/ \E i \in (1..(lastId + 1)) \cup {NoParent} : CreateComment(r, i)
       PROVE  Moves
  <2>1. \/ UNCHANGED feedVars \/ Feed!Begin(r) \/ Feed!Finish(r)
        \/ \E s \in Subscribers : Feed!Offer(r, s)
    BY <1>10
       DEF Refuse, RequestStep, GetPost, PostCheck, GetComment, ParentCheck, Insert,
           InsertAs, Reply, ReplyWhen, Publish, BeginWhen, Offer, Answer, Fail, Commit,
           Abort, CreateComment
  <2>2. QED BY <1>1, <1>2, <1>3, <1>4, <2>1
<1>11. ASSUME NEW s \in Subscribers,
              CheckAccess(s) \/ Subscribe(s) \/ ReadComments(s) \/ ReaderStep(s)
       PROVE  Moves
  BY <1>1, <1>5, <1>6, <1>7, <1>11
     DEF CheckAccess, Subscribe, ReadComments, ReaderStep
<1>12. CASE \E p \in Posts : CreatePost(p)
  BY <1>1, <1>12 DEF CreatePost
<1>13. QED BY <1>8, <1>9, <1>10, <1>11, <1>12 DEF Next

-----------------------------------------------------------------------------
(***************************************************************************)
(* Requests and the feed.                                                  *)
(***************************************************************************)

LEMMA FeedInit == Init => PublishInv /\ AckInv /\ SentInv /\ OrderInv /\ GapInv
<1> SUFFICES ASSUME Init PROVE PublishInv /\ AckInv /\ SentInv /\ OrderInv /\ GapInv
  OBVIOUS
<1>1. \A s \in Subscribers : Sent(s) = <<>>
  BY DEF Init, Feed!Init, Sent
<1>2. \A s \in Subscribers : Len(Sent(s)) = 0
  BY <1>1
<1>3. QED BY <1>2
         DEF Init, Feed!Init, PublishInv, AckInv, SentInv, OrderInv, GapInv

LEMMA PublishNext ==
  ASSUME StoreInv, PublishInv, [Next]_vars
  PROVE  PublishInv'
<1> USE DEF StoreInv, TypeInv, TypeOK, FeedType, PublishInv
<1>1. ASSUME UNCHANGED <<pc, status, pending>>,
             \A r \in Requests : insert[r] = "committed" => insert'[r] = "committed"
      PROVE  PublishInv'
  BY <1>1
<1>2. CASE UNCHANGED vars \/ Quiet \/ \E p \in Posts : CreatePost(p)
  BY <1>1, <1>2 DEF vars, Quiet, CreatePost, dbVars, callVars, feedVars
<1>3. ASSUME NEW r \in Requests, Commit(r) \/ Abort(r) PROVE PublishInv'
  BY <1>1, <1>3 DEF Commit, Abort, callVars, feedVars
<1>4. ASSUME NEW s \in Subscribers,
             CheckAccess(s) \/ Subscribe(s) \/ ReadComments(s) \/ ReaderStep(s)
      PROVE  PublishInv'
  BY <1>1, <1>4
     DEF CheckAccess, Subscribe, ReadComments, ReaderStep, dbVars, callVars, feedVars,
         Feed!Join, Feed!Cancel, Feed!Leave, Feed!Close, Feed!Deliver
<1>5. ASSUME NEW r \in Requests, status[r] = "new", NEW next,
             next \in PcStates \ {"publishing", "ok"}, Goto(r, next),
             UNCHANGED feedVars,
             \A q \in Requests : insert[q] = "committed" => insert'[q] = "committed"
      PROVE  PublishInv'
  BY <1>5 DEF Goto, feedVars
<1>6. ASSUME NEW r \in Requests,
             \/ Refuse(r) \/ GetPost(r) \/ GetComment(r) \/ Insert(r) \/ Reply(r) \/ Fail(r)
             \/ \E i \in (1..(lastId + 1)) \cup {NoParent} : CreateComment(r, i)
      PROVE  PublishInv'
  <2>1. status[r] = "new"
    BY <1>6
       DEF Refuse, GetPost, PostCheck, GetComment, ParentCheck, Insert, InsertAs, Reply,
           ReplyWhen, Fail, CreateComment
  <2>2. UNCHANGED feedVars
    BY <1>6
       DEF Refuse, GetPost, PostCheck, GetComment, ParentCheck, Insert, InsertAs, Reply,
           ReplyWhen, Fail, CreateComment
  <2>3. \A q \in Requests : insert[q] = "committed" => insert'[q] = "committed"
    BY <1>6
       DEF Refuse, GetPost, PostCheck, GetComment, ParentCheck, Insert, InsertAs, Reply,
           ReplyWhen, Fail, CreateComment, dbVars, RequestInv
  <2>4. \E next \in PcStates \ {"publishing", "ok"} : Goto(r, next)
    BY <1>6
       DEF Refuse, GetPost, PostCheck, GetComment, ParentCheck, Insert, InsertAs, Reply,
           ReplyWhen, Fail, CreateComment, PcStates, Ended, ConvertError
  <2>5. QED BY <1>5, <2>1, <2>2, <2>3, <2>4
<1>7. ASSUME NEW r \in Requests, Publish(r) PROVE PublishInv'
  <2>1. /\ pc[r] = "publish" /\ insert[r] = "committed" /\ UNCHANGED insert
        /\ pc' = [pc EXCEPT ![r] = "publishing"]
        /\ status' = [status EXCEPT ![r] = "open"]
        /\ \A q \in Requests : q # r => pending'[q] = pending[q]
    BY <1>7 DEF Publish, BeginWhen, Feed!Begin, Goto, dbVars, RequestInv
  <2>2. QED BY <2>1
<1>8. ASSUME NEW r \in Requests, Offer(r) PROVE PublishInv'
  <2>1. /\ status[r] = "open" /\ UNCHANGED <<insert, pc, status>>
        /\ \A q \in Requests : q # r => pending'[q] = pending[q]
    BY <1>8 DEF Offer, Feed!Offer, dbVars, callVars
  <2>2. QED BY <2>1
<1>9. ASSUME NEW r \in Requests, Answer(r) PROVE PublishInv'
  <2>1. /\ status[r] = "open" /\ pending[r] = {} /\ UNCHANGED <<insert, pending>>
        /\ pc' = [pc EXCEPT ![r] = "ok"]
        /\ status' = [status EXCEPT ![r] = "done"]
    BY <1>9 DEF Answer, Feed!Finish, Goto, dbVars
  <2>2. QED BY <2>1
<1>10. CASE Crash
  <2>1. \A r \in Requests :
          /\ insert'[r] = insert[r] /\ pending'[r] = {}
          /\ pc'[r] = IF pc[r] \in {"idle"} \cup Ended THEN pc[r] ELSE "failed"
          /\ status'[r] = IF status[r] = "open" THEN "done" ELSE status[r]
    BY <1>10 DEF Crash, dbVars
  <2>2. QED BY <2>1 DEF Ended
<1>11. QED BY <1>2, <1>3, <1>4, <1>6, <1>7, <1>8, <1>9, <1>10 DEF Next, RequestStep

\* A request that was answered stays so, and its id is smaller than those that
\* are handed out later.
LEMMA AckNext ==
  ASSUME StoreInv, PublishInv, AckInv, [Next]_vars
  PROVE  /\ AckInv'
         /\ \A r \in Requests : acked'[r] = acked[r] \/ status[r] = "new"
<1> DEFINE Goal == /\ AckInv'
                   /\ \A r \in Requests : acked'[r] = acked[r] \/ status[r] = "new"
<1> USE DEF StoreInv, TypeInv, TypeOK, AckInv
<1>1. ASSUME UNCHANGED <<acked, id>>,
             \A q \in Requests : pc[q] = "ok" => pc'[q] = "ok"
      PROVE  Goal
  BY <1>1
<1>2. ASSUME NEW r \in Requests, NEW i, CreateComment(r, i) PROVE Goal
  <2>1. /\ pc[r] = "idle" /\ insert[r] = "none"
        /\ pc' = [pc EXCEPT ![r] = "post"]
        /\ acked' = [acked EXCEPT ![r] = {q \in Requests : pc[q] = "ok"}]
        /\ UNCHANGED id
    BY <1>2 DEF CreateComment, Goto, dbVars, RequestInv
  <2>2. id[r] = 0
    <3>1. id[r] \in Nat /\ id[r] <= lastId /\ lastId \in Nat /\ id[r] \notin Ids
      BY <2>1
    <3>2. QED BY <3>1 DEF Ids
  <2>3. status[r] = "new"
    BY <2>1 DEF PublishInv
  <2>4. QED BY <2>1, <2>2, <2>3
<1>3. ASSUME NEW r \in Requests, Insert(r) PROVE Goal
  <2>1. /\ pc[r] = "insert" /\ pc' = [pc EXCEPT ![r] = "await"]
        /\ id' = [id EXCEPT ![r] = lastId + 1] /\ UNCHANGED acked
    BY <1>3 DEF Insert, InsertAs, Goto
  <2>2. \A q \in Requests : id[q] \in Nat /\ id[q] <= lastId /\ lastId \in Nat
    OBVIOUS
  <2>3. \A q \in acked[r] : q # r /\ id[q] < lastId + 1
    BY <2>1, <2>2
  <2>4. \A p, q \in Requests : q \in acked[p] => pc'[q] = "ok" /\ id'[q] = id[q]
    BY <2>1
  <2>5. QED BY <2>1, <2>3, <2>4
<1>4. ASSUME UNCHANGED vars \/ Quiet \/ \E p \in Posts : CreatePost(p) PROVE Goal
  BY <1>1, <1>4 DEF vars, Quiet, CreatePost, dbVars, callVars
<1>5. ASSUME NEW r \in Requests, Commit(r) \/ Abort(r) \/ Offer(r) PROVE Goal
  BY <1>1, <1>5 DEF Commit, Abort, Offer, dbVars, callVars
<1>6. ASSUME NEW s \in Subscribers,
             CheckAccess(s) \/ Subscribe(s) \/ ReadComments(s) \/ ReaderStep(s)
      PROVE  Goal
  BY <1>1, <1>6 DEF CheckAccess, Subscribe, ReadComments, ReaderStep, dbVars, callVars
<1>7. ASSUME Crash PROVE Goal
  BY <1>1, <1>7 DEF Crash, dbVars, Ended
<1>8. ASSUME NEW r \in Requests,
             \/ Refuse(r) \/ GetPost(r) \/ GetComment(r) \/ Reply(r) \/ Fail(r)
             \/ Publish(r) \/ Answer(r)
      PROVE  Goal
  <2>1. UNCHANGED <<acked, id>>
    BY <1>8
       DEF Refuse, GetPost, PostCheck, GetComment, ParentCheck, Reply, ReplyWhen, Fail,
           Publish, BeginWhen, Answer, dbVars
  <2>2. pc[r] # "ok" \/ pc'[r] = "ok"
    BY <1>8
       DEF Refuse, GetPost, PostCheck, GetComment, ParentCheck, Reply, ReplyWhen, Fail,
           Publish, BeginWhen, Answer, Goto
  <2>3. \A q \in Requests : q # r => pc'[q] = pc[q]
    BY <1>8
       DEF Refuse, GetPost, PostCheck, GetComment, ParentCheck, Reply, ReplyWhen, Fail,
           Publish, BeginWhen, Answer, Goto
  <2>4. QED BY <1>1, <2>1, <2>2, <2>3
<1> HIDE DEF Goal
<1>9. Goal
  BY <1>2, <1>3, <1>4, <1>5, <1>6, <1>7, <1>8 DEF Next, RequestStep
<1>10. QED BY <1>9 DEF Goal

LEMMA SentNext ==
  ASSUME StoreInv, SentInv, Moves
  PROVE  SentInv'
<1> SUFFICES ASSUME NEW s \in Subscribers
             PROVE  /\ \A k \in 1..Len(Sent(s)') :
                          /\ status'[(Sent(s)')[k]] # "new"
                          /\ PostOf[(Sent(s)')[k]] = TopicOf[s]
                    /\ \A k, l \in 1..Len(Sent(s)') :
                          (Sent(s)')[k] = (Sent(s)')[l] => k = l
                    /\ \A r \in Requests : \A k \in 1..Len(Sent(s)') :
                          s \in pending'[r] => (Sent(s)')[k] # r
                    /\ \A r \in Requests : s \in pending'[r] => PostOf[r] = TopicOf[s]
  BY DEF SentInv
<1>0. Len(Sent(s)) \in Nat /\ Sent(s) \in Seq(Requests)
  BY SentLength, ConcatProperties DEF StoreInv, TypeInv, FeedType, Sent
<1>1. /\ \A k \in 1..Len(Sent(s)) : /\ Sent(s)[k] \in Requests
                                    /\ status[Sent(s)[k]] # "new"
                                    /\ status'[Sent(s)[k]] # "new"
                                    /\ PostOf[Sent(s)[k]] = TopicOf[s]
      /\ \A k, l \in 1..Len(Sent(s)) : Sent(s)[k] = Sent(s)[l] => k = l
      /\ \A r \in Requests : \A k \in 1..Len(Sent(s)) : s \in pending[r] => Sent(s)[k] # r
      /\ \A r \in Requests : s \in pending[r] => PostOf[r] = TopicOf[s]
  BY <1>0, ElementOfSeq DEF SentInv, Moves
<1>2. \A r \in Requests : \A k \in 1..Len(Sent(s)) :
        s \in pending'[r] => Sent(s)[k] # r
  BY <1>1 DEF Moves
<1>3. \A r \in Requests : s \in pending'[r] => PostOf[r] = TopicOf[s]
  BY <1>1 DEF Moves, Feed!Members
<1>4. CASE Kept(s) \/ Cut(s)
  BY <1>0, <1>1, <1>2, <1>3, <1>4 DEF Kept, Cut
<1>5. ASSUME NEW x \in Requests, status[x] = "open", s \in pending[x], s \notin pending'[x],
             Extended(s, x)
      PROVE  /\ \A k \in 1..Len(Sent(s)') :
                   /\ status'[(Sent(s)')[k]] # "new"
                   /\ PostOf[(Sent(s)')[k]] = TopicOf[s]
             /\ \A k, l \in 1..Len(Sent(s)') :
                   (Sent(s)')[k] = (Sent(s)')[l] => k = l
             /\ \A r \in Requests : \A k \in 1..Len(Sent(s)') :
                   s \in pending'[r] => (Sent(s)')[k] # r
  <2>1. \A k \in 1..Len(Sent(s)') :
          k \in 1..Len(Sent(s)) \/ k = Len(Sent(s)) + 1
    BY <1>0, <1>5 DEF Extended
  <2>2. /\ (Sent(s)')[Len(Sent(s)) + 1] = x
        /\ \A k \in 1..Len(Sent(s)) : (Sent(s)')[k] = Sent(s)[k] /\ Sent(s)[k] # x
        /\ status'[x] # "new" /\ PostOf[x] = TopicOf[s]
    BY <1>1, <1>5 DEF Extended, Moves
  <2>3. QED BY <1>1, <1>2, <1>5, <2>1, <2>2
<1>6. QED BY <1>3, <1>4, <1>5 DEF Moves

LEMMA OrderNext ==
  ASSUME StoreInv, PublishInv, AckInv, SentInv, OrderInv, Moves,
         \A r \in Requests : acked'[r] = acked[r] \/ status[r] = "new"
  PROVE  OrderInv'
<1> SUFFICES ASSUME NEW s \in Subscribers, NEW r \in Requests, NEW q \in acked'[r],
                    NEW k \in 1..Len(Sent(s)'), NEW l \in 1..Len(Sent(s)'),
                    (Sent(s)')[k] = q, (Sent(s)')[l] = r
             PROVE  k < l
  BY DEF OrderInv
<1>0. Len(Sent(s)) \in Nat
  BY SentLength DEF StoreInv, TypeInv
<1>1. \A n \in 1..Len(Sent(s)) : status[Sent(s)[n]] # "new"
  BY DEF SentInv
<1>2. CASE Kept(s) \/ Cut(s)
  <2>1. /\ k \in 1..Len(Sent(s)) /\ l \in 1..Len(Sent(s))
        /\ Sent(s)[k] = q /\ Sent(s)[l] = r
    BY <1>0, <1>2 DEF Kept, Cut
  <2>2. q \in acked[r]
    BY <1>1, <2>1
  <2>3. QED BY <2>1, <2>2 DEF OrderInv
<1>3. ASSUME NEW x \in Requests, status[x] = "open", Extended(s, x) PROVE k < l
  <2>1. /\ k \in 1..Len(Sent(s)) \/ k = Len(Sent(s)) + 1
        /\ l \in 1..Len(Sent(s)) \/ l = Len(Sent(s)) + 1
    BY <1>0, <1>3 DEF Extended
  <2>2. /\ \A n \in 1..Len(Sent(s)) : (Sent(s)')[n] = Sent(s)[n]
        /\ (Sent(s)')[Len(Sent(s)) + 1] = x
    BY <1>3 DEF Extended
  <2>3. status[r] # "new"
    BY <1>1, <1>3, <2>1, <2>2
  <2>4. q \in acked[r] /\ q \in Requests /\ status[q] = "done"
    BY <2>3 DEF AckInv, PublishInv
  <2>5. k \in 1..Len(Sent(s)) /\ Sent(s)[k] = q
    BY <1>3, <2>1, <2>2, <2>4
  <2>6. CASE l \in 1..Len(Sent(s))
    BY <2>2, <2>4, <2>5, <2>6 DEF OrderInv
  <2>7. CASE l = Len(Sent(s)) + 1
    BY <1>0, <2>5, <2>7
  <2>8. QED BY <2>1, <2>6, <2>7
<1>4. QED BY <1>2, <1>3 DEF Moves

\* Who reads, joins and leaves.
LEMMA ReaderMoves ==
  ASSUME StoreInv, [Next]_vars, NEW s \in Subscribers
  PROVE  \/ ReadComments(s)
         \/ /\ s \in hasRead' <=> s \in hasRead
            /\ page'[s] = page[s]
            /\ phase[s] # "new" => phase'[s] # "new"
            /\ phase'[s] = "member" => phase[s] \in {"new", "member"}
<1> DEFINE Goal == \/ ReadComments(s)
                   \/ /\ s \in hasRead' <=> s \in hasRead
                      /\ page'[s] = page[s]
                      /\ phase[s] # "new" => phase'[s] # "new"
                      /\ phase'[s] = "member" => phase[s] \in {"new", "member"}
<1> USE DEF StoreInv, TypeInv, TypeOK, FeedType
<1>1. ASSUME UNCHANGED <<phase, hasRead, page>> PROVE Goal
  BY <1>1
<1>2. ASSUME NEW t \in Subscribers, ReadComments(t) PROVE Goal
  <2>1. CASE t = s
    BY <1>2, <2>1
  <2>2. CASE t # s
    <3>1. (s \in hasRead' <=> s \in hasRead) /\ page'[s] = page[s] /\ phase' = phase
      BY <1>2, <2>2 DEF ReadComments, feedVars
    <3>2. QED BY <3>1
  <2>3. QED BY <2>1, <2>2
<1>3. ASSUME NEW t \in Subscribers,
             \/ Feed!Join(t) \/ Feed!Cancel(t) \/ Feed!Leave(t) \/ Feed!Close(t)
             \/ Feed!Deliver(t),
             UNCHANGED <<hasRead, page>>
      PROVE  Goal
  BY <1>3 DEF Feed!Join, Feed!Cancel, Feed!Leave, Feed!Close, Feed!Deliver
<1>4. ASSUME NEW t \in Subscribers,
             CheckAccess(t) \/ Subscribe(t) \/ ReadComments(t) \/ ReaderStep(t)
      PROVE  Goal
  <2>1. CASE CheckAccess(t)
    <3>1. UNCHANGED <<phase, hasRead, page>>
      BY <2>1 DEF CheckAccess, feedVars
    <3>2. QED BY <1>1, <3>1
  <2>2. ASSUME Subscribe(t) \/ ReaderStep(t) PROVE Goal
    <3>1. UNCHANGED <<hasRead, page>>
      BY <2>2 DEF Subscribe, ReaderStep, readerVars
    <3>2. \/ Feed!Join(t) \/ Feed!Cancel(t) \/ Feed!Leave(t) \/ Feed!Close(t)
          \/ Feed!Deliver(t)
      BY <2>2 DEF Subscribe, ReaderStep
    <3>3. QED BY <1>3, <3>1, <3>2
  <2>3. QED BY <1>2, <1>4, <2>1, <2>2
<1>5. ASSUME NEW r \in Requests,
             \/ Refuse(r) \/ RequestStep(r) \/ Fail(r) \/ Commit(r) \/ Abort(r)
             \/ \E i \in (1..(lastId + 1)) \cup {NoParent} : CreateComment(r, i)
      PROVE  Goal
  <2>1. UNCHANGED <<phase, hasRead, page>>
    BY <1>5
       DEF Refuse, RequestStep, GetPost, PostCheck, GetComment, ParentCheck, Insert,
           InsertAs, Reply, ReplyWhen, Publish, BeginWhen, Offer, Answer, Fail, Commit,
           Abort, CreateComment, feedVars, readerVars, Feed!Begin, Feed!Offer, Feed!Finish
  <2>2. QED BY <1>1, <2>1
<1>6. ASSUME Crash PROVE Goal
  BY <1>6 DEF Crash
<1>7. ASSUME UNCHANGED vars \/ Quiet \/ \E p \in Posts : CreatePost(p) PROVE Goal
  <2>1. UNCHANGED <<phase, hasRead, page>>
    BY <1>7 DEF vars, Quiet, CreatePost, feedVars, readerVars
  <2>2. QED BY <1>1, <2>1
<1> HIDE DEF Goal
<1>8. Goal
  BY <1>4, <1>5, <1>6, <1>7 DEF Next
<1>9. QED BY <1>8 DEF Goal

LEMMA GapNext ==
  ASSUME StoreInv, PublishInv, GapInv, Moves, [Next]_vars
  PROVE  GapInv'
<1> SUFFICES ASSUME NEW s \in Subscribers
             PROVE  /\ s \in hasRead' => phase'[s] # "new"
                    /\ phase'[s] = "member" /\ s \in hasRead' =>
                          \A r \in Requests :
                              status'[r] # "new" /\ PostOf[r] = TopicOf[s] =>
                                  \/ r \in page'[s] \/ s \in pending'[r]
                                  \/ \E k \in 1..Len(Sent(s)') : (Sent(s)')[k] = r
  BY DEF GapInv
<1> USE DEF StoreInv, TypeInv
<1>0. Len(Sent(s)) \in Nat
  BY SentLength
<1>1. ASSUME ReadComments(s)
      PROVE  /\ phase'[s] # "new"
             /\ \A r \in Requests :
                    status'[r] # "new" /\ PostOf[r] = TopicOf[s] => r \in page'[s]
  <2>1. /\ phase'[s] = "member" /\ status' = status
        /\ page'[s] = {rows[i].by : i \in {j \in DOMAIN rows : rows[j].post = TopicOf[s]}}
    BY <1>1 DEF ReadComments, feedVars, TypeOK
  <2>2. ASSUME NEW r \in Requests, status[r] # "new", PostOf[r] = TopicOf[s]
        PROVE  r \in page'[s]
    <3>1. insert[r] = "committed"
      BY <2>2 DEF PublishInv
    <3>2. /\ id[r] \in DOMAIN rows /\ rows[id[r]].by = r
          /\ rows[id[r]].post = TopicOf[s]
      BY <2>2, <3>1 DEF RowsInv
    <3>3. QED BY <2>1, <3>2
  <2>3. QED BY <2>1, <2>2
<1>2. CASE /\ s \in hasRead' <=> s \in hasRead
           /\ page'[s] = page[s]
           /\ phase[s] # "new" => phase'[s] # "new"
           /\ phase'[s] = "member" => phase[s] \in {"new", "member"}
  <2>1. s \in hasRead' => s \in hasRead /\ phase[s] # "new" /\ phase'[s] # "new"
    BY <1>2 DEF GapInv
  <2>2. ASSUME phase'[s] = "member", s \in hasRead', NEW r \in Requests,
               status'[r] # "new", PostOf[r] = TopicOf[s]
        PROVE  \/ r \in page'[s] \/ s \in pending'[r]
               \/ \E k \in 1..Len(Sent(s)') : (Sent(s)')[k] = r
    <3>1. phase[s] = "member" /\ s \in hasRead
      BY <1>2, <2>1, <2>2
    <3>2. CASE status[r] = "new"
      <4>1. pending'[r] = Feed!Members(PostOf[r])
        BY <2>2, <3>2 DEF Moves
      <4>2. QED BY <2>2, <3>1, <4>1 DEF Feed!Members
    <3>3. CASE status[r] # "new"
      <4>1. \/ r \in page[s] \/ s \in pending[r]
            \/ \E k \in 1..Len(Sent(s)) : Sent(s)[k] = r
        BY <2>2, <3>1, <3>3 DEF GapInv
      <4>2. CASE s \in pending[r]
        <5>1. s \in pending'[r] \/ Extended(s, r)
          BY <2>2, <4>2 DEF Moves
        <5>2. ASSUME Extended(s, r) PROVE \E k \in 1..Len(Sent(s)') : (Sent(s)')[k] = r
          <6>1. Len(Sent(s)) + 1 \in 1..Len(Sent(s)')
            BY <1>0, <5>2 DEF Extended
          <6>2. (Sent(s)')[Len(Sent(s)) + 1] = r
            BY <5>2 DEF Extended
          <6>3. QED BY <6>1, <6>2
        <5>3. QED BY <5>1, <5>2
      <4>3. ASSUME NEW k \in 1..Len(Sent(s)), Sent(s)[k] = r
            PROVE  \E j \in 1..Len(Sent(s)') : (Sent(s)')[j] = r
        <5>1. Kept(s) \/ \E x \in Requests : Extended(s, x)
          BY <2>2 DEF Moves
        <5>2. k \in 1..Len(Sent(s)')
          BY <1>0, <5>1 DEF Kept, Extended
        <5>3. (Sent(s)')[k] = r
          BY <4>3, <5>1 DEF Kept, Extended
        <5>4. QED BY <5>2, <5>3
      <4>4. QED BY <1>2, <4>1, <4>2, <4>3
    <3>4. QED BY <3>2, <3>3
  <2>3. QED BY <2>1, <2>2
<1>3. QED BY <1>1, <1>2, ReaderMoves

-----------------------------------------------------------------------------
(***************************************************************************)
(* The theorems.                                                           *)
(***************************************************************************)

IInv == StoreInv /\ PublishInv /\ AckInv /\ SentInv /\ OrderInv /\ GapInv

LEMMA InvAlways == Spec => []IInv
<1>1. Init => IInv
  BY StoreInit, FeedInit DEF IInv
<1>2. IInv /\ [Next]_vars => IInv'
  <2> SUFFICES ASSUME IInv, [Next]_vars PROVE IInv'
    OBVIOUS
  <2> USE DEF IInv
  <2>1. Moves
    BY FeedMoves
  <2>2. StoreInv' /\ PublishInv'
    BY StoreNext, PublishNext
  <2>3. AckInv' /\ \A r \in Requests : acked'[r] = acked[r] \/ status[r] = "new"
    BY AckNext
  <2>4. SentInv'
    BY <2>1, SentNext
  <2>5. OrderInv'
    BY <2>1, <2>3, OrderNext
  <2>6. GapInv'
    BY <2>1, GapNext
  <2>7. QED BY <2>2, <2>3, <2>4, <2>5, <2>6
<1>3. QED BY <1>1, <1>2, PTL DEF Spec

\* Every variable has its type; in particular every statement that reached the
\* database has an id of its own (storage.go, the BIGSERIAL of the schema).
THEOREM TypeCorrect == Spec => []TypeOK
<1>1. IInv => TypeOK
  BY DEF IInv, StoreInv, TypeInv
<1>2. QED BY <1>1, InvAlways, PTL

\* However the checks of CreateComment (post.go) interleave with other requests,
\* crashes and lost answers, the rows of a post are trees of comments of that
\* post, which accepts comments; no statement of storage.go undoes it.
THEOREM StoredTrees == Spec => []StoredAsTrees
<1>1. ASSUME IInv PROVE StoredAsTrees
  <2> SUFFICES ASSUME NEW i \in DOMAIN rows
               PROVE  /\ rows[i].post \in posts \cap Enabled
                      /\ rows[i].parent # NoParent =>
                            /\ rows[i].parent \in DOMAIN rows
                            /\ rows[i].parent < i
                            /\ rows[rows[i].parent].post = rows[i].post
    BY DEF StoredAsTrees
  <2>1. /\ rows[i].by \in Requests /\ insert[rows[i].by] = "committed"
        /\ id[rows[i].by] = i /\ rows[i].post = PostOf[rows[i].by]
        /\ rows[i].parent = parent[rows[i].by]
    BY <1>1 DEF IInv, StoreInv, TypeInv, TypeOK, RowsInv
  <2>2. QED BY <1>1, <2>1 DEF IInv, StoreInv, RequestInv, Checked
<1>2. QED BY <1>1, InvAlways, PTL

\* A client that is told POST_NOT_FOUND, COMMENTS_DISABLED, COMMENT_NOT_FOUND or
\* INVALID_PARENT (convertor.go) may send its request again: nothing was stored.
THEOREM RefusedNotStored == Spec => []RefusedIsNotStored
<1>1. ASSUME IInv PROVE RefusedIsNotStored
  <2>1. \A i \in DOMAIN rows : rows[i].by \in Requests /\ insert[rows[i].by] = "committed"
    BY <1>1 DEF IInv, StoreInv, TypeInv, TypeOK, RowsInv
  <2>2. \A r \in Requests : pc[r] = "refused" => insert[r] = "none"
    BY <1>1 DEF IInv, StoreInv, RequestInv
  <2>3. QED BY <2>1, <2>2 DEF RefusedIsNotStored
<1>2. QED BY <1>1, InvAlways, PTL

\* A subscriber is sent stored comments of its own post, each at most once: Publish
\* follows the RETURNING row of the INSERT (post.go) and no retry repeats it.
THEOREM Announced == Spec => []AnnouncedIsStored
<1>1. ASSUME IInv PROVE AnnouncedIsStored
  <2> SUFFICES ASSUME NEW s \in Subscribers, NEW k \in 1..Len(Sent(s))
               PROVE  /\ insert[Sent(s)[k]] = "committed"
                      /\ PostOf[Sent(s)[k]] = TopicOf[s]
                      /\ \A l \in 1..Len(Sent(s)) : Sent(s)[l] = Sent(s)[k] => l = k
    BY DEF AnnouncedIsStored
  <2>1. Sent(s)[k] \in Requests
    <3>1. Sent(s) \in Seq(Requests)
      BY <1>1, ConcatProperties DEF IInv, StoreInv, TypeInv, FeedType, Sent
    <3>2. QED BY <3>1, ElementOfSeq
  <2>2. /\ status[Sent(s)[k]] # "new" /\ PostOf[Sent(s)[k]] = TopicOf[s]
        /\ \A l \in 1..Len(Sent(s)) : Sent(s)[l] = Sent(s)[k] => l = k
    BY <1>1 DEF IInv, SentInv
  <2>3. QED BY <1>1, <2>1, <2>2 DEF IInv, PublishInv
<1>2. QED BY <1>1, InvAlways, PTL

\* Subscribing before reading leaves no gap: CreateComment (post.go) answers only
\* when Publish has offered the committed comment to every member.
THEOREM NoGap == Spec => []SubscribeThenReadHasNoGap
<1>1. ASSUME IInv PROVE SubscribeThenReadHasNoGap
  <2> SUFFICES ASSUME NEW s \in Subscribers, NEW r \in Requests,
                      phase[s] = "member", s \in hasRead, pc[r] = "ok",
                      PostOf[r] = TopicOf[s]
               PROVE  r \in page[s] \/ r \in ToSet(Sent(s))
    BY DEF SubscribeThenReadHasNoGap
  <2>1. status[r] = "done" /\ pending[r] = {}
    BY <1>1 DEF IInv, PublishInv
  <2>2. r \in page[s] \/ \E k \in 1..Len(Sent(s)) : Sent(s)[k] = r
    BY <1>1, <2>1 DEF IInv, GapInv
  <2>3. ToSet(Sent(s)) = {Sent(s)[k] : k \in 1..Len(Sent(s))}
    <3>1. Sent(s) \in Seq(Requests)
      BY <1>1, ConcatProperties DEF IInv, StoreInv, TypeInv, FeedType, Sent
    <3>2. DOMAIN Sent(s) = 1..Len(Sent(s))
      BY <3>1, LenProperties
    <3>3. QED BY <3>2 DEF ToSet
  <2>4. QED BY <2>2, <2>3
<1>2. QED BY <1>1, InvAlways, PTL

\* A comment answered before another was requested has the smaller id (storage.go
\* lists by id) and comes first in every subscription that is sent both.
THEOREM AnsweredFirst == Spec => []AnsweredComesFirst
<1>1. IInv => AnsweredComesFirst
  BY DEF IInv, AckInv, OrderInv, AnsweredComesFirst
<1>2. QED BY <1>1, InvAlways, PTL
=============================================================================
