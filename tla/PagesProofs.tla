---------------------------- MODULE PagesProofs ----------------------------
(***************************************************************************)
(* Theorems about CommentPages: walking the pages, and the trees that a    *)
(* page shows, for any number of comments, replies of any depth, pages of  *)
(* any size and any cursors.  What buildCommentTree computes by recursion  *)
(* is proved by the least (or the largest) comment for which it would not  *)
(* hold: the well-founded order of the natural numbers has a least element *)
(* in every set, which is induction without an operator as parameter.      *)
(***************************************************************************)
EXTENDS CommentPages, SequenceTheorems, FiniteSetTheorems,
        WellFoundedInduction, TLAPS

-----------------------------------------------------------------------------
(***************************************************************************)
(* The answer to ORDER BY id DESC LIMIT.                                   *)
(***************************************************************************)

Descending(q) == \A j, k \in 1..Len(q) : j < k => q[j] > q[k]

LEMMA NewestFacts ==
  ASSUME NEW S \in SUBSET Nat, NEW m \in Nat, NEW q \in Newest(S, m)
  PROVE  /\ q \in Seq(S) /\ Len(q) \in 0..m /\ Descending(q)
         /\ \A i \in S : \/ \E k \in 1..Len(q) : q[k] = i
                         \/ Len(q) = m /\ \A k \in 1..Len(q) : i < q[k]
<1>1. PICK n \in 0..m : q \in [1..n -> S]
  BY DEF Newest
<1>2. q \in Seq(S) /\ Len(q) = n /\ DOMAIN q = 1..n
  BY <1>1
<1>3. Descending(q)
  BY <1>2 DEF Newest, Descending
<1>4. ToSet(q) = {q[k] : k \in 1..Len(q)}
  BY <1>2 DEF ToSet
<1>5. \A i \in S : \/ \E k \in 1..Len(q) : q[k] = i
                   \/ Len(q) = m /\ \A k \in 1..Len(q) : i < q[k]
  BY <1>2, <1>4 DEF Newest
<1>6. QED BY <1>1, <1>2, <1>3, <1>5

\* A page of n rows, of which n + 1 were asked for.
Trimmed(q, n) == SubSeq(q, 1, IF n < Len(q) THEN n ELSE Len(q))

LEMMA TrimmedFacts ==
  ASSUME NEW S \in SUBSET Nat, NEW n \in Nat \ {0}, NEW q \in Newest(S, n + 1)
  PROVE  /\ Trimmed(q, n) \in Seq(S) /\ Descending(Trimmed(q, n))
         /\ S # {} <=> Trimmed(q, n) # <<>>
         /\ q = <<>> <=> Trimmed(q, n) = <<>>
         /\ Len(q) >= n + 1 =>
               /\ Trimmed(q, n) # <<>>
               /\ \E i \in S : i < Trimmed(q, n)[Len(Trimmed(q, n))]
         /\ \A i \in S : \/ \E k \in 1..Len(Trimmed(q, n)) : Trimmed(q, n)[k] = i
                         \/ Len(q) >= n + 1 /\ i < Trimmed(q, n)[Len(Trimmed(q, n))]
<1> DEFINE t == Trimmed(q, n)
           len == IF n < Len(q) THEN n ELSE Len(q)
<1>1. /\ q \in Seq(S) /\ Len(q) \in 0..(n + 1) /\ Descending(q)
      /\ \A i \in S : \/ \E k \in 1..Len(q) : q[k] = i
                      \/ Len(q) = n + 1 /\ \A k \in 1..Len(q) : i < q[k]
  <2>1. n + 1 \in Nat
    OBVIOUS
  <2>2. QED BY <2>1, NewestFacts
<1>2. len \in Nat /\ len <= Len(q) /\ len <= n /\ (len = 0 <=> Len(q) = 0)
      /\ (Len(q) # n + 1 => len = Len(q)) /\ (Len(q) = n + 1 => len = n)
  BY <1>1
<1>3. \A k \in 1..len : k \in 1..Len(q) /\ q[k] \in S
  BY <1>1, <1>2, ElementOfSeq
<1>4. t = SubSeq(q, 1, len)
  BY DEF Trimmed
<1> HIDE DEF len, t
<1>5. t \in Seq(S) /\ Len(t) = len /\ \A k \in 1..len : t[k] = q[k]
  BY <1>1, <1>2, <1>3, <1>4, SubSeqProperties
<1>6. Descending(t)
  BY <1>1, <1>3, <1>5 DEF Descending
<1>7. (q = <<>> <=> Len(q) = 0) /\ (t = <<>> <=> len = 0)
  BY <1>1, <1>5, EmptySeq
<1>8. S # {} <=> t # <<>>
  <2>1. ASSUME S # {} PROVE len # 0
    <3>1. PICK i \in S : TRUE
      BY <2>1
    <3>2. CASE \E k \in 1..Len(q) : q[k] = i
      <4>1. Len(q) # 0
        BY <3>2
      <4>2. QED BY <1>2, <4>1
    <3>3. CASE Len(q) = n + 1
      BY <1>2, <3>3
    <3>4. QED BY <1>1, <3>2, <3>3
  <2>2. ASSUME len # 0 PROVE S # {}
    <3>1. 1 \in 1..len
      BY <1>2, <2>2
    <3>2. QED BY <1>3, <3>1
  <2>3. QED BY <1>7, <2>1, <2>2
<1>9. ASSUME Len(q) >= n + 1 PROVE t # <<>> /\ \E i \in S : i < t[Len(t)]
  <2>1. Len(q) = n + 1 /\ len = n
    BY <1>1, <1>2, <1>9
  <2>2. n \in 1..Len(q) /\ n + 1 \in 1..Len(q) /\ n < n + 1 /\ n \in 1..len
    BY <2>1
  <2>3. q[n] > q[n + 1] /\ t[Len(t)] = q[n]
    BY <1>1, <1>5, <2>1, <2>2 DEF Descending
  <2>4. q[n + 1] \in S /\ q[n] \in S
    BY <1>1, <2>2, ElementOfSeq
  <2>5. q[n + 1] < t[Len(t)]
    BY <2>3, <2>4
  <2>6. QED BY <1>2, <1>7, <2>1, <2>4, <2>5
<1>10. ASSUME NEW i \in S
       PROVE  \/ \E k \in 1..Len(t) : t[k] = i
              \/ Len(q) >= n + 1 /\ i < t[Len(t)]
  <2>1. CASE \A k \in 1..len : q[k] # i
    <3>1. CASE Len(q) = n + 1
      <4>1. len = n /\ n \in 1..Len(q) /\ n \in 1..len /\ t[Len(t)] = q[n]
        BY <1>2, <1>5, <3>1
      <4>2. CASE \E k \in 1..Len(q) : q[k] = i
        <5>1. q[n + 1] = i
          <6>1. PICK k \in 1..Len(q) : q[k] = i
            BY <4>2
          <6>2. k = n + 1
            BY <2>1, <3>1, <4>1, <6>1
          <6>3. QED BY <6>1, <6>2
        <5>2. n + 1 \in 1..Len(q) /\ n < n + 1
          BY <3>1
        <5>3. q[n] > q[n + 1] /\ q[n] \in Nat
          BY <1>1, <4>1, <5>2, ElementOfSeq DEF Descending
        <5>4. QED BY <3>1, <4>1, <5>1, <5>3
      <4>3. CASE \A k \in 1..Len(q) : i < q[k]
        BY <3>1, <4>1, <4>3
      <4>4. QED BY <1>1, <4>2, <4>3
    <3>2. CASE Len(q) # n + 1
      BY <1>1, <1>2, <2>1, <3>2
    <3>3. QED BY <3>1, <3>2
  <2>2. CASE \E k \in 1..len : q[k] = i
    BY <1>5, <2>2
  <2>3. QED BY <2>1, <2>2
<1>11. QED BY <1>2, <1>5, <1>6, <1>7, <1>8, <1>9, <1>10 DEF t

-----------------------------------------------------------------------------
(***************************************************************************)
(* The inductive invariant.  A cursor splits the roots of the post: what   *)
(* the walk has shown lies at or above it, what it still owes lies below.  *)
(***************************************************************************)

\* Ids come from the sequence, and a row is either committed or under way.
Ids ==
    /\ lastId \in Nat
    /\ DOMAIN rows \subseteq 1..lastId /\ DOMAIN open \subseteq 1..lastId
    /\ DOMAIN rows \cap DOMAIN open = {}

Asking == pc \in {"roots", "replies", "answered", "failed"}

\* A request that was not refused.
AskInv ==
    /\ pc \in {"idle", "roots", "replies", "answered", "failed", "rejected"}
    /\ owed \subseteq Matching(None)
    /\ earlier \subseteq Nat
    /\ pc = "idle" => earlier = {}
    /\ Asking =>
          /\ first \in 1..MaxPageSize
          /\ asked \in [id : Nat, padding : 0..2] \cup {None}
          /\ ValidCursor(asked)
          /\ after = Decode(asked)

\* The cursor lies between the roots shown and the roots owed, and if pages
\* were shown before, there is something below it.
AheadInv ==
    Asking =>
        /\ \A i \in earlier : after # None /\ i >= after
        /\ \A i \in owed \ earlier : after = None \/ i < after
        /\ earlier # {} => Matching(after) # {}

LastRoot == roots[Len(roots)]

\* The page: it continues below the cursor, and what the walk owes is shown or
\* lies below a page that has a successor.
PageInv ==
    pc \in {"replies", "answered"} =>
        /\ roots \in Seq(Matching(after))
        /\ Descending(roots)
        /\ \A i \in owed : \/ i \in earlier
                           \/ \E k \in 1..Len(roots) : roots[k] = i
                           \/ hasNext /\ i < LastRoot
        /\ hasNext => roots # <<>> /\ Matching(LastRoot) # {}
        /\ earlier # {} => roots # <<>>
        /\ pc = "replies" => roots # <<>>
        /\ pc = "answered" /\ roots # <<>> => endCursor = Encode(LastRoot)

IInv == Ids /\ AskInv /\ AheadInv /\ PageInv

-----------------------------------------------------------------------------
LEMMA DecodeFacts ==
  ASSUME NEW c \in [id : Nat, padding : 0..2] \cup {None}, ValidCursor(c)
  PROVE  /\ Decode(c) \in Nat \cup {None}
         /\ Decode(c) = None <=> c = None
BY PagesAssumption DEF ValidCursor, Decode

LEMMA EncodeFacts ==
  ASSUME NEW i \in Nat \ {0}
  PROVE  /\ Encode(i) \in [id : Nat, padding : 0..2]
         /\ ValidCursor(Encode(i))
         /\ Decode(Encode(i)) = i
BY PagesAssumption DEF Encode, ValidCursor, Decode

LEMMA MatchingFacts ==
  ASSUME Ids, NEW l \in Nat \cup {None}
  PROVE  /\ Matching(l) \subseteq Nat \ {0}
         /\ \A i \in Matching(None) : l = None \/ i < l => i \in Matching(l)
         /\ \A i \in Matching(l) : i \in Matching(None) /\ (l = None \/ i < l)
BY DEF Ids, Matching

\* Rows are only ever added.
LEMMA MatchingGrows ==
  ASSUME DOMAIN rows \subseteq DOMAIN rows',
         \A i \in DOMAIN rows : rows'[i] = rows[i],
         NEW l
  PROVE  Matching(l) \subseteq Matching(l)'
BY DEF Matching

\* What an inserting statement does leaves the walk as it is.
LEMMA WalkUntouched ==
  ASSUME IInv,
         DOMAIN rows \subseteq DOMAIN rows',
         \A i \in DOMAIN rows : rows'[i] = rows[i],
         UNCHANGED <<pc, roots, hasNext, endCursor, first, asked, after, owed, earlier>>
  PROVE  AskInv' /\ AheadInv' /\ PageInv'
<1>1. \A l : Matching(l) \subseteq Matching(l)'
  BY MatchingGrows
<1>2. AskInv'
  BY <1>1 DEF IInv, AskInv, Asking
<1>3. AheadInv'
  <2>1. Matching(after) \subseteq Matching(after)'
    BY <1>1 DEF Matching
  <2>2. QED BY <2>1 DEF IInv, AheadInv, Asking
<1>4. PageInv'
  <2> SUFFICES ASSUME pc \in {"replies", "answered"}
               PROVE  PageInv'
    BY DEF PageInv
  <2>1. /\ Matching(after) \subseteq Matching(after)'
        /\ Matching(LastRoot) \subseteq Matching(LastRoot)'
    BY <1>1 DEF Matching, LastRoot
  <2>2. LastRoot' = LastRoot
    BY DEF LastRoot
  <2>3. roots \in Seq(Matching(after)) /\ Descending(roots)
    BY DEF IInv, PageInv
  <2>4. roots' \in Seq(Matching(after)')
    BY <2>1, <2>3
  <2>5. Descending(roots')
    BY <2>3
  <2>6. hasNext => roots # <<>> /\ Matching(LastRoot)' # {}
    BY <2>1 DEF IInv, PageInv
  <2>7. QED BY <2>2, <2>4, <2>5, <2>6 DEF IInv, PageInv, Matching, LastRoot
<1>5. QED BY <1>2, <1>3, <1>4

LEMMA InitInv == Init => IInv
BY DEF Init, IInv, Ids, AskInv, AheadInv, PageInv, Asking, Matching

-----------------------------------------------------------------------------
LEMMA InsertsInv == ASSUME IInv, Inserts PROVE IInv'
<1>1. ASSUME NEW p \in Posts, NEW i \in DOMAIN rows \cup {None}, Insert(p, i)
      PROVE  IInv'
  <2>1. Ids'
    <3>1. lastId + 1 \in Nat /\ 1..lastId \subseteq 1..(lastId + 1) /\ lastId + 1 \notin 1..lastId
      BY DEF IInv, Ids
    <3> DEFINE Row(j) == IF j \in DOMAIN open THEN open[j] ELSE [post |-> p, parent |-> i]
    <3>2. DOMAIN open' = DOMAIN open \cup {lastId + 1} /\ lastId' = lastId + 1 /\ rows' = rows
      <4>1. open' = [j \in DOMAIN open \cup {lastId + 1} |-> Row(j)]
        BY <1>1 DEF Insert
      <4> HIDE DEF Row
      <4>2. DOMAIN open' = DOMAIN open \cup {lastId + 1}
        BY <4>1
      <4>3. lastId' = lastId + 1 /\ rows' = rows
        BY <1>1 DEF Insert
      <4>4. QED BY <4>2, <4>3
    <3>3. lastId + 1 \in 1..(lastId + 1)
      BY DEF IInv, Ids
    <3>4. QED BY <3>1, <3>2, <3>3 DEF IInv, Ids
  <2>2. AskInv' /\ AheadInv' /\ PageInv'
    BY <1>1, WalkUntouched DEF Insert, pageVars, askVars
  <2>3. QED BY <2>1, <2>2 DEF IInv
<1>2. ASSUME NEW i \in DOMAIN open, Commit(i)
      PROVE  IInv'
  <2>1. DOMAIN rows' = DOMAIN rows \cup {i} /\ DOMAIN open' = DOMAIN open \ {i} /\ lastId' = lastId
    BY <1>2 DEF Commit, Without
  <2>2. i \notin DOMAIN rows
    BY DEF IInv, Ids
  <2>3. \A j \in DOMAIN rows : rows'[j] = rows[j]
    BY <1>2, <2>2 DEF Commit
  <2>4. Ids'
    BY <2>1 DEF IInv, Ids
  <2>5. AskInv' /\ AheadInv' /\ PageInv'
    BY <1>2, <2>1, <2>3, WalkUntouched DEF Commit, pageVars, askVars
  <2>6. QED BY <2>4, <2>5 DEF IInv
<1>3. ASSUME NEW i \in DOMAIN open, Abort(i)
      PROVE  IInv'
  <2>1. DOMAIN open' = DOMAIN open \ {i} /\ lastId' = lastId /\ rows' = rows
    BY <1>3 DEF Abort, Without
  <2>2. Ids'
    BY <2>1 DEF IInv, Ids
  <2>3. AskInv' /\ AheadInv' /\ PageInv'
    BY <1>3, WalkUntouched DEF Abort, pageVars, askVars
  <2>4. QED BY <2>2, <2>3 DEF IInv
<1>4. QED BY <1>1, <1>2, <1>3 DEF Inserts

LEMMA BeginInv ==
  ASSUME IInv, NEW n \in 0..(MaxPageSize + 1), NEW c \in Cursors \cup {None}, Begin(n, c)
  PROVE  IInv'
<1>1. Ids' /\ UNCHANGED rows
  BY DEF IInv, Ids, Begin, Request, dbVars
<1>2. \A l : Matching(l)' = Matching(l)
  BY <1>1 DEF Matching
<1>3. earlier' = {}
  BY DEF IInv, AskInv, Begin
<1>4. CASE n \in 1..MaxPageSize /\ ValidCursor(c)
  <2>1. /\ pc' = "roots" /\ first' = n /\ asked' = c /\ after' = Decode(c)
        /\ owed' = Matching(Decode(c))
    BY <1>4 DEF Begin, Request
  <2>2. c \in [id : Nat, padding : 0..2] \cup {None}
    BY PagesAssumption
  <2>3. Decode(c) \in Nat \cup {None}
    BY <1>4, <2>2, DecodeFacts
  <2>4. \A i \in Matching(Decode(c)) : i \in Matching(None) /\ (Decode(c) = None \/ i < Decode(c))
    BY <2>3, MatchingFacts DEF IInv
  <2>5. AskInv'
    BY <1>2, <1>3, <1>4, <2>1, <2>2, <2>4 DEF AskInv, Asking
  <2>6. AheadInv'
    BY <1>3, <2>1, <2>4 DEF AheadInv, Asking
  <2>7. QED BY <1>1, <2>1, <2>5, <2>6 DEF IInv, PageInv
<1>5. CASE ~(n \in 1..MaxPageSize /\ ValidCursor(c))
  <2>1. pc' = "rejected" /\ owed' = {}
    BY <1>5 DEF Begin, Request
  <2>2. QED BY <1>1, <1>3, <2>1 DEF IInv, AskInv, AheadInv, PageInv, Asking
<1>6. QED BY <1>4, <1>5

LEMMA ContinueInv ==
  ASSUME IInv, NEW n \in 1..MaxPageSize, Continue(n)
  PROVE  IInv'
<1>1. Ids' /\ UNCHANGED rows
  BY DEF IInv, Ids, Continue, Request, dbVars
<1>2. \A l : Matching(l)' = Matching(l)
  BY <1>1 DEF Matching
<1>3. pc = "answered" /\ hasNext
  BY DEF Continue
<1>4. /\ roots \in Seq(Matching(after)) /\ Descending(roots) /\ roots # <<>>
      /\ endCursor = Encode(LastRoot) /\ Matching(LastRoot) # {}
      /\ \A i \in owed : \/ i \in earlier \/ \E k \in 1..Len(roots) : roots[k] = i
                         \/ i < LastRoot
  BY <1>3 DEF IInv, PageInv
<1>5. after \in Nat \cup {None}
  BY <1>3, DecodeFacts DEF IInv, AskInv, Asking
<1>6. Len(roots) \in Nat /\ Len(roots) \in 1..Len(roots)
  BY <1>4, EmptySeq, LenProperties
<1>7. \A k \in 1..Len(roots) : roots[k] \in Matching(after)
  BY <1>4, ElementOfSeq
<1>8. Matching(after) \subseteq Nat \ {0}
  BY <1>5, MatchingFacts DEF IInv
<1>9. LastRoot \in Matching(after) /\ LastRoot \in Nat \ {0}
  BY <1>6, <1>7, <1>8 DEF LastRoot
<1>10. /\ Encode(LastRoot) \in [id : Nat, padding : 0..2]
       /\ ValidCursor(Encode(LastRoot)) /\ Decode(Encode(LastRoot)) = LastRoot
  BY <1>9, EncodeFacts
<1>11. /\ pc' = "roots" /\ first' = n /\ asked' = Encode(LastRoot) /\ after' = LastRoot
       /\ owed' = owed /\ earlier' = earlier \cup ToSet(roots)
  BY <1>4, <1>10 DEF Continue, Request
<1>12. ToSet(roots) = {roots[k] : k \in 1..Len(roots)}
  BY <1>4 DEF ToSet
<1>13. \A k \in 1..Len(roots) : roots[k] >= LastRoot
  <2> TAKE k \in 1..Len(roots)
  <2>1. CASE k = Len(roots)
    BY <1>9, <2>1 DEF LastRoot
  <2>2. CASE k < Len(roots)
    <3>1. roots[k] > roots[Len(roots)]
      BY <1>4, <1>6, <2>2 DEF Descending
    <3>2. QED BY <1>7, <1>8, <1>9, <3>1 DEF LastRoot
  <2>3. QED BY <1>6, <2>1, <2>2
<1>14. \A i \in earlier : i >= LastRoot
  <2> TAKE i \in earlier
  <2>1. after # None /\ i >= after /\ i \in Nat
    BY <1>3 DEF IInv, AskInv, AheadInv, Asking
  <2>2. LastRoot < after
    BY <1>5, <1>9, <2>1, MatchingFacts DEF IInv
  <2>3. QED BY <1>5, <1>9, <2>1, <2>2
<1>15. LastRoot # None
  BY <1>9, PagesAssumption
<1>16. AskInv'
  <2>1. earlier' \subseteq Nat
    BY <1>7, <1>8, <1>11, <1>12 DEF IInv, AskInv
  <2>2. owed' \subseteq Matching(None)'
    BY <1>2, <1>11 DEF IInv, AskInv
  <2>3. QED BY <1>10, <1>11, <2>1, <2>2 DEF AskInv, Asking
<1>17. AheadInv'
  <2>1. \A i \in earlier' : i >= LastRoot
    BY <1>11, <1>12, <1>13, <1>14
  <2>2. \A i \in owed' \ earlier' : i < LastRoot
    BY <1>4, <1>11, <1>12
  <2>3. Matching(after)' # {}
    BY <1>4, <1>11, <1>1 DEF Matching
  <2>4. QED BY <1>11, <1>15, <2>1, <2>2, <2>3 DEF AheadInv
<1>18. QED BY <1>1, <1>11, <1>16, <1>17 DEF IInv, PageInv

LEMMA GetRootsInv == ASSUME IInv, GetRoots PROVE IInv'
<1>1. pc = "roots" /\ UNCHANGED <<rows, open, lastId, first, asked, after, owed, earlier>>
  BY DEF GetRoots, SelectRoots, dbVars, askVars
<1>2. PICK q \in Newest(Matching(after), first + 1) :
        /\ roots' = SubSeq(q, 1, IF first < Len(q) THEN first ELSE Len(q))
        /\ hasNext' = (Len(q) >= first + 1)
        /\ pc' = IF q = <<>> THEN "answered" ELSE "replies"
  BY DEF GetRoots, SelectRoots
<1>3. roots' = Trimmed(q, first)
  BY <1>2 DEF Trimmed
<1>4. first \in Nat \ {0}
  BY <1>1, PagesAssumption DEF IInv, AskInv, Asking
<1>5. after \in Nat \cup {None}
  BY <1>1, DecodeFacts DEF IInv, AskInv, Asking
<1>6. Matching(after) \in SUBSET Nat
  BY <1>5, MatchingFacts DEF IInv
<1>7. /\ roots' \in Seq(Matching(after)) /\ Descending(roots')
      /\ Matching(after) # {} <=> roots' # <<>>
      /\ q = <<>> <=> roots' = <<>>
      /\ hasNext' => roots' # <<>> /\ \E i \in Matching(after) : i < LastRoot'
      /\ \A i \in Matching(after) : \/ \E k \in 1..Len(roots') : roots'[k] = i
                                    \/ hasNext' /\ i < LastRoot'
  <2> DEFINE t == Trimmed(q, first)
  <2>1. /\ t \in Seq(Matching(after)) /\ Descending(t)
        /\ Matching(after) # {} <=> t # <<>>
        /\ q = <<>> <=> t = <<>>
        /\ Len(q) >= first + 1 => t # <<>> /\ \E i \in Matching(after) : i < t[Len(t)]
        /\ \A i \in Matching(after) : \/ \E k \in 1..Len(t) : t[k] = i
                                      \/ Len(q) >= first + 1 /\ i < t[Len(t)]
    BY <1>4, <1>6, TrimmedFacts
  <2> HIDE DEF t
  <2>2. roots' = t /\ (hasNext' <=> Len(q) >= first + 1) /\ LastRoot' = t[Len(t)]
    BY <1>2, <1>3 DEF LastRoot, t
  <2>3. QED BY <2>1, <2>2
<1>8. \A l : Matching(l)' = Matching(l)
  BY <1>1 DEF Matching
<1>9. pc' \in {"answered", "replies"} /\ (pc' = "answered" <=> roots' = <<>>)
  BY <1>2, <1>7
<1>10. Ids'
  BY <1>1 DEF IInv, Ids
<1>11. Matching(after)' = Matching(after)
  BY <1>1 DEF Matching
<1>12. AskInv'
  BY <1>1, <1>8, <1>9 DEF IInv, AskInv, Asking
<1>13. AheadInv'
  BY <1>1, <1>9, <1>11 DEF IInv, AheadInv, Asking
<1>14. PageInv'
  <2>1. \A i \in owed : \/ i \in earlier
                        \/ \E k \in 1..Len(roots') : roots'[k] = i
                        \/ hasNext' /\ i < LastRoot'
    <3> TAKE i \in owed
    <3>1. CASE i \notin earlier
      <4>1. i \in Matching(None) /\ (after = None \/ i < after)
        BY <1>1, <3>1 DEF IInv, AskInv, AheadInv, Asking
      <4>2. i \in Matching(after)
        BY <1>5, <4>1, MatchingFacts DEF IInv
      <4>3. QED BY <1>7, <4>2
    <3>2. QED BY <3>1
  <2>2. hasNext' => roots' # <<>> /\ Matching(LastRoot)' # {}
    <3>1. ASSUME hasNext' PROVE Matching(LastRoot)' # {}
      <4>1. PICK i \in Matching(after) : i < LastRoot'
        BY <1>7, <3>1
      <4>2. i \in Matching(LastRoot')
        BY <4>1 DEF Matching
      <4>3. QED BY <1>1, <4>2 DEF Matching
    <3>2. QED BY <1>7, <3>1
  <2>3. earlier # {} => roots' # <<>>
    BY <1>1, <1>7 DEF IInv, AheadInv, Asking
  <2>4. QED BY <1>1, <1>7, <1>9, <1>11, <2>1, <2>2, <2>3 DEF PageInv
<1>15. QED BY <1>10, <1>12, <1>13, <1>14 DEF IInv

LEMMA GetRepliesInv == ASSUME IInv, GetReplies PROVE IInv'
<1>1. /\ pc = "replies" /\ pc' = "answered" /\ endCursor' = Encode(LastRoot)
      /\ UNCHANGED <<rows, open, lastId, roots, hasNext, first, asked, after, owed, earlier>>
  BY DEF GetReplies, SelectReplies, dbVars, askVars, LastRoot, Last
<1>2. \A l : Matching(l)' = Matching(l)
  BY <1>1 DEF Matching
<1>3. /\ Matching(after)' = Matching(after) /\ LastRoot' = LastRoot
      /\ Matching(LastRoot)' = Matching(LastRoot)
  BY <1>1 DEF Matching, LastRoot
<1>4. Ids'
  BY <1>1 DEF IInv, Ids
<1>5. AskInv'
  BY <1>1, <1>2 DEF IInv, AskInv, Asking
<1>6. AheadInv'
  BY <1>1, <1>3 DEF IInv, AheadInv, Asking
<1>7. PageInv'
  BY <1>1, <1>3 DEF IInv, PageInv
<1>8. QED BY <1>4, <1>5, <1>6, <1>7 DEF IInv

LEMMA FailInv == ASSUME IInv, Fail PROVE IInv'
<1>1. /\ pc \in {"roots", "replies"} /\ pc' = "failed"
      /\ UNCHANGED <<rows, open, lastId, first, asked, after, owed, earlier>>
  BY DEF Fail, dbVars, askVars
<1>2. \A l : Matching(l)' = Matching(l)
  BY <1>1 DEF Matching
<1>3. Matching(after)' = Matching(after)
  BY <1>1 DEF Matching
<1>4. QED BY <1>1, <1>2, <1>3 DEF IInv, Ids, AskInv, AheadInv, PageInv, Asking

LEMMA RetryInv == ASSUME IInv, Retry PROVE IInv'
<1>1. pc = "failed" /\ UNCHANGED <<rows, open, lastId, owed, earlier>>
  BY DEF Retry, Request, dbVars
<1>2. first \in 1..MaxPageSize /\ ValidCursor(asked) /\ after = Decode(asked)
  BY <1>1 DEF IInv, AskInv, Asking
<1>3. pc' = "roots" /\ first' = first /\ asked' = asked /\ after' = after
  BY <1>2 DEF Retry, Request
<1>4. \A l : Matching(l)' = Matching(l)
  BY <1>1 DEF Matching
<1>5. Matching(after)' = Matching(after)
  BY <1>1, <1>3 DEF Matching
<1>6. QED BY <1>1, <1>3, <1>4, <1>5 DEF IInv, Ids, AskInv, AheadInv, PageInv, Asking

LEMMA InvHolds == Spec => []IInv
<1>1. ASSUME IInv, [Next]_vars PROVE IInv'
  <2>1. CASE Inserts
    BY <1>1, <2>1, InsertsInv
  <2>2. ASSUME NEW n \in 0..(MaxPageSize + 1), NEW c \in Cursors \cup {None}, Begin(n, c)
        PROVE  IInv'
    BY <1>1, <2>2, BeginInv
  <2>3. CASE Walk
    BY <1>1, <2>3, ContinueInv, GetRootsInv, GetRepliesInv, RetryInv DEF Walk
  <2>4. CASE Fail
    BY <1>1, <2>4, FailInv
  <2>5. CASE UNCHANGED vars
    <3>1. AskInv' /\ AheadInv' /\ PageInv'
      BY <1>1, <2>5, WalkUntouched DEF vars, dbVars, pageVars, askVars
    <3>2. QED BY <1>1, <2>5, <3>1 DEF IInv, Ids, vars, dbVars
  <2>6. QED BY <1>1, <2>1, <2>2, <2>3, <2>4, <2>5 DEF Next, Over
<1>2. QED BY InitInv, <1>1, PTL DEF Spec

-----------------------------------------------------------------------------
\* However pages are sized and whatever is inserted meanwhile, the cursors of
\* Resolver.Comments make a walk run down the ids that DB.Comments selects,
\* below all it has shown: no root comment is shown twice or out of order.
THEOREM Descends == Spec => []WalkDescending
<1>1. ASSUME IInv PROVE WalkDescending
  <2> SUFFICES ASSUME pc = "answered", NEW k \in DOMAIN roots
               PROVE  /\ \A l \in 1..(k - 1) : roots[l] > roots[k]
                      /\ \A i \in earlier : i > roots[k]
    BY DEF WalkDescending
  <2>1. roots \in Seq(Matching(after)) /\ Descending(roots)
    BY <1>1 DEF IInv, PageInv
  <2>2. k \in 1..Len(roots) /\ Len(roots) \in Nat
    BY <2>1
  <2>3. roots[k] \in Matching(after)
    BY <2>1, <2>2, ElementOfSeq
  <2>4. after \in Nat \cup {None}
    BY <1>1, DecodeFacts DEF IInv, AskInv, Asking
  <2>5. roots[k] \in Nat /\ (after = None \/ roots[k] < after)
    BY <1>1, <2>3, <2>4, MatchingFacts DEF IInv
  <2>6. \A l \in 1..(k - 1) : roots[l] > roots[k]
    BY <2>1, <2>2 DEF Descending
  <2>7. \A i \in earlier : i > roots[k]
    <3> TAKE i \in earlier
    <3>1. after # None /\ i >= after /\ i \in Nat
      BY <1>1 DEF IInv, AskInv, AheadInv, Asking
    <3>2. QED BY <2>4, <2>5, <3>1
  <2>8. QED BY <2>6, <2>7
<1>2. QED BY InvHolds, <1>1, PTL

\* A walk whose last page says hasNextPage = false has shown every root
\* comment that was stored when it began, as the row that DB.Comments fetches
\* beyond the page and cuts off is the first of the page that follows.
THEOREM NothingLost == Spec => []WalkComplete
<1>1. ASSUME IInv PROVE WalkComplete
  <2> SUFFICES ASSUME pc = "answered", ~hasNext, NEW i \in owed
               PROVE  i \in earlier \cup ToSet(roots)
    BY DEF WalkComplete
  <2>1. roots \in Seq(Matching(after))
    BY <1>1 DEF IInv, PageInv
  <2>2. i \in earlier \/ \E k \in 1..Len(roots) : roots[k] = i
    BY <1>1 DEF IInv, PageInv
  <2>3. QED BY <2>1, <2>2 DEF ToSet
<1>2. QED BY InvHolds, <1>1, PTL

\* hasNextPage keeps its word although the next page is read by another
\* statement: the row it was computed from is still there.
THEOREM PromiseKept == Spec => []NextPageNotEmpty
<1>1. ASSUME IInv PROVE NextPageNotEmpty
  BY <1>1 DEF IInv, PageInv, NextPageNotEmpty
<1>2. QED BY InvHolds, <1>1, PTL

-----------------------------------------------------------------------------
(***************************************************************************)
(* Sorting rows by their ids, and joining sequences.                       *)
(***************************************************************************)

\* Every set of numbers that is not empty has a least one.
LEMMA LeastNumber ==
  ASSUME NEW T \in SUBSET Nat, T # {}
  PROVE  \E m \in T : \A n \in T : m <= n
<1> DEFINE R == {ss \in Nat \X Nat : ss[1] < ss[2]}
<1>1. IsWellFoundedOn(R, Nat)
  <2>1. R = OpToRel(<, Nat)
    BY Zenon DEF OpToRel
  <2>2. QED BY NatLessThanWellFounded, <2>1, Zenon
<1>2. PICK m \in T : \A n \in T : ~(<<n, m>> \in R)
  <2> HIDE DEF R
  <2>1. QED BY <1>1, WFMin
<1>3. ASSUME NEW n \in T PROVE m <= n
  <2>1. <<n, m>> \in Nat \X Nat /\ <<n, m>>[1] = n /\ <<n, m>>[2] = m
    OBVIOUS
  <2>2. ~(n < m)
    BY <1>2, <2>1
  <2>3. QED BY <2>2
<1>4. QED BY <1>3

\* A set of numbers up to N has a largest one.
LEMMA GreatestNumber ==
  ASSUME NEW N \in Nat, NEW T \in SUBSET (1..N), T # {}
  PROVE  \E m \in T : \A n \in T : n <= m
<1> DEFINE U == {k \in Nat : N - k \in T}
<1>1. U # {}
  <2>1. PICK t \in T : TRUE
    OBVIOUS
  <2>2. N - t \in Nat /\ N - (N - t) = t
    OBVIOUS
  <2>3. QED BY <2>1, <2>2
<1>2. PICK k \in U : \A l \in U : k <= l
  BY <1>1, LeastNumber
<1>3. ASSUME NEW n \in T PROVE n <= N - k
  <2>1. N - n \in Nat /\ N - (N - n) = n
    OBVIOUS
  <2>2. k <= N - n
    BY <1>2, <2>1
  <2>3. QED BY <2>2
<1>4. QED BY <1>3

Ascending(q) == \A j, k \in DOMAIN q : j < k => q[j] < q[k]

\* A finite set of numbers can be written in ascending order.
LEMMA AscendingExists ==
  ASSUME NEW n \in Nat, NEW S \in SUBSET (1..n)
  PROVE  \E q \in [1..Cardinality(S) -> S] : Ascending(q)
<1> DEFINE Sorts(m) == \A T \in SUBSET (1..m) :
                          \E q \in [1..Cardinality(T) -> T] : Ascending(q)
           Bad == {m \in Nat : ~Sorts(m)}
<1>1. SUFFICES Bad = {}
  <2>1. Sorts(n)
    BY <1>1
  <2>2. QED BY <2>1
<1>2. SUFFICES ASSUME Bad # {} PROVE FALSE
  OBVIOUS
<1>3. PICK m \in Bad : \A l \in Bad : m <= l
  <2> HIDE DEF Bad
  <2>1. Bad \in SUBSET Nat
    BY DEF Bad
  <2>2. QED BY <1>2, <2>1, LeastNumber
<1>4. PICK T \in SUBSET (1..m) : ~\E q \in [1..Cardinality(T) -> T] : Ascending(q)
  BY <1>3
<1>5. m \in Nat /\ IsFiniteSet(1..m)
  BY <1>3, FS_Interval
<1>6. IsFiniteSet(T)
  BY <1>5, FS_Subset
<1>7. T # {}
  <2> SUFFICES ASSUME T = {} PROVE FALSE
    OBVIOUS
  <2>1. Cardinality(T) = 0
    BY FS_EmptySet
  <2>2. <<>> \in [1..0 -> T] /\ DOMAIN <<>> = {}
    OBVIOUS
  <2>3. Ascending(<<>>)
    BY <2>2 DEF Ascending
  <2>4. QED BY <1>4, <2>1, <2>2, <2>3
<1>8. m # 0
  <2> HIDE DEF Bad
  <2>1. m = 0 => 1..m = {}
    BY <1>5
  <2>2. QED BY <1>7, <2>1
<1>9. m - 1 \in Nat
  <2> HIDE DEF Bad
  <2>1. QED BY <1>5, <1>8
<1>10. Sorts(m - 1)
  <2> HIDE DEF Sorts
  <2>1. ~(m <= m - 1)
    BY <1>5
  <2>2. m - 1 \notin Bad
    BY <1>3, <2>1, Zenon
  <2>3. QED BY <1>9, <2>2
<1> HIDE DEF Bad
<1>11. m \in T
  <2> SUFFICES ASSUME m \notin T PROVE FALSE
    OBVIOUS
  <2>1. T \in SUBSET (1..(m - 1))
    BY <1>5, <1>8
  <2>2. QED BY <1>4, <1>10, <2>1
<1>12. T \ {m} \in SUBSET (1..(m - 1))
  BY <1>5, <1>8
<1>13. PICK q \in [1..Cardinality(T \ {m}) -> T \ {m}] : Ascending(q)
  BY <1>10, <1>12
<1> DEFINE c == Cardinality(T)
           r == [k \in 1..c |-> IF k = c THEN m ELSE q[k]]
<1>14. c \in Nat \ {0} /\ Cardinality(T \ {m}) = c - 1
  <2>1. c \in Nat
    BY <1>6, FS_CardinalityType
  <2>2. c # 0
    BY <1>6, <1>7, FS_EmptySet
  <2>3. Cardinality(T \ {m}) = c - 1
    BY <1>6, <1>11, FS_RemoveElement
  <2>4. QED BY <2>1, <2>2, <2>3
<1> HIDE DEF c
<1>15. \A k \in 1..c : k # c => k \in 1..(c - 1) /\ q[k] \in T /\ q[k] \in 1..(m - 1)
  <2>1. q \in [1..(c - 1) -> T \ {m}]
    BY <1>13, <1>14
  <2> TAKE k \in 1..c
  <2> HAVE k # c
  <2>2. k \in 1..(c - 1)
    BY <1>14
  <2>3. q[k] \in T \ {m}
    BY <2>1, <2>2
  <2>4. QED BY <1>12, <2>2, <2>3
<1>16. r \in [1..c -> T]
  BY <1>11, <1>15
<1>17. \A j, k \in 1..c : j < k => r[j] < r[k]
  <2> SUFFICES ASSUME NEW j \in 1..c, NEW k \in 1..c, j < k PROVE r[j] < r[k]
    OBVIOUS
  <2>1. j # c /\ r[j] = q[j] /\ j \in 1..(c - 1)
    BY <1>14, <1>15
  <2>2. CASE k = c
    <3>1. r[k] = m /\ q[j] \in 1..(m - 1)
      BY <1>15, <2>1, <2>2
    <3>2. QED BY <1>5, <2>1, <3>1
  <2>3. CASE k # c
    <3>1. r[k] = q[k] /\ k \in 1..(c - 1)
      BY <1>15, <2>3
    <3>2. DOMAIN q = 1..(c - 1)
      BY <1>13, <1>14
    <3>3. q[j] < q[k]
      BY <1>13, <2>1, <3>1, <3>2 DEF Ascending
    <3>4. QED BY <2>1, <3>1, <3>3
  <2>4. QED BY <2>2, <2>3
<1>18. DOMAIN r = 1..c
  OBVIOUS
<1> HIDE DEF r
<1>19. Ascending(r)
  BY <1>17, <1>18 DEF Ascending
<1>20. r \in [1..Cardinality(T) -> T]
  BY <1>16 DEF c
<1>21. QED BY <1>4, <1>19, <1>20

\* q is S in ascending order.
Sorts(S, q) ==
    /\ Ascending(q)
    /\ q \in Seq(S) /\ DOMAIN q = 1..Len(q)
    /\ \A j, k \in 1..Len(q) : q[j] = q[k] => j = k
    /\ S = {q[k] : k \in 1..Len(q)}

\* ORDER BY id ASC answers with every row, once.
LEMMA OldestFirstFacts ==
  ASSUME NEW n \in Nat, NEW S \in SUBSET (1..n)
  PROVE  Sorts(S, OldestFirst(S))
<1> DEFINE c == Cardinality(S)
           q == OldestFirst(S)
<1>1. q \in [1..c -> S] /\ Ascending(q)
  <2>1. q = CHOOSE r \in [1..c -> S] : Ascending(r)
    BY Zenon DEF OldestFirst, Ascending
  <2> HIDE DEF q
  <2>2. QED BY <2>1, AscendingExists
<1> HIDE DEF q
<1>2. IsFiniteSet(S)
  <2>1. IsFiniteSet(1..n)
    BY FS_Interval
  <2>2. QED BY <2>1, FS_Subset
<1>3. c \in Nat
  BY <1>2, FS_CardinalityType
<1>4. Cardinality(1..c) = Cardinality(S)
  BY <1>3, FS_Interval
<1> HIDE DEF c
<1>5. q \in Seq(S) /\ Len(q) = c /\ DOMAIN q = 1..c
  BY <1>1, <1>3
<1>6. \A j, k \in 1..c : q[j] = q[k] => j = k
  <2> SUFFICES ASSUME NEW j \in 1..c, NEW k \in 1..c, q[j] = q[k] PROVE j = k
    OBVIOUS
  <2>1. S \subseteq Nat
    OBVIOUS
  <2>2. q[j] \in Nat /\ q[k] \in Nat
    BY <1>1, <2>1
  <2>3. (j < k => q[j] < q[k]) /\ (k < j => q[k] < q[j])
    BY <1>1, <1>5 DEF Ascending
  <2>4. QED BY <1>3, <2>2, <2>3
<1>7. q \in Injection(1..c, S)
  BY <1>1, <1>6 DEF Injection, IsInjective
<1>8. q \in Surjection(1..c, S)
  BY <1>2, <1>4, <1>7, FS_Injection
<1>9. S = {q[k] : k \in 1..c}
  BY <1>1, <1>8 DEF Surjection
<1>10. Sorts(S, q)
  BY <1>1, <1>5, <1>6, <1>9 DEF Sorts
<1>11. QED BY <1>10 DEF q

\* The recursive function in FlattenSeq exists, so its equation holds.
LEMMA FlattenEquation ==
  ASSUME NEW S, NEW ss \in Seq(Seq(S)), Len(ss) # 0
  PROVE  \E f : /\ \A i \in 1..Len(ss) :
                      f[i] = IF i = 1 THEN ss[i] ELSE f[i - 1] \o ss[i]
                /\ FlattenSeq(ss) = f[Len(ss)]
<1> DEFINE n == Len(ss)
           Step(f, i) == IF i = 1 THEN ss[i] ELSE f[i - 1] \o ss[i]
           Defined(m) == \E g \in [1..m -> Seq(S)] : \A i \in 1..m : g[i] = Step(g, i)
           Bad == {m \in 0..n : ~Defined(m)}
<1>1. n \in Nat /\ \A i \in 1..n : ss[i] \in Seq(S)
  BY ElementOfSeq, LenProperties
<1>2. Bad = {}
  <2> SUFFICES ASSUME Bad # {} PROVE FALSE
    OBVIOUS
  <2>1. PICK m \in Bad : \A l \in Bad : m <= l
    <3>1. Bad \in SUBSET Nat
      BY <1>1
    <3> HIDE DEF Bad
    <3>2. QED BY <3>1, LeastNumber
  <2>2. m \in 0..n /\ ~Defined(m)
    BY <2>1
  <2>3. m # 0
    <3>1. <<>> \in [1..0 -> Seq(S)] /\ \A i \in 1..0 : <<>>[i] = Step(<<>>, i)
      OBVIOUS
    <3>2. Defined(0)
      BY <3>1
    <3>3. QED BY <2>2, <3>2
  <2>4. m - 1 \in 0..n /\ ~(m <= m - 1)
    BY <1>1, <2>2, <2>3
  <2>5. Defined(m - 1)
    <3> HIDE DEF Defined
    <3>1. m - 1 \notin Bad
      BY <2>1, <2>4, Zenon
    <3>2. QED BY <2>4, <3>1
  <2>6. PICK g \in [1..(m - 1) -> Seq(S)] : \A i \in 1..(m - 1) : g[i] = Step(g, i)
    BY <2>5
  <2> DEFINE last == IF m = 1 THEN ss[m] ELSE g[m - 1] \o ss[m]
             h == [i \in 1..m |-> IF i = m THEN last ELSE g[i]]
  <2>7. last \in Seq(S)
    <3>1. ss[m] \in Seq(S)
      BY <1>1, <2>2, <2>3
    <3>2. ASSUME m # 1 PROVE g[m - 1] \o ss[m] \in Seq(S)
      <4>1. m - 1 \in 1..(m - 1)
        BY <1>1, <2>2, <2>3, <3>2
      <4>2. g[m - 1] \in Seq(S)
        BY <2>6, <4>1
      <4>3. QED BY <3>1, <4>2, ConcatProperties
    <3>3. QED BY <3>1, <3>2
  <2> HIDE DEF last
  <2>8. \A i \in 1..m : i # m => i \in 1..(m - 1)
    BY <2>2
  <2>9. h \in [1..m -> Seq(S)]
    BY <2>6, <2>7, <2>8
  <2>10. ASSUME NEW i \in 1..m PROVE h[i] = Step(h, i)
    <3>1. i # 1 => i - 1 \in 1..m /\ i - 1 # m /\ h[i - 1] = g[i - 1]
      BY <2>2
    <3>2. CASE i = m
      BY <3>1, <3>2 DEF last
    <3>3. CASE i # m
      <4>1. h[i] = g[i] /\ i \in 1..(m - 1)
        BY <2>8, <3>3
      <4>2. g[i] = Step(g, i)
        BY <2>6, <4>1
      <4>3. Step(g, i) = Step(h, i)
        BY <3>1
      <4>4. QED BY <4>1, <4>2, <4>3
    <3>4. QED BY <3>2, <3>3
  <2>11. QED BY <2>2, <2>9, <2>10
<1>3. PICK g \in [1..n -> Seq(S)] : \A i \in 1..n : g[i] = Step(g, i)
  <2> HIDE DEF Defined
  <2>1. n \in 0..n
    BY <1>1
  <2>2. Defined(n)
    BY <1>2, <2>1
  <2>3. QED BY <2>2 DEF Defined
<1>4. g = [i \in 1..n |-> Step(g, i)]
  BY <1>3
<1> DEFINE f == CHOOSE f : f = [i \in 1..n |-> Step(f, i)]
<1>5. f = [i \in 1..n |-> Step(f, i)]
  BY <1>4
<1>6. FlattenSeq(ss) = f[n]
  BY Zenon DEF FlattenSeq
<1> HIDE DEF f
<1>7. \A i \in 1..n : f[i] = Step(f, i)
  BY <1>5
<1>8. QED BY <1>6, <1>7

\* F holds the sequences of ss one after the other: ss[k] begins after
\* position off[k].
Splices(F, ss, off) ==
    /\ \A k \in 1..Len(ss) : off[k] \in Nat
    /\ \A k \in 1..Len(ss) : \A q \in 1..Len(ss[k]) :
          off[k] + q \in 1..Len(F) /\ F[off[k] + q] = ss[k][q]
    /\ \A p \in 1..Len(F) : \E k \in 1..Len(ss) : \E q \in 1..Len(ss[k]) :
          p = off[k] + q
    /\ \A k, l \in 1..Len(ss) : k < l => off[k] + Len(ss[k]) <= off[l]

\* Flattening puts the sequences one after the other.
LEMMA FlattenFacts ==
  ASSUME NEW S, NEW ss \in Seq(Seq(S))
  PROVE  FlattenSeq(ss) \in Seq(S) /\ \E off : Splices(FlattenSeq(ss), ss, off)
<1>1. Len(ss) \in Nat /\ \A i \in 1..Len(ss) : ss[i] \in Seq(S) /\ Len(ss[i]) \in Nat
  BY ElementOfSeq, LenProperties
<1>2. CASE Len(ss) = 0
  <2>1. FlattenSeq(ss) = ss /\ ss = <<>>
    <3>1. ss = <<>>
      BY <1>2, EmptySeq
    <3>2. FlattenSeq(ss) = ss
      BY <1>2, Zenon DEF FlattenSeq
    <3>3. QED BY <3>1, <3>2
  <2>2. <<>> \in Seq(S) /\ Len(<<>>) = 0
    OBVIOUS
  <2>3. Splices(<<>>, ss, <<>>)
    BY <1>2, <2>2 DEF Splices
  <2>4. QED BY <2>1, <2>2, <2>3
<1>3. CASE Len(ss) # 0
  <2> DEFINE n == Len(ss)
  <2>1. PICK f : /\ \A i \in 1..n : f[i] = IF i = 1 THEN ss[i] ELSE f[i - 1] \o ss[i]
                 /\ FlattenSeq(ss) = f[n]
    BY <1>3, FlattenEquation
  <2> DEFINE off == [k \in 1..n |-> IF k = 1 THEN 0 ELSE Len(f[k - 1])]
             Fits(m) == \A k \in 1..m : off[k] \in Nat /\ off[k] + Len(ss[k]) <= Len(f[m])
             Holds(m) == \A k \in 1..m : \A q \in 1..Len(ss[k]) : f[m][off[k] + q] = ss[k][q]
             Covers(m) == \A p \in 1..Len(f[m]) : \E k \in 1..m : \E q \in 1..Len(ss[k]) :
                             p = off[k] + q
             Good(m) == f[m] \in Seq(S) /\ Fits(m) /\ Holds(m) /\ Covers(m)
             Bad == {m \in 1..n : ~Good(m)}
  <2>2. n \in Nat \ {0} /\ n \in 1..n
    BY <1>1, <1>3
  <2>3. f[1] = ss[1] /\ off[1] = 0 /\ ss[1] \in Seq(S) /\ Len(ss[1]) \in Nat
    <3>1. 1 \in 1..n
      BY <2>2
    <3>2. QED BY <1>1, <2>1, <3>1
  <2> HIDE DEF n
  <2>4. Good(1)
    <3>1. \A k \in 1..1 : k = 1
      OBVIOUS
    <3> HIDE DEF off
    <3>2. Fits(1)
      BY <2>3, <3>1
    <3>3. Holds(1)
      BY <2>3, <3>1
    <3>4. Covers(1)
      <4> TAKE p \in 1..Len(f[1])
      <4>1. 1 \in 1..1 /\ p \in 1..Len(ss[1]) /\ p = off[1] + p
        BY <2>3
      <4>2. QED BY <4>1
    <3>5. QED BY <2>3, <3>2, <3>3, <3>4
  <2>5. ASSUME NEW m \in 1..n, m # 1, Good(m - 1)
        PROVE  Good(m)
    <3>1. m - 1 \in 1..n /\ m \in Nat /\ m - 1 \in Nat
      BY <2>2, <2>5
    <3> DEFINE g == f[m - 1]
               t == ss[m]
               a == Len(g)
               b == Len(t)
    <3>2. f[m] = g \o t /\ off[m] = a
      BY <2>1, <2>5
    <3>3. t \in Seq(S) /\ b \in Nat /\ g \in Seq(S) /\ a \in Nat
      BY <1>1, <2>5, LenProperties DEF n
    <3>4. /\ f[m] \in Seq(S)
          /\ Len(f[m]) = a + b
          /\ \A p \in 1..(a + b) : f[m][p] = IF p <= a THEN g[p] ELSE t[p - a]
      <4> HIDE DEF g, t
      <4>1. QED BY <3>2, <3>3, ConcatProperties
    <3>5. \A k \in 1..m : k # m => k \in 1..(m - 1)
      BY <3>1
    <3>6. Fits(m - 1) /\ Holds(m - 1) /\ Covers(m - 1)
      BY <2>5
    <3> HIDE DEF off, a, b
    <3>7. ASSUME NEW k \in 1..m, k # m
          PROVE  /\ k \in 1..(m - 1) /\ off[k] \in Nat /\ Len(ss[k]) \in Nat
                 /\ off[k] + Len(ss[k]) <= a
      <4>1. k \in 1..(m - 1) /\ k \in 1..n
        BY <2>2, <3>1, <3>5, <3>7
      <4>2. QED BY <1>1, <3>6, <4>1 DEF n, a
    <3>8. Fits(m)
      <4> TAKE k \in 1..m
      <4>1. CASE k = m
        <5>1. off[k] = a /\ Len(ss[k]) = b
          BY <3>2, <4>1 DEF b
        <5>2. QED BY <3>3, <3>4, <5>1
      <4>2. CASE k # m
        <5>1. off[k] \in Nat /\ Len(ss[k]) \in Nat /\ off[k] + Len(ss[k]) <= a
          BY <3>7, <4>2
        <5> DEFINE o == off[k]
                   c == Len(ss[k])
        <5> HIDE DEF o, c
        <5>2. o \in Nat /\ c \in Nat /\ o + c <= a + b
          BY <3>3, <5>1 DEF o, c
        <5>3. QED BY <3>4, <5>2 DEF o, c
      <4>3. QED BY <4>1, <4>2
    <3>9. Holds(m)
      <4> SUFFICES ASSUME NEW k \in 1..m, NEW q \in 1..Len(ss[k])
                   PROVE  f[m][off[k] + q] = ss[k][q]
        OBVIOUS
      <4>1. CASE k = m
        <5>1. off[k] = a /\ q \in 1..b
          BY <3>2, <4>1 DEF b
        <5>2. a + q \in 1..(a + b) /\ ~(a + q <= a) /\ (a + q) - a = q
          BY <3>3, <5>1
        <5>3. f[m][a + q] = t[q]
          <6> HIDE DEF t, g
          <6>1. QED BY <3>4, <5>2
        <5>4. QED BY <4>1, <5>1, <5>3
      <4>2. CASE k # m
        <5> DEFINE o == off[k]
                   c == Len(ss[k])
        <5>1. k \in 1..(m - 1) /\ o \in Nat /\ c \in Nat /\ o + c <= a /\ q \in 1..c
          BY <3>7, <4>2
        <5>2. f[m - 1][o + q] = ss[k][q]
          BY <3>6, <5>1
        <5> HIDE DEF o, c
        <5>3. o + q \in 1..(a + b) /\ o + q <= a
          BY <3>3, <5>1
        <5>4. f[m][o + q] = g[o + q]
          <6> HIDE DEF t, g
          <6>1. QED BY <3>4, <5>3
        <5>5. QED BY <5>2, <5>4 DEF o
      <4>3. QED BY <4>1, <4>2
    <3>10. Covers(m)
      <4> SUFFICES ASSUME NEW p \in 1..Len(f[m])
                   PROVE  \E k \in 1..m : \E q \in 1..Len(ss[k]) : p = off[k] + q
        OBVIOUS
      <4>1. p \in 1..(a + b)
        BY <3>4
      <4>2. CASE p <= a
        <5>1. p \in 1..Len(f[m - 1])
          BY <3>3, <4>1, <4>2 DEF a
        <5>2. PICK k \in 1..(m - 1) : \E q \in 1..Len(ss[k]) : p = off[k] + q
          BY <3>6, <5>1
        <5>3. k \in 1..m
          BY <3>1
        <5>4. QED BY <5>2, <5>3
      <4>3. CASE ~(p <= a)
        <5>1. p - a \in 1..b /\ p = a + (p - a)
          BY <3>3, <4>1, <4>3
        <5>2. m \in 1..m /\ p - a \in 1..Len(ss[m]) /\ p = off[m] + (p - a)
          BY <3>1, <3>2, <5>1 DEF b
        <5>3. QED BY <5>2
      <4>4. QED BY <4>2, <4>3
    <3>11. QED BY <3>4, <3>8, <3>9, <3>10
  <2> HIDE DEF Good
  <2>6. Bad = {}
    <3> SUFFICES ASSUME Bad # {} PROVE FALSE
      OBVIOUS
    <3>1. PICK m \in Bad : \A l \in Bad : m <= l
      <4>1. Bad \in SUBSET Nat
        BY <2>2
      <4> HIDE DEF Bad
      <4>2. QED BY <4>1, LeastNumber
    <3>2. m \in 1..n /\ ~Good(m)
      BY <3>1
    <3>3. m # 1
      BY <2>4, <3>2
    <3>4. m - 1 \in 1..n /\ ~(m <= m - 1)
      BY <2>2, <3>2, <3>3
    <3>5. m - 1 \notin Bad
      BY <3>1, <3>4, Zenon
    <3>6. QED BY <2>5, <3>2, <3>3, <3>4, <3>5
  <2>7. \A m \in 1..n : Good(m)
    BY <2>6
  <2>8. f[n] \in Seq(S) /\ Len(f[n]) \in Nat
    BY <2>2, <2>7, LenProperties DEF Good
  <2>9. Splices(f[n], ss, off)
    <3>1. \A k \in 1..n : off[k] \in Nat /\ off[k] + Len(ss[k]) <= Len(f[n]) /\ Len(ss[k]) \in Nat
      BY <1>1, <2>2, <2>7 DEF Good, n
    <3>2. Holds(n) /\ Covers(n)
      BY <2>2, <2>7 DEF Good
    <3>3. ASSUME NEW k \in 1..n, NEW l \in 1..n, k < l
          PROVE  off[k] + Len(ss[k]) <= off[l]
      <4>1. l # 1 /\ l - 1 \in 1..n /\ k \in 1..(l - 1)
        BY <2>2, <3>3
      <4>2. Fits(l - 1)
        BY <2>7, <4>1 DEF Good
      <4>3. off[l] = Len(f[l - 1])
        BY <4>1
      <4> HIDE DEF off
      <4>4. QED BY <4>1, <4>2, <4>3
    <3> HIDE DEF off
    <3>4. \A k \in 1..n : \A q \in 1..Len(ss[k]) : off[k] + q \in 1..Len(f[n])
      BY <2>8, <3>1
    <3>5. QED BY <3>1, <3>2, <3>3, <3>4 DEF Splices, n
  <2>10. QED BY <2>1, <2>8, <2>9
<1>4. QED BY <1>2, <1>3

-----------------------------------------------------------------------------
(***************************************************************************)
(* The trees below comments.                                               *)
(***************************************************************************)

\* A reply is written below a comment that is stored, so it has a larger id.
Rooted ==
    /\ DOMAIN rows \subseteq 1..MaxId
    /\ \A j \in DOMAIN rows : rows[j].parent # None =>
          rows[j].parent \in DOMAIN rows /\ rows[j].parent < j

\* Of the same parent, x the older reply.
OlderReply(x, y) ==
    /\ x \in DOMAIN rows /\ y \in DOMAIN rows
    /\ rows[x].parent = rows[y].parent /\ rows[x].parent # None
    /\ x < y

\* s shows each row once, with all the replies to it, older replies to the same
\* comment first.
Whole(s) ==
    /\ s \in Seq(1..MaxId)
    /\ \A p, q \in 1..Len(s) : s[p] = s[q] => p = q
    /\ \A j \in DOMAIN rows : \A p \in 1..Len(s) :
          rows[j].parent = s[p] => \E q \in 1..Len(s) : s[q] = j
    /\ \A p, q \in 1..Len(s) : OlderReply(s[p], s[q]) => p < q

\* The parent of what stands at p stands before it.
ParentBefore(s, p) ==
    /\ s[p] \in DOMAIN rows
    /\ \E q \in 1..Len(s) : q < p /\ s[q] = rows[s[p]].parent

\* s displays the tree below r, or the trees below the roots R.
Tree(r, s) ==
    /\ Whole(s)
    /\ \E p \in 1..Len(s) : s[p] = r
    /\ \A p \in 1..Len(s) : s[p] # r => ParentBefore(s, p)
    /\ \A p \in 1..Len(s) : r <= s[p]

Forest(R, s) ==
    /\ Whole(s)
    /\ \A i \in R : \E p \in 1..Len(s) : s[p] = i
    /\ \A p \in 1..Len(s) : s[p] \notin R => ParentBefore(s, p)
    /\ \A p \in 1..Len(s) : \E i \in R : i <= s[p]

LEMMA NoneIsNoId == \A i \in 1..MaxId : i # None
BY PagesAssumption

\* s does not show y; s and t show nothing in common.
Misses(s, y) == \A p \in 1..Len(s) : s[p] # y
Apart(s, t)  == \A p \in 1..Len(s), q \in 1..Len(t) : s[p] # t[q]

\* The trees below two comments that are not in each other's tree share nothing.
LEMMA TreesDisjoint ==
  ASSUME Rooted,
         NEW x \in 1..MaxId, NEW s, Tree(x, s),
         NEW y \in 1..MaxId, NEW t, Tree(y, t),
         Misses(s, y), Misses(t, x)
  PROVE  Apart(s, t)
<1> DEFINE Both == {i \in 1..MaxId : /\ \E p \in 1..Len(s) : s[p] = i
                                     /\ \E q \in 1..Len(t) : t[q] = i}
<1>1. /\ s \in Seq(1..MaxId) /\ t \in Seq(1..MaxId)
      /\ \A p \in 1..Len(s) : s[p] # x =>
            s[p] \in DOMAIN rows /\ \E q \in 1..Len(s) : s[q] = rows[s[p]].parent
      /\ \A p \in 1..Len(t) : t[p] # y =>
            t[p] \in DOMAIN rows /\ \E q \in 1..Len(t) : t[q] = rows[t[p]].parent
  BY DEF Tree, Whole, ParentBefore
<1>2. Both = {}
  <2> SUFFICES ASSUME Both # {} PROVE FALSE
    OBVIOUS
  <2>1. PICK i \in Both : \A j \in Both : i <= j
    <3>1. Both \in SUBSET Nat
      BY PagesAssumption
    <3> HIDE DEF Both
    <3>2. QED BY <3>1, LeastNumber
  <2>2. PICK p \in 1..Len(s) : s[p] = i
    BY <2>1
  <2>3. PICK q \in 1..Len(t) : t[q] = i
    BY <2>1
  <2>4. i # x /\ i # y
    BY <2>2, <2>3 DEF Misses
  <2>5. PICK pp \in 1..Len(s) : s[p] \in DOMAIN rows /\ s[pp] = rows[s[p]].parent
    BY <1>1, <2>2, <2>4
  <2>6. PICK qq \in 1..Len(t) : t[qq] = rows[t[q]].parent
    BY <1>1, <2>3, <2>4
  <2> DEFINE j == rows[i].parent
  <2>7. i \in DOMAIN rows /\ s[pp] = j /\ t[qq] = j
    BY <2>2, <2>3, <2>5, <2>6
  <2>8. j \in 1..MaxId
    <3>1. s[pp] \in 1..MaxId
      BY ONLY <1>1, <2>5, ElementOfSeq
    <3>2. QED BY <2>7, <3>1
  <2>9. j # None
    BY <2>8, NoneIsNoId, Zenon
  <2>10. j < i
    BY <2>7, <2>9 DEF Rooted
  <2>11. j \in Both
    BY <2>7, <2>8
  <2>12. i <= j
    BY <2>1, <2>11
  <2>13. i \in 1..MaxId
    BY <2>1
  <2> HIDE DEF j, Both
  <2>14. i \in Nat /\ j \in Nat
    BY <2>8, <2>13, PagesAssumption
  <2>15. QED BY <2>10, <2>12, <2>14
<1>3. ASSUME NEW p \in 1..Len(s), NEW q \in 1..Len(t) PROVE s[p] # t[q]
  <2>1. s[p] \in 1..MaxId
    BY <1>1, ElementOfSeq
  <2>2. s[p] \notin Both
    BY <1>2
  <2>3. QED BY <2>1, <2>2
<1>4. QED BY <1>3 DEF Apart

\* Trees one after the other are a forest.
LEMMA ForestOfTrees ==
  ASSUME Rooted,
         NEW c \in Seq(1..MaxId), NEW ss \in Seq(Seq(1..MaxId)), Len(ss) = Len(c),
         \A k \in 1..Len(c) : Tree(c[k], ss[k]),
         \A k, l \in 1..Len(c) : k # l => \A q \in 1..Len(ss[l]) : ss[l][q] # c[k],
         \A k, l \in 1..Len(c) : OlderReply(c[k], c[l]) => k < l
  PROVE  Forest({c[k] : k \in 1..Len(c)}, FlattenSeq(ss))
<1> DEFINE F == FlattenSeq(ss)
           n == Len(c)
           R == {c[k] : k \in 1..n}
<1>1. F \in Seq(1..MaxId) /\ \E off : Splices(F, ss, off)
  BY FlattenFacts
<1>2. PICK off : Splices(F, ss, off)
  BY <1>1
<1> HIDE DEF F
<1>3. n \in Nat /\ Len(F) \in Nat /\ \A k \in 1..n : c[k] \in 1..MaxId
  BY <1>1, LenProperties, ElementOfSeq
<1>4. \A k \in 1..n : off[k] \in Nat /\ Len(ss[k]) \in Nat
  BY <1>2, LenProperties, ElementOfSeq DEF Splices
<1>5. ASSUME NEW k \in 1..n
      PROVE  /\ \A p, q \in 1..Len(ss[k]) : ss[k][p] = ss[k][q] => p = q
             /\ \E p \in 1..Len(ss[k]) : ss[k][p] = c[k]
             /\ \A p \in 1..Len(ss[k]) : c[k] <= ss[k][p]
             /\ \A p, q \in 1..Len(ss[k]) : OlderReply(ss[k][p], ss[k][q]) => p < q
  <2>1. Tree(c[k], ss[k])
    OBVIOUS
  <2>2. QED BY <2>1 DEF Tree, Whole
<1>6. ASSUME NEW k \in 1..n, NEW p \in 1..Len(ss[k]), ss[k][p] # c[k]
      PROVE  /\ ss[k][p] \in DOMAIN rows
             /\ \E q \in 1..Len(ss[k]) : q < p /\ ss[k][q] = rows[ss[k][p]].parent
  <2>1. Tree(c[k], ss[k])
    OBVIOUS
  <2>2. ParentBefore(ss[k], p)
    BY <1>6, <2>1 DEF Tree
  <2>3. QED BY <2>2 DEF ParentBefore
<1>7. ASSUME NEW k \in 1..n, NEW j \in DOMAIN rows, NEW p \in 1..Len(ss[k]),
             rows[j].parent = ss[k][p]
      PROVE  \E q \in 1..Len(ss[k]) : ss[k][q] = j
  <2>1. Tree(c[k], ss[k])
    OBVIOUS
  <2>2. QED BY <1>7, <2>1 DEF Tree, Whole
<1>8. /\ \A k \in 1..n : \A q \in 1..Len(ss[k]) :
           off[k] + q \in 1..Len(F) /\ F[off[k] + q] = ss[k][q]
      /\ \A p \in 1..Len(F) : \E k \in 1..n : \E q \in 1..Len(ss[k]) : p = off[k] + q
      /\ \A k, l \in 1..n : k < l => off[k] + Len(ss[k]) <= off[l]
  BY <1>2 DEF Splices
<1>9. \A k, l \in 1..n : k # l =>
         \A p \in 1..Len(ss[k]), q \in 1..Len(ss[l]) : ss[k][p] # ss[l][q]
  <2> TAKE k, l \in 1..n
  <2> HAVE k # l
  <2> DEFINE s == ss[k]
             t == ss[l]
             x == c[k]
             y == c[l]
  <2>1. Misses(s, y) /\ Misses(t, x)
    BY DEF Misses
  <2>2. Rooted
    OBVIOUS
  <2>3. x \in 1..MaxId /\ Tree(x, s)
    BY <1>3
  <2>4. y \in 1..MaxId /\ Tree(y, t)
    BY <1>3
  <2>5. Apart(s, t)
    <3> HIDE DEF s, t, x, y
    <3>1. QED BY <2>1, <2>2, <2>3, <2>4, TreesDisjoint, Zenon
  <2>6. QED BY <2>5 DEF Apart
\* The place of a row: which tree, and where in it.
<1>10. \A p \in 1..Len(F) : \E k \in 1..n : \E q \in 1..Len(ss[k]) :
         p = off[k] + q /\ F[p] = ss[k][q]
  <2> TAKE p \in 1..Len(F)
  <2>1. PICK k \in 1..n : \E q \in 1..Len(ss[k]) : p = off[k] + q
    BY <1>8
  <2>2. PICK q \in 1..Len(ss[k]) : p = off[k] + q
    BY <2>1
  <2>3. F[p] = ss[k][q]
    BY <1>8, <2>2
  <2>4. QED BY <2>2, <2>3
<1> HIDE DEF n
<1>11. ASSUME NEW p \in 1..Len(F), NEW q \in 1..Len(F), F[p] = F[q]
      PROVE  p = q
  <2>1. PICK k \in 1..n : \E a \in 1..Len(ss[k]) : p = off[k] + a /\ F[p] = ss[k][a]
    BY <1>10
  <2>2. PICK a \in 1..Len(ss[k]) : p = off[k] + a /\ F[p] = ss[k][a]
    BY <2>1
  <2>3. PICK l \in 1..n : \E b \in 1..Len(ss[l]) : q = off[l] + b /\ F[q] = ss[l][b]
    BY <1>10
  <2>4. PICK b \in 1..Len(ss[l]) : q = off[l] + b /\ F[q] = ss[l][b]
    BY <2>3
  <2>5. k = l
    BY <1>9, <1>11, <2>2, <2>4
  <2>6. a = b
    BY <1>5, <1>11, <2>2, <2>4, <2>5
  <2>7. QED BY <2>2, <2>4, <2>5, <2>6
<1>12. ASSUME NEW i \in R PROVE \E p \in 1..Len(F) : F[p] = i
  <2>1. PICK k \in 1..n : c[k] = i
    OBVIOUS
  <2>2. PICK a \in 1..Len(ss[k]) : ss[k][a] = i
    BY <1>5, <2>1
  <2>3. QED BY <1>8, <2>2
<1>13. ASSUME NEW p \in 1..Len(F)
       PROVE  /\ F[p] \notin R => ParentBefore(F, p)
              /\ \E i \in R : i <= F[p]
  <2>1. PICK k \in 1..n : \E a \in 1..Len(ss[k]) : p = off[k] + a /\ F[p] = ss[k][a]
    BY <1>10
  <2>2. PICK a \in 1..Len(ss[k]) : p = off[k] + a /\ F[p] = ss[k][a]
    BY <2>1
  <2>3. c[k] \in R /\ c[k] <= F[p]
    BY <1>5, <2>2
  <2>4. CASE ss[k][a] # c[k]
    <3>1. PICK b \in 1..Len(ss[k]) : b < a /\ ss[k][a] \in DOMAIN rows /\ ss[k][b] = rows[ss[k][a]].parent
      BY <1>6, <2>4
    <3>2. off[k] + b \in 1..Len(F) /\ off[k] + b < p
      <4> DEFINE o == off[k]
      <4>1. o \in Nat /\ p = o + a /\ a \in Nat /\ b \in Nat /\ b < a
        BY <1>4, <2>2, <3>1
      <4>2. o + b \in 1..Len(F)
        BY <1>8, <3>1
      <4> HIDE DEF o
      <4>3. o + b < p
        BY <4>1
      <4>4. QED BY <4>2, <4>3 DEF o
    <3>3. F[off[k] + b] = rows[F[p]].parent
      BY <1>8, <2>2, <3>1, <3>2
    <3>4. QED BY <2>2, <2>3, <3>1, <3>2, <3>3 DEF ParentBefore
  <2>5. QED BY <2>2, <2>3, <2>4
<1>14. ASSUME NEW j \in DOMAIN rows, NEW p \in 1..Len(F), rows[j].parent = F[p]
       PROVE  \E q \in 1..Len(F) : F[q] = j
  <2>1. PICK k \in 1..n : \E a \in 1..Len(ss[k]) : p = off[k] + a /\ F[p] = ss[k][a]
    BY <1>10
  <2>2. PICK a \in 1..Len(ss[k]) : p = off[k] + a /\ F[p] = ss[k][a]
    BY <2>1
  <2>3. PICK b \in 1..Len(ss[k]) : ss[k][b] = j
    BY <1>7, <1>14, <2>2
  <2>4. QED BY <1>8, <2>3
<1>15. ASSUME NEW p \in 1..Len(F), NEW q \in 1..Len(F), OlderReply(F[p], F[q])
       PROVE  p < q
  <2>1. PICK k \in 1..n : \E a \in 1..Len(ss[k]) : p = off[k] + a /\ F[p] = ss[k][a]
    BY <1>10
  <2>2. PICK a \in 1..Len(ss[k]) : p = off[k] + a /\ F[p] = ss[k][a]
    BY <2>1
  <2>3. PICK l \in 1..n : \E b \in 1..Len(ss[l]) : q = off[l] + b /\ F[q] = ss[l][b]
    BY <1>10
  <2>4. PICK b \in 1..Len(ss[l]) : q = off[l] + b /\ F[q] = ss[l][b]
    BY <2>3
  <2>5. CASE k = l
    <3>1. OlderReply(ss[k][a], ss[k][b])
      BY <1>15, <2>2, <2>4, <2>5
    <3>2. b \in 1..Len(ss[k])
      BY <2>4, <2>5
    <3>3. a < b
      <4>1. \A g, h \in 1..Len(ss[k]) : OlderReply(ss[k][g], ss[k][h]) => g < h
        BY <1>5
      <4>2. QED BY <3>1, <3>2, <4>1
    <3> DEFINE o == off[k]
    <3>4. o \in Nat /\ p = o + a /\ q = o + b
      BY <1>4, <2>2, <2>4, <2>5
    <3> HIDE DEF o
    <3>5. a \in Nat /\ b \in Nat
      BY <1>4
    <3>6. QED BY <3>3, <3>4, <3>5
  <2>6. CASE k # l
    <3> DEFINE x == F[p]
               y == F[q]
    <3>1. /\ x \in DOMAIN rows /\ y \in DOMAIN rows
          /\ rows[x].parent = rows[y].parent
      BY <1>15 DEF OlderReply
    <3>2. ASSUME x # c[k] PROVE FALSE
      <4>1. PICK d \in 1..Len(ss[k]) : ss[k][d] = rows[x].parent
        BY <1>6, <2>2, <3>2
      <4>2. y \in DOMAIN rows /\ rows[y].parent = ss[k][d]
        BY <3>1, <4>1
      <4> HIDE DEF x, y
      <4>3. PICK e \in 1..Len(ss[k]) : ss[k][e] = y
        BY <1>7, <4>2
      <4>4. QED BY <1>9, <2>4, <2>6, <4>3 DEF y
    <3>3. ASSUME y # c[l] PROVE FALSE
      <4>1. PICK d \in 1..Len(ss[l]) : ss[l][d] = rows[y].parent
        BY <1>6, <2>4, <3>3
      <4>2. x \in DOMAIN rows /\ rows[x].parent = ss[l][d]
        BY <3>1, <4>1
      <4> HIDE DEF x, y
      <4>3. PICK e \in 1..Len(ss[l]) : ss[l][e] = x
        BY <1>7, <4>2
      <4>4. QED BY <1>9, <2>2, <2>6, <4>3 DEF x
    <3>4. k < l
      BY <1>15, <3>2, <3>3 DEF n
    <3>5. off[k] + Len(ss[k]) <= off[l]
      BY <1>8, <3>4
    <3>6. /\ off[k] \in Nat /\ off[l] \in Nat
          /\ Len(ss[k]) \in Nat /\ Len(ss[l]) \in Nat
      BY <1>4
    <3> DEFINE o == off[k]
               e == Len(ss[k])
               f == off[l]
    <3>7. o \in Nat /\ f \in Nat /\ e \in Nat /\ p = o + a /\ q = f + b /\ o + e <= f /\ a \in 1..e
      BY <2>2, <2>4, <3>5, <3>6
    <3>8. b \in Nat /\ b > 0
      BY <3>6
    <3> HIDE DEF o, e, f
    <3>9. QED BY <3>7, <3>8
  <2>7. QED BY <2>5, <2>6
<1>16. Forest(R, F)
  <2> HIDE DEF R
  <2>1. QED BY <1>1, <1>11, <1>12, <1>13, <1>14, <1>15 DEF Forest, Whole
<1>17. QED BY <1>16 DEF F, n

\* The replies to i as getCommentDescendants orders them.
LEMMA ChildrenFacts ==
  ASSUME Rooted, NEW i \in 1..MaxId
  PROVE  /\ \A j \in Replies(i) : j \in DOMAIN rows /\ j \in 1..MaxId /\ i < j /\ rows[j].parent = i
         /\ Children(i) \in Seq(Replies(i))
         /\ Children(i) \in Seq(1..MaxId)
         /\ DOMAIN Children(i) = 1..Len(Children(i))
         /\ Ascending(Children(i))
         /\ \A j, k \in 1..Len(Children(i)) : Children(i)[j] = Children(i)[k] => j = k
         /\ Replies(i) = {Children(i)[k] : k \in 1..Len(Children(i))}
<1> DEFINE S == Replies(i)
           c == Children(i)
<1>1. i \in Nat /\ i # None /\ MaxId \in Nat
  BY PagesAssumption
<1>2. \A j \in S : j \in DOMAIN rows /\ j \in 1..MaxId /\ i < j /\ rows[j].parent = i
  BY <1>1 DEF Replies, Rooted
<1>3. S \in SUBSET (1..MaxId)
  BY <1>2
<1>4. Sorts(S, c)
  <2> HIDE DEF S
  <2>1. QED BY <1>1, <1>3, OldestFirstFacts DEF Children, S
<1> HIDE DEF c, S
<1>5. /\ Ascending(c)
      /\ c \in Seq(S) /\ DOMAIN c = 1..Len(c)
      /\ \A j, k \in 1..Len(c) : c[j] = c[k] => j = k
      /\ S = {c[k] : k \in 1..Len(c)}
  BY <1>4 DEF Sorts
<1>6. c \in Seq(1..MaxId)
  BY <1>3, <1>5, SeqMonotonic
<1>7. QED BY <1>2, <1>5, <1>6 DEF c, S

\* What buildCommentTree makes of a comment and the trees of its replies.
Build(g, i) ==
    <<i>> \o FlattenSeq([k \in DOMAIN Children(i) |-> g[Children(i)[k]]])

\* The trees of the replies to i, of which g[j] is the one of j.
LEMMA BranchesFacts ==
  ASSUME Rooted, NEW i \in 1..MaxId,
         NEW g, \A j \in Replies(i) : g[j] \in Seq(1..MaxId)
  PROVE  LET ss == [k \in DOMAIN Children(i) |-> g[Children(i)[k]]]
         IN  /\ ss \in Seq(Seq(1..MaxId)) /\ Len(ss) = Len(Children(i))
             /\ \A k \in 1..Len(ss) : ss[k] = g[Children(i)[k]]
             /\ FlattenSeq(ss) \in Seq(1..MaxId)
             /\ Build(g, i) = <<i>> \o FlattenSeq(ss)
             /\ Build(g, i) \in Seq(1..MaxId)
<1> DEFINE c == Children(i)
           ss == [k \in DOMAIN c |-> g[c[k]]]
<1>1. c \in Seq(Replies(i)) /\ DOMAIN c = 1..Len(c)
  BY ChildrenFacts
<1>2. Build(g, i) = <<i>> \o FlattenSeq(ss)
  BY DEF Build
<1> HIDE DEF c
<1>3. Len(c) \in Nat /\ \A k \in 1..Len(c) : c[k] \in Replies(i)
  BY <1>1, LenProperties, ElementOfSeq
<1>4. \A k \in 1..Len(c) : g[c[k]] \in Seq(1..MaxId)
  BY <1>3
<1>5. ss = [k \in 1..Len(c) |-> g[c[k]]]
  BY <1>1
<1>6. ss \in Seq(Seq(1..MaxId)) /\ Len(ss) = Len(c) /\ \A k \in 1..Len(ss) : ss[k] = g[c[k]]
  <2>1. ss \in [1..Len(c) -> Seq(1..MaxId)]
    BY <1>4, <1>5
  <2>2. ss \in Seq(Seq(1..MaxId)) /\ Len(ss) = Len(c)
    <3> HIDE DEF ss
    <3>1. QED BY <1>3, <2>1
  <2>3. QED BY <1>5, <2>2
<1> HIDE DEF ss
<1>7. FlattenSeq(ss) \in Seq(1..MaxId)
  BY <1>6, FlattenFacts
<1>8. Build(g, i) \in Seq(1..MaxId)
  <2>1. <<i>> \in Seq(1..MaxId)
    OBVIOUS
  <2>2. QED BY <1>2, <1>7, <2>1, ConcatProperties
<1>9. QED BY <1>2, <1>6, <1>7, <1>8 DEF ss, c

\* The recursion ends because a reply has a larger id than its parent.
LEMMA SubtreeEquation ==
  ASSUME Rooted
  PROVE  \A i \in 1..MaxId : Subtree[i] = Build(Subtree, i)
<1> DEFINE Above(n) == {i \in 1..MaxId : MaxId - i < n}
           Defined(n) == \E g \in [Above(n) -> Seq(1..MaxId)] :
                            \A i \in Above(n) : g[i] = Build(g, i)
           Bad == {n \in 0..MaxId : ~Defined(n)}
<1>1. MaxId \in Nat
  BY PagesAssumption
<1>2. ASSUME NEW i \in 1..MaxId, NEW g, NEW h, \A j \in Replies(i) : g[j] = h[j]
      PROVE  Build(g, i) = Build(h, i)
  <2> DEFINE c == Children(i)
  <2>1. c \in Seq(Replies(i)) /\ DOMAIN c = 1..Len(c)
    BY ChildrenFacts
  <2>2. \A k \in DOMAIN c : c[k] \in Replies(i)
    <3> HIDE DEF c
    <3>1. QED BY <2>1, ElementOfSeq
  <2>3. \A k \in DOMAIN c : g[c[k]] = h[c[k]]
    BY <1>2, <2>2
  <2>4. [k \in DOMAIN c |-> g[c[k]]] = [k \in DOMAIN c |-> h[c[k]]]
    <3> HIDE DEF c
    <3>1. QED BY <2>3
  <2>5. QED BY <2>4 DEF Build
<1>3. Bad = {}
  <2> SUFFICES ASSUME Bad # {} PROVE FALSE
    OBVIOUS
  <2>1. PICK n \in Bad : \A l \in Bad : n <= l
    <3>1. Bad \in SUBSET Nat
      BY <1>1
    <3> HIDE DEF Bad
    <3>2. QED BY <3>1, LeastNumber
  <2>2. n \in 0..MaxId /\ ~Defined(n)
    BY <2>1
  <2>3. n # 0
    <3>1. Above(0) = {}
      BY <1>1
    <3> DEFINE e == [i \in {} |-> <<>>]
    <3>2. e \in [Above(0) -> Seq(1..MaxId)] /\ \A i \in Above(0) : e[i] = Build(e, i)
      BY <3>1
    <3>3. Defined(0)
      BY <3>2
    <3>4. QED BY <2>2, <3>3
  <2>4. n - 1 \in 0..MaxId /\ ~(n <= n - 1)
    BY <1>1, <2>2, <2>3
  <2>5. Defined(n - 1)
    <3> HIDE DEF Defined
    <3>1. n - 1 \notin Bad
      BY <2>1, <2>4, Zenon
    <3>2. QED BY <2>4, <3>1
  <2> DEFINE U == Above(n - 1)
             m == MaxId - (n - 1)
  <2>6. PICK g \in [U -> Seq(1..MaxId)] : \A i \in U : g[i] = Build(g, i)
    BY <2>5
  <2>7. m \in 1..MaxId /\ m \notin U /\ Above(n) = U \cup {m}
    BY <1>1, <2>2, <2>3
  <2>8. \A i \in Above(n) : i \in 1..MaxId /\ Replies(i) \subseteq U
    <3> TAKE i \in Above(n)
    <3>1. i \in 1..MaxId /\ MaxId - i < n
      OBVIOUS
    <3>2. ASSUME NEW j \in Replies(i) PROVE j \in U
      <4>1. j \in 1..MaxId /\ i < j
        BY <3>1, ChildrenFacts
      <4>2. MaxId - j < n - 1
        BY <1>1, <2>2, <3>1, <4>1
      <4>3. QED BY <4>1, <4>2
    <3>3. QED BY <3>1, <3>2
  <2> DEFINE h == [i \in Above(n) |-> IF i = m THEN Build(g, m) ELSE g[i]]
  <2> HIDE DEF m, Above, U
  <2>9. \A j \in U : j # m /\ h[j] = g[j] /\ g[j] \in Seq(1..MaxId)
    BY <2>6, <2>7
  <2>10. m \in Above(n)
    BY <2>7
  <2>11. Build(g, m) \in Seq(1..MaxId)
    <3>1. \A j \in Replies(m) : g[j] \in Seq(1..MaxId)
      BY <2>8, <2>9, <2>10
    <3>2. QED BY <2>7, <3>1, BranchesFacts
  <2>12. h \in [Above(n) -> Seq(1..MaxId)]
    BY <2>6, <2>7, <2>11
  <2>13. h[m] = Build(g, m)
    BY <2>10
  <2> HIDE DEF h
  <2>14. ASSUME NEW i \in Above(n) PROVE h[i] = Build(h, i)
    <3>1. \A j \in Replies(i) : g[j] = h[j]
      BY <2>8, <2>9
    <3>2. Build(g, i) = Build(h, i)
      BY <1>2, <2>8, <3>1
    <3>3. CASE i = m
      BY <2>13, <3>2, <3>3
    <3>4. CASE i # m
      BY <2>6, <2>7, <2>9, <3>2, <3>4
    <3>5. QED BY <3>3, <3>4
  <2>15. QED BY <2>2, <2>12, <2>14
<1>4. PICK g \in [1..MaxId -> Seq(1..MaxId)] : \A i \in 1..MaxId : g[i] = Build(g, i)
  <2>1. Above(MaxId) = 1..MaxId
    BY <1>1
  <2>2. Defined(MaxId)
    <3> HIDE DEF Defined
    <3>1. QED BY <1>1, <1>3
  <2>3. QED BY <2>1, <2>2
<1>5. g = [i \in 1..MaxId |-> Build(g, i)]
  BY <1>4
<1>6. Subtree = CHOOSE f : f = [i \in 1..MaxId |-> Build(f, i)]
  BY Zenon DEF Subtree, Build
<1>7. Subtree = [i \in 1..MaxId |-> Build(Subtree, i)]
  BY <1>5, <1>6
<1>8. QED BY <1>7

\* A comment followed by the forest of its replies is its tree.
LEMMA RootPrepended ==
  ASSUME Rooted, NEW i \in 1..MaxId, NEW F, Forest(Replies(i), F)
  PROVE  Tree(i, <<i>> \o F)
<1> DEFINE t == <<i>> \o F
<1>1. MaxId \in Nat /\ i \in Nat /\ i # None
  BY PagesAssumption
<1>2. F \in Seq(1..MaxId) /\ Len(F) \in Nat
  BY LenProperties DEF Forest, Whole
<1>3. t \in Seq(1..MaxId) /\ Len(t) = Len(F) + 1 /\ t[1] = i /\ \A p \in 1..Len(F) : t[p + 1] = F[p]
  <2>1. <<i>> \in Seq(1..MaxId) /\ Len(<<i>>) = 1 /\ <<i>>[1] = i
    OBVIOUS
  <2>2. /\ t \in Seq(1..MaxId) /\ Len(t) = 1 + Len(F)
        /\ \A p \in 1..(1 + Len(F)) : t[p] = IF p <= 1 THEN <<i>>[p] ELSE F[p - 1]
    BY <1>2, <2>1, ConcatProperties
  <2> HIDE DEF t
  <2>3. ASSUME NEW p \in 1..Len(F) PROVE t[p + 1] = F[p]
    <3>1. p + 1 \in 1..(1 + Len(F)) /\ ~(p + 1 <= 1) /\ (p + 1) - 1 = p
      BY <1>2
    <3>2. QED BY <2>2, <3>1
  <2>4. t[1] = i
    BY <1>2, <2>1, <2>2
  <2>5. QED BY <1>2, <2>2, <2>3, <2>4
<1> HIDE DEF t
<1>4. \A p \in 1..Len(t) : p # 1 => p - 1 \in 1..Len(F) /\ t[p] = F[p - 1]
  <2> TAKE p \in 1..Len(t)
  <2> HAVE p # 1
  <2>1. p - 1 \in 1..Len(F) /\ (p - 1) + 1 = p
    BY <1>2, <1>3
  <2>2. QED BY <1>3, <2>1
<1>5. \A p \in 1..Len(F) : p + 1 \in 1..Len(t)
  BY <1>2, <1>3
<1>6. 1 \in 1..Len(t)
  BY <1>2, <1>3
<1>7. \A p \in 1..Len(F) : F[p] \in 1..MaxId /\ i < F[p]
  <2> TAKE p \in 1..Len(F)
  <2>1. PICK j \in Replies(i) : j <= F[p]
    BY DEF Forest
  <2>2. j \in 1..MaxId /\ i < j
    BY ChildrenFacts
  <2>3. F[p] \in 1..MaxId
    BY <1>2, ElementOfSeq
  <2>4. QED BY <1>1, <2>1, <2>2, <2>3
<1>8. ASSUME NEW p \in 1..Len(t), NEW q \in 1..Len(t), t[p] = t[q]
      PROVE  p = q
  <2> DEFINE Below(r) == r # 1 => t[r] \in 1..MaxId /\ i < t[r]
  <2>1. Below(p) /\ Below(q)
    BY <1>4, <1>7
  <2>2. CASE p = 1 \/ q = 1
    <3>1. p # 1 => i < i
      BY <1>3, <1>8, <2>1, <2>2
    <3>2. q # 1 => i < i
      BY <1>3, <1>8, <2>1, <2>2
    <3>3. QED BY <1>1, <2>2, <3>1, <3>2
  <2>3. CASE p # 1 /\ q # 1
    <3>1. p - 1 \in 1..Len(F) /\ q - 1 \in 1..Len(F) /\ F[p - 1] = F[q - 1]
      BY <1>4, <1>8, <2>3
    <3>2. p - 1 = q - 1
      BY <3>1 DEF Forest, Whole
    <3>3. QED BY <1>2, <1>3, <3>2
  <2>4. QED BY <2>2, <2>3
<1>9. ASSUME NEW j \in DOMAIN rows, NEW p \in 1..Len(t), rows[j].parent = t[p]
      PROVE  \E q \in 1..Len(t) : t[q] = j
  <2>1. \E q \in 1..Len(F) : F[q] = j
    <3>1. CASE p = 1
      <4>1. j \in Replies(i)
        BY <1>3, <1>9, <3>1 DEF Replies
      <4>2. QED BY <4>1 DEF Forest
    <3>2. CASE p # 1
      <4>1. p - 1 \in 1..Len(F) /\ rows[j].parent = F[p - 1]
        BY <1>4, <1>9, <3>2
      <4>2. QED BY <4>1 DEF Forest, Whole
    <3>3. QED BY <3>1, <3>2
  <2>2. QED BY <1>3, <1>5, <2>1
<1>10. ASSUME NEW p \in 1..Len(t), NEW q \in 1..Len(t), OlderReply(t[p], t[q])
       PROVE  p < q
  <2>1. CASE p = 1
    <3>1. t[p] # t[q]
      BY <1>10 DEF OlderReply, Rooted
    <3>2. q # 1
      BY <2>1, <3>1
    <3>3. QED BY <1>2, <1>3, <2>1, <3>2
  <2>2. CASE p # 1 /\ q = 1
    <3>1. i \in DOMAIN rows /\ t[p] < i
      BY <1>3, <1>10, <2>2 DEF OlderReply
    <3>2. i < t[p] /\ t[p] \in 1..MaxId
      BY <1>4, <1>7, <2>2
    <3>3. QED BY <1>1, <3>1, <3>2
  <2>3. CASE p # 1 /\ q # 1
    <3>1. p - 1 \in 1..Len(F) /\ q - 1 \in 1..Len(F) /\ OlderReply(F[p - 1], F[q - 1])
      BY <1>4, <1>10, <2>3
    <3>2. p - 1 < q - 1
      BY <3>1 DEF Forest, Whole
    <3>3. QED BY <1>2, <1>3, <3>2
  <2>4. QED BY <2>1, <2>2, <2>3
<1>11. ASSUME NEW p \in 1..Len(t), t[p] # i
       PROVE  ParentBefore(t, p)
  <2>1. p # 1
    BY <1>3, <1>11
  <2>2. p - 1 \in 1..Len(F) /\ t[p] = F[p - 1]
    BY <1>4, <2>1
  <2>3. CASE F[p - 1] \in Replies(i)
    <3>1. F[p - 1] \in DOMAIN rows /\ rows[F[p - 1]].parent = i
      BY <2>3, ChildrenFacts
    <3>2. 1 < p
      BY <1>2, <1>3, <2>1
    <3>3. QED BY <1>3, <1>6, <2>2, <3>1, <3>2 DEF ParentBefore
  <2>4. CASE F[p - 1] \notin Replies(i)
    <3>1. ParentBefore(F, p - 1)
      BY <2>2, <2>4 DEF Forest
    <3>2. PICK q \in 1..Len(F) : q < p - 1 /\ F[q] = rows[F[p - 1]].parent
      BY <3>1 DEF ParentBefore
    <3>3. q + 1 \in 1..Len(t) /\ q + 1 < p /\ t[q + 1] = F[q]
      BY <1>2, <1>3, <1>5, <3>2
    <3>4. QED BY <2>2, <3>1, <3>2, <3>3 DEF ParentBefore
  <2>5. QED BY <2>3, <2>4
<1>12. \A p \in 1..Len(t) : i <= t[p]
  <2> TAKE p \in 1..Len(t)
  <2>1. CASE p = 1
    BY <1>1, <1>3, <2>1
  <2>2. CASE p # 1
    BY <1>1, <1>4, <1>7, <2>2
  <2>3. QED BY <2>1, <2>2
<1>13. Whole(t)
  BY <1>3, <1>8, <1>9, <1>10 DEF Whole
<1>14. Tree(i, t)
  BY <1>3, <1>6, <1>11, <1>12, <1>13 DEF Tree
<1>15. QED BY <1>14 DEF t

\* What buildCommentTree computes, for every table of comments of which each
\* reply has a stored, older parent: the comment, then all that was ever written
\* below it, each once, each after its parent and after the older replies to
\* the same comment.
THEOREM SubtreeIsTree ==
  ASSUME Rooted
  PROVE  \A i \in 1..MaxId : Tree(i, Subtree[i])
<1> DEFINE Bad == {i \in 1..MaxId : ~Tree(i, Subtree[i])}
<1>1. MaxId \in Nat
  BY PagesAssumption
<1> SUFFICES ASSUME Bad # {} PROVE FALSE
  OBVIOUS
<1>2. PICK i \in Bad : \A j \in Bad : j <= i
  <2>1. Bad \in SUBSET (1..MaxId)
    OBVIOUS
  <2> HIDE DEF Bad
  <2>2. QED BY <1>1, <2>1, GreatestNumber
<1>3. i \in 1..MaxId /\ ~Tree(i, Subtree[i])
  BY <1>2
<1> DEFINE c == Children(i)
           ss == [k \in DOMAIN c |-> Subtree[c[k]]]
<1>4. /\ \A j \in Replies(i) : j \in DOMAIN rows /\ j \in 1..MaxId /\ i < j /\ rows[j].parent = i
      /\ c \in Seq(Replies(i)) /\ c \in Seq(1..MaxId)
      /\ DOMAIN c = 1..Len(c)
      /\ Ascending(c)
      /\ \A j, k \in 1..Len(c) : c[j] = c[k] => j = k
      /\ Replies(i) = {c[k] : k \in 1..Len(c)}
  BY <1>3, ChildrenFacts
<1>5. \A j \in Replies(i) : Tree(j, Subtree[j])
  <2> TAKE j \in Replies(i)
  <2>1. j \in 1..MaxId /\ i < j
    BY <1>4
  <2>2. ~(j <= i)
    BY <1>3, <2>1
  <2>3. j \notin Bad
    BY <1>2, <2>2, Zenon
  <2>4. QED BY <2>1, <2>3
<1>6. \A j \in Replies(i) : Subtree[j] \in Seq(1..MaxId)
  BY <1>5 DEF Tree, Whole
<1>7. /\ ss \in Seq(Seq(1..MaxId)) /\ Len(ss) = Len(c)
      /\ \A k \in 1..Len(ss) : ss[k] = Subtree[c[k]]
      /\ Build(Subtree, i) = <<i>> \o FlattenSeq(ss)
  BY <1>3, <1>6, BranchesFacts
<1> HIDE DEF ss, c, Bad
<1>8. Len(c) \in Nat /\ \A k \in 1..Len(c) : c[k] \in Replies(i)
  BY <1>4, LenProperties, ElementOfSeq
<1>9. \A k \in 1..Len(c) : Tree(c[k], ss[k])
  BY <1>5, <1>7, <1>8
<1>10. ASSUME NEW k \in 1..Len(c), NEW l \in 1..Len(c), k # l,
              NEW q \in 1..Len(ss[l]), ss[l][q] = c[k]
       PROVE  FALSE
  <2>1. c[k] # c[l]
    BY <1>4, <1>10
  <2>2. Tree(c[l], ss[l])
    BY <1>9
  <2>3. ParentBefore(ss[l], q)
    BY <1>10, <2>1, <2>2 DEF Tree
  <2>4. PICK p \in 1..Len(ss[l]) : ss[l][p] = rows[c[k]].parent
    BY <1>10, <2>3 DEF ParentBefore
  <2>5. ss[l][p] = i
    BY <1>4, <1>8, <2>4
  <2>6. c[l] <= i
    BY <2>2, <2>5 DEF Tree
  <2>7. i < c[l] /\ c[l] \in 1..MaxId
    BY <1>4, <1>8
  <2>8. QED BY <1>3, <2>6, <2>7
<1>11. ASSUME NEW k \in 1..Len(c), NEW l \in 1..Len(c), OlderReply(c[k], c[l])
       PROVE  k < l
  <2>1. c[k] < c[l] /\ c[k] \in 1..MaxId /\ c[l] \in 1..MaxId
    BY <1>4, <1>8, <1>11 DEF OlderReply
  <2>2. ~(l < k) /\ l # k
    <3>1. l < k => c[l] < c[k]
      BY <1>4 DEF Ascending
    <3>2. QED BY <2>1, <3>1
  <2>3. QED BY <1>8, <2>2
<1>12. Forest(Replies(i), FlattenSeq(ss))
  <2>1. \A k, l \in 1..Len(c) : k # l => \A q \in 1..Len(ss[l]) : ss[l][q] # c[k]
    BY <1>10
  <2>2. \A k, l \in 1..Len(c) : OlderReply(c[k], c[l]) => k < l
    BY <1>11
  <2>3. Forest({c[k] : k \in 1..Len(c)}, FlattenSeq(ss))
    BY <1>4, <1>7, <1>9, <2>1, <2>2, ForestOfTrees
  <2>4. QED BY <1>4, <2>3
<1>13. Tree(i, <<i>> \o FlattenSeq(ss))
  BY <1>3, <1>12, RootPrepended
<1>14. Subtree[i] = <<i>> \o FlattenSeq(ss)
  BY <1>3, <1>7, SubtreeEquation
<1>15. QED BY <1>3, <1>13, <1>14

-----------------------------------------------------------------------------
(***************************************************************************)
(* The invariant of the database and of the pages read from it.  A reply   *)
(* is stored with an older parent of its post, so the trees are finite and *)
(* stay within the post; a page that was answered shows whole trees, and   *)
(* goes on doing so while rows are added, as it lists all that were stored *)
(* when it was asked for.                                                  *)
(***************************************************************************)

\* If the row r with id j is a reply, then to an older row of "stock" and of the
\* same post.
Below(stock, r, j) ==
    r.parent # None => /\ r.parent \in DOMAIN stock /\ r.parent < j
                       /\ stock[r.parent].post = r.post

DbInv ==
    /\ lastId \in 0..MaxId
    /\ \A j \in DOMAIN rows : rows[j] \in Rows /\ Below(rows, rows[j], j)
    /\ \A j \in DOMAIN open : open[j] \in Rows /\ Below(rows, open[j], j)

WalkTypes ==
    /\ first \in 0..(MaxPageSize + 1)
    /\ asked \in [id : Nat, padding : 0..2] \cup {None}
    /\ after \in Nat \cup {None}
    /\ roots \in Seq(DOMAIN rows) /\ Len(roots) <= first
    /\ hasNext \in BOOLEAN
    /\ endCursor \in [id : Nat, padding : 0..2] \cup {None}
    /\ page \in Seq(DOMAIN rows)
    /\ failures \in 0..MaxFailures
    /\ owed \subseteq DOMAIN rows /\ earlier \subseteq DOMAIN rows
    /\ stored \subseteq DOMAIN rows

\* The page as PageIsForest describes it, in terms of positions.
Shown ==
    /\ \A p, q \in 1..Len(page) : page[p] = page[q] => p = q
    /\ \A p \in 1..Len(page) :
          /\ rows[page[p]].post = Walked
          /\ (\E k \in 1..Len(roots) : roots[k] = page[p]) \/ ParentBefore(page, p)
    /\ \A k \in 1..Len(roots) : \E p \in 1..Len(page) : page[p] = roots[k]
    /\ \A j \in stored : \A p \in 1..Len(page) :
          rows[j].parent = page[p] => \E q \in 1..Len(page) : page[q] = j
    /\ \A p, q \in 1..Len(page) : OlderReply(page[p], page[q]) => p < q

ShownInv == (pc = "roots" => page = <<>>) /\ (pc = "answered" => Shown)

TreeInv == DbInv /\ WalkTypes /\ ShownInv

LEMMA TreeInvTypes == ASSUME IInv, TreeInv PROVE TypeOK
<1>1. roots \in Seq(1..lastId)
  BY SeqMonotonic DEF IInv, Ids, TreeInv, WalkTypes
<1>2. pc \in {"idle", "roots", "replies", "answered", "failed", "rejected"}
  BY DEF IInv, AskInv
<1>3. owed \cup earlier \cup stored \subseteq DOMAIN rows
  BY DEF TreeInv, WalkTypes
<1>4. QED BY <1>1, <1>2, <1>3 DEF IInv, Ids, TreeInv, DbInv, WalkTypes, TypeOK

LEMMA RootedHolds == ASSUME IInv, TreeInv PROVE Rooted
<1>1. DOMAIN rows \subseteq 1..MaxId
  BY PagesAssumption DEF IInv, Ids, TreeInv, DbInv
<1>2. QED BY <1>1 DEF TreeInv, DbInv, Below, Rooted

LEMMA InitTreeInv == Init => TreeInv
<1> SUFFICES ASSUME Init PROVE TreeInv
  OBVIOUS
<1>1. DOMAIN rows = {} /\ DOMAIN open = {} /\ lastId \in 0..MaxId
  BY PagesAssumption DEF Init
<1>2. DbInv
  BY <1>1 DEF DbInv
<1>3. WalkTypes
  <2>1. /\ roots = <<>> /\ page = <<>> /\ first = 0 /\ asked = None /\ after = None
        /\ hasNext = FALSE /\ endCursor = None /\ failures = 0
        /\ owed = {} /\ earlier = {} /\ stored = {}
    BY DEF Init
  <2>2. <<>> \in Seq(DOMAIN rows) /\ Len(<<>>) = 0
    BY EmptySeq
  <2>3. 0 \in 0..(MaxPageSize + 1) /\ 0 \in 0..MaxFailures
    BY PagesAssumption
  <2>4. roots \in Seq(DOMAIN rows) /\ Len(roots) <= first /\ page \in Seq(DOMAIN rows)
    BY <2>1, <2>2
  <2>5. QED BY <2>1, <2>3, <2>4 DEF WalkTypes
<1>4. ShownInv
  BY DEF Init, ShownInv
<1>5. QED BY <1>2, <1>3, <1>4 DEF TreeInv

\* Rows that are added leave what the walk has read as it was.
LEMMA WalkKept ==
  ASSUME TreeInv,
         DOMAIN rows \subseteq DOMAIN rows',
         \A i \in DOMAIN rows : rows'[i] = rows[i],
         UNCHANGED <<pc, pageVars, askVars, failures>>
  PROVE  WalkTypes' /\ ShownInv'
<1>1. /\ UNCHANGED <<pc, roots, hasNext, endCursor, page, failures>>
      /\ UNCHANGED <<first, asked, after, owed, earlier, stored>>
  BY DEF pageVars, askVars
<1>2. /\ roots \in Seq(DOMAIN rows) /\ page \in Seq(DOMAIN rows)
      /\ owed \subseteq DOMAIN rows /\ earlier \subseteq DOMAIN rows /\ stored \subseteq DOMAIN rows
  BY DEF TreeInv, WalkTypes
<1>3. roots \in Seq(DOMAIN rows') /\ page \in Seq(DOMAIN rows')
  BY <1>2, SeqMonotonic
<1>4. WalkTypes'
  BY <1>1, <1>2, <1>3 DEF TreeInv, WalkTypes
<1>5. ASSUME Shown PROVE Shown'
  <2>1. \A p \in 1..Len(page) : /\ page[p] \in DOMAIN rows /\ page[p] \in DOMAIN rows'
                                /\ rows'[page[p]] = rows[page[p]]
    BY <1>2, ElementOfSeq
  <2>2. ASSUME NEW p \in 1..Len(page), ParentBefore(page, p)
        PROVE  ParentBefore(page, p)'
    BY <1>1, <2>1, <2>2 DEF ParentBefore
  <2>3. ASSUME NEW p \in 1..Len(page), NEW q \in 1..Len(page), OlderReply(page[p], page[q])'
        PROVE  OlderReply(page[p], page[q])
    BY <1>1, <2>1, <2>3 DEF OlderReply
  <2>4. \A p \in 1..Len(page) :
           /\ rows'[page[p]].post = Walked
           /\ (\E k \in 1..Len(roots) : roots[k] = page[p]) \/ ParentBefore(page, p)'
    BY <1>5, <2>1, <2>2 DEF Shown
  <2>5. \A j \in stored : \A p \in 1..Len(page) :
           rows'[j].parent = page[p] => \E q \in 1..Len(page) : page[q] = j
    BY <1>2, <1>5 DEF Shown
  <2>6. \A p, q \in 1..Len(page) : OlderReply(page[p], page[q])' => p < q
    BY <1>5, <2>3 DEF Shown
  <2>7. QED BY <1>1, <1>5, <2>4, <2>5, <2>6 DEF Shown
<1>6. ShownInv'
  BY <1>1, <1>5 DEF TreeInv, ShownInv
<1>7. QED BY <1>4, <1>6

LEMMA InsertsTreeInv == ASSUME IInv, TreeInv, Inserts PROVE TreeInv'
<1>1. ASSUME NEW p \in Posts, NEW i \in DOMAIN rows \cup {None}, Insert(p, i)
      PROVE  TreeInv'
  <2> DEFINE r == [post |-> p, parent |-> i]
             Row(j) == IF j \in DOMAIN open THEN open[j] ELSE r
  <2>1. /\ lastId < MaxId /\ lastId' = lastId + 1 /\ rows' = rows
        /\ open' = [j \in DOMAIN open \cup {lastId + 1} |-> Row(j)]
        /\ i # None => rows[i].post = p
    BY <1>1 DEF Insert
  <2>2. r \in Rows /\ r.post = p /\ r.parent = i
    BY RootedHolds DEF Rows, Rooted
  <2>3. Below(rows, r, lastId + 1)
    BY <2>1, <2>2 DEF Below, IInv, Ids
  <2>4. ASSUME NEW j \in DOMAIN open' PROVE open'[j] \in Rows /\ Below(rows, open'[j], j)
    <3> HIDE DEF r
    <3>1. j \in DOMAIN open \cup {lastId + 1} /\ open'[j] = Row(j)
      BY <2>1
    <3>2. CASE j \in DOMAIN open
      BY <3>1, <3>2 DEF TreeInv, DbInv
    <3>3. CASE j \notin DOMAIN open
      BY <2>2, <2>3, <3>1, <3>3
    <3>4. QED BY <3>2, <3>3
  <2>5. lastId' \in 0..MaxId
    BY <2>1, PagesAssumption DEF TreeInv, DbInv
  <2> HIDE DEF r, Row
  <2>6. DbInv'
    <3>1. \A j \in DOMAIN rows' : rows'[j] \in Rows /\ Below(rows', rows'[j], j)
      BY <2>1 DEF TreeInv, DbInv
    <3>2. \A j \in DOMAIN open' : open'[j] \in Rows /\ Below(rows', open'[j], j)
      BY <2>1, <2>4
    <3>3. QED BY <2>5, <3>1, <3>2 DEF DbInv
  <2>7. WalkTypes' /\ ShownInv'
    <3>1. UNCHANGED <<pc, pageVars, askVars, failures>>
      BY <1>1 DEF Insert
    <3>2. QED BY <2>1, <3>1, WalkKept
  <2>8. QED BY <2>6, <2>7 DEF TreeInv
<1>2. ASSUME NEW i \in DOMAIN open, Commit(i) \/ Abort(i)
      PROVE  TreeInv'
  <2>1. /\ DOMAIN open' = DOMAIN open \ {i}
        /\ \A j \in DOMAIN open' : open'[j] = open[j]
        /\ lastId' = lastId
        /\ UNCHANGED <<pc, pageVars, askVars, failures>>
    BY <1>2 DEF Commit, Abort, Without
  <2>2. i \notin DOMAIN rows
    BY DEF IInv, Ids
  <2>3. /\ DOMAIN rows \subseteq DOMAIN rows' /\ DOMAIN rows' \subseteq DOMAIN rows \cup {i}
        /\ \A j \in DOMAIN rows : rows'[j] = rows[j]
        /\ i \in DOMAIN rows' => rows'[i] = open[i]
    <3>1. CASE Commit(i)
      BY <2>2, <3>1 DEF Commit
    <3>2. CASE Abort(i)
      BY <2>2, <3>2 DEF Abort
    <3>3. QED BY <1>2, <3>1, <3>2
  <2>4. \A s, j : Below(rows, s, j) => Below(rows', s, j)
    BY <2>3 DEF Below
  <2>5. DbInv'
    <3>1. ASSUME NEW j \in DOMAIN rows' PROVE rows'[j] \in Rows /\ Below(rows', rows'[j], j)
      <4>1. CASE j \in DOMAIN rows
        <5>1. rows'[j] = rows[j] /\ rows[j] \in Rows /\ Below(rows, rows[j], j)
          BY <2>3, <4>1 DEF TreeInv, DbInv
        <5>2. QED BY <2>4, <5>1
      <4>2. CASE j \notin DOMAIN rows
        <5>1. j = i /\ rows'[j] = open[i]
          BY <2>3, <4>2
        <5>2. open[i] \in Rows /\ Below(rows, open[i], i)
          BY DEF TreeInv, DbInv
        <5>3. QED BY <2>4, <5>1, <5>2
      <4>3. QED BY <4>1, <4>2
    <3>2. ASSUME NEW j \in DOMAIN open' PROVE open'[j] \in Rows /\ Below(rows', open'[j], j)
      <4>1. open'[j] = open[j] /\ open[j] \in Rows /\ Below(rows, open[j], j)
        BY <2>1 DEF TreeInv, DbInv
      <4>2. QED BY <2>4, <4>1
    <3>3. lastId' \in 0..MaxId
      BY <2>1 DEF TreeInv, DbInv
    <3>4. QED BY <3>1, <3>2, <3>3 DEF DbInv
  <2>6. WalkTypes' /\ ShownInv'
    BY <2>1, <2>3, WalkKept
  <2>7. QED BY <2>5, <2>6 DEF TreeInv
<1>3. QED BY <1>1, <1>2 DEF Inserts

\* The steps of the client leave the database as it is.
LEMMA DbKept == ASSUME TreeInv, UNCHANGED dbVars PROVE DbInv'
<1>1. rows' = rows /\ open' = open /\ lastId' = lastId
  BY DEF dbVars
<1>2. QED BY <1>1 DEF TreeInv, DbInv, Below

LEMMA RequestTreeInv ==
  ASSUME IInv, TreeInv, NEW n \in 0..(MaxPageSize + 1), NEW c,
         c \in [id : Nat, padding : 0..2] \cup {None}, Request(n, c),
         owed' \subseteq DOMAIN rows, earlier' \subseteq DOMAIN rows
  PROVE  TreeInv'
<1>1. /\ UNCHANGED dbVars /\ rows' = rows
      /\ first' = n /\ asked' = c /\ roots' = <<>> /\ page' = <<>>
      /\ UNCHANGED <<hasNext, endCursor, failures>>
  BY DEF Request, dbVars
<1>2. /\ pc' \in {"roots", "rejected"}
      /\ after' \in Nat \cup {None} /\ stored' \subseteq DOMAIN rows
  <2>1. CASE n \in 1..MaxPageSize /\ ValidCursor(c)
    BY <2>1, DecodeFacts DEF Request
  <2>2. CASE ~(n \in 1..MaxPageSize /\ ValidCursor(c))
    BY <2>2 DEF Request, TreeInv, WalkTypes
  <2>3. QED BY <2>1, <2>2
<1>3. DbInv'
  BY <1>1, DbKept
<1>4. WalkTypes'
  <2>1. <<>> \in Seq(DOMAIN rows) /\ Len(<<>>) = 0
    BY EmptySeq
  <2>2. 0 <= n
    OBVIOUS
  <2>3. QED BY <1>1, <1>2, <2>1, <2>2 DEF TreeInv, WalkTypes
<1>5. ShownInv'
  BY <1>1, <1>2 DEF ShownInv
<1>6. QED BY <1>3, <1>4, <1>5 DEF TreeInv

LEMMA RequestsTreeInv ==
  ASSUME IInv, TreeInv,
         \/ \E n \in 0..(MaxPageSize + 1), c \in Cursors \cup {None} : Begin(n, c)
         \/ \E n \in 1..MaxPageSize : Continue(n)
         \/ Retry
  PROVE  TreeInv'
<1>1. ASSUME NEW n \in 0..(MaxPageSize + 1), NEW c \in Cursors \cup {None}, Begin(n, c)
      PROVE  TreeInv'
  <2>1. c \in [id : Nat, padding : 0..2] \cup {None}
    BY PagesAssumption
  <2>2. Request(n, c) /\ earlier' = earlier
    BY <1>1 DEF Begin
  <2>3. owed' \subseteq DOMAIN rows
    BY <1>1 DEF Begin, Matching
  <2>4. QED BY <2>1, <2>2, <2>3, RequestTreeInv DEF TreeInv, WalkTypes
<1>2. ASSUME NEW n \in 1..MaxPageSize, Continue(n)
      PROVE  TreeInv'
  <2>1. Request(n, endCursor) /\ owed' = owed /\ earlier' = earlier \cup ToSet(roots)
    BY <1>2 DEF Continue
  <2>2. endCursor \in [id : Nat, padding : 0..2] \cup {None} /\ n \in 0..(MaxPageSize + 1)
    BY PagesAssumption DEF TreeInv, WalkTypes
  <2>3. ToSet(roots) \subseteq DOMAIN rows
    <3>1. roots \in Seq(DOMAIN rows)
      BY DEF TreeInv, WalkTypes
    <3>2. \A k \in DOMAIN roots : roots[k] \in DOMAIN rows
      BY <3>1, LenProperties, ElementOfSeq
    <3>3. QED BY <3>2 DEF ToSet
  <2>4. QED BY <2>1, <2>2, <2>3, RequestTreeInv DEF TreeInv, WalkTypes
<1>3. CASE Retry
  <2>1. Request(first, asked) /\ owed' = owed /\ earlier' = earlier
    BY <1>3 DEF Retry
  <2>2. QED BY <2>1, RequestTreeInv DEF TreeInv, WalkTypes
<1>4. QED BY <1>1, <1>2, <1>3

LEMMA GetRootsTreeInv == ASSUME IInv, TreeInv, GetRoots PROVE TreeInv'
<1>1. /\ pc = "roots" /\ UNCHANGED dbVars /\ rows' = rows
      /\ UNCHANGED <<page, first, asked, after, owed, earlier, stored, failures>>
  BY DEF GetRoots, SelectRoots, dbVars, askVars
<1>2. PICK q \in Newest(Matching(after), first + 1) :
        /\ roots' = SubSeq(q, 1, IF first < Len(q) THEN first ELSE Len(q))
        /\ hasNext' = (Len(q) >= first + 1)
        /\ pc' = IF q = <<>> THEN "answered" ELSE "replies"
        /\ endCursor' = IF q = <<>> THEN None ELSE endCursor
  BY DEF GetRoots, SelectRoots
<1>3. first \in Nat \ {0} /\ after \in Nat \cup {None}
  BY <1>1, PagesAssumption, DecodeFacts DEF IInv, AskInv, Asking
<1>4. Matching(after) \in SUBSET Nat
  BY <1>3, MatchingFacts DEF IInv
<1>5. q \in Seq(Matching(after)) /\ Len(q) \in Nat
  <2>1. first + 1 \in Nat
    BY <1>3
  <2>2. QED BY <1>4, <2>1, NewestFacts
<1>6. roots' = Trimmed(q, first)
  BY <1>2 DEF Trimmed
<1>7. roots' \in Seq(Matching(after)) /\ (q = <<>> <=> roots' = <<>>)
  BY <1>3, <1>4, <1>6, TrimmedFacts
<1>8. Len(roots') <= first
  <2> DEFINE len == IF first < Len(q) THEN first ELSE Len(q)
  <2>1. len \in Nat /\ len <= Len(q) /\ len <= first
    BY <1>3, <1>5
  <2>2. \A k \in 1..len : q[k] \in Matching(after)
    BY <1>5, <2>1, ElementOfSeq
  <2>3. roots' = SubSeq(q, 1, len)
    BY <1>2
  <2> HIDE DEF len
  <2>4. Len(roots') = IF 1 <= len THEN len - 1 + 1 ELSE 0
    BY <2>1, <2>2, <2>3, SubSeqProperties
  <2>5. QED BY <1>3, <2>1, <2>4
<1>9. roots' \in Seq(DOMAIN rows)
  <2>1. Matching(after) \subseteq DOMAIN rows
    BY DEF Matching
  <2>2. QED BY <1>7, <2>1, SeqMonotonic
<1>10. hasNext' \in BOOLEAN
  BY <1>2
<1>11. endCursor' \in [id : Nat, padding : 0..2] \cup {None}
  BY <1>2 DEF TreeInv, WalkTypes
<1>12. WalkTypes'
  BY <1>1, <1>8, <1>9, <1>10, <1>11 DEF TreeInv, WalkTypes
<1>13. pc' = "answered" => roots' = <<>> /\ page' = <<>>
  BY <1>1, <1>2, <1>7 DEF TreeInv, ShownInv
<1>14. pc' = "answered" => Shown'
  BY <1>13 DEF Shown
<1>15. pc' # "roots"
  BY <1>2
<1>16. QED BY <1>1, <1>12, <1>14, <1>15, DbKept DEF TreeInv, ShownInv

\* What the second statement puts on the page is the forest below the roots of
\* the first, although it sees rows that the first did not.
LEMMA PageForest ==
  ASSUME IInv, TreeInv, pc = "replies"
  PROVE  Forest({roots[k] : k \in 1..Len(roots)},
                FlattenSeq([k \in DOMAIN roots |-> Subtree[roots[k]]]))
<1> DEFINE ss == [k \in DOMAIN roots |-> Subtree[roots[k]]]
<1>1. Rooted /\ \A i \in 1..MaxId : Tree(i, Subtree[i])
  BY RootedHolds, SubtreeIsTree
<1>2. roots \in Seq(Matching(after)) /\ Descending(roots)
  BY DEF IInv, PageInv
<1>3. DOMAIN roots = 1..Len(roots) /\ Len(roots) \in Nat
  BY <1>2, LenProperties
<1>4. ASSUME NEW k \in 1..Len(roots)
      PROVE  roots[k] \in 1..MaxId /\ rows[roots[k]].parent = None
  <2>1. roots[k] \in Matching(after)
    BY <1>2, ElementOfSeq
  <2>2. QED BY <1>1, <2>1 DEF Rooted, Matching
<1>5. roots \in Seq(1..MaxId)
  <2>1. Matching(after) \subseteq 1..MaxId
    BY <1>1 DEF Rooted, Matching
  <2>2. QED BY <1>2, <2>1, SeqMonotonic
<1>6. ASSUME NEW k \in 1..Len(roots) PROVE ss[k] = Subtree[roots[k]] /\ Tree(roots[k], ss[k])
  BY <1>1, <1>3, <1>4
<1>7. ASSUME NEW k \in 1..Len(roots) PROVE ss[k] \in Seq(1..MaxId)
  BY <1>6 DEF Tree, Whole
<1>8. DOMAIN ss = 1..Len(roots)
  BY <1>3
<1> HIDE DEF ss
<1>9. ss \in Seq(Seq(1..MaxId)) /\ Len(ss) = Len(roots)
  <2>1. ss = [k \in 1..Len(roots) |-> ss[k]]
    BY <1>3, <1>8 DEF ss
  <2>2. ss \in [1..Len(roots) -> Seq(1..MaxId)]
    BY <1>7, <2>1
  <2>3. QED BY <1>3, <2>2
<1>10. ASSUME NEW k \in 1..Len(roots), NEW l \in 1..Len(roots), k # l,
              NEW q \in 1..Len(ss[l]), ss[l][q] = roots[k]
       PROVE  FALSE
  <2>1. roots[k] # roots[l]
    <3>1. roots[k] \in Nat /\ roots[l] \in Nat
      BY <1>4, PagesAssumption
    <3>2. k < l \/ l < k
      BY <1>3, <1>10
    <3>3. QED BY <1>2, <3>1, <3>2 DEF Descending
  <2>2. Tree(roots[l], ss[l])
    BY <1>6
  <2>3. ParentBefore(ss[l], q)
    BY <1>10, <2>1, <2>2 DEF Tree
  <2>4. PICK r \in 1..Len(ss[l]) : ss[l][r] = rows[roots[k]].parent
    BY <1>10, <2>3 DEF ParentBefore
  <2>5. ss[l][r] = None
    BY <1>4, <2>4
  <2>6. ss[l][r] \in 1..MaxId
    BY <1>7, ElementOfSeq
  <2>7. QED BY <2>5, <2>6, PagesAssumption
<1>11. \A k, l \in 1..Len(roots) : OlderReply(roots[k], roots[l]) => k < l
  BY <1>4 DEF OlderReply
<1>12. Forest({roots[k] : k \in 1..Len(roots)}, FlattenSeq(ss))
  <2>1. \A k \in 1..Len(roots) : Tree(roots[k], ss[k])
    BY <1>6
  <2>2. \A k, l \in 1..Len(roots) : k # l => \A q \in 1..Len(ss[l]) : ss[l][q] # roots[k]
    BY <1>10
  <2>3. QED BY ONLY <1>1, <1>5, <1>9, <1>11, <2>1, <2>2, ForestOfTrees
<1>13. QED BY <1>12 DEF ss

\* The trees below comments of a post show comments of that post.
LEMMA ForestOfPost ==
  ASSUME TreeInv, Rooted, NEW R, NEW s, Forest(R, s),
         \A i \in R : i \in DOMAIN rows /\ rows[i].post = Walked
  PROVE  \A p \in 1..Len(s) : s[p] \in DOMAIN rows /\ rows[s[p]].post = Walked
<1> DEFINE Bad == {p \in 1..Len(s) : ~(s[p] \in DOMAIN rows /\ rows[s[p]].post = Walked)}
<1>1. s \in Seq(1..MaxId) /\ Len(s) \in Nat
  BY LenProperties DEF Forest, Whole
<1>2. \A p \in 1..Len(s) : s[p] \in R \/ ParentBefore(s, p)
  BY DEF Forest
<1>3. ASSUME Bad # {} PROVE FALSE
  <2>1. Bad \in SUBSET Nat
    BY <1>1
  <2> HIDE DEF Bad
  <2>2. PICK p \in Bad : \A q \in Bad : p <= q
    BY <1>3, <2>1, LeastNumber
  <2>3. p \in 1..Len(s) /\ ~(s[p] \in DOMAIN rows /\ rows[s[p]].post = Walked)
    BY <2>2 DEF Bad
  <2>4. s[p] \notin R
    BY <2>3
  <2>5. s[p] \in DOMAIN rows /\ \E q \in 1..Len(s) : q < p /\ s[q] = rows[s[p]].parent
    BY <1>2, <2>3, <2>4 DEF ParentBefore
  <2>6. PICK q \in 1..Len(s) : q < p /\ s[q] = rows[s[p]].parent
    BY <2>5
  <2>7. ~(p <= q)
    BY <1>1, <2>3, <2>6
  <2>8. q \notin Bad
    BY <2>2, <2>7, Zenon
  <2>9. s[q] \in DOMAIN rows /\ rows[s[q]].post = Walked
    BY <2>8 DEF Bad
  <2>10. s[q] # None
    <3>1. s[q] \in 1..MaxId
      BY <1>1, ElementOfSeq
    <3>2. QED BY <3>1, PagesAssumption
  <2>11. Below(rows, rows[s[p]], s[p])
    BY <2>5 DEF TreeInv, DbInv
  <2>12. rows[rows[s[p]].parent].post = rows[s[p]].post
    BY <2>6, <2>10, <2>11 DEF Below
  <2>13. QED BY <2>3, <2>5, <2>6, <2>9, <2>12
<1>4. QED BY <1>3

LEMMA GetRepliesTreeInv == ASSUME IInv, TreeInv, GetReplies PROVE TreeInv'
<1> DEFINE R == {roots[k] : k \in 1..Len(roots)}
           s == FlattenSeq([k \in DOMAIN roots |-> Subtree[roots[k]]])
<1>1. /\ pc = "replies" /\ pc' = "answered" /\ page' = s
      /\ endCursor' = Encode(LastRoot)
      /\ UNCHANGED dbVars /\ rows' = rows
      /\ UNCHANGED <<roots, hasNext, first, asked, after, owed, earlier, stored, failures>>
  BY DEF GetReplies, SelectReplies, dbVars, askVars, LastRoot, Last
<1>2. Forest(R, s)
  BY <1>1, PageForest
<1> HIDE DEF s
<1>3. Rooted
  BY RootedHolds
<1>4. roots \in Seq(Matching(after)) /\ roots # <<>>
  BY <1>1 DEF IInv, PageInv
<1>5. \A i \in R : i \in DOMAIN rows /\ rows[i].post = Walked
  <2>1. \A k \in 1..Len(roots) : roots[k] \in Matching(after)
    BY <1>4, ElementOfSeq
  <2>2. QED BY <2>1 DEF Matching
<1> HIDE DEF R
<1>6. \A p \in 1..Len(s) : s[p] \in DOMAIN rows /\ rows[s[p]].post = Walked
  BY <1>2, <1>3, <1>5, ForestOfPost
<1>7. s \in Seq(1..MaxId) /\ Len(s) \in Nat /\ DOMAIN s = 1..Len(s)
  BY <1>2, LenProperties DEF Forest, Whole
<1>8. s \in Seq(DOMAIN rows)
  BY <1>6, <1>7
<1>9. endCursor' \in [id : Nat, padding : 0..2]
  <2>1. Len(roots) \in 1..Len(roots)
    BY <1>4, EmptySeq, LenProperties
  <2>2. LastRoot \in DOMAIN rows
    <3>1. roots[Len(roots)] \in Matching(after)
      BY <1>4, <2>1, ElementOfSeq
    <3>2. QED BY <3>1 DEF LastRoot, Matching
  <2>3. LastRoot \in Nat \ {0}
    BY <1>3, <2>2, PagesAssumption DEF Rooted
  <2>4. QED BY <1>1, <2>3, EncodeFacts
<1>10. WalkTypes'
  BY <1>1, <1>8, <1>9 DEF TreeInv, WalkTypes
<1>11. Shown'
  <2>1. /\ \A p, q \in 1..Len(s) : s[p] = s[q] => p = q
        /\ \A j \in DOMAIN rows : \A p \in 1..Len(s) :
              rows[j].parent = s[p] => \E q \in 1..Len(s) : s[q] = j
        /\ \A p, q \in 1..Len(s) : OlderReply(s[p], s[q]) => p < q
    BY <1>2 DEF Forest, Whole
  <2>2. \A p \in 1..Len(s) :
           (\E k \in 1..Len(roots) : roots[k] = s[p]) \/ ParentBefore(s, p)
    BY <1>2 DEF Forest, R
  <2>3. \A k \in 1..Len(roots) : \E p \in 1..Len(s) : s[p] = roots[k]
    BY <1>2 DEF Forest, R
  <2>4. stored \subseteq DOMAIN rows
    BY DEF TreeInv, WalkTypes
  <2>5. \A p, q \in 1..Len(s) : OlderReply(page[p], page[q])' <=> OlderReply(s[p], s[q])
    BY <1>1 DEF OlderReply
  <2>6. \A p \in 1..Len(s) : ParentBefore(page, p)' <=> ParentBefore(s, p)
    BY <1>1 DEF ParentBefore
  <2>7. QED BY <1>1, <1>6, <2>1, <2>2, <2>3, <2>4, <2>5, <2>6 DEF Shown
<1>12. ShownInv'
  BY <1>1, <1>11 DEF ShownInv
<1>13. QED BY <1>1, <1>10, <1>12, DbKept DEF TreeInv

LEMMA FailTreeInv == ASSUME IInv, TreeInv, Fail PROVE TreeInv'
<1>1. /\ pc' = "failed" /\ UNCHANGED dbVars /\ rows' = rows
      /\ failures < MaxFailures /\ failures' = failures + 1
      /\ UNCHANGED <<roots, hasNext, endCursor, page, first, asked, after, owed, earlier, stored>>
  BY DEF Fail, dbVars, pageVars, askVars
<1>2. failures' \in 0..MaxFailures
  BY <1>1, PagesAssumption DEF TreeInv, WalkTypes
<1>3. WalkTypes'
  BY <1>1, <1>2 DEF TreeInv, WalkTypes
<1>4. ShownInv'
  BY <1>1 DEF ShownInv
<1>5. QED BY <1>1, <1>3, <1>4, DbKept DEF TreeInv

LEMMA TreeInvHolds == Spec => [](IInv /\ TreeInv)
<1>1. ASSUME IInv, TreeInv, [Next]_vars PROVE TreeInv'
  <2>1. CASE Inserts
    BY <1>1, <2>1, InsertsTreeInv
  <2>2. ASSUME NEW n \in 0..(MaxPageSize + 1), NEW c \in Cursors \cup {None}, Begin(n, c)
        PROVE  TreeInv'
    BY <1>1, <2>2, RequestsTreeInv
  <2>3. CASE Walk
    BY <1>1, <2>3, RequestsTreeInv, GetRootsTreeInv, GetRepliesTreeInv DEF Walk
  <2>4. CASE Fail
    BY <1>1, <2>4, FailTreeInv
  <2>5. CASE UNCHANGED vars
    <3>1. DbInv'
      BY <1>1, <2>5, DbKept DEF vars
    <3>2. WalkTypes' /\ ShownInv'
      BY <1>1, <2>5, WalkKept DEF vars, dbVars
    <3>3. QED BY <3>1, <3>2 DEF TreeInv
  <2>6. QED BY <1>1, <2>1, <2>2, <2>3, <2>4, <2>5 DEF Next, Over
<1>2. QED BY InitTreeInv, InvHolds, <1>1, PTL DEF Spec

\* Every row, cursor, page and argument has its type at every step, for any
\* number of comments; in particular a page never holds an id that is not stored.
THEOREM PagesTypes == Spec => []TypeOK
BY TreeInvHolds, TreeInvTypes, PTL

\* A page of Resolver.Comments shows the whole trees below the roots that its
\* first statement found: what buildCommentTree makes of the rows that its second
\* statement saw, however many were committed between the two and since.
THEOREM ForestShown == Spec => []PageIsForest
<1>1. ASSUME IInv, TreeInv PROVE PageIsForest
  <2> SUFFICES ASSUME pc = "answered"
               PROVE  /\ \A k, l \in DOMAIN page : page[k] = page[l] => k = l
                      /\ \A i \in ToSet(page) :
                            /\ rows[i].post = Walked
                            /\ IF rows[i].parent = None THEN i \in ToSet(roots)
                               ELSE /\ rows[i].parent \in ToSet(page)
                                    /\ Position(rows[i].parent) < Position(i)
                            /\ \A j \in ToSet(page) :
                                  i < j /\ rows[i].parent = rows[j].parent /\ rows[i].parent # None =>
                                      Position(i) < Position(j)
                      /\ ToSet(roots) \subseteq ToSet(page)
                      /\ \A i \in stored :
                            rows[i].parent \in ToSet(page) => i \in ToSet(page)
    BY DEF PageIsForest
  <2>1. Shown /\ page \in Seq(DOMAIN rows) /\ roots \in Seq(DOMAIN rows)
    BY <1>1 DEF TreeInv, ShownInv, WalkTypes
  <2>2. /\ Len(page) \in Nat /\ DOMAIN page = 1..Len(page)
        /\ DOMAIN roots = 1..Len(roots)
        /\ \A p \in 1..Len(page) : page[p] \in DOMAIN rows
    BY <2>1, LenProperties, ElementOfSeq
  <2>3. /\ ToSet(page) = {page[p] : p \in 1..Len(page)}
        /\ ToSet(roots) = {roots[k] : k \in 1..Len(roots)}
    BY <2>2 DEF ToSet
  <2>4. \A p \in 1..Len(page) : Position(page[p]) = p
    BY <2>1, <2>2 DEF Shown, Position
  <2>5. \A k \in 1..Len(roots) : rows[roots[k]].parent = None
    <3>1. roots \in Seq(Matching(after))
      BY <1>1 DEF IInv, PageInv
    <3>2. \A k \in 1..Len(roots) : roots[k] \in Matching(after)
      BY <3>1, ElementOfSeq
    <3>3. QED BY <3>2 DEF Matching
  <2>6. ASSUME NEW i \in ToSet(page)
        PROVE  /\ rows[i].post = Walked
               /\ IF rows[i].parent = None THEN i \in ToSet(roots)
                  ELSE /\ rows[i].parent \in ToSet(page)
                       /\ Position(rows[i].parent) < Position(i)
    <3>1. PICK p \in 1..Len(page) : page[p] = i
      BY <2>3
    <3>2. rows[i].post = Walked
      BY <2>1, <3>1 DEF Shown
    <3>3. CASE \E k \in 1..Len(roots) : roots[k] = i
      <4>1. i \in ToSet(roots) /\ rows[i].parent = None
        BY <2>3, <2>5, <3>3
      <4>2. QED BY <3>2, <4>1
    <3>4. CASE ParentBefore(page, p)
      <4>1. PICK q \in 1..Len(page) : q < p /\ page[q] = rows[i].parent
        BY <3>1, <3>4 DEF ParentBefore
      <4>2. rows[i].parent \in ToSet(page) /\ Position(rows[i].parent) = q /\ Position(i) = p
        BY <2>3, <2>4, <3>1, <4>1
      <4>3. rows[i].parent # None
        <5>1. rows[i].parent \in DOMAIN rows
          BY <2>2, <4>1
        <5>2. QED BY <1>1, <5>1, RootedHolds, PagesAssumption DEF Rooted
      <4>4. QED BY <3>2, <4>1, <4>2, <4>3
    <3>5. QED BY <2>1, <3>1, <3>3, <3>4 DEF Shown
  <2>7. ASSUME NEW i \in ToSet(page), NEW j \in ToSet(page),
               i < j, rows[i].parent = rows[j].parent, rows[i].parent # None
        PROVE  Position(i) < Position(j)
    <3>1. PICK p \in 1..Len(page) : page[p] = i
      BY <2>3
    <3>2. PICK q \in 1..Len(page) : page[q] = j
      BY <2>3
    <3>3. OlderReply(page[p], page[q])
      BY <2>2, <2>7, <3>1, <3>2 DEF OlderReply
    <3>4. p < q
      BY <2>1, <3>3 DEF Shown
    <3>5. QED BY <2>4, <3>1, <3>2, <3>4
  <2>8. ToSet(roots) \subseteq ToSet(page)
    BY <2>1, <2>3 DEF Shown
  <2>9. \A i \in stored : rows[i].parent \in ToSet(page) => i \in ToSet(page)
    BY <2>1, <2>3 DEF Shown
  <2>10. \A k, l \in DOMAIN page : page[k] = page[l] => k = l
    BY <2>1, <2>2 DEF Shown
  <2>11. QED BY <2>6, <2>7, <2>8, <2>9, <2>10
<1>2. QED BY TreeInvHolds, <1>1, PTL
=============================================================================
