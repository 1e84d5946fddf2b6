---------------------------- MODULE CommentPages ----------------------------
(***************************************************************************)
(* Reading the comments of a post page by page while comments are being    *)
(* created: Resolver.Comments with its cursors (post-service/internal/     *)
(* transport/graphql/resolver.go) over DB.Comments (post-service/internal/ *)
(* repository/storage.go).  A page is two statements, the root comments    *)
(* and then the replies below them, and each sees the rows committed by    *)
(* then; between two pages the client keeps nothing but the cursor.        *)
(*                                                                         *)
(* Ids come from a sequence when an INSERT starts and become visible when  *)
(* it commits, so rows do not appear in the order of their ids.  Rows are  *)
(* never updated or deleted.  One client walks one post, Walked; readers   *)
(* do not change the database, so more of them would add nothing.          *)
(***************************************************************************)
EXTENDS Integers, Sequences, FiniteSets, SequencesExt

CONSTANTS
    Posts,
    Walked,        \* the post whose comments the client reads
    MaxPageSize,   \* maxCommentPageSize (100 in the code)
    MaxId,         \* bound: how many comments are created
    MaxFailures,   \* bound: how many statements of the client fail
    Cursors,       \* what clients pass as "after", besides endCursor
    None           \* a nil pointer: no parent, no cursor

\* A cursor is the base64 text of a decimal number: the number it decodes to
\* (0 if it decodes to anything else) and its count of padding characters.
ASSUME PagesAssumption ==
    /\ Walked \in Posts
    /\ MaxPageSize \in Nat \ {0}
    /\ MaxId \in Nat /\ MaxFailures \in Nat
    /\ Cursors \subseteq [id : Nat, padding : 0..2]
    /\ None \notin Nat /\ None \notin [id : Nat, padding : 0..2]

VARIABLES
    rows,          \* committed rows of post_service.comments: id -> row
    open,          \* INSERT statements under way: id -> row
    lastId,        \* the BIGSERIAL sequence
    pc,            \* control state of the request of the client
    first, asked,  \* its arguments "first" and "after"
    after,         \* the decoded cursor, AfterID
    roots,         \* the root comments of the page, newest first
    hasNext,       \* hasNextPage
    endCursor,
    page,          \* the ids of the page answered last, in the order of display
    failures,
    owed,          \* history: the roots the walk had before it when it began
    earlier,       \* history: the roots shown by the pages before this one
    stored         \* history: ids of the rows committed when the page was asked for

dbVars   == <<rows, open, lastId>>
pageVars == <<roots, hasNext, endCursor, page>>
askVars  == <<first, asked, after, owed, earlier, stored>>
vars     == <<dbVars, pc, pageVars, askVars, failures>>

Rows == [post : Posts, parent : 1..MaxId \cup {None}]

\* The root comments a page starting after "limit" may show.
Matching(limit) ==
    {i \in DOMAIN rows : /\ rows[i].post = Walked
                         /\ rows[i].parent = None
                         /\ limit = None \/ i < limit}

TypeOK ==
    /\ lastId \in 0..MaxId
    /\ DOMAIN rows \subseteq 1..lastId /\ DOMAIN open \subseteq 1..lastId
    /\ DOMAIN rows \cap DOMAIN open = {}
    /\ \A i \in DOMAIN rows : rows[i] \in Rows
    /\ \A i \in DOMAIN open : open[i] \in Rows
    /\ pc \in {"idle", "roots", "replies", "answered", "failed", "rejected"}
    /\ first \in 0..(MaxPageSize + 1)
    /\ asked \in [id : Nat, padding : 0..2] \cup {None}
    /\ after \in Nat \cup {None}
    /\ roots \in Seq(1..lastId) /\ Len(roots) <= first
    /\ hasNext \in BOOLEAN
    /\ endCursor \in [id : Nat, padding : 0..2] \cup {None}
    /\ page \in Seq(DOMAIN rows)
    /\ failures \in 0..MaxFailures
    /\ owed \cup earlier \cup stored \subseteq DOMAIN rows

Init ==
    /\ rows = <<>> /\ open = <<>> /\ lastId = 0
    /\ pc = "idle"
    /\ first = 0 /\ asked = None /\ after = None
    /\ roots = <<>> /\ hasNext = FALSE /\ endCursor = None /\ page = <<>>
    /\ failures = 0
    /\ owed = {} /\ earlier = {} /\ stored = {}

-----------------------------------------------------------------------------
(***************************************************************************)
(* Other requests create comments (module PostService has the details).    *)
(***************************************************************************)

Without(f, i) == [j \in DOMAIN f \ {i} |-> f[j]]

\* A comment on p is inserted; its parent is a stored comment of that post.
Insert(p, i) ==
    /\ lastId < MaxId
    /\ i # None => rows[i].post = p
    /\ lastId' = lastId + 1
    /\ open' = [j \in DOMAIN open \cup {lastId + 1} |->
          IF j \in DOMAIN open THEN open[j] ELSE [post |-> p, parent |-> i]]
    /\ UNCHANGED <<rows, pc, pageVars, askVars, failures>>

Commit(i) ==
    /\ rows' = [j \in DOMAIN rows \cup {i} |-> IF j = i THEN open[i] ELSE rows[j]]
    /\ open' = Without(open, i)
    /\ UNCHANGED <<lastId, pc, pageVars, askVars, failures>>

Abort(i) ==
    /\ open' = Without(open, i)
    /\ UNCHANGED <<rows, lastId, pc, pageVars, askVars, failures>>

-----------------------------------------------------------------------------
(***************************************************************************)
(* The request of the client.                                              *)
(***************************************************************************)

\* Decoding takes unpadded base64 of a positive decimal number.
ValidCursor(c) == c = None \/ (c.padding = 0 /\ c.id > 0)
Decode(c) == IF c = None THEN None ELSE c.id
Encode(i) == [id |-> i, padding |-> 0]

\* Resolver.Comments with its two checks, either of which is BAD_USER_INPUT.
\* That the post exists was checked as well, and remains true.
Request(n, c) ==
    /\ first' = n
    /\ asked' = c
    /\ roots' = <<>>
    /\ page' = <<>>
    /\ IF n \in 1..MaxPageSize /\ ValidCursor(c)
       THEN pc' = "roots" /\ after' = Decode(c) /\ stored' = DOMAIN rows
       ELSE pc' = "rejected" /\ UNCHANGED <<after, stored>>
    /\ UNCHANGED <<dbVars, hasNext, endCursor, failures>>

\* A walk begins at the newest comment or after any cursor.
Begin(n, c) ==
    /\ pc = "idle"
    /\ Request(n, c)
    /\ owed' = IF pc' = "roots" THEN Matching(Decode(c)) ELSE {}
    /\ UNCHANGED earlier

\* It continues after the last page, with any page size.
Continue(n) ==
    /\ pc = "answered"
    /\ hasNext
    /\ Request(n, endCursor)
    /\ earlier' = earlier \cup ToSet(roots)
    /\ UNCHANGED owed

\* The possible answers of ORDER BY id DESC LIMIT n over the rows S: the n
\* largest ids, or all of them if there are fewer, in descending order.
Newest(S, n) ==
    {q \in UNION {[1..k -> S] : k \in 0..n} :
        /\ \A j, k \in DOMAIN q : j < k => q[j] > q[k]
        /\ \A i \in S \ ToSet(q) : Len(q) = n /\ \A k \in DOMAIN q : i < q[k]}

\* The first statement asks for "limit" of the matching rows; the page keeps
\* at most "keep" of them and has a successor if there were "more" rows.
SelectRoots(S, limit, keep, more) ==
    /\ pc = "roots"
    /\ \E q \in Newest(S, limit) :
          /\ roots' = SubSeq(q, 1, IF keep < Len(q) THEN keep ELSE Len(q))
          /\ hasNext' = (Len(q) >= more)
          /\ pc' = IF q = <<>> THEN "answered" ELSE "replies"
          /\ endCursor' = IF q = <<>> THEN None ELSE endCursor
    /\ UNCHANGED <<dbVars, page, askVars, failures>>

\* Mutants: the comment under the cursor is included; no row is asked for
\* beyond the page; the row beyond the page is kept; a full page is taken for
\* one that has a successor.
RootsFromCursor ==
    SelectRoots(Matching(IF after = None THEN None ELSE after + 1),
                first + 1, first, first + 1)
RootsNoExtra   == SelectRoots(Matching(after), first, first, first + 1)
RootsUntrimmed == SelectRoots(Matching(after), first + 1, first + 1, first + 1)
RootsFullPage  == SelectRoots(Matching(after), first + 1, first, first)

GetRoots == SelectRoots(Matching(after), first + 1, first, first + 1)

\* ORDER BY id ASC.
OldestFirst(S) ==
    CHOOSE q \in [1..Cardinality(S) -> S] : \A j, k \in DOMAIN q : j < k => q[j] < q[k]

\* The replies to i, and childrenByParent, which keeps their order.
Replies(i) == {j \in DOMAIN rows : rows[j].parent = i}
Children(i) == OldestFirst(Replies(i))

\* buildCommentTree, written as the sequence in which the tree is displayed.
Subtree[i \in 1..MaxId] ==
    <<i>> \o FlattenSeq([k \in DOMAIN Children(i) |-> Subtree[Children(i)[k]]])

SelectReplies(tree) ==
    /\ pc = "replies"
    /\ page' = FlattenSeq([k \in DOMAIN roots |-> tree[roots[k]]])
    /\ endCursor' = Encode(Last(roots))
    /\ pc' = "answered"
    /\ UNCHANGED <<dbVars, roots, hasNext, askVars, failures>>

\* Mutant: the recursion stops below the direct replies.
RepliesOneLevel == SelectReplies([i \in 1..MaxId |-> <<i>> \o Children(i)])

\* The second statement, which sees rows that the first did not.
GetReplies == SelectReplies(Subtree)

\* A statement fails and the client gets an error instead of a page ...
Fail ==
    /\ pc \in {"roots", "replies"}
    /\ failures < MaxFailures
    /\ failures' = failures + 1
    /\ pc' = "failed"
    /\ UNCHANGED <<dbVars, pageVars, askVars>>

\* ... and may ask for the same page again.
Retry ==
    /\ pc = "failed"
    /\ Request(first, asked)
    /\ UNCHANGED <<owed, earlier>>

-----------------------------------------------------------------------------
Inserts ==
    \/ \E p \in Posts, i \in DOMAIN rows \cup {None} : Insert(p, i)
    \/ \E i \in DOMAIN open : Commit(i) \/ Abort(i)

Walk == (\E n \in 1..MaxPageSize : Continue(n)) \/ GetRoots \/ GetReplies \/ Retry

\* The client has what it asked for, or was refused.
WalkOver == pc = "rejected" \/ (pc = "answered" /\ ~hasNext)
Over == WalkOver /\ UNCHANGED vars

Next ==
    \/ Inserts
    \/ \E n \in 0..(MaxPageSize + 1), c \in Cursors \cup {None} : Begin(n, c)
    \/ Walk
    \/ Fail
    \/ Over

\* The client goes on to the last page; statements end.
Spec == Init /\ [][Next]_vars /\ WF_vars(Walk)

-----------------------------------------------------------------------------
\* Whatever is created between two pages, and however the page size changes, a
\* walk shows the root comments of its post from the newest to the oldest and
\* none of them twice.
WalkDescending ==
    pc = "answered" =>
        \A k \in DOMAIN roots :
            /\ \A l \in 1..(k - 1) : roots[l] > roots[k]
            /\ \A i \in earlier : i > roots[k]

\* A walk that has ended has shown every root comment that was there when it
\* began: none falls between two pages.
WalkComplete ==
    pc = "answered" /\ ~hasNext => owed \subseteq earlier \cup ToSet(roots)

\* hasNextPage is never a false promise: a page that follows one with
\* hasNextPage shows at least one comment.
NextPageNotEmpty ==
    pc = "answered" /\ earlier # {} => roots # <<>>

Position(i) == CHOOSE k \in DOMAIN page : page[k] = i

\* A page shows whole trees: its roots, each followed by its replies, once
\* each, among them every reply that was stored when the page was asked for.  A
\* reply stands below its parent, after older replies to it, and nothing of
\* another post or another page slips in, although the two statements of the
\* page see different rows.
PageIsForest ==
    pc = "answered" =>
        /\ \A k, l \in DOMAIN page : page[k] = page[l] => k = l
        /\ \A i \in ToSet(page) :
              /\ rows[i].post = Walked
              /\ IF rows[i].parent = None THEN i \in ToSet(roots)
                 ELSE /\ rows[i].parent \in ToSet(page)
                      /\ Position(rows[i].parent) < Position(i)
              /\ \A j \in ToSet(page) :
                    i < j /\ rows[i].parent = rows[j].parent /\ rows[i].parent # None =>
                        Position(i) < Position(j)
        /\ ToSet(roots) \subseteq ToSet(page)
        /\ \A i \in stored :
              rows[i].parent \in ToSet(page) => i \in ToSet(page)

\* A walk ends although comments keep being created, because a page only looks
\* at ids below the last one.
WalkEnds == pc = "roots" ~> WalkOver

\* The example request of the documentation (README.md:166) is served.  Its
\* cursor "MjA=" is the padded base64 of "20".
DocumentedCursor == [id |-> 20, padding |-> 1]
DocumentedCursorWorks ==
    asked = DocumentedCursor /\ first \in 1..MaxPageSize => pc # "rejected"
=============================================================================
