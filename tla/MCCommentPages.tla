--------------------------- MODULE MCCommentPages ---------------------------
(***************************************************************************)
(* Instances of CommentPages for TLC.                                      *)
(***************************************************************************)
EXTENDS CommentPages, TLC

CONSTANTS p1, p2

\* A cursor in the middle of the ids, and a text that is not a cursor.
SomeCursors == {Encode(3), [id |-> 0, padding |-> 0]}

\* The cursor of the documentation as well.
DocumentedToo == {DocumentedCursor}
=============================================================================
