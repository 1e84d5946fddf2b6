\* Four comments on two posts, pages of one or two, one failure.
SPECIFICATION Spec
CONSTANTS
    p1 = p1
    p2 = p2
    Posts = {p1, p2}
    Walked = p1
    MaxPageSize = 2
    MaxId = 4
    MaxFailures = 1
    Cursors <- SomeCursors
    None = None
INVARIANTS
    TypeOK
    WalkDescending
    WalkComplete
    NextPageNotEmpty
    PageIsForest
PROPERTIES
    WalkEnds
