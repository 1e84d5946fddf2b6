\* A client sends the cursor of the documentation.
SPECIFICATION Spec
CONSTANTS
    p1 = p1
    p2 = p2
    Posts = {p1}
    Walked = p1
    MaxPageSize = 2
    MaxId = 1
    MaxFailures = 0
    Cursors <- DocumentedToo
    None = None
INVARIANTS
    DocumentedCursorWorks
