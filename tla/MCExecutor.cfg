\* A list of up to three posts and a single post, with every choice of comments
\* below them; two mutations.  When the document is over, nothing happens.
SPECIFICATION Spec
CONSTANTS
    Documents <- MCDocuments
    Transports = {"websocket", "post"}
    MaxPosts = 3
INVARIANTS
    DataFollowsSchema
    DeferredIsDelivered
    FailuresReportedOnce
PROPERTIES
    DocumentEnds
CHECK_DEADLOCK FALSE
