\* Two subscriptions and two comments; clients may stop reading.
SPECIFICATION Spec
CONSTANTS
    p1 = p1
    Posts = {p1}
    Subscribers = {s1, s2}
    Comments = {c1, c2}
    PostOf <- OnePostOf
    TopicOf <- OneTopicOf
    Buffer = 1
    ResultCap = 1
INVARIANTS
    ShownInOrder
    EndOnlyIfCancelled
PROPERTIES
    CancelEndsForward
    CommentShown
