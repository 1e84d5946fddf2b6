\* Two publishers, a reader that may stop, and a subscription to another post that contends for the lock.
SPECIFICATION Spec
CONSTANTS
    p1 = p1
    p2 = p2
    Posts = {p1, p2}
    Subscribers = {s1, s2}
    Comments = {c1, c2}
    PostOf <- OnePostOf
    TopicOf <- TwoTopicsOf
    OutputCap = 1
    NoSubscriber = NoSubscriber
INVARIANTS
    RegistryExact
PROPERTIES
    PublishReturns
    CancelEndsRun
    CommentArrives
