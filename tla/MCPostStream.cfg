\* Three requests and one subscription, about one post.
SPECIFICATION Spec
CONSTANTS
    p1 = p1
    p2 = p2
    p3 = p3
    r1 = r1
    r2 = r2
    r3 = r3
    r4 = r4
    Posts = {p1}
    Enabled = {p1}
    Requests = {r1, r2, r3}
    PostOf <- OnePostOf
    Subscribers = {s1}
    TopicOf <- OneTopicOf
    Buffer = 1
    NoParent = NoParent
SYMMETRY Symmetric
INVARIANTS
    AnnouncedIsStored
    SubscribeThenReadHasNoGap
    AnsweredComesFirst
