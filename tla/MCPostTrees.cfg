\* Four requests about three posts, one of which has comments disabled.
SPECIFICATION Spec
CONSTANTS
    p1 = p1
    p2 = p2
    p3 = p3
    r1 = r1
    r2 = r2
    r3 = r3
    r4 = r4
    Posts = {p1, p2, p3}
    Enabled = {p1, p2}
    Requests = {r1, r2, r3, r4}
    PostOf <- ThreePostsOf
    Subscribers = {}
    TopicOf <- OneTopicOf
    Buffer = 1
    NoParent = NoParent
INVARIANTS
    StoredAsTrees
