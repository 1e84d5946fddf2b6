\* Two subscriptions of one post and two concurrent publishes.
SPECIFICATION Spec
CONSTANTS
    p1 = p1
    p2 = p2
    Posts = {p1}
    Subscribers = {s1, s2}
    Comments = {c1, c2}
    PostOf <- OnePostOf
    TopicOf <- OneTopicOf
    OutputCap = 1
    NoSubscriber = NoSubscriber
SYMMETRY Symmetric
INVARIANTS
    NoLostWakeup
    StreamIntact
    NoMissedComment
    RangedMapIsStable
    ReceivedInPublishOrder
