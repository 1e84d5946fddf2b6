\* Refinement with fairness: two members, one publish.
SPECIFICATION Spec
CONSTANTS
    p1 = p1
    p2 = p2
    Posts = {p1}
    Subscribers = {s1, s2}
    Comments = {c1}
    PostOf <- OnePostOf
    TopicOf <- OneTopicOf
    OutputCap = 1
    NoSubscriber = NoSubscriber
PROPERTIES
    ImplementsFeed
