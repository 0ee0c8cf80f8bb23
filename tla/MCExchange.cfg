SPECIFICATION Spec
CONSTANTS
    c1 = c1
    c2 = c2
    c3 = c3
    i1 = i1
    i2 = i2
    Calls = {c1, c2, c3}
    Ids = {i1, i2}
    IdOf <- OneIdTwice
    Subscribers = {s1}
    EventReplayLimit = 2
    MaxResponses = 2
    MaxEvents = 3
    None = None
INVARIANTS TypeOK NobodyForgotten EventsInOrder
CHECK_DEADLOCK FALSE
