SPECIFICATION Spec
CONSTANTS
    r1 = r1
    r2 = r2
    r3 = r3
    r4 = r4
    k1 = k1
    k2 = k2
    k3 = k3
    a1 = a1
    Requests = {r1, r2, r3, r4}
    Keys = {k1, k2, k3}
    Actors = {a1}
    KeyOf <- ThreeKeys
    ActorOf <- OneActor
    MaxQueueDepth = 1
    Impatient = {}
    Situations = {"interruptStart"}
    None = None
INVARIANT TypeOK OnePromptUnlessUsurped EntriesSound
CHECK_DEADLOCK FALSE
