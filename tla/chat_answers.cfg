CONSTANTS
    m1 = m1
    m2 = m2
    m3 = m3
    w1 = w1
    w2 = w2
    w3 = w3
    s1 = s1
    s2 = s2
    NoMessage = NoMessage
    NoWorker = NoWorker
    Messages <- MCMessages
    Workers <- MCWorkers
    Stoppers <- MCStoppers
SPECIFICATION FairSpec
INVARIANTS TypeOK OneAnswerAtATime QueueAttended
PROPERTIES KeepsPromise StopEnds
CHECK_DEADLOCK FALSE
