\* One session, three subscribe calls at a time.
SPECIFICATION FairSpec
CONSTANTS
    Keys = {k1}
    NoKey = NoKey
    Tasks = {t1, t2, t3}
    NoTask = NoTask
INVARIANTS BelievedIsSubscribed NoSessionForgotten
PROPERTIES EveryCallEnds
CHECK_DEADLOCK FALSE
