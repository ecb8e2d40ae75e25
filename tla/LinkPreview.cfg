\* Three requests for previews, one slot for each host.
SPECIFICATION FairSpec
CONSTANTS
    u1 = u1
    u2 = u2
    h1 = h1
    h2 = h2
    Requests = {q1, q2, q3}
    Urls = {u1, u2}
    Hosts = {h1, h2}
    HostOf <- MCHostOf
    KeyOf <- MCKeyOf
    MaxConcurrent = 1
    MaxRetries = 1
    MaxRedirects = 2
    MaxSize = 1
INVARIANTS TypeOK SlotsAccounted FetchesAreShared
PROPERTIES EveryRequestAnswered
CHECK_DEADLOCK FALSE
