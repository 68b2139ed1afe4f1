SPECIFICATION FairSpec
CONSTANTS
    t1 = t1
    t2 = t2
    c1 = c1
    c2 = c2
    u1 = u1
    u2 = u2
    s1 = s1
    k1 = k1
    NoKey = NoKey
    Tasks = {t1, t2}
    Readers = {t1}
    Writers = {t2}
    Convs = {c1, c2}
    Known = {c1}
    Actors = {u1, u2}
    Staff = {s1}
    OwnerOf <- OwnedByU1
    OrdersOf <- OneOrderEach
    Keys = {k1}
    ConvOf <- KeyInC1
    Limits = {0, 1}
    MaxMessages = 1
    MaxRequests = 2
CHECK_DEADLOCK FALSE
INVARIANTS
    TypeOK
    OneMessagePerKey
    HandoffOncePerCall
    OkMeansDone
    ReadIsOneMoment
    NotFoundIsTrue
PROPERTIES
    CallsEnd
    ImplementsConversations
