SPECIFICATION Spec
CONSTANTS
    MaxMail = 2
    Inboxes <- Two
    Limit = 1
    t1 = t1
    t2 = t2
    s1 = s1
    Typed = {t1, t2, s1}
    Spoken = {s1}
    Plans <- Six
    HearCap = 2
    MaxLives = 2
    AutoReply = TRUE
    Clear = Clear
    Nobody = Nobody
INVARIANTS
    AtMostOnce
    ReplyIsOwn
    AcksTrue
PROPERTIES
    Served
CHECK_DEADLOCK FALSE
