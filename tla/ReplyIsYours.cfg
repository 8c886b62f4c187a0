SPECIFICATION Spec
CONSTANTS
    Requests = {1, 2, 3}
    Senders = {1, 2}
    From <- MCFrom
INVARIANT ReplyIsYours
CHECK_DEADLOCK FALSE
