\* TCP send may accept only a prefix of the frame; its result is ignored.
CONSTANTS
    Requests <- MCRequests
    ReplyBodies <- MCReplyBodies
    MaxCalls = 2
    ShortRecv = FALSE
    ShortSend = TRUE
    PackRangeChecked = FALSE
SPECIFICATION Spec
PROPERTY CallReturns
CHECK_DEADLOCK FALSE
