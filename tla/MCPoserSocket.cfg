\* Reliable transport, masking struct build, 257 calls: the transaction id
\* crosses 255 once.  The caller stops after MaxCalls calls.
CONSTANTS
    Requests <- MCRequests
    ReplyBodies <- MCReplyBodies
    MaxCalls = 257
    ShortRecv = FALSE
    ShortSend = FALSE
    PackRangeChecked = FALSE
SPECIFICATION Spec
INVARIANT ReplyMatchesRequest
INVARIANT NothingLeftOnWire
PROPERTY CallReturns
PROPERTY ImplementsPoserCall
CHECK_DEADLOCK FALSE
