\* One request and one reply among two other messages, pages of one row, two mishaps; no symmetry with liveness.
CONSTANTS
    Requests = {q1}
    Updates = {u1}
    NULL = NULL
    Limit = 1
    MaxMessages = 3
    MaxMishaps = 2
SPECIFICATION ChannelFairSpec
INVARIANTS AnsweredOnce AnsweredMeansReplied NothingSkipped ReceivedInOrder
PROPERTIES MessagesArrive RepliesReachTheAgent
