\* One session more than the port admits, and a fair server.
SPECIFICATION FairSpec
CONSTANTS
    Sessions = {s1, s2, s3, s4}
    NoSession = NoSession
    MaxSessions = 3
    MaxSent = 5
INVARIANTS TypeOK TableIsExact ReplyGoesToSender
PROPERTIES NoSessionRefused MessagesAreAnswered CancelEndsServer
CHECK_DEADLOCK FALSE
