\* pipes of one message, so that every write meets a full pipe; two
\* requests, of one sender or of two, each with its release
CONSTANTS
    Faulty = {"MSAPM"}
    MaxPipe = 1
    MaxCommands = 2
    MaxRestarts = 1
SPECIFICATION FairSpec
INVARIANTS GrantIsBacked AnswerFits SenderIsServed
PROPERTIES EverySenderAnswered LaunchReturns
CHECK_DEADLOCK FALSE
