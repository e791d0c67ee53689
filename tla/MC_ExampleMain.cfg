CONSTANTS
    Msgs <- MC_Msgs
    TestMsgs <- MC_NoTestMsgs
    Callers <- MC_MainCaller
    AckModes = {"Ack"}
    ChanCap = 1
    ErrCap = 1
    MaxPolls = 2
    MaxClients = 3
    ReceiveCanFail = TRUE
    NoMsg = NoMsg
    MaxRuns = 3
SPECIFICATION MainFairSpec
INVARIANT MainTypeOK
PROPERTY MainTerminates
CHECK_DEADLOCK FALSE
