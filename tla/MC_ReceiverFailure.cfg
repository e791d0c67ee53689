CONSTANTS
    Msgs <- MC_Msgs
    TestMsgs <- MC_NoTestMsgs
    Callers <- MC_OneCaller
    AckModes = {"Ack"}
    ChanCap = 1
    ErrCap = 1
    MaxPolls = 2
    MaxClients = 2
    ReceiveCanFail = TRUE
SPECIFICATION FairSpec
PROPERTY EventuallyReceived
