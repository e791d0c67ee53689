CONSTANTS
    Msgs <- MC_Msgs
    TestMsgs <- MC_TestMsgs
    Callers <- MC_Callers
    AckModes = {"Ack", "Nack"}
    ChanCap = 1
    ErrCap = 1
    MaxPolls = 2
    MaxClients = 2
    ReceiveCanFail = TRUE
SPECIFICATION Spec
INVARIANT NoStrandedLeaseAfterCancel
