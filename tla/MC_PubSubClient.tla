--------------------------- MODULE MC_PubSubClient ---------------------------
(* Instantiation of PubSubClient for TLC: two published messages, one    *)
(* test message, two ReceiveMessage callers and a messageChan of one slot *)
(* so that the full-channel Nack path is taken.                          *)
EXTENDS PubSubClientRefinement

MC_Msgs == {"m1", "m2"}
MC_TestMsgs == {"t1"}
MC_Callers == {"c1", "c2"}
\* One consumer goroutine, as in TestIntegrationConcurrent.
MC_OneCaller == {"c1"}
\* BufferMessage is a test hook; the liveness runs leave it out.
MC_NoTestMsgs == {}
=============================================================================
