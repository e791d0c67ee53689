---------------------------- MODULE MC_ExampleMain ----------------------------
(* Instantiation of ExampleMain for TLC: the program run three times     *)
(* against the same emulator, each run publishing a new one of three     *)
(* messages; main is the only caller and the client acks (main.go:23).   *)
EXTENDS ExampleMain

MC_Msgs == {"m1", "m2", "m3"}
MC_NoTestMsgs == {}
MC_MainCaller == {"main"}

=============================================================================
