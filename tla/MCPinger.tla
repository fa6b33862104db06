------------------------------ MODULE MCPinger ------------------------------
(* Instances of Pinger, and of the session it promises, for TLC.           *)
EXTENDS PingerSession

NoSignals == {}
TwoSignals == {"INT", "USR1"}
=============================================================================
