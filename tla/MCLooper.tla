------------------------------ MODULE MCLooper ------------------------------
(* Instances of Looper for TLC. *)
EXTENDS Looper

MCData == [u : 1 .. MaxReg, destroy : BOOLEAN]
WorkCalls == {"call", "callAndWait", "stop"}
TimerCalls == {"startTimer", "stopTimer"}
SourceCalls == {"attach", "detach"}
AllCalls == Calls
Nobody == {}

=============================================================================
