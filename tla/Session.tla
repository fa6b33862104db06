------------------------------ MODULE Session -------------------------------
(***************************************************************************)
(* What ping3 promises its user (ping3.1): with -c N it makes N attempts,  *)
(* one after the other, waits, and ends; its exit status is success only   *)
(* if something was sent and as many replies were received.  Nothing is    *)
(* said of signal handlers, timers, arrays or the network.                 *)
(***************************************************************************)
EXTENDS Integers

CONSTANTS
    Count,          \* the number of attempts, 0 for continuous mode
    MaxAttempts,    \* bound: attempts explored in continuous mode
    Interruptible   \* TRUE when the user may end the session

Limit == IF Count = 0 THEN MaxAttempts ELSE Count

VARIABLES made, sent, received, phase

session == <<made, sent, received, phase>>

Init == made = 0 /\ sent = 0 /\ received = 0 /\ phase = "sending"

Attempt ==
    /\ phase = "sending" /\ made < Limit
    /\ made' = made + 1
    /\ UNCHANGED <<sent, received, phase>>

(* An attempt counts as sent at most once.                                  *)
Send ==
    /\ phase = "sending" /\ sent < made
    /\ sent' = sent + 1
    /\ UNCHANGED <<made, received, phase>>

Reply ==
    /\ phase \in {"sending", "waiting"}
    /\ received' = received + 1
    /\ UNCHANGED <<made, sent, phase>>

Wait ==
    /\ phase = "sending"
    /\ Count # 0 /\ made = Count
    /\ phase' = "waiting"
    /\ UNCHANGED <<made, sent, received>>

Verdict == IF sent > 0 /\ received >= sent THEN "success" ELSE "failure"

End ==
    /\ phase = "waiting" \/ (Interruptible /\ phase = "sending")
    /\ phase' = Verdict
    /\ UNCHANGED <<made, sent, received>>

Next == Attempt \/ Send \/ Reply \/ Wait \/ End

Safe == Init /\ [][Next]_session

(***************************************************************************)
(* Attempts go on until the last one, and then the session ends.  In       *)
(* continuous mode there is no last one.                                   *)
(***************************************************************************)
Promise ==
    /\ Safe
    /\ WF_session(Attempt) /\ WF_session(Wait)
    /\ WF_session(phase = "waiting" /\ End)
=============================================================================
