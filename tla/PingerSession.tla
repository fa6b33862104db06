--------------------------- MODULE PingerSession ----------------------------
(***************************************************************************)
(* Pinger implements Session: attempts are what sendPing() numbers, sent   *)
(* and received are the two totals, and the session is waiting from the    *)
(* moment SIGALRM leads to finishOnUserInterrupt().                        *)
(***************************************************************************)
EXTENDS Pinger

phase ==
    IF status # "running" THEN status
    ELSE IF sigalrm \in {"finish", "ignore"} THEN "waiting" ELSE "sending"

Promised == INSTANCE Session WITH
        Interruptible <- UserSignals # {},
        made <- attempts, sent <- pingsSent, received <- pingsReceived

(***************************************************************************)
(* Every step of the program is a step of the session or is not seen by    *)
(* it: whatever signals interrupt whatever, no attempt is lost, repeated   *)
(* or made after the wait began, none is counted twice, and the exit       *)
(* status is that of the two totals (ping3.c:920, 927-980, 1517).          *)
(***************************************************************************)
KeepsSafe == Promised!Safe

(***************************************************************************)
(* The session also makes progress: every attempt is made and the program  *)
(* ends after the wait, whatever the network does (ping3.c:970-978).       *)
(***************************************************************************)
KeepsPromise == Promised!Promise
=============================================================================
