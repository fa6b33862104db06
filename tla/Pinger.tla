------------------------------- MODULE Pinger -------------------------------
(***************************************************************************)
(* The running program of ping3.c, from the first sendPing(0) of main()    *)
(* (ping3.c:1515) until the process ends: the receive loop of main(), the  *)
(* SIGALRM handlers sendPing() and finishOnUserInterrupt(), the handlers   *)
(* of the user's signals, the interval timer, and the network between the  *)
(* program and the host it pings.                                          *)
(*                                                                         *)
(* There is one thread.  A context is a flow of control of that thread:    *)
(* "main", or the handler of a signal, which starts on top of whichever    *)
(* context is running and gives the processor back to it when it returns.  *)
(* signal() has BSD semantics (glibc, macOS): the handler stays installed  *)
(* and its own signal is held back while it runs; other signals nest.      *)
(*                                                                         *)
(* Requests are numbered 1, 2, ... by the attempt that made them; the      *)
(* 16-bit sequence number in a message is that number modulo SeqMod.  What *)
(* is printed is left out, except what printStats() reports last.          *)
(***************************************************************************)
EXTENDS Integers, FiniteSets

CONSTANTS
    Count,          \* -c: the number of requests, 0 for continuous mode
    Slots,          \* MAX_PING_ATTEMPTS, the length of the time stamp arrays
    SeqMod,         \* 2^16, the range of the u_short sequence number
    MaxReplies,     \* bound: copies of one reply the network may deliver
    MaxAttempts,    \* bound: attempts explored in continuous mode
    UserSignals,    \* the user signals that may arrive
    MaxInterrupts,  \* bound: how many user signals arrive in one behaviour
    HeaderOptions   \* TRUE when -T or -R puts an option in the IPv4 header

Continuous == Count = 0
Attempts == 1 .. (IF Continuous THEN MaxAttempts ELSE Count)
Finishers == {"INT", "TERM"}
Displayers == {"QUIT", "USR1"}

ASSUME CountAssumption == Count \in Nat /\ MaxAttempts \in Nat \ {0}
ASSUME ArrayAssumption ==
    Slots \in Nat \ {0} /\ SeqMod \in Nat \ {0} /\ Count <= Slots /\ Slots < SeqMod
ASSUME NetworkAssumption == MaxReplies \in Nat \ {0}
ASSUME SignalAssumption ==
    UserSignals \subseteq Finishers \cup Displayers /\ MaxInterrupts \in Nat
ASSUME OptionAssumption == HeaderOptions \in BOOLEAN

Contexts == {"main", "ALRM"} \cup UserSignals
Other == 0      \* a datagram that is not a reply to this process, or no request
SlotOfShorterArray(n) == (n % SeqMod) % (Slots - 1)             \* mutant
Slot(n) == (n % SeqMod) % Slots

VARIABLES
    pc,             \* the place each context has reached, "idle" if not active
    running,        \* the context that has the processor
    under,          \* the context each handler interrupted
    attempts,       \* sendPing() calls that have bumped icmpHdrID
    pingSendAttemptsLeft, pingsSent, pingsReceived, statsSamplesReceived,
    sequenceID_Array, timeSentArray, timeReceivedArray,  \* request held by slot
    icmpMessageToTx,    \* request whose message is in the transmit buffer
    ip4_DatagramRxd,    \* request answered by the datagram received last
    sigalrm,        \* the disposition of SIGALRM
    timer,          \* the setting of ITIMER_REAL
    alarm,          \* the timer setting that raised a pending SIGALRM
    copies,         \* copies of each reply still in the network
    interrupts,     \* user signals so far
    finalReport,    \* the counts that finishOnUserInterrupt() printed
    status,         \* how the process ended
    onWire,         \* history: requests that sendto() accepted
    got,            \* history: requests with a reply that recvfrom() returned
    late            \* history: requests with a reply later than their slot is kept

counters == <<attempts, pingSendAttemptsLeft, pingsSent, pingsReceived,
              statsSamplesReceived>>
arrays == <<sequenceID_Array, timeSentArray, timeReceivedArray>>
buffers == <<icmpMessageToTx, ip4_DatagramRxd>>
clock == <<sigalrm, timer, alarm>>
network == <<copies, onWire, got, late>>
outcome == <<finalReport, status>>
vars == <<pc, running, under, counters, arrays, buffers, clock, network,
          interrupts, outcome>>

icmpHdrID == attempts % SeqMod

-----------------------------------------------------------------------------
(* Where a context can be.  sendPing() runs in main() for the first request *)
(* and as the SIGALRM handler for the others.                               *)
SendLabels == {"flag", "bump", "record", "xmit", "count", "rearm",
               "wait", "interval"}
FinishLabels == {"off", "stop", "report", "exit"}
MainLabels == {"loop", "recv", "check", "compare", "stamp", "sample", "tally"}
Labels == SendLabels \cup FinishLabels \cup MainLabels \cup {"display", "idle"}

NoReport == [sent |-> 0, received |-> 0, attempts |-> 0]

FlowOK ==
    /\ pc \in [Contexts -> Labels]
    /\ running \in Contexts
    /\ under \in [Contexts -> Contexts]

CountersOK ==
    /\ attempts \in Nat
    /\ pingSendAttemptsLeft \in Int
    /\ pingsSent \in Nat
    /\ pingsReceived \in Nat
    /\ statsSamplesReceived \in Nat

ArraysOK ==
    /\ sequenceID_Array \in [0 .. Slots - 1 -> 0 .. SeqMod - 1]
    /\ timeSentArray \in [0 .. Slots - 1 -> Attempts \cup {Other}]
    /\ timeReceivedArray \in [0 .. Slots - 1 -> Attempts \cup {Other}]

BuffersOK ==
    /\ icmpMessageToTx \in Attempts \cup {Other}
    /\ ip4_DatagramRxd \in Attempts \cup {Other}

ClockOK ==
    /\ sigalrm \in {"default", "sendPing", "finish", "ignore"}
    /\ timer \in {"off", "interval", "wait"}
    /\ alarm \in {"none", "interval", "wait"}

NetworkOK ==
    /\ copies \in [Attempts -> 0 .. MaxReplies]
    /\ onWire \in SUBSET Attempts
    /\ got \in SUBSET Attempts
    /\ late \in SUBSET Attempts

OutcomeOK ==
    /\ interrupts \in 0 .. MaxInterrupts
    /\ finalReport \in [sent: Nat, received: Nat, attempts: Nat]
    /\ status \in {"running", "success", "failure", "killed"}

TypeOK ==
    FlowOK /\ CountersOK /\ ArraysOK /\ BuffersOK /\ ClockOK /\ NetworkOK /\ OutcomeOK

Init ==
    /\ pc = [c \in Contexts |-> IF c = "main" THEN "flag" ELSE "idle"]
    /\ running = "main"
    /\ under = [c \in Contexts |-> "main"]
    /\ attempts = 0
    /\ pingSendAttemptsLeft = Count
    /\ pingsSent = 0 /\ pingsReceived = 0 /\ statsSamplesReceived = 0
    /\ sequenceID_Array = [i \in 0 .. Slots - 1 |-> 0]
    /\ timeSentArray = [i \in 0 .. Slots - 1 |-> Other]
    /\ timeReceivedArray = [i \in 0 .. Slots - 1 |-> Other]
    /\ icmpMessageToTx = Other /\ ip4_DatagramRxd = Other
    /\ sigalrm = "default" /\ timer = "off" /\ alarm = "none"
    /\ copies = [n \in Attempts |-> 0]
    /\ interrupts = 0
    /\ finalReport = NoReport /\ status = "running"
    /\ onWire = {} /\ got = {} /\ late = {}

At(c, place) == status = "running" /\ running = c /\ pc[c] = place

Goto(c, place) ==
    /\ pc' = [pc EXCEPT ![c] = place]
    /\ UNCHANGED <<running, under>>

(* The end of a handler; main() goes from its sendPing(0) into its loop.    *)
Return(c) ==
    /\ pc' = [pc EXCEPT ![c] = IF c = "main" THEN "loop" ELSE "idle"]
    /\ running' = IF c = "main" THEN "main" ELSE under[c]
    /\ UNCHANGED under

(* A handler starts on top of the running context.                          *)
Enter(c, place) ==
    /\ pc' = [pc EXCEPT ![c] = place]
    /\ running' = c
    /\ under' = [under EXCEPT ![c] = running]

-----------------------------------------------------------------------------
(* sendPing()                                                               *)

(* The elapsed time printed with "No ICMP reply" is read from this element  *)
(* of timeSentArray: the accessor that wraps is not used here.              *)
FlagIndexAfterBump == icmpHdrID + 1                              \* mutant
FlagIndex == icmpHdrID

Flag(c) ==
    /\ At(c, "flag")
    /\ Goto(c, "bump")
    /\ UNCHANGED <<counters, arrays, buffers, clock, network, interrupts, outcome>>

Bump(c) ==
    /\ At(c, "bump")
    /\ attempts' = attempts + 1
    /\ Goto(c, "record")
    /\ UNCHANGED <<pingSendAttemptsLeft, pingsSent, pingsReceived,
                   statsSamplesReceived, arrays, buffers, clock, network,
                   interrupts, outcome>>

ReceiveTimesLeft == timeReceivedArray                            \* mutant
ReceiveTimesCleared == [timeReceivedArray EXCEPT ![Slot(attempts)] = Other]

(* The message is built in the transmit buffer and the slot of its sequence *)
(* number is taken over: no receive time, this sequence number, sent now.   *)
Record(c) ==
    /\ At(c, "record")
    /\ icmpMessageToTx' = attempts
    /\ timeReceivedArray' = ReceiveTimesCleared
    /\ sequenceID_Array' = [sequenceID_Array EXCEPT ![Slot(attempts)] = icmpHdrID]
    /\ timeSentArray' = [timeSentArray EXCEPT ![Slot(attempts)] = attempts]
    /\ Goto(c, "xmit")
    /\ UNCHANGED <<counters, ip4_DatagramRxd, clock, network, interrupts, outcome>>

(* setsockopt() refused the header option: nothing is built, nothing sent.  *)
OptionRefused(c) ==
    /\ At(c, "record")
    /\ HeaderOptions
    /\ Goto(c, "rearm")
    /\ UNCHANGED <<counters, arrays, buffers, clock, network, interrupts, outcome>>

(* sendto() took the whole message.  The network may lose the request or    *)
(* its reply (no copy), duplicate it, delay it and overtake it.             *)
Xmit(c) ==
    /\ At(c, "xmit")
    /\ onWire' = onWire \cup {attempts}
    /\ \E k \in 0 .. MaxReplies : copies' = [copies EXCEPT ![attempts] = k]
    /\ Goto(c, "count")
    /\ UNCHANGED <<counters, arrays, buffers, clock, got, late, interrupts, outcome>>

(* sendto() failed, or wrote a part of the message: not counted.            *)
XmitFails(c) ==
    /\ At(c, "xmit")
    /\ Goto(c, "rearm")
    /\ UNCHANGED <<counters, arrays, buffers, clock, network, interrupts, outcome>>

CountSent(c) ==
    /\ At(c, "count")
    /\ pingsSent' = pingsSent + 1
    /\ Goto(c, "rearm")
    /\ UNCHANGED <<attempts, pingSendAttemptsLeft, pingsReceived,
                   statsSamplesReceived, arrays, buffers, clock, network,
                   interrupts, outcome>>

(* Is the attempt that leaves "left" attempts to make the last one?         *)
LastAttemptTooLate(left) == ~Continuous /\ left < 0              \* mutant
LastAttemptTooEarly(left) == ~Continuous /\ left <= 1            \* mutant
LastAttemptInAnyMode(left) == left <= 0                          \* mutant
LastAttempt(left) == ~Continuous /\ left <= 0

HandlerLeftUntilTheEnd(left) ==                                  \* mutant
    IF LastAttempt(left) THEN "finish" ELSE sigalrm
Handler(left) == IF LastAttempt(left) THEN "finish" ELSE "sendPing"

(* signal( SIGALRM, ... ): continuous mode never touches the attempts left. *)
Rearm(c) ==
    /\ At(c, "rearm")
    /\ LET left == IF Continuous THEN pingSendAttemptsLeft
                                 ELSE pingSendAttemptsLeft - 1
       IN  /\ pingSendAttemptsLeft' = left
           /\ sigalrm' = Handler(left)
           /\ Goto(c, IF LastAttempt(left) THEN "wait" ELSE "interval")
    /\ UNCHANGED <<attempts, pingsSent, pingsReceived, statsSamplesReceived,
                   arrays, buffers, timer, alarm, network, interrupts, outcome>>

ArmedUnlessWaiting(setting) ==                                   \* mutant
    IF setting = "wait" THEN "off" ELSE setting
Armed(setting) == setting

(* setSendTimer(): a SIGALRM that is already pending stays pending.         *)
SetTimer(c, setting) ==
    /\ At(c, setting)
    /\ timer' = Armed(setting)
    /\ Return(c)
    /\ UNCHANGED <<counters, arrays, buffers, sigalrm, alarm, network,
                   interrupts, outcome>>

SendPing(c) ==
    \/ Flag(c) \/ Bump(c) \/ Record(c) \/ OptionRefused(c)
    \/ Xmit(c) \/ XmitFails(c) \/ CountSent(c) \/ Rearm(c)
    \/ SetTimer(c, "wait") \/ SetTimer(c, "interval")

-----------------------------------------------------------------------------
(* The timer and the delivery of signals                                    *)

(* it_interval = it_value: the timer goes off again and again.  An ignored  *)
(* signal is discarded; a second one merges with the one that is pending.   *)
Tick ==
    /\ status = "running"
    /\ timer # "off" /\ alarm = "none" /\ sigalrm # "ignore"
    /\ alarm' = timer
    /\ UNCHANGED <<pc, running, under, counters, arrays, buffers, sigalrm, timer,
                   network, interrupts, outcome>>

(* The pending SIGALRM is delivered.  Its default action ends the process.  *)
(* In continuous mode MaxAttempts bounds the attempts that are explored.    *)
Alarm ==
    /\ status = "running"
    /\ alarm # "none" /\ pc["ALRM"] = "idle"
    /\ sigalrm = "sendPing" /\ Continuous => attempts < MaxAttempts
    /\ alarm' = "none"
    /\ IF sigalrm = "default"
       THEN status' = "killed" /\ UNCHANGED <<pc, running, under>>
       ELSE /\ Enter("ALRM", IF sigalrm = "finish" THEN "off" ELSE "flag")
            /\ UNCHANGED status
    /\ UNCHANGED <<counters, arrays, buffers, sigalrm, timer, network,
                   interrupts, finalReport>>

(* A user signal: control-C and SIGTERM finish, control-\ and SIGUSR1 print. *)
Interrupt(s) ==
    /\ status = "running"
    /\ pc[s] = "idle" /\ interrupts < MaxInterrupts
    /\ interrupts' = interrupts + 1
    /\ Enter(s, IF s \in Finishers THEN "report" ELSE "display")
    /\ UNCHANGED <<counters, arrays, buffers, clock, network, outcome>>

-----------------------------------------------------------------------------
(* finishOnUserInterrupt() and displayCurrentStatsInterrupt()               *)

(* Only when SIGALRM called it: signal( SIGALRM, SIG_IGN ) drops a pending one. *)
Off ==
    /\ At("ALRM", "off")
    /\ sigalrm' = "ignore" /\ alarm' = "none"
    /\ Goto("ALRM", "stop")
    /\ UNCHANGED <<counters, arrays, buffers, timer, network, interrupts, outcome>>

Stop ==
    /\ At("ALRM", "stop")
    /\ timer' = "off"
    /\ Goto("ALRM", "report")
    /\ UNCHANGED <<counters, arrays, buffers, sigalrm, alarm, network,
                   interrupts, outcome>>

Report(c) ==
    /\ At(c, "report")
    /\ finalReport' = [sent |-> pingsSent, received |-> pingsReceived,
                       attempts |-> attempts]
    /\ Goto(c, "exit")
    /\ UNCHANGED <<counters, arrays, buffers, clock, network, interrupts, status>>

(* The argument of exit(), and the value main() would return.               *)
VerdictOfSurplus ==                                              \* mutant
    IF pingsReceived <= pingsSent \/ pingsSent = 0 THEN "failure" ELSE "success"
Verdict == IF pingsReceived < pingsSent \/ pingsSent = 0 THEN "failure"
                                                         ELSE "success"

Exit(c) ==
    /\ At(c, "exit")
    /\ status' = Verdict
    /\ UNCHANGED <<pc, running, under, counters, arrays, buffers, clock, network,
                   interrupts, finalReport>>

Finish(c) == Report(c) \/ Exit(c)

(* printStats() reads, and SIGUSR1 gets the handler it already has.         *)
Display(c) ==
    /\ At(c, "display")
    /\ Return(c)
    /\ UNCHANGED <<counters, arrays, buffers, clock, network, interrupts, outcome>>

-----------------------------------------------------------------------------
(* main(): the receive loop, getResponseAndProcessIt() and                  *)
(* processReceivedDatagram()                                                *)

Loop ==
    /\ At("main", "loop")
    /\ IF pingSendAttemptsLeft >= 0
       THEN Goto("main", "recv") /\ UNCHANGED status
       ELSE status' = Verdict /\ UNCHANGED <<pc, running, under>>
    /\ UNCHANGED <<counters, arrays, buffers, clock, network, interrupts, finalReport>>

(* recvfrom() returns one of the replies that have arrived, in any order.   *)
Recv(n) ==
    /\ At("main", "recv")
    /\ copies[n] > 0
    /\ copies' = [copies EXCEPT ![n] = @ - 1]
    /\ got' = got \cup {n}
    /\ ip4_DatagramRxd' = n
    /\ Goto("main", "check")
    /\ UNCHANGED <<counters, arrays, icmpMessageToTx, clock, onWire, late,
                   interrupts, outcome>>

(* A raw socket is given every ICMP datagram that comes into the kernel.    *)
RecvOther ==
    /\ At("main", "recv")
    /\ ip4_DatagramRxd' = Other
    /\ Goto("main", "check")
    /\ UNCHANGED <<counters, arrays, icmpMessageToTx, clock, network, interrupts, outcome>>

(* recvfrom() returns an error, EINTR among them.                           *)
RecvFails ==
    /\ At("main", "recv")
    /\ Goto("main", "loop")
    /\ UNCHANGED <<counters, arrays, buffers, clock, network, interrupts, outcome>>

(* IPv4, ICMP, long enough, a reply type, and the id of this process.       *)
AcceptedFromAnyone == TRUE                                       \* mutant
Accepted == ip4_DatagramRxd # Other

(* The payload is compared only if the sequence number is the latest one;   *)
(* any other is warned about and accepted.                                  *)
Check ==
    /\ At("main", "check")
    /\ Goto("main", IF ~Accepted THEN "loop"
                    ELSE IF ip4_DatagramRxd % SeqMod = icmpHdrID THEN "compare"
                    ELSE "stamp")
    /\ UNCHANGED <<counters, arrays, buffers, clock, network, interrupts, outcome>>

(* bcmp() of the reply with the transmit buffer; only a warning comes of it. *)
PayloadDiffers == icmpMessageToTx # ip4_DatagramRxd

Compare ==
    /\ At("main", "compare")
    /\ Goto("main", "stamp")
    /\ UNCHANGED <<counters, arrays, buffers, clock, network, interrupts, outcome>>

(* Attempt n is one of the last Slots attempts, and the sequence number has *)
(* not wrapped since.  At the wrap two of the last attempts may share a     *)
(* slot, because 100 does not divide 65536 (ping3.c:261).                   *)
SlotIsKept(n) ==
    attempts - Slots < n /\ n <= attempts /\ n \div SeqMod = attempts \div SeqMod

Stamp ==
    /\ At("main", "stamp")
    /\ timeReceivedArray' =
           [timeReceivedArray EXCEPT ![Slot(ip4_DatagramRxd)] = ip4_DatagramRxd]
    /\ late' = IF SlotIsKept(ip4_DatagramRxd) THEN late ELSE late \cup {ip4_DatagramRxd}
    /\ Goto("main", "sample")
    /\ UNCHANGED <<counters, sequenceID_Array, timeSentArray, buffers, clock,
                   copies, onWire, got, interrupts, outcome>>

(* The round trip is measured from the send time in the slot as it is now.  *)
Sample ==
    /\ At("main", "sample")
    /\ statsSamplesReceived' = statsSamplesReceived + 1
    /\ Goto("main", "tally")
    /\ UNCHANGED <<attempts, pingSendAttemptsLeft, pingsSent, pingsReceived,
                   arrays, buffers, clock, network, interrupts, outcome>>

Tally ==
    /\ At("main", "tally")
    /\ pingsReceived' = pingsReceived + 1
    /\ Goto("main", "loop")
    /\ UNCHANGED <<attempts, pingSendAttemptsLeft, pingsSent, statsSamplesReceived,
                   arrays, buffers, clock, network, interrupts, outcome>>

Receive ==
    \/ Loop \/ (\E n \in Attempts : Recv(n)) \/ RecvOther \/ RecvFails
    \/ Check \/ Compare \/ Stamp \/ Sample \/ Tally

-----------------------------------------------------------------------------
Done == status # "running" /\ UNCHANGED vars

Next ==
    \/ \E c \in {"main", "ALRM"} : SendPing(c)
    \/ Tick \/ Alarm \/ (\E s \in UserSignals : Interrupt(s))
    \/ Off \/ Stop
    \/ \E c \in ({"ALRM"} \cup UserSignals) : Finish(c) \/ Display(c)
    \/ Receive
    \/ Done

(***************************************************************************)
(* Handlers and main() keep executing, an armed timer goes off and a       *)
(* pending SIGALRM is delivered.  The network and the user owe nothing.    *)
(***************************************************************************)
Fairness ==
    /\ WF_vars(Tick) /\ WF_vars(Alarm)
    /\ WF_vars(\E c \in {"main", "ALRM"} : SendPing(c))
    /\ WF_vars(Off \/ Stop)
    /\ WF_vars(\E c \in ({"ALRM"} \cup UserSignals) : Finish(c) \/ Display(c))
    /\ WF_vars(Loop \/ Check \/ Compare \/ Stamp \/ Sample \/ Tally)

Spec == Init /\ [][Next]_vars
FairSpec == Spec /\ Fairness

-----------------------------------------------------------------------------
(* Safety                                                                   *)

(***************************************************************************)
(* The loop of main() is never left (ping3.c:1516): the attempts left      *)
(* never become negative, so the return at its end is not reached.         *)
(***************************************************************************)
MainNeverReturns == pingSendAttemptsLeft >= 0

(***************************************************************************)
(* While the timer runs or a SIGALRM is pending, SIGALRM has a handler (or *)
(* is ignored): the timer never kills the program (ping3.c:971-976).       *)
(***************************************************************************)
AlarmIsHandled == timer # "off" \/ alarm # "none" => sigalrm # "default"

(***************************************************************************)
(* The handler that ends the program on SIGALRM is installed only when     *)
(* every attempt asked for by -c has been made, and no attempt is made     *)
(* after that (ping3.c:970-978).                                           *)
(***************************************************************************)
EveryAttemptIsMade ==
    sigalrm \in {"finish", "ignore"} => ~Continuous /\ attempts = Count

Sender == {c \in {"main", "ALRM"} : pc[c] \in SendLabels}

(* Main holds a reply that it has not counted yet.                          *)
ReplyInHand ==
    /\ pc["main"] \in {"check", "compare", "stamp", "sample", "tally"}
    /\ ip4_DatagramRxd # Other

(***************************************************************************)
(* If no reply is duplicated, exit status 0 means that every request       *)
(* handed to the network was answered, but for the one that a user signal  *)
(* caught between sendto() and the counting of it (ping3.c:920, 965).      *)
(***************************************************************************)
SuccessIsEarned ==
    status = "success" =>
        \A n \in onWire \ got : n = attempts /\ \E c \in Sender : pc[c] = "count"

(***************************************************************************)
(* Exit status 1 means that nothing was sent, or that a request was not    *)
(* answered, or that the program ended while main() had the last reply in  *)
(* hand (ping3.c:920 against 1517).                                        *)
(***************************************************************************)
FailureIsReal ==
    status = "failure" =>
        pingsSent = 0 \/ onWire \ got # {} \/ ReplyInHand

(***************************************************************************)
(* The exit status agrees with the counts printed last, unless another     *)
(* request was made between the two: finishOnUserInterrupt() stops the     *)
(* timer only when SIGALRM called it (ping3.c:902, 914, 920).              *)
(***************************************************************************)
ReportMatchesExit ==
    status \in {"success", "failure"} /\ finalReport.attempts = attempts =>
        (status = "success" <=> /\ finalReport.sent > 0
                                /\ finalReport.received >= finalReport.sent)

(***************************************************************************)
(* The round trip of a reply is measured from the send time of the request *)
(* it answers, although sendPing() may interrupt main() anywhere, for      *)
(* every reply less than Slots attempts late, before and after the sequence*)
(* number wraps, but not over the wrap (ping3.c:674-679).                  *)
(***************************************************************************)
RoundTripOfItsRequest ==
    pc["main"] = "sample" /\ SlotIsKept(ip4_DatagramRxd) =>
        timeSentArray[Slot(ip4_DatagramRxd)] = ip4_DatagramRxd

(***************************************************************************)
(* The receive time listed beside a request is that of its own reply: slots *)
(* are reused, yet a time is left over from an earlier request only when a *)
(* reply is Slots or more attempts late or comes over the wrap of the      *)
(* sequence number (ping3.c:320-323, 676).                                 *)
(***************************************************************************)
ReceiveTimesBelong ==
    late = {} =>
        \A i \in 0 .. Slots - 1 : timeReceivedArray[i] \in {Other, timeSentArray[i]}

(***************************************************************************)
(* The time printed with "No ICMP reply" counts from the sending of the    *)
(* request named, the latest one, if that went out at all: when the kernel *)
(* refused its header options nothing was recorded (ping3.c:932-939).      *)
(***************************************************************************)
FlagTimesTheRequest ==
    (\E c \in Sender : pc[c] = "flag") /\ pingsSent > pingsReceived =>
        FlagIndex < Slots /\ (attempts \in onWire => timeSentArray[FlagIndex] = attempts)

(***************************************************************************)
(* README.md:333: "List up to the last 100 ping attempt timestamps".  Of   *)
(* the last Slots attempts, between two sendPing() calls, the statistics   *)
(* list all but those made before the sequence number wrapped, however     *)
(* often it has wrapped (ping3.c:261, 868-888).                            *)
(***************************************************************************)
LastSlotsListed ==
    Sender = {} => \A n \in Attempts : SlotIsKept(n) => timeSentArray[Slot(n)] = n

-----------------------------------------------------------------------------
(* The invariant of the control flow, by which the theorems are proved      *)

EarlyLabels == {"flag", "bump"}                         \* before icmpHdrID += 1
OpenLabels == {"record", "xmit", "count", "rearm"}      \* before the attempt is taken off

InSend(places) == pc["main"] \in places \/ pc["ALRM"] \in places

(* Each context stays in the code it runs.                                  *)
PlacesInv ==
    /\ pc["main"] \in SendLabels \cup MainLabels
    /\ pc["ALRM"] \in SendLabels \cup FinishLabels \cup {"idle"}
    /\ \A s \in UserSignals : pc[s] \in {"idle", "report", "exit", "display"}

(* Until the sendPing(0) of main() is over no SIGALRM can come, and the     *)
(* handler is installed before that; none is pending once it is ignored.    *)
PendingInv ==
    /\ pc["main"] \in SendLabels =>
          pc["ALRM"] = "idle" /\ timer = "off" /\ alarm = "none"
    /\ sigalrm = "default" => pc["main"] \in EarlyLabels \cup OpenLabels
    /\ sigalrm = "ignore" => alarm = "none"

(* Attempts made and attempts left add up to Count, and SIGALRM leads to    *)
(* another attempt only while one is left.                                  *)
AccountInv ==
    /\ pingSendAttemptsLeft >= 0
    /\ Continuous => pingSendAttemptsLeft = 0 /\ sigalrm \in {"default", "sendPing"}
    /\ ~Continuous =>
          /\ attempts + pingSendAttemptsLeft =
                Count + (IF InSend(OpenLabels) THEN 1 ELSE 0)
          /\ sigalrm = "sendPing" => pingSendAttemptsLeft >= 1
          /\ InSend(EarlyLabels \cup OpenLabels) => pingSendAttemptsLeft >= 1
          /\ sigalrm \in {"finish", "ignore"} =>
                pingSendAttemptsLeft = 0 /\ ~InSend(EarlyLabels \cup OpenLabels)
    /\ pc["ALRM"] \in FinishLabels => sigalrm \in {"finish", "ignore"}
    /\ pc["ALRM"] \in EarlyLabels \cup OpenLabels => sigalrm = "sendPing"
    /\ InSend(EarlyLabels) => attempts + 1 \in Attempts
    /\ InSend(OpenLabels) => attempts \in Attempts

(* Only a reply to this process gets past the filter.                       *)
AcceptedInv ==
    pc["main"] \in {"compare", "stamp", "sample", "tally"} => ip4_DatagramRxd # Other

(* The control flow: who runs where, what SIGALRM does, what is left to do. *)
ControlInv == PlacesInv /\ PendingInv /\ AccountInv /\ AcceptedInv

-----------------------------------------------------------------------------
(* Liveness                                                                 *)

(* In continuous mode there is always another attempt (ping3.c:975-977).    *)
KeepsSending ==
    \A n \in 1 .. MaxAttempts - 1 : attempts = n ~> attempts = n + 1

-----------------------------------------------------------------------------
(* What the documents and comments say and the code does not do             *)

(* ping3.c:931: the request flagged is one without a reply (here: while     *)
(* main() waits in recvfrom(), with no reply in hand).                      *)
FlaggedHasNoReply ==
    /\ \E c \in Sender : pc[c] = "flag"
    /\ pingsSent > pingsReceived /\ pc["main"] = "recv"
    => attempts \notin got

(* ping3.c:258: timeSentArray is a wrap around array.                       *)
FlagIndexWraps ==
    (\E c \in Sender : pc[c] = "flag") /\ pingsSent > pingsReceived =>
        FlagIndex \in DOMAIN timeSentArray

(* ping3.c:1108: the program waits the -w period after the last request.    *)
WaitIsHonoured ==
    [][pc["ALRM"] # "off" /\ pc'["ALRM"] = "off" => alarm = "wait"]_vars

(* ping3.c:666: the reply is compared with what was sent.                   *)
ComparedWithItsRequest == pc["main"] = "compare" => ~PayloadDiffers
=============================================================================
