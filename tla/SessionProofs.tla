--------------------------- MODULE SessionProofs ----------------------------
(***************************************************************************)
(* The running program implements the session it promises, for every value *)
(* of the constants: the initial state maps to the initial state, and each *)
(* step to one step of the session or to none.                             *)
(***************************************************************************)
EXTENDS PingerSession, PingerProofs

USE CountAssumption, ArrayAssumption, NetworkAssumption, SignalAssumption,
    OptionAssumption
    DEF Attempts, Continuous, Finishers, Displayers, Contexts, Other

(* An attempt that is still to be counted is not among those counted.       *)
SentInv ==
    /\ pingsSent <= attempts
    /\ InSend({"record", "xmit", "count"}) => pingsSent < attempts

LEMMA SentInit == Init => SentInv
<1> SUFFICES ASSUME Init PROVE SentInv
  OBVIOUS
<1>1. attempts = 0 /\ pingsSent = 0
  BY DEF Init
<1>2. pc["main"] = "flag" /\ pc["ALRM"] = "idle"
  BY DEF Init
<1> QED BY <1>1, <1>2 DEF SentInv, InSend

LEMMA SentStep ==
    ASSUME TypeOK, ControlInv, SentInv, [Next]_vars
    PROVE  SentInv'
<1> USE DEF TypeOK, FlowOK, CountersOK, ControlInv, PlacesInv, PendingInv,
            SentInv, InSend, At, Goto, counters, SendLabels, MainLabels, FinishLabels
<1>1. ASSUME NEW c \in {"main", "ALRM"}, SendPing(c) PROVE SentInv'
  <2>1. CASE Flag(c) \/ OptionRefused(c) \/ XmitFails(c)
    BY <2>1 DEF Flag, OptionRefused, XmitFails
  <2>2. CASE Bump(c)
    BY <2>2 DEF Bump
  <2>3. CASE Record(c) \/ Xmit(c)
    BY <2>3 DEF Record, Xmit
  <2>4. CASE CountSent(c)
    BY <2>4 DEF CountSent
  <2>5. CASE Rearm(c)
    BY <2>5 DEF Rearm
  <2>6. CASE SetTimer(c, "wait") \/ SetTimer(c, "interval")
    BY <2>6 DEF SetTimer, Return
  <2> QED BY <1>1, <2>1, <2>2, <2>3, <2>4, <2>5, <2>6 DEF SendPing
<1>2. CASE Receive
  BY <1>2 DEF Receive, Loop, Recv, RecvOther, RecvFails, Check, Compare, Stamp, Sample, Tally
<1>3. CASE Signals
  <2>1. CASE Tick
    BY <2>1 DEF Tick
  <2>2. CASE Alarm
    BY <2>2 DEF Alarm, Enter
  <2>3. ASSUME NEW s \in UserSignals, Interrupt(s) PROVE SentInv'
    BY <2>3 DEF Interrupt, Enter
  <2>4. CASE Off \/ Stop
    BY <2>4 DEF Off, Stop
  <2>5. ASSUME NEW c \in {"ALRM"} \cup UserSignals, Finish(c) \/ Display(c)
        PROVE  SentInv'
    BY <2>5 DEF Finish, Report, Exit, Display, Return
  <2> QED BY <1>3, <2>1, <2>2, <2>3, <2>4, <2>5 DEF Signals
<1>4. CASE UNCHANGED vars
  BY <1>4 DEF vars
<1> QED BY <1>1, <1>2, <1>3, <1>4 DEF Next, Signals, Done

-----------------------------------------------------------------------------
LEMMA InitMaps == Init => Promised!Init
BY DEF Init, Promised!Init, phase

(* What leaves the mapped state alone is not seen by the session.           *)
LEMMA Unseen ==
    ASSUME UNCHANGED <<attempts, pingsSent, pingsReceived, status, sigalrm>>
    PROVE  UNCHANGED Promised!session
BY DEF Promised!session, phase

LEMMA SendPingMaps ==
    ASSUME TypeOK, ControlInv, SentInv, NEW c \in {"main", "ALRM"}, SendPing(c)
    PROVE  Promised!Next \/ UNCHANGED Promised!session
<1> USE DEF counters, clock, outcome, At
<1>1. CASE Bump(c)
  <2>1. sigalrm \in {"default", "sendPing"} /\ status = "running"
    BY <1>1 DEF Bump, TypeOK, ClockOK, ControlInv, AccountInv, InSend, EarlyLabels,
                PendingInv
  <2>2. attempts + 1 \in Attempts
    BY <1>1 DEF Bump, ControlInv, AccountInv, InSend, EarlyLabels
  <2>3. attempts < Promised!Limit
    BY <2>2 DEF TypeOK, CountersOK, Promised!Limit
  <2> QED BY <1>1, <2>1, <2>3 DEF Bump, phase, Promised!Next, Promised!Attempt
<1>2. CASE CountSent(c)
  <2>1. sigalrm \in {"default", "sendPing"} /\ status = "running"
    BY <1>2 DEF CountSent, TypeOK, ClockOK, ControlInv, AccountInv, InSend, OpenLabels
  <2>2. pingsSent < attempts
    BY <1>2 DEF CountSent, SentInv, InSend
  <2> QED BY <1>2, <2>1, <2>2 DEF CountSent, phase, Promised!Next, Promised!Send
<1>3. CASE Rearm(c)
  <2>1. sigalrm \in {"default", "sendPing"} /\ status = "running"
    BY <1>3 DEF Rearm, TypeOK, ClockOK, ControlInv, AccountInv, InSend, OpenLabels
  <2>2. UNCHANGED <<attempts, pingsSent, pingsReceived, status>>
    BY <1>3 DEF Rearm
  <2>3. CASE sigalrm' = "sendPing"
    BY <2>1, <2>2, <2>3 DEF Promised!session, phase
  <2>4. CASE sigalrm' = "finish"
    <3>1. Count # 0 /\ attempts = Count
      BY <1>3, <2>4 DEF Rearm, Handler, LastAttempt, TypeOK, CountersOK, ControlInv,
                        AccountInv, InSend, OpenLabels
    <3> QED BY <2>1, <2>2, <2>4, <3>1 DEF phase, Promised!Next, Promised!Wait
  <2> QED BY <1>3, <2>3, <2>4 DEF Rearm, Handler
<1>4. CASE Flag(c) \/ Record(c) \/ OptionRefused(c) \/ Xmit(c) \/ XmitFails(c)
           \/ SetTimer(c, "wait") \/ SetTimer(c, "interval")
  BY <1>4, Unseen DEF Flag, Record, OptionRefused, Xmit, XmitFails, SetTimer
<1> QED BY <1>1, <1>2, <1>3, <1>4 DEF SendPing

LEMMA ReceiveMaps ==
    ASSUME TypeOK, ControlInv, Receive
    PROVE  Promised!Next \/ UNCHANGED Promised!session
<1> USE DEF counters, clock, outcome, At
<1>1. CASE Tally
  BY <1>1 DEF Tally, phase, Promised!Next, Promised!Reply
<1>2. CASE Loop
  <2>1. pingSendAttemptsLeft >= 0
    BY DEF ControlInv, AccountInv
  <2> QED BY <1>2, <2>1, Unseen DEF Loop
<1>3. CASE ~Tally /\ ~Loop
  BY <1>3, Unseen DEF Receive, Recv, RecvOther, RecvFails, Check, Compare, Stamp, Sample
<1> QED BY <1>1, <1>2, <1>3

LEMMA SignalMaps ==
    ASSUME TypeOK, ControlInv, Signals
    PROVE  Promised!Next \/ UNCHANGED Promised!session
<1> USE DEF counters, clock, outcome, At
<1>1. CASE Tick \/ Stop \/ \E s \in UserSignals : Interrupt(s)
  BY <1>1, Unseen DEF Tick, Stop, Interrupt
<1>2. CASE Alarm
  <2>1. sigalrm # "default"
    BY <1>2 DEF Alarm, ControlInv, PendingInv, EarlyLabels, OpenLabels, SendLabels
  <2> QED BY <1>2, <2>1, Unseen DEF Alarm
<1>3. CASE Off
  <2>1. sigalrm \in {"finish", "ignore"} /\ sigalrm' = "ignore"
    BY <1>3 DEF Off, ControlInv, AccountInv, FinishLabels
  <2> QED BY <1>3, <2>1 DEF Off, Promised!session, phase
<1>4. ASSUME NEW c \in {"ALRM"} \cup UserSignals, Exit(c)
      PROVE  Promised!Next
  <2>1. status = "running" /\ status' = Verdict
        /\ UNCHANGED <<attempts, pingsSent, pingsReceived>>
    BY <1>4 DEF Exit
  <2>2. Verdict = Promised!Verdict
    BY DEF Verdict, Promised!Verdict, TypeOK, CountersOK
  <2>3. phase' = Promised!Verdict
    BY <2>1, <2>2 DEF phase, Verdict
  <2>4. phase = "waiting" \/ (UserSignals # {} /\ phase = "sending")
    <3>1. CASE c = "ALRM"
      BY <1>4, <2>1, <3>1 DEF Exit, ControlInv, AccountInv, FinishLabels, phase
    <3>2. CASE c \in UserSignals
      BY <2>1, <3>2 DEF phase
    <3> QED BY <3>1, <3>2
  <2> QED BY <2>1, <2>3, <2>4 DEF Promised!Next, Promised!End
<1>5. ASSUME NEW c \in {"ALRM"} \cup UserSignals, Report(c) \/ Display(c)
      PROVE  UNCHANGED Promised!session
  BY <1>5, Unseen DEF Report, Display
<1> QED BY <1>1, <1>2, <1>3, <1>4, <1>5 DEF Signals, Finish

LEMMA StepMaps ==
    ASSUME TypeOK, ControlInv, SentInv, [Next]_vars
    PROVE  [Promised!Next]_Promised!session
<1>1. CASE \E c \in {"main", "ALRM"} : SendPing(c)
  BY <1>1, SendPingMaps
<1>2. CASE Receive
  BY <1>2, ReceiveMaps
<1>3. CASE Signals
  BY <1>3, SignalMaps
<1>4. CASE UNCHANGED vars
  BY <1>4, Unseen DEF vars, counters, clock, outcome
<1> QED BY <1>1, <1>2, <1>3, <1>4 DEF Next, Signals, Done

(***************************************************************************)
(* The running program keeps the safety part of what a session promises.   *)
(***************************************************************************)
THEOREM SessionKept == Spec => KeepsSafe
<1>1. Init => SentInv /\ Promised!Init
  BY SentInit, InitMaps
<1>2. TypeOK /\ ControlInv /\ SentInv /\ [Next]_vars => SentInv'
  BY SentStep
<1>3. TypeOK /\ ControlInv /\ SentInv /\ [Next]_vars => [Promised!Next]_Promised!session
  BY StepMaps
<1> QED BY <1>1, <1>2, <1>3, ControlCorrect, PTL DEF Spec, KeepsSafe, Promised!Safe
=============================================================================
