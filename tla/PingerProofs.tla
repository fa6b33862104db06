---------------------------- MODULE PingerProofs ----------------------------
(***************************************************************************)
(* Theorems about the control flow of ping3, for every value of the        *)
(* constants of Pinger.  TypeOK and ControlInv together are inductive: one *)
(* lemma per part of the program shows that its steps keep TypeOK, one     *)
(* that they keep ControlInv.                                              *)
(***************************************************************************)
EXTENDS Pinger, TLAPS

USE CountAssumption, ArrayAssumption, NetworkAssumption, SignalAssumption,
    OptionAssumption
    DEF Attempts, Continuous, Finishers, Displayers, Contexts, Other

(* A slot is an index of the arrays, and a sequence number fits its field.  *)
LEMMA SlotInRange ==
    ASSUME NEW n \in Nat
    PROVE  /\ n % SeqMod \in 0 .. SeqMod - 1
           /\ Slot(n) \in 0 .. Slots - 1
BY DEF Slot

(* The types of the control flow are kept by its three transfers.           *)
LEMMA FlowTransfers ==
    ASSUME FlowOK, NEW c \in Contexts, NEW place \in Labels,
           Goto(c, place) \/ Return(c) \/ Enter(c, place)
    PROVE  FlowOK'
BY DEF FlowOK, Goto, Return, Enter, Labels, MainLabels

(* What a step leaves unchanged keeps its type.                             *)
LEMMA UnchangedTypes ==
    /\ CountersOK /\ UNCHANGED counters => CountersOK'
    /\ ArraysOK /\ UNCHANGED arrays => ArraysOK'
    /\ BuffersOK /\ UNCHANGED buffers => BuffersOK'
    /\ ClockOK /\ UNCHANGED clock => ClockOK'
    /\ NetworkOK /\ UNCHANGED network => NetworkOK'
    /\ OutcomeOK /\ UNCHANGED <<interrupts, outcome>> => OutcomeOK'
BY DEF CountersOK, ArraysOK, BuffersOK, ClockOK, NetworkOK, OutcomeOK,
       counters, arrays, buffers, clock, network, outcome

LEMMA InitOK == Init => TypeOK /\ ControlInv
<1> SUFFICES ASSUME Init PROVE TypeOK /\ ControlInv
  OBVIOUS
<1>1. TypeOK
  <2>1. FlowOK
    BY DEF Init, FlowOK, Labels, SendLabels
  <2>2. /\ sequenceID_Array \in [0 .. Slots - 1 -> 0 .. SeqMod - 1]
        /\ timeSentArray \in [0 .. Slots - 1 -> Attempts \cup {Other}]
        /\ timeReceivedArray \in [0 .. Slots - 1 -> Attempts \cup {Other}]
    BY DEF Init
  <2>3. /\ copies \in [Attempts -> 0 .. MaxReplies]
        /\ finalReport \in [sent: Nat, received: Nat, attempts: Nat]
    BY DEF Init, NoReport
  <2> QED BY <2>1, <2>2, <2>3 DEF Init, TypeOK, CountersOK, ArraysOK, BuffersOK,
                                 ClockOK, NetworkOK, OutcomeOK
<1>2. pc["main"] = "flag" /\ pc["ALRM"] = "idle" /\ \A s \in UserSignals : pc[s] = "idle"
  BY DEF Init
<1>3. PlacesInv
  BY <1>2 DEF PlacesInv, SendLabels, MainLabels, FinishLabels
<1>4. PendingInv
  BY <1>2 DEF Init, PendingInv, SendLabels, EarlyLabels, OpenLabels
<1>5. AccountInv
  BY <1>2 DEF Init, AccountInv, SendLabels, EarlyLabels, OpenLabels, FinishLabels, InSend
<1>6. AcceptedInv
  BY <1>2 DEF AcceptedInv
<1> QED BY <1>1, <1>3, <1>4, <1>5, <1>6 DEF ControlInv

-----------------------------------------------------------------------------
LEMMA SendPingTypes ==
    ASSUME TypeOK, ControlInv, NEW c \in {"main", "ALRM"}, SendPing(c)
    PROVE  TypeOK'
<1> USE UnchangedTypes DEF TypeOK
<1>1. FlowOK'
  <2>1. (\E place \in Labels : Goto(c, place)) \/ Return(c)
    BY DEF SendPing, Flag, Bump, Record, OptionRefused, Xmit, XmitFails,
           CountSent, Rearm, SetTimer, Labels, SendLabels
  <2> QED BY <2>1, FlowTransfers DEF Labels
<1>2. CASE Flag(c) \/ OptionRefused(c) \/ XmitFails(c)
  BY <1>1, <1>2 DEF Flag, OptionRefused, XmitFails
<1>3. CASE Bump(c)
  BY <1>1, <1>3 DEF Bump, CountersOK
<1>4. CASE Record(c)
  <2>1. attempts \in Attempts /\ icmpHdrID \in 0 .. SeqMod - 1
    BY <1>4, SlotInRange DEF Record, At, ControlInv, AccountInv, InSend, OpenLabels, icmpHdrID
  <2>2. ArraysOK'
    BY <1>4, <2>1 DEF Record, ReceiveTimesCleared, ArraysOK
  <2>3. BuffersOK'
    BY <1>4, <2>1 DEF Record, BuffersOK
  <2> QED BY <1>1, <1>4, <2>2, <2>3 DEF Record
<1>5. CASE Xmit(c)
  <2>1. attempts \in Attempts
    BY <1>5 DEF Xmit, At, ControlInv, AccountInv, InSend, OpenLabels
  <2>2. NetworkOK'
    BY <1>5, <2>1 DEF Xmit, NetworkOK
  <2> QED BY <1>1, <1>5, <2>2 DEF Xmit
<1>6. CASE CountSent(c)
  BY <1>1, <1>6 DEF CountSent, CountersOK
<1>7. CASE Rearm(c)
  <2>1. CountersOK' /\ ClockOK'
    BY <1>7 DEF Rearm, Handler, CountersOK, ClockOK
  <2> QED BY <1>1, <1>7, <2>1 DEF Rearm
<1>8. CASE SetTimer(c, "wait") \/ SetTimer(c, "interval")
  BY <1>1, <1>8 DEF SetTimer, Armed, ClockOK
<1> QED
  BY <1>2, <1>3, <1>4, <1>5, <1>6, <1>7, <1>8 DEF SendPing

LEMMA SendPingControl ==
    ASSUME TypeOK, ControlInv, NEW c \in {"main", "ALRM"}, SendPing(c)
    PROVE  ControlInv'
<1> USE DEF TypeOK, FlowOK, At, Goto, ControlInv, PlacesInv, PendingInv,
            AccountInv, AcceptedInv, SendLabels, EarlyLabels, OpenLabels,
            MainLabels, FinishLabels, InSend, clock, counters, buffers
<1>1. CASE Flag(c)
  BY <1>1 DEF Flag
<1>2. CASE Bump(c)
  BY <1>2 DEF Bump, CountersOK
<1>3. CASE Record(c)
  BY <1>3 DEF Record
<1>4. CASE OptionRefused(c) \/ XmitFails(c)
  BY <1>4 DEF OptionRefused, XmitFails
<1>5. CASE Xmit(c)
  BY <1>5 DEF Xmit
<1>6. CASE CountSent(c)
  BY <1>6 DEF CountSent
<1>7. CASE Rearm(c)
  BY <1>7 DEF Rearm, Handler, LastAttempt, CountersOK
<1>8. CASE SetTimer(c, "wait") \/ SetTimer(c, "interval")
  BY <1>8 DEF SetTimer, Armed, Return
<1> QED
  BY <1>1, <1>2, <1>3, <1>4, <1>5, <1>6, <1>7, <1>8 DEF SendPing

-----------------------------------------------------------------------------
LEMMA ReceiveTypes ==
    ASSUME TypeOK, ControlInv, Receive
    PROVE  TypeOK'
<1> USE UnchangedTypes DEF TypeOK
<1>1. CASE Loop
  <2>1. FlowOK'
    BY <1>1, FlowTransfers DEF Loop, FlowOK, Labels, MainLabels
  <2>2. OutcomeOK'
    BY <1>1 DEF Loop, OutcomeOK, outcome, Verdict
  <2> QED BY <1>1, <2>1, <2>2 DEF Loop
<1>2. CASE ~Loop
  <2>1. \E place \in Labels : Goto("main", place)
    BY <1>2 DEF Receive, Recv, RecvOther, RecvFails, Check, Compare, Stamp, Sample,
                Tally, Labels, MainLabels
  <2>2. FlowOK'
    BY <2>1, FlowTransfers
  <2>3. ASSUME NEW n \in Attempts, Recv(n) PROVE TypeOK'
    <3>1. NetworkOK' /\ BuffersOK'
      BY <2>3 DEF Recv, NetworkOK, BuffersOK
    <3> QED BY <2>2, <2>3, <3>1 DEF Recv
  <2>4. CASE RecvOther
    BY <2>2, <2>4 DEF RecvOther, BuffersOK
  <2>5. CASE RecvFails \/ Check \/ Compare
    BY <2>2, <2>5 DEF RecvFails, Check, Compare
  <2>6. CASE Stamp
    <3>1. ip4_DatagramRxd \in Attempts
      BY <2>6 DEF Stamp, At, BuffersOK, ControlInv, AcceptedInv
    <3>2. NetworkOK' /\ ArraysOK'
      BY <2>6, <3>1 DEF Stamp, NetworkOK, ArraysOK
    <3> QED BY <2>2, <2>6, <3>2 DEF Stamp
  <2>7. CASE Sample \/ Tally
    BY <2>2, <2>7 DEF Sample, Tally, CountersOK
  <2> QED BY <1>2, <2>3, <2>4, <2>5, <2>6, <2>7 DEF Receive
<1> QED BY <1>1, <1>2

LEMMA ReceiveControl ==
    ASSUME TypeOK, ControlInv, Receive
    PROVE  ControlInv'
<1> USE DEF TypeOK, FlowOK, At, Goto, ControlInv, PlacesInv, PendingInv,
            AccountInv, AcceptedInv, SendLabels, EarlyLabels, OpenLabels,
            MainLabels, FinishLabels, InSend, clock, counters, buffers
<1>1. CASE Loop
  BY <1>1 DEF Loop
<1>2. ASSUME NEW n \in Attempts, Recv(n) PROVE ControlInv'
  BY <1>2 DEF Recv
<1>3. CASE RecvOther \/ RecvFails
  BY <1>3 DEF RecvOther, RecvFails
<1>4. CASE Check
  BY <1>4 DEF Check, Accepted
<1>5. CASE Compare \/ Stamp
  BY <1>5 DEF Compare, Stamp
<1>6. CASE Sample \/ Tally
  BY <1>6 DEF Sample, Tally
<1> QED BY <1>1, <1>2, <1>3, <1>4, <1>5, <1>6 DEF Receive

-----------------------------------------------------------------------------
(* The timer, the signals and the handlers that end or print.               *)
Signals ==
    \/ Tick \/ Alarm \/ (\E s \in UserSignals : Interrupt(s))
    \/ Off \/ Stop
    \/ \E c \in ({"ALRM"} \cup UserSignals) : Finish(c) \/ Display(c)

LEMMA SignalTypes ==
    ASSUME TypeOK, ControlInv, Signals
    PROVE  TypeOK'
<1> USE UnchangedTypes DEF TypeOK
<1>1. CASE Tick
  BY <1>1 DEF Tick, FlowOK, ClockOK
<1>2. CASE Alarm
  <2>1. FlowOK'
    BY <1>2, FlowTransfers DEF Alarm, FlowOK, Labels, SendLabels, FinishLabels
  <2>2. ClockOK' /\ OutcomeOK'
    BY <1>2 DEF Alarm, ClockOK, OutcomeOK
  <2> QED BY <1>2, <2>1, <2>2 DEF Alarm
<1>3. ASSUME NEW s \in UserSignals, Interrupt(s) PROVE TypeOK'
  <2>1. FlowOK'
    BY <1>3, FlowTransfers DEF Interrupt, Labels, FinishLabels
  <2>2. OutcomeOK'
    BY <1>3 DEF Interrupt, OutcomeOK, outcome
  <2> QED BY <1>3, <2>1, <2>2 DEF Interrupt
<1>4. CASE Off \/ Stop
  <2>1. FlowOK'
    BY <1>4, FlowTransfers DEF Off, Stop, Labels, FinishLabels
  <2>2. ClockOK'
    BY <1>4 DEF Off, Stop, ClockOK
  <2> QED BY <1>4, <2>1, <2>2 DEF Off, Stop
<1>5. ASSUME NEW c \in {"ALRM"} \cup UserSignals, Finish(c) \/ Display(c)
      PROVE  TypeOK'
  <2>1. FlowOK'
    BY <1>5, FlowTransfers DEF Finish, Report, Exit, Display, FlowOK, Labels, FinishLabels
  <2>2. OutcomeOK'
    BY <1>5 DEF Finish, Report, Exit, Display, Verdict, OutcomeOK, CountersOK, outcome
  <2> QED BY <1>5, <2>1, <2>2 DEF Finish, Report, Exit, Display
<1> QED BY <1>1, <1>2, <1>3, <1>4, <1>5 DEF Signals

LEMMA SignalControl ==
    ASSUME TypeOK, ControlInv, Signals
    PROVE  ControlInv'
<1> USE DEF TypeOK, FlowOK, At, Goto, Enter, Return, ControlInv, PlacesInv,
            PendingInv, AccountInv, AcceptedInv, SendLabels, EarlyLabels,
            OpenLabels, MainLabels, FinishLabels, InSend, clock, counters, buffers
<1>1. CASE Tick
  BY <1>1 DEF Tick
<1>2. CASE Alarm
  <2>1. CASE sigalrm = "sendPing"
    BY <1>2, <2>1 DEF Alarm, CountersOK
  <2>2. CASE sigalrm = "finish"
    BY <1>2, <2>2 DEF Alarm
  <2> QED BY <1>2, <2>1, <2>2 DEF Alarm, ClockOK
<1>3. ASSUME NEW s \in UserSignals, Interrupt(s) PROVE ControlInv'
  BY <1>3 DEF Interrupt
<1>4. CASE Off
  BY <1>4 DEF Off
<1>5. CASE Stop
  BY <1>5 DEF Stop
<1>6. ASSUME NEW c \in {"ALRM"} \cup UserSignals, Finish(c) \/ Display(c)
      PROVE  ControlInv'
  BY <1>6 DEF Finish, Report, Exit, Display
<1> QED BY <1>1, <1>2, <1>3, <1>4, <1>5, <1>6 DEF Signals

-----------------------------------------------------------------------------
LEMMA StepOK ==
    ASSUME TypeOK, ControlInv, [Next]_vars
    PROVE  TypeOK' /\ ControlInv'
<1>1. CASE \E c \in {"main", "ALRM"} : SendPing(c)
  BY <1>1, SendPingTypes, SendPingControl
<1>2. CASE Receive
  BY <1>2, ReceiveTypes, ReceiveControl
<1>3. CASE Signals
  BY <1>3, SignalTypes, SignalControl
<1>4. CASE UNCHANGED vars
  <2>1. TypeOK'
    BY <1>4, UnchangedTypes DEF vars, TypeOK, FlowOK
  <2>2. ControlInv'
    BY <1>4 DEF vars, counters, buffers, clock, ControlInv, PlacesInv,
                PendingInv, AccountInv, AcceptedInv, InSend
  <2> QED BY <2>1, <2>2
<1> QED BY <1>1, <1>2, <1>3, <1>4 DEF Next, Signals, Done

(***************************************************************************)
(* The variables keep their types, and the control flow invariant holds,   *)
(* in every state of the program.                                          *)
(***************************************************************************)
THEOREM TypeCorrect == Spec => []TypeOK
<1>1. Init => TypeOK /\ ControlInv
  BY InitOK
<1>2. TypeOK /\ ControlInv /\ [Next]_vars => TypeOK' /\ ControlInv'
  BY StepOK
<1> QED BY <1>1, <1>2, PTL DEF Spec

THEOREM ControlCorrect == Spec => [](TypeOK /\ ControlInv)
<1>1. Init => TypeOK /\ ControlInv
  BY InitOK
<1>2. TypeOK /\ ControlInv /\ [Next]_vars => TypeOK' /\ ControlInv'
  BY StepOK
<1> QED BY <1>1, <1>2, PTL DEF Spec

(***************************************************************************)
(* main() never leaves its receive loop.                                   *)
(***************************************************************************)
THEOREM MainStays == Spec => []MainNeverReturns
<1>1. TypeOK /\ ControlInv => MainNeverReturns
  BY DEF ControlInv, AccountInv, MainNeverReturns
<1> QED BY <1>1, ControlCorrect, PTL

(***************************************************************************)
(* The timer never finds SIGALRM at its default action.                    *)
(***************************************************************************)
THEOREM AlarmNeverKills == Spec => []AlarmIsHandled
<1>1. TypeOK /\ ControlInv => AlarmIsHandled
  BY DEF ControlInv, PendingInv, AlarmIsHandled, EarlyLabels, OpenLabels, SendLabels
<1> QED BY <1>1, ControlCorrect, PTL

(***************************************************************************)
(* The program turns to ending itself only after all Count attempts.       *)
(***************************************************************************)
THEOREM AllAttemptsMade == Spec => []EveryAttemptIsMade
<1>1. TypeOK /\ ControlInv => EveryAttemptIsMade
  BY DEF TypeOK, CountersOK, ControlInv, AccountInv, InSend, EveryAttemptIsMade
<1> QED BY <1>1, ControlCorrect, PTL

-----------------------------------------------------------------------------
(* Numbers less than Slots apart differ modulo Slots.                       *)
LEMMA RemaindersDistinct ==
    ASSUME NEW a \in Nat, NEW b \in Nat, a < b, b - a < Slots
    PROVE  a % Slots # b % Slots
<1> DEFINE q == b \div Slots
           p == a \div Slots
<1>2. p \in Int /\ q \in Int /\ a = Slots * p + (a % Slots) /\ b = Slots * q + (b % Slots)
  OBVIOUS
<1> HIDE DEF p, q
<1>3. SUFFICES ASSUME a % Slots = b % Slots PROVE FALSE
  OBVIOUS
<1>4. b - a = Slots * (q - p)
  BY <1>2, <1>3
<1>5. q - p <= 0 \/ q - p >= 1
  BY <1>2
<1>6. Slots * (q - p) <= 0 \/ Slots * (q - p) >= Slots
  <2> DEFINE d == q - p
  <2>1. d \in Int
    BY <1>2
  <2> HIDE DEF d
  <2>2. d <= 0 => Slots * d <= 0
    BY <2>1
  <2>3. d >= 1 => Slots * d >= Slots
    BY <2>1
  <2> QED BY <1>2, <1>5, <2>1, <2>2, <2>3 DEF d
<1> QED BY <1>4, <1>6

(* Requests with numbers less than Slots apart have slots of their own,     *)
(* unless the sequence number wraps between them.                           *)
LEMMA SlotsDistinct ==
    ASSUME NEW a \in Nat, NEW b \in Nat, a < b, b - a < Slots,
           a \div SeqMod = b \div SeqMod
    PROVE  Slot(a) # Slot(b)
<1> DEFINE d == SeqMod * (b \div SeqMod)
           x == a % SeqMod
           y == b % SeqMod
<1>1. d \in Int /\ a = d + x /\ b = d + y /\ x \in Nat /\ y \in Nat
  OBVIOUS
<1>2. x < y /\ y - x < Slots
  <2> HIDE DEF d, x, y
  <2> QED BY <1>1
<1>3. a % SeqMod < b % SeqMod /\ (b % SeqMod) - (a % SeqMod) < Slots
  BY <1>2
<1> QED BY <1>1, <1>3, RemaindersDistinct DEF Slot

(* A number between two of the same round of sequence numbers is of that    *)
(* round.                                                                   *)
LEMMA RoundBefore ==
    ASSUME NEW a \in Nat, NEW b \in Nat, a <= b,
           a \div SeqMod = (b + 1) \div SeqMod
    PROVE  a \div SeqMod = b \div SeqMod
<1> DEFINE d == a \div SeqMod
           e == b \div SeqMod
<1>1. /\ d \in Int /\ e \in Int
      /\ SeqMod * d <= a /\ b + 1 < SeqMod * d + SeqMod
      /\ SeqMod * e <= b /\ b < SeqMod * e + SeqMod
  OBVIOUS
<1> HIDE DEF d, e
<1>2. SeqMod * (d - e) < SeqMod /\ SeqMod * (e - d) < SeqMod
  BY <1>1
<1>3. ASSUME NEW k \in Int, SeqMod * k < SeqMod PROVE k <= 0
  <2>1. k >= 1 => SeqMod * k >= SeqMod
    OBVIOUS
  <2> QED BY <1>3, <2>1
<1>4. d - e <= 0 /\ e - d <= 0
  BY <1>1, <1>2, <1>3
<1> QED BY <1>1, <1>4 DEF d, e

(* Replies are to requests that went out, and those were made.              *)
WireInv ==
    /\ \A n \in onWire : n <= attempts
    /\ \A n \in Attempts : copies[n] > 0 => n \in onWire
    /\ ip4_DatagramRxd \in onWire \cup {Other}

(* The slot of a request that went out holds its send time, until Slots     *)
(* other attempts have been made or the sequence number has wrapped.        *)
SentTimesInv ==
    /\ InSend({"xmit"}) => timeSentArray[Slot(attempts)] = attempts
    /\ \A n \in onWire : SlotIsKept(n) => timeSentArray[Slot(n)] = n

(* Without header options every attempt is recorded.                        *)
RecordedInv ==
    ~HeaderOptions =>
        \A n \in Attempts :
            SlotIsKept(n) /\ (InSend({"record"}) => n # attempts) =>
                timeSentArray[Slot(n)] = n

(* What was kept after another attempt was kept before it.                  *)
LEMMA KeptBefore ==
    ASSUME TypeOK, attempts' = attempts + 1, NEW n \in Attempts, n # attempts',
           SlotIsKept(n)'
    PROVE  SlotIsKept(n)
<1>1. attempts \in Nat /\ n \in Nat
  BY DEF TypeOK, CountersOK, Attempts
<1>2. attempts - Slots < n /\ n <= attempts /\ n \div SeqMod = (attempts + 1) \div SeqMod
  BY <1>1 DEF SlotIsKept
<1>3. n \div SeqMod = attempts \div SeqMod
  BY <1>1, <1>2, RoundBefore
<1> QED BY <1>2, <1>3 DEF SlotIsKept

TimesInv ==
    /\ TypeOK /\ ControlInv
    /\ WireInv /\ SentTimesInv /\ RecordedInv /\ ReceiveTimesBelong

LEMMA TimesInit == Init => TimesInv
<1> SUFFICES ASSUME Init PROVE TimesInv
  OBVIOUS
<1>1. TypeOK /\ ControlInv
  BY InitOK
<1>2. pc["main"] = "flag" /\ pc["ALRM"] = "idle" /\ attempts = 0 /\ onWire = {}
  BY DEF Init
<1>3. WireInv /\ SentTimesInv
  BY <1>2 DEF Init, WireInv, SentTimesInv, InSend
<1>4. RecordedInv /\ ReceiveTimesBelong
  BY <1>2 DEF Init, RecordedInv, ReceiveTimesBelong, SlotIsKept, Attempts
<1> QED BY <1>1, <1>3, <1>4 DEF TimesInv

(* What leaves arrays, attempts and network alone, and starts no record or  *)
(* transmission, keeps all four.                                            *)
LEMMA TimesUntouched ==
    ASSUME TimesInv, UNCHANGED <<attempts, arrays, ip4_DatagramRxd, network>>,
           InSend({"xmit"})' => InSend({"xmit"}),
           InSend({"record"}) => InSend({"record"})'
    PROVE  WireInv' /\ SentTimesInv' /\ RecordedInv' /\ ReceiveTimesBelong'
<1>1. WireInv'
  BY DEF TimesInv, WireInv, network
<1>2. SentTimesInv'
  BY DEF TimesInv, SentTimesInv, network, arrays, Slot, SlotIsKept
<1>3. RecordedInv'
  BY DEF TimesInv, RecordedInv, arrays, Slot, SlotIsKept
<1>4. ReceiveTimesBelong'
  BY DEF TimesInv, ReceiveTimesBelong, network, arrays
<1> QED BY <1>1, <1>2, <1>3, <1>4

LEMMA SendKeepsTimes ==
    ASSUME TimesInv, NEW c \in {"main", "ALRM"}, SendPing(c)
    PROVE  WireInv' /\ SentTimesInv' /\ RecordedInv' /\ ReceiveTimesBelong'
<1>1. /\ pc \in [Contexts -> Labels] /\ attempts \in Nat
      /\ ArraysOK /\ NetworkOK /\ BuffersOK /\ ControlInv
  BY DEF TimesInv, TypeOK, FlowOK, CountersOK
<1>2. \A d \in {"main", "ALRM"} : d # c => pc[d] \notin SendLabels
  BY <1>1 DEF ControlInv, PlacesInv, PendingInv, SendPing, Flag, Bump, Record,
         OptionRefused, Xmit, XmitFails, CountSent, Rearm, SetTimer, At,
         SendLabels, MainLabels, FinishLabels
<1>3. \A place \in SendLabels : InSend({place}) <=> pc[c] = place
  BY <1>2 DEF InSend
<1>4. \A place \in SendLabels :
        Goto(c, place) => \A l \in SendLabels : InSend({l})' <=> l = place
  BY <1>1, <1>2 DEF InSend, Goto
<1>5. CASE Flag(c) \/ XmitFails(c) \/ CountSent(c) \/ Rearm(c)
  <2>1. UNCHANGED <<attempts, arrays, ip4_DatagramRxd, network>>
    BY <1>5 DEF Flag, XmitFails, CountSent, Rearm, counters, buffers
  <2>2. ~InSend({"xmit"})' /\ ~InSend({"record"})
    BY <1>3, <1>4, <1>5 DEF Flag, XmitFails, CountSent, Rearm, At, SendLabels
  <2> QED BY <2>1, <2>2, TimesUntouched
<1>6. CASE OptionRefused(c)
  <2>1. /\ UNCHANGED <<attempts, arrays, ip4_DatagramRxd, network>>
        /\ ~InSend({"xmit"})' /\ HeaderOptions
    BY <1>3, <1>4, <1>6 DEF OptionRefused, At, SendLabels, counters, buffers
  <2>2. WireInv' /\ SentTimesInv' /\ ReceiveTimesBelong'
    BY <2>1 DEF TimesInv, WireInv, SentTimesInv, ReceiveTimesBelong, network, arrays,
           Slot, SlotIsKept
  <2> QED BY <2>1, <2>2 DEF RecordedInv
<1>7. CASE SetTimer(c, "wait") \/ SetTimer(c, "interval")
  <2>1. UNCHANGED <<attempts, arrays, ip4_DatagramRxd, network>>
    BY <1>7 DEF SetTimer, counters, buffers
  <2>2. ~InSend({"xmit"})' /\ ~InSend({"record"})
    BY <1>1, <1>2, <1>3, <1>7 DEF SetTimer, At, Return, InSend, SendLabels
  <2> QED BY <2>1, <2>2, TimesUntouched
<1>8. CASE Bump(c)
  <2>1. /\ attempts' = attempts + 1 /\ UNCHANGED <<arrays, buffers, network>>
        /\ ~InSend({"record"}) /\ InSend({"record"})' /\ ~InSend({"xmit"})'
    BY <1>3, <1>4, <1>8 DEF Bump, At, SendLabels
  <2>2. WireInv'
    BY <1>1, <2>1 DEF TimesInv, WireInv, network, buffers, NetworkOK
  <2>3. SentTimesInv'
    <3> SUFFICES ASSUME NEW n \in onWire, SlotIsKept(n)'
                 PROVE  timeSentArray[Slot(n)] = n
      BY <2>1 DEF SentTimesInv, network, arrays, Slot
    <3>1. n \in Attempts /\ n # attempts'
      BY <1>1, <2>1 DEF NetworkOK, TimesInv, WireInv
    <3>2. SlotIsKept(n)
      BY <2>1, <3>1, KeptBefore DEF TimesInv
    <3> QED BY <3>2 DEF TimesInv, SentTimesInv
  <2>4. RecordedInv'
    <3> SUFFICES ASSUME ~HeaderOptions, NEW n \in Attempts, SlotIsKept(n)', n # attempts'
                 PROVE  timeSentArray[Slot(n)] = n
      BY <2>1 DEF RecordedInv, arrays, Slot
    <3>1. SlotIsKept(n)
      BY <2>1, KeptBefore DEF TimesInv
    <3> QED BY <2>1, <3>1 DEF TimesInv, RecordedInv
  <2>5. ReceiveTimesBelong'
    BY <1>1, <2>1 DEF TimesInv, ReceiveTimesBelong, network, arrays
  <2> QED BY <2>2, <2>3, <2>4, <2>5
<1>9. CASE Record(c)
  <2>1. /\ UNCHANGED <<attempts, ip4_DatagramRxd, network>>
        /\ InSend({"record"}) /\ ~InSend({"record"})' /\ InSend({"xmit"})'
        /\ timeSentArray' = [timeSentArray EXCEPT ![Slot(attempts)] = attempts]
        /\ timeReceivedArray' = [timeReceivedArray EXCEPT ![Slot(attempts)] = Other]
    BY <1>3, <1>4, <1>9 DEF Record, At, SendLabels, counters, ReceiveTimesCleared
  <2>2. Slot(attempts) \in 0 .. Slots - 1
    BY <1>1, SlotInRange
  <2>3. /\ timeSentArray'[Slot(attempts)] = attempts
        /\ \A i \in 0 .. Slots - 1 : i # Slot(attempts) =>
              timeSentArray'[i] = timeSentArray[i]
    BY <1>1, <2>1, <2>2 DEF ArraysOK
  <2>4. ASSUME NEW n \in Attempts, SlotIsKept(n),
               n # attempts => timeSentArray[Slot(n)] = n
        PROVE  timeSentArray'[Slot(n)] = n
    <3>1. CASE n = attempts
      BY <2>3, <3>1
    <3>2. CASE n # attempts
      <4>1. n \in Nat /\ n < attempts /\ attempts - n < Slots
        BY <1>1, <2>4, <3>2 DEF SlotIsKept, Attempts
      <4>2. Slot(n) # Slot(attempts) /\ Slot(n) \in 0 .. Slots - 1
        BY <1>1, <2>4, <4>1, SlotsDistinct, SlotInRange DEF SlotIsKept
      <4> QED BY <2>3, <2>4, <3>2, <4>2
    <3> QED BY <3>1, <3>2
  <2>5. WireInv'
    BY <2>1 DEF TimesInv, WireInv, network
  <2>6. SentTimesInv'
    <3>1. timeSentArray'[Slot(attempts)'] = attempts'
      BY <2>1, <2>3 DEF Slot
    <3>2. ASSUME NEW n \in onWire', SlotIsKept(n)'
          PROVE  timeSentArray'[Slot(n)] = n
      <4>1. n \in Attempts /\ n \in onWire /\ SlotIsKept(n)
        BY <1>1, <2>1, <3>2 DEF NetworkOK, network, SlotIsKept
      <4> QED BY <2>1, <2>4, <3>2, <4>1 DEF TimesInv, SentTimesInv
    <3> QED BY <3>1, <3>2 DEF SentTimesInv, Slot
  <2>7. RecordedInv'
    <3>1. ASSUME ~HeaderOptions, NEW n \in Attempts, SlotIsKept(n)'
          PROVE  timeSentArray'[Slot(n)] = n
      <4>1. SlotIsKept(n)
        BY <2>1, <3>1 DEF SlotIsKept
      <4>2. n # attempts => timeSentArray[Slot(n)] = n
        BY <3>1, <4>1 DEF TimesInv, RecordedInv
      <4> QED BY <2>4, <4>1, <4>2
    <3> QED BY <3>1 DEF RecordedInv, Slot
  <2>8. ReceiveTimesBelong'
    BY <1>1, <2>1, <2>2, <2>3 DEF TimesInv, ReceiveTimesBelong, ArraysOK, network
  <2> QED BY <2>5, <2>6, <2>7, <2>8
<1>10. CASE Xmit(c)
  <2>1. /\ UNCHANGED <<attempts, arrays, ip4_DatagramRxd, late>>
        /\ InSend({"xmit"}) /\ ~InSend({"xmit"})'
        /\ ~InSend({"record"}) /\ ~InSend({"record"})'
        /\ onWire' = onWire \cup {attempts}
    BY <1>3, <1>4, <1>10 DEF Xmit, At, SendLabels, counters, buffers
  <2>2. PICK k \in 0 .. MaxReplies : copies' = [copies EXCEPT ![attempts] = k]
    BY <1>10 DEF Xmit
  <2>3. WireInv'
    BY <1>1, <2>1, <2>2 DEF TimesInv, WireInv, NetworkOK
  <2>4. SentTimesInv'
    BY <1>1, <2>1 DEF TimesInv, SentTimesInv, arrays, Slot, SlotIsKept
  <2>5. RecordedInv'
    BY <2>1 DEF TimesInv, RecordedInv, arrays, Slot, SlotIsKept
  <2>6. ReceiveTimesBelong'
    BY <2>1 DEF TimesInv, ReceiveTimesBelong, arrays
  <2> QED BY <2>3, <2>4, <2>5, <2>6
<1> QED BY <1>5, <1>6, <1>7, <1>8, <1>9, <1>10 DEF SendPing

LEMMA ReceiveKeepsTimes ==
    ASSUME TimesInv, Receive
    PROVE  WireInv' /\ SentTimesInv' /\ RecordedInv' /\ ReceiveTimesBelong'
<1>1. /\ pc \in [Contexts -> Labels] /\ attempts \in Nat
      /\ ArraysOK /\ NetworkOK /\ BuffersOK /\ ControlInv
  BY DEF TimesInv, TypeOK, FlowOK, CountersOK
<1>2. \A place \in {"xmit", "record"} : InSend({place})' <=> InSend({place})
  BY <1>1 DEF InSend, Receive, Loop, Recv, RecvOther, RecvFails, Check, Compare, Stamp,
         Sample, Tally, Goto, At
<1>3. UNCHANGED <<attempts, timeSentArray, onWire>>
  BY DEF Receive, Loop, Recv, RecvOther, RecvFails, Check, Compare, Stamp,
         Sample, Tally, counters, arrays, network
<1>4. SentTimesInv' /\ RecordedInv'
  BY <1>2, <1>3 DEF TimesInv, SentTimesInv, RecordedInv, Slot, SlotIsKept
<1>5. CASE Loop \/ RecvFails \/ Check \/ Compare \/ Sample \/ Tally
  <2>1. UNCHANGED <<attempts, arrays, ip4_DatagramRxd, network>>
    BY <1>5 DEF Loop, RecvFails, Check, Compare, Sample, Tally, counters, buffers
  <2> QED BY <1>2, <2>1, TimesUntouched
<1>6. ASSUME NEW n \in Attempts, Recv(n) PROVE WireInv' /\ ReceiveTimesBelong'
  <2>1. /\ n \in onWire /\ ip4_DatagramRxd' = n /\ UNCHANGED <<arrays, late>>
        /\ copies' = [copies EXCEPT ![n] = @ - 1]
    BY <1>6 DEF Recv, TimesInv, WireInv
  <2>2. WireInv'
    BY <1>1, <1>3, <2>1 DEF TimesInv, WireInv, NetworkOK
  <2> QED BY <1>3, <2>1, <2>2 DEF TimesInv, ReceiveTimesBelong, arrays
<1>7. CASE RecvOther
  <2>1. UNCHANGED <<attempts, arrays, network>> /\ ip4_DatagramRxd' = Other
    BY <1>7 DEF RecvOther, counters
  <2> QED BY <1>3, <1>4, <2>1 DEF TimesInv, WireInv, ReceiveTimesBelong, network, arrays
<1>8. CASE Stamp
  <2>1. WireInv'
    BY <1>3, <1>8 DEF Stamp, TimesInv, WireInv, buffers
  <2>2. ip4_DatagramRxd \in onWire /\ ip4_DatagramRxd \in Attempts
    BY <1>1, <1>8 DEF Stamp, At, TimesInv, WireInv, ControlInv, AcceptedInv, BuffersOK
  <2>3. ReceiveTimesBelong'
    <3> SUFFICES ASSUME late' = {}
                 PROVE  \A i \in 0 .. Slots - 1 :
                            timeReceivedArray'[i] \in {Other, timeSentArray[i]}
      BY <1>3 DEF ReceiveTimesBelong
    <3>1. late = {} /\ SlotIsKept(ip4_DatagramRxd)
      BY <1>1, <1>8, <2>2 DEF Stamp
    <3>2. timeSentArray[Slot(ip4_DatagramRxd)] = ip4_DatagramRxd
      BY <2>2, <3>1 DEF TimesInv, SentTimesInv
    <3> QED BY <1>1, <1>8, <3>1, <3>2 DEF Stamp, TimesInv, ReceiveTimesBelong, ArraysOK
  <2> QED BY <1>4, <2>1, <2>3
<1>9. \/ Loop \/ RecvFails \/ Check \/ Compare \/ Sample \/ Tally
      \/ (\E n \in Attempts : Recv(n)) \/ RecvOther \/ Stamp
  BY DEF Receive
<1> QED BY <1>4, <1>5, <1>6, <1>7, <1>8, <1>9

LEMMA TimesStep == TimesInv /\ [Next]_vars => TimesInv'
<1> SUFFICES ASSUME TimesInv, [Next]_vars PROVE TimesInv'
  OBVIOUS
<1>1. TypeOK' /\ ControlInv'
  BY StepOK DEF TimesInv
<1>2. ASSUME NEW c \in {"main", "ALRM"}, SendPing(c) PROVE TimesInv'
  BY <1>1, <1>2, SendKeepsTimes DEF TimesInv
<1>3. CASE Receive
  BY <1>1, <1>3, ReceiveKeepsTimes DEF TimesInv
<1>4. CASE Signals \/ UNCHANGED vars
  <2>1. UNCHANGED <<attempts, arrays, ip4_DatagramRxd, network>>
    BY <1>4 DEF Signals, Tick, Alarm, Interrupt, Off, Stop, Finish, Report, Exit,
                Display, vars, counters, buffers
  <2>2. \A place \in {"xmit", "record"} : InSend({place})' <=> InSend({place})
    BY <1>4 DEF Signals, Tick, Alarm, Interrupt, Off, Stop, Finish, Report, Exit,
                Display, vars, InSend, Goto, Enter, Return, At, TimesInv, TypeOK, FlowOK
  <2> QED BY <1>1, <2>1, <2>2, TimesUntouched DEF TimesInv
<1> QED BY <1>2, <1>3, <1>4 DEF Next, Signals, Done

(***************************************************************************)
(* Send times, receive times and requests belong together.                 *)
(***************************************************************************)
THEOREM TimesCorrect == Spec => []TimesInv
BY TimesInit, TimesStep, PTL DEF Spec

(***************************************************************************)
(* A round trip is measured from the sending of the request it answers, for*)
(* replies less than Slots attempts late, however often the sequence number*)
(* has wrapped, but not over the wrap (ping3.c:674-679).                   *)
(***************************************************************************)
THEOREM RoundTripsBelong == Spec => []RoundTripOfItsRequest
<1>1. TimesInv => RoundTripOfItsRequest
  <2> SUFFICES ASSUME TimesInv, pc["main"] = "sample",
                      SlotIsKept(ip4_DatagramRxd)
               PROVE  timeSentArray[Slot(ip4_DatagramRxd)] = ip4_DatagramRxd
    BY DEF RoundTripOfItsRequest
  <2>1. ip4_DatagramRxd \in onWire
    BY DEF TimesInv, WireInv, ControlInv, AcceptedInv
  <2> QED BY <2>1 DEF TimesInv, SentTimesInv
<1> QED BY <1>1, TimesCorrect, PTL

(***************************************************************************)
(* A receive time stands beside the send time of its own request           *)
(* (ping3.c:320-323, 676).                                                 *)
(***************************************************************************)
THEOREM ReceiveTimesStay == Spec => []ReceiveTimesBelong
<1>1. TimesInv => ReceiveTimesBelong
  BY DEF TimesInv
<1> QED BY <1>1, TimesCorrect, PTL

(***************************************************************************)
(* When the requests are counted, "No ICMP reply" tells the time since the *)
(* sending of the request it names (ping3.c:932-939).                      *)
(***************************************************************************)
THEOREM FlagsTellTheirTime == ~Continuous => (Spec => []FlagTimesTheRequest)
<1> SUFFICES ASSUME ~Continuous PROVE Spec => []FlagTimesTheRequest
  OBVIOUS
<1>1. TimesInv => FlagTimesTheRequest
  <2> SUFFICES ASSUME TimesInv, NEW c \in Sender, pc[c] = "flag"
               PROVE  /\ FlagIndex < Slots
                      /\ attempts \in onWire => timeSentArray[FlagIndex] = attempts
    BY DEF FlagTimesTheRequest
  <2>1. attempts \in Nat /\ attempts + 1 <= Count
    BY DEF Sender, TimesInv, TypeOK, CountersOK, ControlInv, AccountInv, InSend, EarlyLabels
  <2>2. SlotIsKept(attempts) /\ FlagIndex = attempts /\ Slot(attempts) = attempts
    BY <2>1 DEF FlagIndex, icmpHdrID, Slot, SlotIsKept
  <2> QED BY <2>1, <2>2 DEF TimesInv, SentTimesInv
<1> QED BY <1>1, TimesCorrect, PTL

(***************************************************************************)
(* Without header options that the kernel may refuse, the statistics list  *)
(* the last Slots attempts, at any time, but those made before the         *)
(* sequence number wrapped last (ping3.c:261, 868-888).                    *)
(***************************************************************************)
THEOREM LastSlotsAreListed == ~HeaderOptions => (Spec => []LastSlotsListed)
<1> SUFFICES ASSUME ~HeaderOptions PROVE Spec => []LastSlotsListed
  OBVIOUS
<1>1. TimesInv => LastSlotsListed
  BY DEF TimesInv, RecordedInv, LastSlotsListed, Sender, InSend, SendLabels
<1> QED BY <1>1, TimesCorrect, PTL
=============================================================================
