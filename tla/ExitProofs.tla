----------------------------- MODULE ExitProofs -----------------------------
(***************************************************************************)
(* The exit status, for every value of the constants of Pinger: how the    *)
(* contexts lie on top of each other when the program ends, and what the   *)
(* totals say of the requests and replies.                                 *)
(***************************************************************************)
EXTENDS PingerProofs, FiniteSetTheorems

USE CountAssumption, ArrayAssumption, NetworkAssumption, SignalAssumption,
    OptionAssumption
    DEF Attempts, Continuous, Finishers, Displayers, Contexts, Other

Active == {c \in Contexts : pc[c] # "idle"}

(* The active contexts are a stack: rank counts those below.                *)
Stacked(rank) ==
    /\ rank \in [Contexts -> Nat] /\ rank["main"] = 0
    /\ running \in Active
    /\ \A c \in Active : rank[c] <= rank[running]
    /\ \A c, d \in Active : rank[c] = rank[d] => c = d
    /\ \A c \in Active \ {"main"} :
          under[c] \in Active /\ rank[c] = rank[under[c]] + 1

(* A handler has printed its report and not yet called exit().              *)
Leaving == \E c \in Contexts : pc[c] = "exit"

(* An attempt that may still be counted, since nothing above it ends the    *)
(* program, was made after the last report.                                 *)
ReportPrecedes(rank) ==
    /\ pc["ALRM"] \in {"record", "xmit", "count"} /\ Leaving
    /\ \A c \in Active : rank[c] > rank["ALRM"] => pc[c] = "display"
    => finalReport.attempts < attempts

StackInv == \E rank : Stacked(rank) /\ ReportPrecedes(rank)

(* What was reported stays true until another attempt is made, and the      *)
(* status is the verdict on the totals.                                     *)
LeavingInv ==
    /\ finalReport.attempts <= attempts
    /\ Leaving /\ finalReport.attempts = attempts =>
          finalReport.sent = pingsSent /\ finalReport.received = pingsReceived
    /\ status # "running" => Leaving /\ status = Verdict

(* The totals count the requests that went out and the replies that came    *)
(* in, but for the one in between.                                          *)
One(p) == IF p THEN 1 ELSE 0
TotalsInv ==
    /\ got \subseteq onWire
    /\ InSend({"record", "xmit"}) => attempts \notin onWire
    /\ InSend({"count"}) => attempts \in onWire \ got
    /\ Cardinality(onWire) = pingsSent + One(InSend({"count"}))
    /\ Cardinality(got) <= pingsReceived + One(ReplyInHand)
    /\ MaxReplies = 1 => /\ Cardinality(got) = pingsReceived + One(ReplyInHand)
                         /\ \A n \in got : copies[n] = 0

ExitInv == TimesInv /\ StackInv /\ LeavingInv /\ TotalsInv

LEMMA ExitInit == Init => ExitInv
<1> SUFFICES ASSUME Init PROVE ExitInv
  OBVIOUS
<1>1. TimesInv
  BY TimesInit
<1>2. /\ pc = [c \in Contexts |-> IF c = "main" THEN "flag" ELSE "idle"]
      /\ running = "main"
  BY DEF Init
<1>3. Active = {"main"}
  BY <1>2 DEF Active
<1>4. StackInv
  <2> DEFINE rank == [c \in Contexts |-> 0]
  <2>1. Stacked(rank)
    BY <1>2, <1>3 DEF Stacked
  <2>2. ReportPrecedes(rank)
    BY <1>2 DEF ReportPrecedes
  <2> QED BY <2>1, <2>2 DEF StackInv
<1>5. LeavingInv
  BY <1>2 DEF Init, NoReport, LeavingInv, Leaving
<1>6. TotalsInv
  BY <1>2, FS_EmptySet DEF Init, TotalsInv, InSend, ReplyInHand, One
<1> QED BY <1>1, <1>4, <1>5, <1>6 DEF ExitInv

-----------------------------------------------------------------------------
(* The three transfers of control keep the stack.                           *)

LEMMA GotoStacked ==
    ASSUME FlowOK, NEW rank, Stacked(rank), NEW place \in Labels \ {"idle"},
           Goto(running, place)
    PROVE  Stacked(rank)' /\ Active' = Active
<1>1. Active' = Active /\ running' = running /\ under' = under
  BY DEF FlowOK, Stacked, Goto, Active
<1> QED BY <1>1 DEF Stacked

LEMMA EnterStacked ==
    ASSUME FlowOK, NEW rank, Stacked(rank), NEW place \in Labels \ {"idle"},
           NEW c \in Contexts \ {"main"}, pc[c] = "idle", Enter(c, place),
           NEW new, new = [rank EXCEPT ![c] = rank[running] + 1]
    PROVE  Stacked(new)' /\ Active' = Active \cup {c} /\ c \notin Active
<1>1. Active' = Active \cup {c} /\ c \notin Active /\ running' = c
  BY DEF FlowOK, Enter, Active
<1>2. /\ under'[c] = running /\ \A d \in Active : under'[d] = under[d]
  BY <1>1 DEF FlowOK, Enter, Active
<1>3. /\ new \in [Contexts -> Nat] /\ new["main"] = 0
      /\ new[c] = rank[running] + 1 /\ \A d \in Active : new[d] = rank[d]
  BY <1>1 DEF Stacked, Active
<1>4. running \in Active /\ \A d \in Active : rank[d] \in Nat /\ rank[d] <= rank[running]
  BY DEF Stacked, Active
<1>5. \A d \in Active' : new[d] <= new[running']
  BY <1>1, <1>3, <1>4
<1>6. \A d, e \in Active' : new[d] = new[e] => d = e
  BY <1>1, <1>3, <1>4 DEF Stacked
<1>7. \A d \in Active' \ {"main"} :
          under'[d] \in Active' /\ new[d] = new[under'[d]] + 1
  BY <1>1, <1>2, <1>3, <1>4 DEF Stacked
<1> QED BY <1>1, <1>3, <1>5, <1>6, <1>7 DEF Stacked

LEMMA ReturnStacked ==
    ASSUME FlowOK, NEW rank, Stacked(rank), running # "main", Return(running)
    PROVE  Stacked(rank)' /\ Active' = Active \ {running}
<1>1. /\ Active' = Active \ {running} /\ running' = under[running] /\ under' = under
  BY DEF FlowOK, Return, Active, Stacked
<1>2. running \in Active \ {"main"} /\ \A d \in Active : rank[d] \in Nat
  BY DEF Stacked, Active
<1>3. running' \in Active' /\ rank[running] = rank[running'] + 1
  BY <1>1, <1>2 DEF Stacked
<1>4. \A d \in Active' : rank[d] <= rank[running']
  BY <1>1, <1>2, <1>3 DEF Stacked
<1>5. \A d \in Active' \ {"main"} : under'[d] \in Active'
  <2> SUFFICES ASSUME NEW d \in Active' \ {"main"} PROVE under[d] \in Active'
    BY <1>1
  <2>1. under[d] \in Active /\ rank[d] = rank[under[d]] + 1
    BY <1>1 DEF Stacked
  <2>2. rank[d] <= rank[running']
    BY <1>4
  <2>3. under[d] # running
    BY <1>1, <1>2, <1>3, <2>1, <2>2
  <2> QED BY <1>1, <2>1, <2>3
<1> QED BY <1>1, <1>3, <1>4, <1>5 DEF Stacked

(* While main() runs, nothing lies on top of it.                            *)
LEMMA MainAlone ==
    ASSUME FlowOK, PlacesInv, StackInv, running = "main"
    PROVE  \A c \in Contexts \ {"main"} : pc[c] = "idle"
<1>1. PICK rank : Stacked(rank)
  BY DEF StackInv
<1>2. "main" \in Active
  BY DEF PlacesInv, Active, SendLabels, MainLabels
<1>3. \A c \in Active : rank[c] = rank["main"]
  BY <1>1, <1>2 DEF Stacked, Active
<1> QED BY <1>1, <1>2, <1>3 DEF Stacked, Active

-----------------------------------------------------------------------------
(* main() and its sendPing(0): alone, so nothing has been reported.         *)

LEMMA MainKeepsExit ==
    ASSUME ExitInv, running = "main", running' = "main", status = "running",
           under' = under, finalReport' = finalReport,
           NEW place \in (SendLabels \cup MainLabels),
           pc' = [pc EXCEPT !["main"] = place], attempts' \in {attempts, attempts + 1},
           status' = "running"
    PROVE  StackInv' /\ LeavingInv'
<1>1. FlowOK /\ PlacesInv /\ attempts \in Nat /\ finalReport.attempts \in Nat
  BY DEF ExitInv, TimesInv, TypeOK, CountersOK, OutcomeOK, ControlInv
<1>2. \A c \in Contexts \ {"main"} : pc[c] = "idle" /\ pc'[c] = "idle"
  BY <1>1, MainAlone DEF ExitInv, FlowOK
<1>3. pc'["main"] = place /\ place \in Labels \ {"idle"}
  BY <1>1 DEF FlowOK, Labels, SendLabels, MainLabels
<1>4. ~Leaving'
  BY <1>2, <1>3 DEF Leaving, SendLabels, MainLabels
<1>5. PICK rank : Stacked(rank)
  BY DEF ExitInv, StackInv
<1>6. Goto(running, place)
  BY DEF Goto
<1>7. Stacked(rank)'
  BY <1>1, <1>3, <1>5, <1>6, GotoStacked
<1>8. StackInv'
  BY <1>4, <1>7 DEF StackInv, ReportPrecedes
<1>9. LeavingInv'
  BY <1>1, <1>4 DEF ExitInv, LeavingInv
<1> QED BY <1>8, <1>9

(* sendPing() as the handler of SIGALRM.                                    *)
LEMMA HandlerKeepsExit ==
    ASSUME ExitInv, SendPing("ALRM")
    PROVE  StackInv' /\ LeavingInv'
<1>1. /\ FlowOK /\ attempts \in Nat /\ finalReport.attempts \in Nat
      /\ pingsSent \in Nat /\ PlacesInv
  BY DEF ExitInv, TimesInv, TypeOK, CountersOK, OutcomeOK, ControlInv
<1>2. /\ running = "ALRM" /\ status = "running" /\ UNCHANGED <<finalReport, status>>
      /\ UNCHANGED pingsReceived /\ pc["ALRM"] \in SendLabels
  BY DEF SendPing, Flag, Bump, Record, OptionRefused, Xmit, XmitFails, CountSent,
         Rearm, SetTimer, At, counters, outcome, SendLabels
<1>3. PICK rank : Stacked(rank) /\ ReportPrecedes(rank)
  BY DEF ExitInv, StackInv
<1>4. \A c \in Active : ~(rank[c] > rank["ALRM"])
  BY <1>1, <1>2, <1>3 DEF Stacked, Active
<1>5. pc["ALRM"] \in {"record", "xmit", "count"} /\ Leaving => finalReport.attempts < attempts
  BY <1>3, <1>4 DEF ReportPrecedes
<1>6. \A c \in Contexts \ {"ALRM"} : pc'[c] = pc[c]
  BY <1>1 DEF FlowOK, SendPing, Flag, Bump, Record, OptionRefused, Xmit, XmitFails,
         CountSent, Rearm, SetTimer, Goto, Return
<1>7. pc'["ALRM"] \in SendLabels \cup {"idle"}
  BY <1>1 DEF FlowOK, SendPing, Flag, Bump, Record, OptionRefused, Xmit, XmitFails,
         CountSent, Rearm, SetTimer, Goto, Return, SendLabels
<1>8. Leaving' <=> Leaving
  BY <1>1, <1>2, <1>6, <1>7 DEF Leaving, SendLabels
<1>9. Stacked(rank)'
  <2>1. (\E place \in Labels \ {"idle"} : Goto(running, place)) \/ Return(running)
    BY <1>2 DEF SendPing, Flag, Bump, Record, OptionRefused, Xmit, XmitFails,
           CountSent, Rearm, SetTimer, Labels, SendLabels
  <2> QED BY <1>1, <1>2, <1>3, <2>1, GotoStacked, ReturnStacked
<1>10. \/ attempts' = attempts + 1 /\ pingsSent' = pingsSent
       \/ /\ attempts' = attempts
          /\ pc'["ALRM"] \in {"record", "xmit", "count"} =>
                pc["ALRM"] \in {"record", "xmit", "count"}
          /\ pingsSent' # pingsSent => pc["ALRM"] = "count"
  <2>1. CASE Bump("ALRM")
    BY <2>1 DEF Bump
  <2>2. CASE Flag("ALRM") \/ Record("ALRM") \/ Xmit("ALRM") \/ OptionRefused("ALRM")
             \/ XmitFails("ALRM")
    BY <1>1, <2>2 DEF Flag, Record, Xmit, OptionRefused, XmitFails, At, Goto, FlowOK, counters
  <2>3. CASE CountSent("ALRM")
    BY <1>1, <2>3 DEF CountSent, At, Goto, FlowOK
  <2>4. CASE Rearm("ALRM") \/ SetTimer("ALRM", "wait") \/ SetTimer("ALRM", "interval")
    BY <1>1, <2>4 DEF Rearm, SetTimer, At, Goto, Return, FlowOK, counters
  <2> QED BY <2>1, <2>2, <2>3, <2>4 DEF SendPing
<1>11. pc'["ALRM"] \in {"record", "xmit", "count"} /\ Leaving' =>
          finalReport'.attempts < attempts'
  BY <1>1, <1>2, <1>5, <1>8, <1>10 DEF ExitInv, LeavingInv
<1>12. StackInv'
  BY <1>9, <1>11 DEF StackInv, ReportPrecedes
<1>13. LeavingInv'
  BY <1>1, <1>2, <1>5, <1>8, <1>10 DEF ExitInv, LeavingInv
<1> QED BY <1>12, <1>13

-----------------------------------------------------------------------------
(* The timer and the signals.                                               *)

LEMMA EnterKeepsExit ==
    ASSUME ExitInv, status = "running",
           UNCHANGED <<attempts, pingsSent, pingsReceived, finalReport, status>>,
           NEW c \in Contexts \ {"main"}, pc[c] = "idle",
           NEW place \in {"flag", "off", "report", "display"}, Enter(c, place),
           c # "ALRM" => place \in {"report", "display"},
           c = "ALRM" => place \in {"flag", "off"}
    PROVE  StackInv' /\ LeavingInv'
<1>1. FlowOK
  BY DEF ExitInv, TimesInv, TypeOK
<1>2. PICK rank : Stacked(rank) /\ ReportPrecedes(rank)
  BY DEF ExitInv, StackInv
<1> PICK new : new = [rank EXCEPT ![c] = rank[running] + 1]
  OBVIOUS
<1>3. Stacked(new)' /\ Active' = Active \cup {c} /\ c \notin Active
  BY <1>1, <1>2, EnterStacked DEF Labels, SendLabels, FinishLabels
<1>4. pc'[c] = place /\ \A d \in Contexts \ {c} : pc'[d] = pc[d]
  BY <1>1 DEF Enter, FlowOK
<1>5. Leaving' <=> Leaving
  BY <1>4 DEF Leaving
<1>6. ReportPrecedes(new)'
  <2> SUFFICES ASSUME pc'["ALRM"] \in {"record", "xmit", "count"}, Leaving',
                      \A d \in Active' : new[d] > new["ALRM"] => pc'[d] = "display"
               PROVE  finalReport.attempts < attempts
    BY DEF ReportPrecedes
  <2>1. c # "ALRM" /\ pc["ALRM"] \in {"record", "xmit", "count"}
    BY <1>4
  <2>2. new["ALRM"] = rank["ALRM"] /\ \A d \in Active : new[d] = rank[d]
    BY <1>2, <1>3, <2>1 DEF Stacked, Active
  <2>3. \A d \in Active : rank[d] > rank["ALRM"] => pc[d] = "display"
    BY <1>3, <1>4, <2>2 DEF Active
  <2> QED BY <1>2, <1>5, <2>1, <2>3 DEF ReportPrecedes
<1>7. StackInv'
  BY <1>3, <1>6 DEF StackInv
<1>8. LeavingInv'
  BY <1>5 DEF ExitInv, LeavingInv
<1> QED BY <1>7, <1>8

LEMMA SignalKeepsExit ==
    ASSUME ExitInv, Signals
    PROVE  StackInv' /\ LeavingInv'
<1>1. /\ FlowOK /\ ClockOK /\ ControlInv /\ attempts \in Nat
      /\ finalReport \in [sent: Nat, received: Nat, attempts: Nat]
  BY DEF ExitInv, TimesInv, TypeOK, CountersOK, OutcomeOK
<1>2. PICK rank : Stacked(rank) /\ ReportPrecedes(rank)
  BY DEF ExitInv, StackInv
<1>3. running \in Active /\ \A c \in Active : rank[c] \in Nat /\ rank[c] <= rank[running]
  BY <1>2 DEF Stacked, Active
<1>4. CASE Tick
  <2>1. UNCHANGED <<pc, running, under, attempts, pingsSent, pingsReceived,
                    finalReport, status>>
    BY <1>4 DEF Tick, counters, outcome
  <2>2. Active' = Active /\ (Leaving' <=> Leaving)
    BY <2>1 DEF Active, Leaving
  <2>3. Stacked(rank)' /\ ReportPrecedes(rank)'
    BY <1>2, <2>1, <2>2 DEF Stacked, ReportPrecedes
  <2>4. LeavingInv'
    BY <2>1, <2>2 DEF ExitInv, LeavingInv, Verdict
  <2> QED BY <2>3, <2>4 DEF StackInv
<1>5. CASE Alarm
  <2>1. /\ UNCHANGED <<attempts, pingsSent, pingsReceived, finalReport>>
        /\ pc["ALRM"] = "idle" /\ status = "running" /\ alarm # "none"
    BY <1>5 DEF Alarm, counters
  <2>2. sigalrm # "default"
    BY <1>1, <2>1 DEF ControlInv, PendingInv, EarlyLabels, OpenLabels, SendLabels
  <2>3. UNCHANGED status /\ \E place \in {"flag", "off"} : Enter("ALRM", place)
    BY <1>5, <2>2 DEF Alarm
  <2> QED BY <2>1, <2>3, EnterKeepsExit
<1>6. ASSUME NEW s \in UserSignals, Interrupt(s) PROVE StackInv' /\ LeavingInv'
  <2>1. /\ UNCHANGED <<attempts, pingsSent, pingsReceived, finalReport, status>>
        /\ pc[s] = "idle" /\ status = "running" /\ s \notin {"main", "ALRM"}
        /\ \E place \in {"report", "display"} : Enter(s, place)
    BY <1>6 DEF Interrupt, counters, outcome
  <2> QED BY <2>1, EnterKeepsExit
<1>7. CASE Off \/ Stop
  <2>1. /\ UNCHANGED <<attempts, pingsSent, pingsReceived, finalReport, status>>
        /\ status = "running" /\ running = "ALRM"
        /\ \E place \in {"stop", "report"} : Goto(running, place)
    BY <1>7 DEF Off, Stop, At, counters, outcome
  <2>2. Stacked(rank)'
    BY <1>1, <1>2, <2>1, GotoStacked DEF Labels, FinishLabels
  <2>3. pc'["ALRM"] \in {"stop", "report"} /\ (Leaving' <=> Leaving)
    BY <1>1, <1>7 DEF Off, Stop, At, Goto, FlowOK, Leaving
  <2>4. ReportPrecedes(rank)' /\ LeavingInv'
    BY <2>1, <2>3 DEF ReportPrecedes, ExitInv, LeavingInv
  <2> QED BY <2>2, <2>4 DEF StackInv
<1>8. ASSUME NEW c \in {"ALRM"} \cup UserSignals, Report(c)
      PROVE  StackInv' /\ LeavingInv'
  <2>1. /\ running = c /\ Goto(running, "exit") /\ status = "running" /\ status' = status
        /\ UNCHANGED <<attempts, pingsSent, pingsReceived>> /\ pc[c] = "report"
        /\ finalReport' = [sent |-> pingsSent, received |-> pingsReceived,
                           attempts |-> attempts]
    BY <1>8 DEF Report, At, counters
  <2>2. Stacked(rank)' /\ Active' = Active
    BY <1>1, <1>2, <2>1, GotoStacked DEF Labels, FinishLabels
  <2>3. pc'[c] = "exit" /\ \A d \in Contexts \ {c} : pc'[d] = pc[d]
    BY <1>1, <2>1 DEF Goto, FlowOK
  <2>4. ReportPrecedes(rank)'
    <3>1. CASE c = "ALRM"
      BY <2>3, <3>1 DEF ReportPrecedes
    <3>2. CASE c # "ALRM"
      <4> SUFFICES ASSUME pc'["ALRM"] \in {"record", "xmit", "count"},
                          \A d \in Active' : rank[d] > rank["ALRM"] => pc'[d] = "display"
                   PROVE  FALSE
        BY DEF ReportPrecedes
      <4>1. "ALRM" \in Active
        BY <2>3, <3>2 DEF Active
      <4>2. rank[c] > rank["ALRM"]
        BY <1>2, <1>3, <2>1, <3>2, <4>1 DEF Stacked
      <4> QED BY <1>3, <2>1, <2>2, <2>3, <4>2
    <3> QED BY <3>1, <3>2
  <2>5. LeavingInv'
    BY <1>1, <2>1 DEF LeavingInv
  <2> QED BY <2>2, <2>4, <2>5 DEF StackInv
<1>9. ASSUME NEW c \in {"ALRM"} \cup UserSignals, Exit(c)
      PROVE  StackInv' /\ LeavingInv'
  <2>1. /\ UNCHANGED <<pc, running, under, attempts, pingsSent, pingsReceived, finalReport>>
        /\ pc[c] = "exit" /\ status' = Verdict
    BY <1>9 DEF Exit, At, counters
  <2>2. Active' = Active /\ Leaving' /\ Leaving
    BY <2>1 DEF Active, Leaving
  <2>3. Stacked(rank)' /\ ReportPrecedes(rank)'
    BY <1>2, <2>1, <2>2 DEF Stacked, ReportPrecedes
  <2>4. LeavingInv'
    BY <2>1, <2>2 DEF ExitInv, LeavingInv, Verdict
  <2> QED BY <2>3, <2>4 DEF StackInv
<1>10. ASSUME NEW c \in {"ALRM"} \cup UserSignals, Display(c)
       PROVE  StackInv' /\ LeavingInv'
  <2>1. /\ running = c /\ running # "main" /\ Return(running) /\ pc[c] = "display"
        /\ status = "running"
        /\ UNCHANGED <<attempts, pingsSent, pingsReceived, finalReport, status>>
    BY <1>10 DEF Display, At, counters, outcome
  <2>2. Stacked(rank)' /\ Active' = Active \ {c}
    BY <1>1, <1>2, <2>1, ReturnStacked
  <2>3. pc'[c] = "idle" /\ \A d \in Contexts \ {c} : pc'[d] = pc[d]
    BY <1>1, <2>1 DEF Return, FlowOK
  <2>4. Leaving' <=> Leaving
    BY <2>1, <2>3 DEF Leaving
  <2>5. ReportPrecedes(rank)'
    <3> SUFFICES ASSUME pc'["ALRM"] \in {"record", "xmit", "count"}, Leaving',
                        \A d \in Active' : rank[d] > rank["ALRM"] => pc'[d] = "display"
                 PROVE  finalReport.attempts < attempts
      BY <2>1 DEF ReportPrecedes
    <3>1. pc["ALRM"] \in {"record", "xmit", "count"}
      BY <2>1, <2>3
    <3>2. \A d \in Active : rank[d] > rank["ALRM"] => pc[d] = "display"
      BY <2>1, <2>2, <2>3 DEF Active
    <3> QED BY <1>2, <2>4, <3>1, <3>2 DEF ReportPrecedes
  <2>6. LeavingInv'
    BY <2>1, <2>4 DEF ExitInv, LeavingInv
  <2> QED BY <2>2, <2>5, <2>6 DEF StackInv
<1> QED BY <1>4, <1>5, <1>6, <1>7, <1>8, <1>9, <1>10 DEF Signals, Finish

LEMMA LeavingStep ==
    ASSUME ExitInv, [Next]_vars
    PROVE  StackInv' /\ LeavingInv'
<1>1. FlowOK /\ ControlInv /\ attempts \in Nat
  BY DEF ExitInv, TimesInv, TypeOK, CountersOK
<1>2. CASE SendPing("main")
  <2>1. /\ running = "main" /\ status = "running" /\ pc["main"] \in SendLabels
        /\ UNCHANGED <<finalReport, status>> /\ attempts' \in {attempts, attempts + 1}
    BY <1>2 DEF SendPing, Flag, Bump, Record, OptionRefused, Xmit, XmitFails, CountSent,
           Rearm, SetTimer, At, counters, outcome, SendLabels
  <2>2. /\ running' = "main" /\ under' = under
        /\ \E place \in SendLabels \cup MainLabels : pc' = [pc EXCEPT !["main"] = place]
    BY <1>2, <2>1 DEF SendPing, Flag, Bump, Record, OptionRefused, Xmit, XmitFails,
           CountSent, Rearm, SetTimer, Goto, Return, SendLabels, MainLabels
  <2> QED BY <2>1, <2>2, MainKeepsExit
<1>3. CASE SendPing("ALRM")
  BY <1>3, HandlerKeepsExit
<1>4. CASE Receive
  <2>1. /\ running = "main" /\ status = "running" /\ attempts' = attempts
        /\ finalReport' = finalReport
    BY <1>4 DEF Receive, Loop, Recv, RecvOther, RecvFails, Check, Compare, Stamp,
           Sample, Tally, At, counters, outcome
  <2>2. pingSendAttemptsLeft >= 0
    BY <1>1 DEF ControlInv, AccountInv
  <2>3. status' = status /\ \E place \in MainLabels : Goto("main", place)
    BY <1>4, <2>2 DEF Receive, Loop, Recv, RecvOther, RecvFails, Check, Compare, Stamp,
           Sample, Tally, outcome, MainLabels
  <2>4. /\ running' = "main" /\ under' = under
        /\ \E place \in SendLabels \cup MainLabels : pc' = [pc EXCEPT !["main"] = place]
    BY <2>1, <2>3 DEF Goto
  <2> QED BY <2>1, <2>3, <2>4, MainKeepsExit
<1>5. CASE Signals
  BY <1>5, SignalKeepsExit
<1>6. CASE UNCHANGED vars
  <2>1. UNCHANGED <<pc, running, under, attempts, pingsSent, pingsReceived,
                    finalReport, status>>
    BY <1>6 DEF vars, counters, outcome
  <2>2. Active' = Active /\ (Leaving' <=> Leaving)
    BY <2>1 DEF Active, Leaving
  <2>3. PICK rank : Stacked(rank) /\ ReportPrecedes(rank)
    BY DEF ExitInv, StackInv
  <2>4. Stacked(rank)' /\ ReportPrecedes(rank)'
    BY <2>1, <2>2, <2>3 DEF Stacked, ReportPrecedes
  <2>5. LeavingInv'
    BY <2>1, <2>2 DEF ExitInv, LeavingInv, Verdict
  <2> QED BY <2>4, <2>5 DEF StackInv
<1> QED BY <1>2, <1>3, <1>4, <1>5, <1>6 DEF Next, Signals, Done

-----------------------------------------------------------------------------
(* The totals.                                                              *)

LEMMA FiniteHistory ==
    ASSUME NetworkOK
    PROVE  /\ IsFiniteSet(onWire) /\ Cardinality(onWire) \in Nat
           /\ IsFiniteSet(got) /\ Cardinality(got) \in Nat
<1>1. IsFiniteSet(Attempts)
  BY FS_Interval
<1>2. IsFiniteSet(onWire) /\ IsFiniteSet(got)
  BY <1>1, FS_Subset DEF NetworkOK
<1> QED BY <1>2, FS_CardinalityType

(* What touches neither totals nor history keeps the totals.                *)
LEMMA TotalsUntouched ==
    ASSUME TotalsInv, UNCHANGED <<attempts, pingsSent, pingsReceived, network>>,
           InSend({"record", "xmit"})' => InSend({"record", "xmit"}),
           InSend({"count"})' <=> InSend({"count"}),
           ReplyInHand' <=> ReplyInHand
    PROVE  TotalsInv'
BY DEF TotalsInv, network, One

LEMMA SendKeepsTotals ==
    ASSUME ExitInv, NEW c \in {"main", "ALRM"}, SendPing(c)
    PROVE  TotalsInv'
<1>1. /\ pc \in [Contexts -> Labels] /\ attempts \in Nat /\ pingsSent \in Nat
      /\ NetworkOK /\ ControlInv /\ WireInv /\ TotalsInv
  BY DEF ExitInv, TimesInv, TypeOK, FlowOK, CountersOK
<1>2. \A d \in {"main", "ALRM"} : d # c => pc[d] \notin SendLabels /\ pc'[d] = pc[d]
  BY <1>1 DEF ControlInv, PlacesInv, PendingInv, SendPing, Flag, Bump, Record,
         OptionRefused, Xmit, XmitFails, CountSent, Rearm, SetTimer, At, Goto, Return,
         SendLabels, MainLabels, FinishLabels
<1>3. \A places \in SUBSET SendLabels : InSend(places) <=> pc[c] \in places
  BY <1>2 DEF InSend
<1>4. \A places \in SUBSET SendLabels : InSend(places)' <=> pc'[c] \in places
  BY <1>2 DEF InSend
<1>5. ReplyInHand' <=> ReplyInHand
  <2>1. ip4_DatagramRxd' = ip4_DatagramRxd
    BY DEF SendPing, Flag, Bump, Record, OptionRefused, Xmit, XmitFails, CountSent,
           Rearm, SetTimer, buffers
  <2>2. CASE c = "main"
    <3>1. pc["main"] \in SendLabels /\ pc'["main"] \in SendLabels \cup {"loop"}
      BY <1>1, <2>2 DEF SendPing, Flag, Bump, Record, OptionRefused, Xmit, XmitFails,
             CountSent, Rearm, SetTimer, At, Goto, Return, SendLabels
    <3> QED BY <3>1 DEF ReplyInHand, SendLabels
  <2>3. CASE c # "main"
    BY <1>2, <2>1, <2>3 DEF ReplyInHand
  <2> QED BY <2>2, <2>3
<1>6. {"record", "xmit"} \subseteq SendLabels /\ {"count"} \subseteq SendLabels
  BY DEF SendLabels
<1>7. CASE Flag(c) \/ Record(c) \/ OptionRefused(c) \/ XmitFails(c) \/ Rearm(c)
  <2>1. UNCHANGED <<attempts, pingsSent, pingsReceived, network>>
    BY <1>7 DEF Flag, Record, OptionRefused, XmitFails, Rearm, counters
  <2>2. /\ pc'[c] \in {"record", "xmit"} => pc[c] \in {"record", "xmit"}
        /\ pc'[c] # "count" /\ pc[c] # "count"
    BY <1>1, <1>7 DEF Flag, Record, OptionRefused, XmitFails, Rearm, At, Goto
  <2> QED BY <1>1, <1>3, <1>4, <1>5, <1>6, <2>1, <2>2, TotalsUntouched
<1>8. CASE SetTimer(c, "wait") \/ SetTimer(c, "interval")
  <2>1. UNCHANGED <<attempts, pingsSent, pingsReceived, network>>
    BY <1>8 DEF SetTimer, counters
  <2>2. pc'[c] \in {"loop", "idle"} /\ pc[c] # "count"
    BY <1>1, <1>8 DEF SetTimer, At, Return
  <2> QED BY <1>1, <1>3, <1>4, <1>5, <1>6, <2>1, <2>2, TotalsUntouched
<1>9. CASE Bump(c)
  <2>1. /\ attempts' = attempts + 1 /\ UNCHANGED <<pingsSent, pingsReceived, network>>
        /\ pc[c] = "bump" /\ pc'[c] = "record"
    BY <1>1, <1>9 DEF Bump, At, Goto
  <2>2. attempts + 1 \notin onWire
    BY <1>1 DEF WireInv, NetworkOK
  <2>3. ~InSend({"count"}) /\ ~InSend({"count"})'
    BY <1>3, <1>4, <1>6, <2>1
  <2> QED BY <1>1, <1>5, <2>1, <2>2, <2>3 DEF TotalsInv, network, One
<1>10. CASE Xmit(c)
  <2>1. /\ UNCHANGED <<attempts, pingsSent, pingsReceived, got>>
        /\ onWire' = onWire \cup {attempts} /\ pc[c] = "xmit" /\ pc'[c] = "count"
    BY <1>1, <1>10 DEF Xmit, At, Goto, counters
  <2>2. attempts \notin onWire
    BY <1>1, <1>3, <1>6, <2>1 DEF TotalsInv
  <2>3. ~InSend({"count"}) /\ InSend({"count"})' /\ ~InSend({"record", "xmit"})'
    BY <1>3, <1>4, <1>6, <2>1
  <2>4. Cardinality(onWire') = Cardinality(onWire) + 1
    BY <1>1, <2>1, <2>2, FiniteHistory, FS_AddElement
  <2>5. \A n \in got : copies'[n] = copies[n]
    BY <1>1, <1>10, <2>2 DEF Xmit, TotalsInv, NetworkOK
  <2> QED BY <1>1, <1>5, <2>1, <2>2, <2>3, <2>4, <2>5, FiniteHistory DEF TotalsInv, One
<1>11. CASE CountSent(c)
  <2>1. /\ UNCHANGED <<attempts, pingsReceived, network>> /\ pingsSent' = pingsSent + 1
        /\ pc[c] = "count" /\ pc'[c] = "rearm"
    BY <1>1, <1>11 DEF CountSent, At, Goto
  <2>2. InSend({"count"}) /\ ~InSend({"count"})' /\ ~InSend({"record", "xmit"})'
    BY <1>3, <1>4, <1>6, <2>1
  <2> QED BY <1>1, <1>5, <2>1, <2>2, FiniteHistory DEF TotalsInv, network, One
<1> QED BY <1>7, <1>8, <1>9, <1>10, <1>11 DEF SendPing

LEMMA ReceiveKeepsTotals ==
    ASSUME ExitInv, Receive
    PROVE  TotalsInv'
<1>1. /\ FlowOK /\ pc \in [Contexts -> Labels] /\ attempts \in Nat
      /\ pingsSent \in Nat /\ pingsReceived \in Nat
      /\ NetworkOK /\ ControlInv /\ PlacesInv /\ WireInv /\ TotalsInv
  BY DEF ExitInv, TimesInv, TypeOK, FlowOK, CountersOK, ControlInv
<1>2. /\ running = "main" /\ pc["main"] \in MainLabels
      /\ UNCHANGED <<attempts, pingsSent, onWire>>
  BY DEF Receive, Loop, Recv, RecvOther, RecvFails, Check, Compare, Stamp, Sample,
         Tally, At, counters, network, MainLabels
<1>3. pc["ALRM"] = "idle"
  BY <1>1, <1>2, MainAlone DEF ExitInv
<1>4. pc'["ALRM"] = "idle" /\ pc'["main"] \in MainLabels
  BY <1>1, <1>2, <1>3 DEF Receive, Loop, Recv, RecvOther, RecvFails, Check, Compare,
         Stamp, Sample, Tally, Goto, MainLabels
<1>5. /\ ~InSend({"record", "xmit"}) /\ ~InSend({"record", "xmit"})'
      /\ ~InSend({"count"}) /\ ~InSend({"count"})'
  BY <1>2, <1>3, <1>4 DEF InSend, MainLabels
<1>6. CASE Loop \/ RecvFails \/ RecvOther \/ Check \/ Compare \/ Stamp \/ Sample
  <2>1. UNCHANGED <<pingsReceived, got, copies>>
    BY <1>6 DEF Loop, RecvFails, RecvOther, Check, Compare, Stamp, Sample, counters, network
  <2>2. ReplyInHand' <=> ReplyInHand
    <3>1. CASE Loop \/ RecvFails \/ RecvOther
      BY <1>1, <3>1 DEF Loop, RecvFails, RecvOther, At, Goto, ReplyInHand, Labels
    <3>2. CASE Check
      BY <1>1, <3>2 DEF Check, Accepted, At, Goto, ReplyInHand, buffers
    <3>3. CASE Compare \/ Stamp \/ Sample
      BY <1>1, <3>3 DEF Compare, Stamp, Sample, At, Goto, ReplyInHand, buffers
    <3> QED BY <1>6, <3>1, <3>2, <3>3
  <2> QED BY <1>1, <1>2, <1>5, <2>1, <2>2 DEF TotalsInv, One
<1>7. ASSUME NEW n \in Attempts, Recv(n) PROVE TotalsInv'
  <2>1. /\ copies[n] > 0 /\ copies' = [copies EXCEPT ![n] = @ - 1]
        /\ got' = got \cup {n} /\ pingsReceived' = pingsReceived
        /\ ~ReplyInHand /\ ReplyInHand'
    BY <1>1, <1>7 DEF Recv, At, Goto, ReplyInHand, counters
  <2>2. n \in onWire
    BY <1>1, <2>1 DEF WireInv
  <2>3. Cardinality(got') = IF n \in got THEN Cardinality(got) ELSE Cardinality(got) + 1
    BY <1>1, <2>1, FiniteHistory, FS_AddElement
  <2>4. MaxReplies = 1 => n \notin got /\ \A m \in got' : copies'[m] = 0
    BY <1>1, <2>1 DEF TotalsInv, NetworkOK
  <2> QED BY <1>1, <1>2, <1>5, <2>1, <2>2, <2>3, <2>4, FiniteHistory DEF TotalsInv, One
<1>8. CASE Tally
  <2>1. /\ pingsReceived' = pingsReceived + 1 /\ UNCHANGED <<got, copies>>
        /\ ReplyInHand /\ ~ReplyInHand'
    BY <1>1, <1>8 DEF Tally, At, Goto, ReplyInHand, ControlInv, AcceptedInv, network
  <2> QED BY <1>1, <1>2, <1>5, <2>1, FiniteHistory DEF TotalsInv, One
<1>9. \/ Loop \/ RecvFails \/ RecvOther \/ Check \/ Compare \/ Stamp \/ Sample
      \/ (\E n \in Attempts : Recv(n)) \/ Tally
  BY DEF Receive
<1> QED BY <1>6, <1>7, <1>8, <1>9

LEMMA TotalsStep ==
    ASSUME ExitInv, [Next]_vars
    PROVE  TotalsInv'
<1>1. CASE \E c \in {"main", "ALRM"} : SendPing(c)
  BY <1>1, SendKeepsTotals
<1>2. CASE Receive
  BY <1>2, ReceiveKeepsTotals
<1>3. CASE Signals \/ UNCHANGED vars
  <2>1. UNCHANGED <<attempts, pingsSent, pingsReceived, ip4_DatagramRxd, network>>
    BY <1>3 DEF Signals, Tick, Alarm, Interrupt, Off, Stop, Finish, Report, Exit,
                Display, vars, counters, buffers
  <2>2. /\ pc'["main"] = pc["main"]
        /\ \A place \in {"record", "xmit", "count"} : pc'["ALRM"] = place <=> pc["ALRM"] = place
    BY <1>3 DEF Signals, Tick, Alarm, Interrupt, Off, Stop, Finish, Report, Exit,
                Display, vars, Goto, Enter, Return, At, ExitInv, TimesInv, TypeOK, FlowOK
  <2>3. /\ InSend({"record", "xmit"})' <=> InSend({"record", "xmit"})
        /\ InSend({"count"})' <=> InSend({"count"})
        /\ ReplyInHand' <=> ReplyInHand
    BY <2>1, <2>2 DEF InSend, ReplyInHand
  <2> QED BY <2>1, <2>3, TotalsUntouched DEF ExitInv
<1> QED BY <1>1, <1>2, <1>3 DEF Next, Signals, Done

(***************************************************************************)
(* The stack of contexts, the reports and the totals, in every state.      *)
(***************************************************************************)
THEOREM ExitCorrect == Spec => []ExitInv
<1>1. ExitInv /\ [Next]_vars => ExitInv'
  BY TimesStep, LeavingStep, TotalsStep DEF ExitInv
<1> QED BY <1>1, ExitInit, PTL DEF Spec

(***************************************************************************)
(* The exit status agrees with the counts printed last, unless another     *)
(* request was made in between (ping3.c:902, 914, 920).                    *)
(***************************************************************************)
THEOREM ReportsMatch == Spec => []ReportMatchesExit
<1>1. ExitInv => ReportMatchesExit
  <2> SUFFICES ASSUME ExitInv, status \in {"success", "failure"},
                      finalReport.attempts = attempts
               PROVE  status = "success" <=> /\ finalReport.sent > 0
                                             /\ finalReport.received >= finalReport.sent
    BY DEF ReportMatchesExit
  <2>1. /\ status = Verdict /\ finalReport.sent = pingsSent
        /\ finalReport.received = pingsReceived
    BY DEF ExitInv, LeavingInv
  <2>2. pingsSent \in Nat /\ pingsReceived \in Nat
    BY DEF ExitInv, TimesInv, TypeOK, CountersOK
  <2> QED BY <2>1, <2>2 DEF Verdict
<1> QED BY <1>1, ExitCorrect, PTL

(***************************************************************************)
(* Where no reply is duplicated, status 0 means that every request handed  *)
(* to the network was answered, but for one caught before it was counted   *)
(* (ping3.c:920, 965).                                                     *)
(***************************************************************************)
THEOREM SuccessMeansAnswered == MaxReplies = 1 => (Spec => []SuccessIsEarned)
<1> SUFFICES ASSUME MaxReplies = 1 PROVE Spec => []SuccessIsEarned
  OBVIOUS
<1>1. ExitInv => SuccessIsEarned
  <2> SUFFICES ASSUME ExitInv, status = "success", NEW n \in onWire \ got
               PROVE  n = attempts /\ \E c \in Sender : pc[c] = "count"
    BY DEF SuccessIsEarned
  <2>1. /\ NetworkOK /\ TotalsInv /\ pingsSent \in Nat /\ pingsReceived \in Nat
    BY DEF ExitInv, TimesInv, TypeOK, CountersOK
  <2>2. pingsReceived >= pingsSent
    BY <2>1 DEF ExitInv, LeavingInv, Verdict
  <2>3. /\ IsFiniteSet(onWire) /\ Cardinality(onWire) \in Nat
        /\ IsFiniteSet(got) /\ Cardinality(got) \in Nat
    BY <2>1, FiniteHistory
  <2>4. /\ Cardinality(got) >= pingsReceived /\ got \subseteq onWire
        /\ Cardinality(onWire) = pingsSent + One(InSend({"count"}))
    BY <2>1, <2>3 DEF TotalsInv, One
  <2>5. CASE InSend({"count"})
    <3>1. attempts \in onWire \ got
      BY <2>1, <2>5 DEF TotalsInv
    <3>2. /\ IsFiniteSet(onWire \ {attempts})
          /\ Cardinality(onWire \ {attempts}) = Cardinality(onWire) - 1
      BY <2>3, <3>1, FS_RemoveElement
    <3>3. got \in SUBSET (onWire \ {attempts})
      BY <2>4, <3>1
    <3>4. Cardinality(onWire \ {attempts}) <= Cardinality(got)
      BY <2>1, <2>2, <2>3, <2>4, <2>5, <3>2 DEF One
    <3>5. Cardinality(got) <= Cardinality(onWire \ {attempts})
      BY <3>2, <3>3, FS_Subset
    <3>6. got = onWire \ {attempts}
      BY <2>3, <3>2, <3>3, <3>4, <3>5, FS_Subset
    <3> QED BY <2>5, <3>6 DEF InSend, Sender, SendLabels
  <2>6. CASE ~InSend({"count"})
    <3>1. Cardinality(got) >= Cardinality(onWire)
      BY <2>1, <2>2, <2>3, <2>4, <2>6 DEF One
    <3>2. got = onWire
      BY <2>3, <2>4, <3>1, FS_Subset
    <3> QED BY <3>2
  <2> QED BY <2>5, <2>6
<1> QED BY <1>1, ExitCorrect, PTL

(***************************************************************************)
(* Status 1 means that nothing was sent, a request was not answered, or    *)
(* main() had the last reply in hand, duplicates or not (ping3.c:920, 1517)*)
(***************************************************************************)
THEOREM FailureMeansLoss == Spec => []FailureIsReal
<1>1. ExitInv => FailureIsReal
  <2> SUFFICES ASSUME ExitInv, status = "failure", pingsSent # 0, onWire \ got = {},
                      ~ReplyInHand
               PROVE  FALSE
    BY DEF FailureIsReal
  <2>1. /\ NetworkOK /\ TotalsInv /\ pingsSent \in Nat /\ pingsReceived \in Nat
    BY DEF ExitInv, TimesInv, TypeOK, CountersOK
  <2>2. pingsReceived < pingsSent
    BY <2>1 DEF ExitInv, LeavingInv, Verdict
  <2>3. got = onWire /\ Cardinality(got) \in Nat
    BY <2>1, FiniteHistory DEF TotalsInv
  <2> QED BY <2>1, <2>2, <2>3 DEF TotalsInv, One
<1> QED BY <1>1, ExitCorrect, PTL
=============================================================================
