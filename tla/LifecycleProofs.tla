-------------------------- MODULE LifecycleProofs ---------------------------
(***************************************************************************)
(* What holds of the process from its start to its end, for every set of   *)
(* devices and signals, every number of requests and every command line.   *)
(***************************************************************************)
EXTENDS Lifecycle, FiniteSetTheorems, TLAPS

Early == {"defaults", "options", "version", "help", "local", "target", "rx",
          "tx", "protocol", "socket"}
Starting == Early \cup {"signals", "ttl", "df", "broadcast", "ping"}
Ready == {"ttl", "df", "broadcast", "ping", "pinging"}
Ending == {"report", "cleanup", "ended"}
Handled == Finishers \cup Displayers

(* What main() has acquired at each place.                                  *)
Acquired ==
    /\ pc \in {"defaults", "options", "version", "help", "local"} => "local" \notin held
    /\ pc \in {"defaults", "options", "version", "help", "local", "target"} =>
          "target" \notin held
    /\ pc \in Early => handled = {} /\ ~socket
    /\ pc \in {"tx", "protocol", "socket", "signals"} \cup Ready => "rx" \in held
    /\ pc \in {"protocol", "socket", "signals"} \cup Ready => "tx" \in held
    /\ pc \in {"signals"} \cup Ready => socket
    /\ pc \in Ready => handled = Handled
    /\ handled # {} => {"rx", "tx"} \subseteq held /\ socket

(* Before the first request main() runs alone and nothing has ended it.     *)
Alone ==
    /\ pc \in Starting =>
          /\ sending = "no" /\ ~blocked /\ timer = "off" /\ attempts = 0
          /\ active = {} /\ cleaning = 0 /\ status = "running"
    /\ sending # "no" \/ timer # "off" => handled = Handled

(* The timer leads to another request while one is left, and to the end     *)
(* once; after that, and after main() has given up, no request is sent.     *)
Attempting ==
    /\ sending # "no" \/ timer = "send" => attempts < Count
    /\ timer = "finish" => sending = "no"
    /\ timer # "off" /\ sending # "no" => blocked
    /\ pc \in Ending => active \cap Finishers # {} \/ (sending = "no" /\ timer = "off")
    /\ "ALRM" \in active => sending = "no" /\ timer = "off"

(* What the status says.                                                    *)
Telling ==
    /\ status # "running" => pc \in Ending
    /\ pc = "report" => handled # {} /\ active # {}
    /\ StatusTellsWhy

(* Nothing is in force that was not asked for; the settings made so far.    *)
Made(s) == asked[s] => InForce(s) \/ s \in reported
Requesting == pc \in {"ping", "pinging"} \/ sending # "no" \/ timer # "off"

Settled ==
    /\ \A s \in Settings : InForce(s) => asked[s]
    /\ pc \in {"df", "broadcast"} => Made("ttl")
    /\ pc = "broadcast" => Made("df")
    /\ Requesting => \A s \in Settings : Made(s)

(* The blocks before cleaning are free, those from it on are not; only a    *)
(* second finishing signal keeps the cleanup from its end.                  *)
TwoActive == \E a, b \in active : a # b

Cleaned ==
    /\ cleaning = 0 => freed = {}
    /\ \A i \in 1 .. 6 : i >= cleaning => Order[i] \cap freed = {}
    /\ \A i \in 1 .. 6 : i < cleaning => Order[i] \cap held \subseteq freed
    /\ "twice" \notin misused

Ended ==
    /\ cleaning > 0 => pc \in Ending
    /\ pc = "cleanup" => cleaning > 0
    /\ cleaning > 0 /\ handled # {} => active # {}
    /\ cleaning > 0 /\ pc = "report" => TwoActive
    /\ pc = "ended" => status = "killed" \/ cleaning = 7 \/ TwoActive

LifeInv ==
    /\ TypeOK /\ Acquired /\ Alone /\ Attempting /\ Telling /\ Settled
    /\ Cleaned /\ Ended

LEMMA OrderIsPartition ==
    /\ Len(Order) = 6
    /\ \A i, j \in 1 .. 6 : i # j => Order[i] \cap Order[j] = {}
    /\ \A b \in Blocks : \E i \in 1 .. 6 : b \in Order[i]
<1>1. /\ Len(Order) = 6
      /\ Order[1] = {"path"} /\ Order[2] = {"rx"} /\ Order[3] = {"tx"}
      /\ Order[4] = Devices /\ Order[5] = {"target"} /\ Order[6] = {"local"}
  BY DEF Order
<1>2. \A i, j \in 1 .. 6 : i # j => Order[i] \cap Order[j] = {}
  <2> SUFFICES ASSUME NEW i \in 1 .. 6, NEW j \in 1 .. 6, i # j
               PROVE  Order[i] \cap Order[j] = {}
    OBVIOUS
  <2>1. i \in {1, 2, 3, 4, 5, 6} /\ j \in {1, 2, 3, 4, 5, 6}
    OBVIOUS
  <2> QED BY <1>1, <2>1, DevicesAssumption
<1>3. \A b \in Blocks : \E i \in 1 .. 6 : b \in Order[i]
  BY <1>1 DEF Blocks
<1> QED BY <1>1, <1>2, <1>3

LEMMA InitType == Init => TypeOK
<1> SUFFICES ASSUME Init PROVE TypeOK
  OBVIOUS
<1>1. asked \in Asked
  BY CommandLineAssumption DEF Init
<1>2. unresolved \in SUBSET Devices
  BY <1>1 DEF Init, Asked
<1>3. /\ cleaning \in 0 .. Len(Order) + 1 /\ attempts \in 0 .. Count
      /\ signals \in 0 .. MaxSignals
  BY OrderIsPartition, CountAssumption, SignalsAssumption DEF Init
<1>4. mode \in [ttl: {"default", "asked"}, df: {"want", "dont", "do"},
                broadcast: {"off", "on"}]
  BY DEF Init
<1>5. /\ pc \in Places /\ held \in SUBSET Blocks /\ freed \in SUBSET held
      /\ misused \in SUBSET {"used", "twice"}
      /\ sending \in {"no", "flag", "build", "rearm"} /\ blocked \in BOOLEAN
      /\ timer \in {"off", "send", "finish"} /\ socket \in BOOLEAN
      /\ handled \in SUBSET (Finishers \cup Displayers)
      /\ active \in SUBSET (Finishers \cup {"ALRM"})
      /\ reported \in SUBSET Settings
      /\ status \in {"running", "killed", "0", "1", "2", "3"}
  BY DEF Init, Places
<1> QED BY <1>1, <1>2, <1>3, <1>4, <1>5 DEF TypeOK

LEMMA InitLife == Init => LifeInv
<1> SUFFICES ASSUME Init PROVE LifeInv
  OBVIOUS
<1>1. Acquired /\ Alone /\ Attempting
  BY DEF Init, Acquired, Alone, Attempting, Early, Starting, Ready, Ending
<1>2. Telling
  BY DEF Init, Telling, StatusTellsWhy
<1>3. Settled
  BY DEF Init, Settled, Requesting, InForce, Settings
<1>4. Cleaned /\ Ended
  BY DEF Init, Cleaned, Ended
<1> QED BY <1>1, <1>2, <1>3, <1>4, InitType DEF LifeInv

-----------------------------------------------------------------------------
(* Each action preserves the types.                                         *)

LEMMA StartType == TypeOK /\ Start => TypeOK'
<1> SUFFICES ASSUME TypeOK, Start PROVE TypeOK'
  OBVIOUS
<1> USE DEF GoOn, Return, world, pings, memory
<1>0. /\ 1 \in 0 .. Len(Order) + 1 /\ Status(0, 0) = "1"
      /\ {"path", "local", "target", "rx", "tx"} \cup Devices \subseteq Blocks
  BY OrderIsPartition DEF Status, Blocks
<1>1. CASE Defaults
  BY <1>0, <1>1 DEF Defaults, TypeOK, Places
<1>2. CASE LookUp
  BY <1>0, <1>2 DEF LookUp, TypeOK
<1>3. CASE OptionsDone
  BY <1>3 DEF OptionsDone, TypeOK, Places
<1>4. CASE Version
  BY <1>0, <1>4 DEF Version, TypeOK, Places
<1>5. CASE Help
  BY <1>0, <1>5 DEF Help, TypeOK, Places
<1>6. CASE Local
  BY <1>0, <1>6 DEF Local, TypeOK, Places
<1>7. CASE Target
  BY <1>0, <1>7 DEF Target, TypeOK, Places
<1>8. CASE Buffer("rx", "tx")
  BY <1>0, <1>8 DEF Buffer, GiveUp, TypeOK, Places
<1>9. CASE Buffer("tx", "protocol")
  BY <1>0, <1>9 DEF Buffer, GiveUp, TypeOK, Places
<1>10. CASE Protocol
  BY <1>0, <1>10 DEF Protocol, GiveUp, TypeOK, Places
<1>11. CASE Socket
  <2>1. pc' \in Places /\ status' \in {"running", "killed", "0", "1", "2", "3"}
        /\ cleaning' \in 0 .. Len(Order) + 1
    BY <1>0, <1>11 DEF Socket, GiveUp, TypeOK, Places
  <2>2. socket' \in BOOLEAN
    BY <1>11 DEF Socket, TypeOK
  <2> QED BY <1>11, <2>1, <2>2 DEF Socket, TypeOK
<1>12. CASE Signals
  <2>1. PICK s \in DOMAIN HandledBefore :
              handled' = handled \cup {s} /\ pc' = IF s = "USR1" THEN "ttl" ELSE pc
    BY <1>12 DEF Signals
  <2>2. s \in Finishers \cup Displayers
    BY DEF HandledBefore, Finishers, Displayers
  <2> QED BY <1>12, <2>1, <2>2 DEF Signals, TypeOK, Places
<1>13. CASE TimeToLive
  <2>1. mode' \in [ttl: {"default", "asked"}, df: {"want", "dont", "do"},
                   broadcast: {"off", "on"}]
    BY <1>13 DEF TimeToLive, TypeOK
  <2> QED BY <1>13, <2>1 DEF TimeToLive, TypeOK, Places, Settings
<1>14. ASSUME NEW s \in {"df", "broadcast"}, Ensure(s)
       PROVE  /\ mode' \in [ttl: {"default", "asked"}, df: {"want", "dont", "do"},
                            broadcast: {"off", "on"}]
              /\ reported' \in SUBSET Settings
  BY <1>14 DEF Ensure, Chosen, TypeOK, Settings
<1>15. CASE Fragment
  BY <1>14, <1>15 DEF Fragment, TypeOK, Places
<1>16. CASE Broadcast
  BY <1>14, <1>16 DEF Broadcast, TypeOK, Places
<1>17. CASE StartPinging
  BY <1>17 DEF StartPinging, TypeOK, Places
<1> QED BY <1>1, <1>2, <1>3, <1>4, <1>5, <1>6, <1>7, <1>8, <1>9, <1>10, <1>11, <1>12,
           <1>13, <1>15, <1>16, <1>17 DEF Start

LEMMA RunningType ==
    TypeOK /\ Attempting /\ (SendPing \/ Alarm \/ Finish \/ \E s \in UserSignals : Signal(s))
        => TypeOK'
<1> SUFFICES ASSUME TypeOK, Attempting,
                    SendPing \/ Alarm \/ Finish \/ \E s \in UserSignals : Signal(s)
             PROVE  TypeOK'
  OBVIOUS
<1> USE DEF pings, memory, world
<1>1. CASE FlagLast
  BY <1>1 DEF FlagLast, Use, TypeOK
<1>2. CASE Build
  BY <1>2 DEF Build, Use, TypeOK
<1>3. CASE Rearm
  <2>1. attempts' \in 0 .. Count
    BY <1>3, CountAssumption DEF Rearm, TypeOK, Attempting
  <2>2. timer' \in {"off", "send", "finish"} /\ blocked' \in BOOLEAN /\ sending' = "no"
    BY <1>3 DEF Rearm, RearmFor
  <2> QED BY <1>3, <2>1, <2>2 DEF Rearm, TypeOK
<1>4. CASE AlarmSend
  BY <1>4 DEF AlarmSend, AlarmDelivered, TypeOK
<1>5. CASE AlarmFinish
  BY <1>5 DEF AlarmFinish, AlarmDelivered, TypeOK, Places
<1>6. CASE Report
  <2>1. status' \in {"0", "1"} /\ pc' \in Places /\ cleaning' \in 0 .. Len(Order) + 1
    BY <1>6, OrderIsPartition DEF Report, Return, Status, TypeOK, Places
  <2> QED BY <1>6, <2>1 DEF Report, TypeOK
<1>7. CASE Cleanup
  <2>1. CASE cleaning > Len(Order)
    BY <1>7, <2>1 DEF Cleanup, TypeOK, Places
  <2>2. CASE ~(cleaning > Len(Order))
    <3>1. cleaning' \in 0 .. Len(Order) + 1
      BY <1>7, <2>2, OrderIsPartition DEF Cleanup, TypeOK
    <3>2. freed' \in SUBSET held' /\ misused' \in SUBSET {"used", "twice"}
      BY <1>7, <2>2 DEF Cleanup, TypeOK
    <3> QED BY <1>7, <2>2, <3>1, <3>2 DEF Cleanup, TypeOK
  <2> QED BY <2>1, <2>2
<1>8. ASSUME NEW s \in UserSignals, Signal(s) PROVE TypeOK'
  BY <1>8, SignalsAssumption DEF Signal, TypeOK, Places
<1> QED BY <1>1, <1>2, <1>3, <1>4, <1>5, <1>6, <1>7, <1>8 DEF SendPing, Alarm, Finish

-----------------------------------------------------------------------------
(* What the parts of Next change.                                           *)

Run == SendPing \/ Alarm \/ Finish \/ \E s \in UserSignals : Signal(s)

(* main() goes on, gives up, or turns to its first request.                 *)
LEMMA StartFrame ==
    ASSUME Start, Alone
    PROVE  /\ pc \in Starting
           /\ UNCHANGED <<asked, signals, active, freed, misused, blocked, timer, attempts>>
           /\ \/ pc' \in Starting /\ UNCHANGED <<status, cleaning, sending>>
              \/ /\ pc = "ping" /\ pc' = "pinging" /\ sending' = "flag"
                 /\ UNCHANGED <<status, cleaning, held, handled, socket>>
              \/ /\ pc \in Early /\ pc' = "cleanup" /\ cleaning' = 1
                 /\ status' \in {"1", "2", "3"}
                 /\ UNCHANGED <<sending, held, handled, socket>>
<1> USE DEF world, pings, memory, GoOn, Return, GiveUp, Status, Starting, Early, Alone
<1>1. CASE Defaults \/ LookUp \/ OptionsDone \/ Local
  BY <1>1 DEF Defaults, LookUp, OptionsDone, Local
<1>2. CASE Version \/ Help \/ Target
  BY <1>2 DEF Version, Help, Target
<1>3. CASE Buffer("rx", "tx") \/ Buffer("tx", "protocol")
  BY <1>3 DEF Buffer
<1>4. CASE Protocol \/ Socket
  BY <1>4 DEF Protocol, Socket
<1>5. CASE Signals
  BY <1>5 DEF Signals
<1>6. CASE TimeToLive \/ Fragment \/ Broadcast
  BY <1>6 DEF TimeToLive, Fragment, Broadcast
<1>7. CASE StartPinging
  BY <1>7 DEF StartPinging
<1> QED BY <1>1, <1>2, <1>3, <1>4, <1>5, <1>6, <1>7 DEF Start

(* After that nothing is acquired and no setting is made.                   *)
LEMMA RunFrame ==
    ASSUME Run
    PROVE  /\ UNCHANGED <<asked, held, socket, handled, mode, reported>>
           /\ pc' = pc \/ pc' \in Ending
<1> USE DEF world, pings, memory, Return, Ending
<1>1. CASE SendPing
  BY <1>1 DEF SendPing, FlagLast, Build, Rearm
<1>2. CASE Alarm
  BY <1>2 DEF Alarm, AlarmSend, AlarmFinish
<1>3. CASE Finish
  BY <1>3 DEF Finish, Report, Cleanup
<1>4. CASE \E s \in UserSignals : Signal(s)
  BY <1>4 DEF Signal
<1> QED BY <1>1, <1>2, <1>3, <1>4 DEF Run

-----------------------------------------------------------------------------
(* Each part of the invariant is preserved.                                 *)

LEMMA AcquiredKept ==
    ASSUME TypeOK, Acquired, Alone, Start \/ Run
    PROVE  Acquired'
<1>1. CASE Run
  BY <1>1, RunFrame DEF Acquired, Early, Ready, Ending
<1>2. CASE Start
  <2> USE DEF world, pings, memory, GoOn, Return, GiveUp, Acquired, Early, Ready
  <2>1. ASSUME Defaults \/ LookUp \/ OptionsDone PROVE Acquired'
    <3>1. /\ pc \in {"defaults", "options"} /\ pc' \in {"options", "version"}
          /\ UNCHANGED <<socket, handled>>
      BY <2>1 DEF Defaults, LookUp, OptionsDone
    <3>2. held' \subseteq held \cup {"path"} \cup Devices
      BY <2>1 DEF Defaults, LookUp, OptionsDone, TypeOK
    <3>3. "local" \notin held' /\ "target" \notin held'
      BY <3>1, <3>2, DevicesAssumption
    <3> QED BY <3>1, <3>3
  <2>2. CASE Version \/ Help
    BY <2>2 DEF Version, Help
  <2>3. CASE Local \/ Target
    BY <2>3 DEF Local, Target
  <2>4. CASE Buffer("rx", "tx") \/ Buffer("tx", "protocol")
    BY <2>4 DEF Buffer
  <2>5. CASE Protocol \/ Socket
    BY <2>5 DEF Protocol, Socket
  <2>6. CASE Signals
    <3>1. PICK s \in DOMAIN HandledBefore :
                /\ handled = HandledBefore[s] /\ handled' = handled \cup {s}
                /\ pc' = IF s = "USR1" THEN "ttl" ELSE pc
      BY <2>6 DEF Signals
    <3>2. pc = "signals" /\ UNCHANGED <<held, socket>>
      BY <2>6 DEF Signals
    <3>3. s = "USR1" => handled' = Handled
      BY <3>1 DEF HandledBefore, Handled, Finishers, Displayers
    <3>4. pc' \in {"signals", "ttl"} /\ (pc' = "ttl" => s = "USR1")
      BY <3>1, <3>2
    <3> QED BY <3>2, <3>3, <3>4
  <2>7. CASE TimeToLive \/ Fragment \/ Broadcast \/ StartPinging
    BY <2>7 DEF TimeToLive, Fragment, Broadcast, StartPinging
  <2> QED BY <1>2, <2>1, <2>2, <2>3, <2>4, <2>5, <2>6, <2>7 DEF Start
<1> QED BY <1>1, <1>2

LEMMA AloneKept ==
    ASSUME TypeOK, Acquired, Alone, Attempting, Start \/ Run
    PROVE  Alone'
<1>1. CASE Start
  <2>1. sending' # "no" \/ timer' # "off" => handled' = Handled
    BY <1>1, StartFrame DEF Alone, Acquired, Ready
  <2>2. pc' \in Starting => pc \in Starting /\ UNCHANGED <<status, cleaning, sending>>
    BY <1>1, StartFrame DEF Starting, Early
  <2> QED BY <1>1, <2>1, <2>2, StartFrame DEF Alone
<1>2. CASE Run
  <2>1. UNCHANGED handled /\ (pc' \in Starting => pc' = pc)
    BY <1>2, RunFrame DEF Starting, Early, Ending
  <2> USE DEF pings, memory, world
  <2>2. CASE SendPing
    BY <2>1, <2>2 DEF SendPing, FlagLast, Build, Rearm, Alone
  <2>3. CASE Alarm
    BY <2>1, <2>3 DEF Alarm, AlarmSend, AlarmFinish, AlarmDelivered, Alone, Starting, Early
  <2>4. CASE Finish
    BY <2>1, <2>4 DEF Finish, Report, Cleanup, Return, Alone, Starting, Early
  <2>5. ASSUME NEW s \in UserSignals, Signal(s) PROVE Alone'
    BY <2>1, <2>5 DEF Signal, Alone, Starting, Early
  <2> QED BY <1>2, <2>2, <2>3, <2>4, <2>5 DEF Run
<1> QED BY <1>1, <1>2

LEMMA AttemptingKept ==
    ASSUME TypeOK, Acquired, Alone, Attempting, Start \/ Run
    PROVE  Attempting'
<1>1. CASE Start
  <2>1. pc \in Starting /\ sending = "no" /\ timer = "off" /\ attempts = 0 /\ active = {}
    BY <1>1, StartFrame DEF Alone
  <2>2. /\ UNCHANGED <<active, timer, attempts, blocked>>
        /\ sending' = "no" \/ pc' = "pinging"
    BY <1>1, <2>1, StartFrame
  <2> QED BY <2>1, <2>2, CountAssumption DEF Attempting, Ending
<1>2. CASE Run
  <2> USE DEF pings, memory, world
  <2>1. CASE FlagLast \/ Build
    BY <2>1 DEF FlagLast, Build, Attempting
  <2>2. CASE Rearm
    <3>1. /\ sending' = "no" /\ attempts' = attempts + 1 /\ sending # "no"
          /\ timer' = IF attempts + 1 >= Count THEN "finish" ELSE "send"
          /\ UNCHANGED <<pc, active>>
      BY <2>2 DEF Rearm, RearmFor
    <3>2. attempts \in Nat
      BY DEF TypeOK
    <3> QED BY <3>1, <3>2, CountAssumption DEF Attempting
  <2>3. CASE AlarmSend
    BY <2>3 DEF AlarmSend, AlarmDelivered, Attempting
  <2>4. CASE AlarmFinish
    BY <2>4 DEF AlarmFinish, AlarmDelivered, Attempting
  <2>5. CASE Finish
    BY <2>5 DEF Finish, Report, Cleanup, Return, Attempting, Ending
  <2>6. ASSUME NEW s \in UserSignals, Signal(s) PROVE Attempting'
    <3>1. CASE s \notin handled
      <4>1. handled # Handled
        BY <3>1, SignalsAssumption DEF Handled
      <4>2. sending = "no" /\ timer = "off" /\ UNCHANGED <<sending, timer, active, attempts>>
        BY <2>6, <3>1, <4>1 DEF Signal, Alone
      <4> QED BY <4>2 DEF Attempting
    <3>2. CASE s \in handled \cap Finishers
      <4>1. /\ sending' = "no" /\ active' = active \cup {s} /\ s # "ALRM"
            /\ UNCHANGED <<timer, attempts, blocked>>
        BY <2>6, <3>2 DEF Signal, Finishers, Displayers
      <4> QED BY <3>2, <4>1 DEF Attempting
    <3>3. CASE s \in handled \cap Displayers
      BY <2>6, <3>3 DEF Signal, Finishers, Displayers, Attempting
    <3> QED BY <2>6, <3>1, <3>2, <3>3 DEF Signal
  <2> QED BY <1>2, <2>1, <2>2, <2>3, <2>4, <2>5, <2>6 DEF Run, SendPing, Alarm
<1> QED BY <1>1, <1>2

LEMMA TellingKept ==
    ASSUME TypeOK, Acquired, Alone, Telling, Start \/ Run
    PROVE  Telling'
<1>1. CASE Start
  <2>1. status = "running" /\ handled \in SUBSET Handled /\ pc \in Starting
    BY <1>1, StartFrame DEF Alone, TypeOK, Handled
  <2>2. CASE UNCHANGED status
    <3>1. pc' # "report"
      BY <1>1, StartFrame DEF Starting, Early
    <3> QED BY <2>1, <2>2, <3>1 DEF Telling, StatusTellsWhy
  <2>3. CASE status' # status
    <3>1. /\ pc \in Early /\ pc' = "cleanup" /\ UNCHANGED <<held, handled, socket, asked>>
          /\ handled = {} /\ socket = FALSE /\ status' \in {"1", "2", "3"}
      BY <1>1, <2>3, StartFrame DEF Acquired, TypeOK
    <3>2. status' = "3" => (asked.version \/ asked.help) /\ "local" \notin held
      <4> SUFFICES ASSUME status' = "3"
                   PROVE  (asked.version \/ asked.help) /\ "local" \notin held
        OBVIOUS
      <4>1. (Version /\ asked.version) \/ (Help /\ asked.help)
        BY <1>1, <2>1, <3>1 DEF Start, Defaults, LookUp, OptionsDone, Version, Help, Local,
           Target, Buffer, Protocol, Socket, Signals, TimeToLive, Fragment, Broadcast,
           StartPinging, GoOn, Return, GiveUp, Status
      <4> QED BY <4>1 DEF Version, Help, Acquired
    <3>3. status' = "2" => "target" \notin held
      <4> SUFFICES ASSUME status' = "2" PROVE "target" \notin held
        OBVIOUS
      <4>1. Target
        BY <1>1, <2>1, <3>1 DEF Start, Defaults, LookUp, OptionsDone, Version, Help, Local,
           Target, Buffer, Protocol, Socket, Signals, TimeToLive, Fragment, Broadcast,
           StartPinging, GoOn, Return, GiveUp, Status
      <4> QED BY <4>1 DEF Target, Acquired
    <3>4. socket' = (handled' # {}) /\ ~socket'
      BY <3>1
    <3> QED BY <3>1, <3>2, <3>3, <3>4 DEF Telling, StatusTellsWhy, Ending
  <2> QED BY <2>2, <2>3
<1>2. CASE Run
  <2>1. UNCHANGED <<asked, held, handled, socket>>
    BY <1>2, RunFrame
  <2>2. /\ active \subseteq active'
        /\ attempts' \in {attempts, attempts + 1}
    BY <1>2 DEF Run, SendPing, FlagLast, Build, Rearm, Alarm, AlarmSend, AlarmFinish,
       AlarmDelivered, Finish, Report, Cleanup, Signal, pings, world
  <2>3. attempts \in Nat /\ (handled # {} => socket) /\ socket \in BOOLEAN
    BY DEF TypeOK, Acquired
  <2>4. pc' = "report" => handled # {} /\ active' # {}
    <3>1. CASE pc = "report" /\ pc' = pc
      BY <2>2, <3>1 DEF Telling
    <3>2. CASE pc' = "report" /\ pc # "report"
      <4>1. AlarmFinish \/ \E s \in UserSignals : Signal(s)
        BY <1>2, <3>2 DEF Run, SendPing, FlagLast, Build, Rearm, Alarm, AlarmSend,
           Finish, Report, Cleanup, Return
      <4>2. CASE AlarmFinish
        <5>1. timer # "off" /\ active' # {}
          BY <4>2 DEF AlarmFinish, AlarmDelivered
        <5> QED BY <5>1 DEF Alone, Handled, Finishers
      <4>3. ASSUME NEW s \in UserSignals, Signal(s) PROVE handled # {} /\ active' # {}
        BY <3>2, <4>3 DEF Signal
      <4> QED BY <4>1, <4>2, <4>3
    <3> QED BY <3>1, <3>2
  <2>5. CASE status' = status
    <3>1. status' # "running" => pc' \in Ending
      BY <1>2, <2>5, RunFrame DEF Telling
    <3>2. StatusTellsWhy'
      BY <2>1, <2>2, <2>3, <2>5 DEF Telling, StatusTellsWhy
    <3> QED BY <2>1, <2>4, <3>1, <3>2 DEF Telling
  <2>6. CASE status' # status
    <3>1. Report \/ \E s \in UserSignals : Signal(s)
      BY <1>2, <2>6 DEF Run, SendPing, FlagLast, Build, Rearm, Alarm, AlarmSend,
         AlarmFinish, Finish, Cleanup
    <3>2. CASE Report
      <4>1. /\ pc = "report" /\ pc' \in Ending /\ UNCHANGED <<active, attempts>>
            /\ status' \in {"0", "1"} /\ (status' = "0" => attempts # 0)
        BY <3>2 DEF Report, Return, Status, world, pings, Ending
      <4>2. handled # {} /\ active # {} /\ socket
        BY <2>3, <4>1 DEF Telling
      <4>3. StatusTellsWhy'
        <5>1. status' = "0" => attempts' > 0
          BY <2>3, <4>1
        <5>2. socket' = (handled' # {})
          BY <2>1, <2>3, <4>2
        <5>3. status' # "2" /\ status' # "3" /\ active' # {}
          BY <4>1, <4>2
        <5> QED BY <5>1, <5>2, <5>3 DEF StatusTellsWhy
      <4> QED BY <2>1, <2>4, <4>1, <4>3 DEF Telling
    <3>3. ASSUME NEW s \in UserSignals, Signal(s) PROVE Telling'
      <4>1. status' = "killed" /\ pc' = "ended"
        BY <2>6, <3>3 DEF Signal
      <4> QED BY <4>1 DEF Telling, StatusTellsWhy, Ending
    <3> QED BY <3>1, <3>2, <3>3
  <2> QED BY <2>5, <2>6
<1> QED BY <1>1, <1>2

LEMMA EnsureMakes ==
    ASSUME TypeOK, NEW s \in {"df", "broadcast"}, Ensure(s), UNCHANGED asked,
           InForce(s) => asked[s]
    PROVE  Made(s)' /\ (InForce(s)' => asked'[s])
<1>1. /\ asked[s] \in BOOLEAN /\ asked'[s] = asked[s]
      /\ mode[s] \in {"want", "dont", "do", "off", "on"}
      /\ InForce(s) <=> Reads(s)
  BY DEF TypeOK, Asked, InForce, Reads
<1>2. CASE Reads(s) = asked[s] /\ UNCHANGED <<mode, reported>>
  BY <1>1, <1>2 DEF Made, InForce
<1>3. CASE Reads(s) # asked[s] /\ mode' = [mode EXCEPT ![s] = Chosen(s, asked[s])]
  <2>1. mode'[s] = Chosen(s, asked[s])
    BY <1>3 DEF TypeOK
  <2> QED BY <1>1, <2>1 DEF Made, InForce, Chosen
<1>4. CASE reported' = reported \cup {s} /\ UNCHANGED mode
  BY <1>1, <1>4 DEF Made, InForce
<1> QED BY <1>2, <1>3, <1>4 DEF Ensure

LEMMA EnsureKeeps ==
    ASSUME TypeOK, NEW s \in {"df", "broadcast"}, Ensure(s), UNCHANGED asked,
           NEW r \in Settings, r # s
    PROVE  (Made(r) => Made(r)') /\ InForce(r)' = InForce(r)
<1>1. mode'[r] = mode[r] /\ (r \in reported => r \in reported')
  BY DEF Ensure, TypeOK, Settings
<1> QED BY <1>1 DEF Made, InForce

LEMMA SettledKept ==
    ASSUME TypeOK, Alone, Settled, Start \/ Run
    PROVE  Settled'
<1>1. CASE Run
  <2>1. UNCHANGED <<asked, mode, reported>> /\ (pc' = pc \/ pc' \in Ending)
    BY <1>1, RunFrame
  <2>2. Requesting' => Requesting
    <3>1. sending' # "no" \/ timer' # "off" => sending # "no" \/ timer # "off"
      BY <1>1 DEF Run, SendPing, FlagLast, Build, Rearm, Alarm, AlarmSend, AlarmFinish,
         AlarmDelivered, Finish, Report, Cleanup, Signal, world, pings
    <3> QED BY <2>1, <3>1 DEF Requesting, Ending
  <2> QED BY <2>1, <2>2 DEF Settled, Made, InForce, Ending
<1>2. CASE Start
  <2>1. UNCHANGED asked
    BY <1>2, StartFrame
  <2>2. sending = "no" /\ timer = "off"
    BY <1>2, StartFrame DEF Alone
  <2>3. CASE Broadcast
    <3>1. pc = "broadcast" /\ pc' = "ping" /\ Ensure("broadcast")
      BY <2>3 DEF Broadcast
    <3>2. Made("broadcast")' /\ (InForce("broadcast")' => asked'["broadcast"])
      BY <2>1, <3>1, EnsureMakes DEF Settled, Settings
    <3>3. \A r \in Settings \ {"broadcast"} : Made(r)' /\ (InForce(r)' => asked'[r])
      BY <2>1, <3>1, EnsureKeeps DEF Settled, Settings
    <3> QED BY <3>1, <3>2, <3>3 DEF Settled, Settings
  <2>4. CASE Fragment
    <3>1. /\ pc = "df" /\ pc' = "broadcast" /\ Ensure("df")
          /\ UNCHANGED <<sending, timer>>
      BY <2>4 DEF Fragment, world, pings
    <3>2. Made("df")' /\ (InForce("df")' => asked'["df"])
      BY <2>1, <3>1, EnsureMakes DEF Settled, Settings
    <3>3. Made("ttl")' /\ \A r \in Settings \ {"df"} : InForce(r)' => asked'[r]
      BY <2>1, <3>1, EnsureKeeps DEF Settled, Settings
    <3> QED BY <2>2, <3>1, <3>2, <3>3 DEF Settled, Settings, Requesting
  <2>5. CASE TimeToLive
    <3>1. /\ pc = "ttl" /\ pc' = "df" /\ asked.ttl \in BOOLEAN
          /\ UNCHANGED <<sending, timer>>
      BY <2>5 DEF TimeToLive, TypeOK, Asked, world, pings
    <3>2. /\ mode'.df = mode.df /\ mode'.broadcast = mode.broadcast
          /\ mode'.ttl # mode.ttl => asked.ttl
      BY <2>5 DEF TimeToLive, TypeOK
    <3>3. asked.ttl => mode'.ttl = "asked" \/ "ttl" \in reported'
      BY <2>5 DEF TimeToLive, TypeOK
    <3>4. \A s \in Settings : InForce(s)' => asked'[s]
      BY <2>1, <3>2 DEF Settled, Settings, InForce
    <3>5. Made("ttl")'
      BY <2>1, <3>3 DEF Made, InForce
    <3> QED BY <2>2, <3>1, <3>4, <3>5 DEF Settled, Requesting
  <2>6. CASE StartPinging
    <3>1. pc = "ping" /\ pc' = "pinging" /\ UNCHANGED <<mode, reported>>
      BY <2>6 DEF StartPinging
    <3> QED BY <2>1, <3>1 DEF Settled, Requesting, Made, InForce
  <2>7. CASE ~(Broadcast \/ Fragment \/ TimeToLive \/ StartPinging)
    <3>1. UNCHANGED <<mode, reported, sending, timer>>
      BY <1>2, <2>7 DEF Start, Defaults, LookUp, OptionsDone, Version, Help, Local, Target,
         Buffer, Protocol, Socket, Signals, world, pings
    <3>2. pc' \notin {"df", "broadcast", "ping", "pinging"}
      BY <1>2, <2>7 DEF Start, Defaults, LookUp, OptionsDone, Version, Help, Local, Target,
         Buffer, Protocol, Socket, Signals, GoOn, Return, GiveUp
    <3> QED BY <2>1, <2>2, <3>1, <3>2 DEF Settled, Requesting, InForce
  <2> QED BY <2>3, <2>4, <2>5, <2>6, <2>7
<1> QED BY <1>1, <1>2

LEMMA CleanedKept ==
    ASSUME TypeOK, Alone, Cleaned, Ended, Start \/ Run
    PROVE  Cleaned'
<1>1. CASE Start
  <2>1. cleaning = 0 /\ freed = {} /\ UNCHANGED <<freed, misused>> /\ cleaning' \in {0, 1}
    BY <1>1, StartFrame DEF Alone, Cleaned
  <2> QED BY <2>1 DEF Cleaned
<1>2. CASE UNCHANGED <<freed, cleaning, held>> /\ misused' \in {misused, misused \cup {"used"}}
  BY <1>2 DEF Cleaned
<1>3. CASE Report
  <2>1. /\ cleaning' = IF cleaning = 0 THEN 1 ELSE cleaning
        /\ UNCHANGED <<freed, misused, held>>
    BY <1>3 DEF Report, Return, world
  <2>2. cleaning \in 0 .. 7
    BY OrderIsPartition DEF TypeOK
  <2> QED BY <2>1, <2>2 DEF Cleaned
<1>4. CASE Cleanup
  <2>1. CASE cleaning > Len(Order)
    BY <1>4, <2>1 DEF Cleanup, Cleaned, pings
  <2>2. CASE ~(cleaning > Len(Order))
    <3>1. /\ pc = "cleanup" /\ cleaning' = cleaning + 1 /\ UNCHANGED held
          /\ freed' = freed \cup (Order[cleaning] \cap held)
          /\ misused' = IF Order[cleaning] \cap freed = {} THEN misused
                        ELSE misused \cup {"twice"}
      BY <1>4, <2>2 DEF Cleanup
    <3>2. cleaning \in 1 .. 6
      BY <2>2, <3>1, OrderIsPartition DEF TypeOK, Ended
    <3>3. misused' = misused
      BY <3>1, <3>2 DEF Cleaned
    <3>4. ASSUME NEW i \in 1 .. 6, i >= cleaning' PROVE Order[i] \cap freed' = {}
      <4>1. i >= cleaning /\ i # cleaning
        BY <3>1, <3>2, <3>4
      <4>2. Order[i] \cap freed = {} /\ Order[i] \cap Order[cleaning] = {}
        BY <3>2, <4>1, OrderIsPartition DEF Cleaned
      <4> QED BY <3>1, <4>2
    <3>5. ASSUME NEW i \in 1 .. 6, i < cleaning' PROVE Order[i] \cap held' \subseteq freed'
      <4>1. i < cleaning \/ i = cleaning
        BY <3>1, <3>2, <3>5
      <4> QED BY <3>1, <4>1 DEF Cleaned
    <3> QED BY <3>1, <3>2, <3>3, <3>4, <3>5 DEF Cleaned
  <2> QED BY <2>1, <2>2
<1>5. CASE SendPing \/ Alarm \/ \E s \in UserSignals : Signal(s)
  BY <1>2, <1>5 DEF SendPing, FlagLast, Build, Rearm, Alarm, AlarmSend, AlarmFinish,
     Signal, Use, memory
<1> QED BY <1>1, <1>3, <1>4, <1>5 DEF Run, Finish

LEMMA EndedKept ==
    ASSUME TypeOK, Acquired, Alone, Attempting, Telling, Ended, Start \/ Run
    PROVE  Ended'
<1>0. cleaning \in 0 .. 7
  BY OrderIsPartition DEF TypeOK
<1>1. CASE Start
  <2>1. cleaning = 0 /\ pc' # "ended" /\ pc' # "report"
    BY <1>1, StartFrame DEF Alone, Starting, Early
  <2>2. cleaning' > 0 => pc' = "cleanup" /\ handled' = {}
    BY <1>1, <2>1, StartFrame DEF Acquired
  <2>3. pc' = "cleanup" => cleaning' > 0
    BY <1>1, StartFrame DEF Starting, Early
  <2> QED BY <2>1, <2>2, <2>3 DEF Ended, Ending
<1>2. CASE SendPing \/ AlarmSend
  BY <1>2 DEF SendPing, FlagLast, Build, Rearm, AlarmSend, memory, Ended, TwoActive
<1>3. CASE AlarmFinish
  <2>1. /\ pc' = "report" /\ active' = active \cup {"ALRM"} /\ UNCHANGED <<cleaning, handled>>
        /\ timer # "off"
    BY <1>3 DEF AlarmFinish, AlarmDelivered, memory
  <2>2. "ALRM" \notin active
    BY <2>1 DEF Attempting
  <2>3. handled # {}
    BY <2>1 DEF Alone, Handled, Finishers
  <2> QED BY <2>1, <2>2, <2>3 DEF Ended, Ending, TwoActive
<1>4. CASE Report
  <2>1. /\ pc = "report" /\ UNCHANGED <<active, handled>>
        /\ pc' = IF cleaning = 0 THEN "cleanup" ELSE "ended"
        /\ cleaning' = IF cleaning = 0 THEN 1 ELSE cleaning
    BY <1>4 DEF Report, Return, world
  <2>2. active # {}
    BY <2>1 DEF Telling
  <2> QED BY <1>0, <2>1, <2>2 DEF Ended, Ending, TwoActive
<1>5. CASE Cleanup
  <2>1. /\ pc = "cleanup" /\ UNCHANGED <<active, handled, status>>
        /\ \/ cleaning > 6 /\ pc' = "ended" /\ UNCHANGED cleaning
           \/ pc' = "cleanup" /\ cleaning' = cleaning + 1
    BY <1>5, OrderIsPartition DEF Cleanup
  <2> QED BY <1>0, <2>1 DEF Ended, Ending, TwoActive
<1>6. ASSUME NEW s \in UserSignals, Signal(s) PROVE Ended'
  <2>1. /\ pc # "ended" /\ UNCHANGED <<cleaning, handled>> /\ s \notin active
        /\ \/ pc' = "ended" /\ status' = "killed" /\ UNCHANGED active
           \/ pc' = "report" /\ active' = active \cup {s} /\ s \in handled
           \/ UNCHANGED <<pc, status, active>>
    BY <1>6 DEF Signal, memory
  <2> QED BY <2>1 DEF Ended, Ending, TwoActive
<1> QED BY <1>1, <1>2, <1>3, <1>4, <1>5, <1>6 DEF Run, Alarm, Finish

LEMMA LifeStep == LifeInv /\ [Next]_vars => LifeInv'
<1>1. LifeInv /\ (Start \/ Run) => LifeInv'
  BY StartType, RunningType, AcquiredKept, AloneKept, AttemptingKept, TellingKept,
     SettledKept, CleanedKept, EndedKept DEF LifeInv, Run
<1>2. LifeInv /\ UNCHANGED vars => LifeInv'
  BY DEF vars, pings, memory, LifeInv, TypeOK, Acquired, Alone, Attempting, Telling,
     StatusTellsWhy, Settled, Requesting, Made, InForce, Cleaned, Ended, TwoActive
<1> QED BY <1>1, <1>2 DEF Next, Run, Idle

(***************************************************************************)
(* Type correctness, and the inductive invariant that the others rest on.  *)
(***************************************************************************)
THEOREM LifeCorrect == Spec => []LifeInv
BY InitLife, LifeStep, PTL DEF Spec

THEOREM TypesCorrect == Spec => []TypeOK
<1>1. LifeInv => TypeOK
  BY DEF LifeInv
<1> QED BY <1>1, LifeCorrect, PTL

(***************************************************************************)
(* sendPing() and its handlers find everything they use (ping3.c:1460-1515)*)
(***************************************************************************)
THEOREM AlwaysReady == Spec => []ReadyToPing
<1>1. LifeInv => ReadyToPing
  BY DEF LifeInv, Alone, Acquired, ReadyToPing, Handled, Finishers
<1> QED BY <1>1, LifeCorrect, PTL

(***************************************************************************)
(* The exit status tells how far main() came (ping3.c:1437-1524, 920).     *)
(***************************************************************************)
THEOREM StatusIsTrue == Spec => []StatusTellsWhy
<1>1. LifeInv => StatusTellsWhy
  BY DEF LifeInv, Telling
<1> QED BY <1>1, LifeCorrect, PTL

(***************************************************************************)
(* While requests are sent, no setting is in force that was not asked for, *)
(* and each that was is in force or reported (ping3.c:1486-1508).          *)
(***************************************************************************)
THEOREM SettingsAreAsAsked == Spec => []SettingsAsAsked
<1>1. LifeInv => SettingsAsAsked
  BY DEF LifeInv, Settled, Requesting, Made, SettingsAsAsked
<1> QED BY <1>1, LifeCorrect, PTL

(***************************************************************************)
(* Nothing is freed twice, exit() within exit() or not (ping3.c:920, 1393).*)
(***************************************************************************)
THEOREM NeverFreedTwice == Spec => []FreedOnce
<1>1. LifeInv => FreedOnce
  BY DEF LifeInv, Cleaned, FreedOnce
<1> QED BY <1>1, LifeCorrect, PTL

(***************************************************************************)
(* When the process exits the heap blocks that cleanupStorage() came to    *)
(* are free, and those are all of them unless a second finishing signal    *)
(* cut it short (ping3.c:1393-1404).                                       *)
(***************************************************************************)
THEOREM BlocksAreFreed == Spec => []BlocksFreed
<1>1. LifeInv => freed = held \cap UNION {Order[i] : i \in 1 .. cleaning - 1}
  <2> SUFFICES ASSUME LifeInv
               PROVE  freed = held \cap UNION {Order[i] : i \in 1 .. cleaning - 1}
    OBVIOUS
  <2>1. cleaning \in 0 .. 7 /\ freed \subseteq held /\ held \subseteq Blocks
    BY OrderIsPartition DEF LifeInv, TypeOK
  <2>2. ASSUME NEW b \in freed PROVE \E i \in 1 .. cleaning - 1 : b \in Order[i]
    <3>1. PICK i \in 1 .. 6 : b \in Order[i]
      BY <2>1, OrderIsPartition
    <3>2. ~(i >= cleaning)
      BY <3>1 DEF LifeInv, Cleaned
    <3> QED BY <2>1, <3>1, <3>2
  <2>3. ASSUME NEW i \in 1 .. cleaning - 1 PROVE Order[i] \cap held \subseteq freed
    <3>1. i \in 1 .. 6 /\ i < cleaning
      BY <2>1
    <3> QED BY <3>1 DEF LifeInv, Cleaned
  <2> QED BY <2>1, <2>2, <2>3
<1>2. LifeInv /\ pc = "ended" /\ status # "killed" => freed = held \/ Cardinality(active) > 1
  <2> SUFFICES ASSUME LifeInv, pc = "ended", status # "killed", ~(Cardinality(active) > 1)
               PROVE  freed = held
    OBVIOUS
  <2>1. ~TwoActive
    <3> SUFFICES ASSUME NEW a \in active, NEW b \in active, a # b
                 PROVE  FALSE
      BY DEF TwoActive
    <3>1. IsFiniteSet(active)
      <4>1. IsFiniteSet({"INT"}) /\ IsFiniteSet({"INT"} \cup {"TERM"})
            /\ IsFiniteSet(({"INT"} \cup {"TERM"}) \cup {"ALRM"})
        BY FS_Singleton, FS_AddElement
      <4>2. active \in SUBSET (({"INT"} \cup {"TERM"}) \cup {"ALRM"})
        BY DEF LifeInv, TypeOK, Finishers
      <4> QED BY <4>1, <4>2, FS_Subset
    <3>2. IsFiniteSet({a}) /\ Cardinality({a}) = 1
      BY FS_Singleton
    <3>3. Cardinality({a} \cup {b}) = 2
      BY <3>2, FS_AddElement
    <3>4. Cardinality({a} \cup {b}) <= Cardinality(active)
      BY <3>1, FS_Subset
    <3>5. Cardinality(active) \in Nat
      BY <3>1, FS_CardinalityType
    <3> QED BY <3>3, <3>4, <3>5
  <2>2. cleaning = 7
    BY <2>1 DEF LifeInv, Ended
  <2>3. \A i \in 1 .. 6 : Order[i] \cap held \subseteq freed
    BY <2>2 DEF LifeInv, Cleaned
  <2>4. freed \subseteq held /\ held \subseteq Blocks
    BY DEF LifeInv, TypeOK
  <2> QED BY <2>3, <2>4, OrderIsPartition
<1>3. LifeInv => BlocksFreed
  BY <1>1, <1>2 DEF BlocksFreed
<1> QED BY <1>3, LifeCorrect, PTL

(***************************************************************************)
(* What was freed is used only after control-C or SIGTERM, while a request *)
(* is still to be made (ping3.c:902-921, 970).                             *)
(***************************************************************************)
THEOREM MisuseOnlyAfterUserSignal == Spec => UsedOnlyAfterUserSignal
<1>1. LifeInv /\ [Next]_vars =>
        ["used" \in misused' /\ "used" \notin misused =>
            active \cap Finishers # {} /\ attempts < Count]_vars
  <2> SUFFICES ASSUME LifeInv, Next, "used" \in misused', "used" \notin misused
               PROVE  active \cap Finishers # {} /\ attempts < Count
    OBVIOUS
  <2>1. FlagLast \/ Build
    <3>1. ~Start
      BY StartFrame DEF LifeInv
    <3>2. ~(Rearm \/ Alarm \/ Finish \/ \E s \in UserSignals : Signal(s))
      BY DEF Rearm, Alarm, AlarmSend, AlarmFinish, Finish, Report, Cleanup, Signal,
         memory, world
    <3>3. ~Idle
      BY DEF Idle, vars, memory
    <3> QED BY <3>1, <3>2, <3>3 DEF Next, SendPing
  <2>2. freed # {} /\ sending # "no"
    BY <2>1 DEF FlagLast, Build, Use
  <2>3. cleaning > 0
    BY <2>2, OrderIsPartition DEF LifeInv, TypeOK, Cleaned
  <2> QED BY <2>2, <2>3 DEF LifeInv, Ended, Attempting
<1> QED BY <1>1, LifeCorrect, PTL DEF Spec, UsedOnlyAfterUserSignal
=============================================================================
