----------------------------- MODULE Lifecycle ------------------------------
(***************************************************************************)
(* The life of the process: main() up to its sendPing(0), what it acquires *)
(* step by step, each step able to fail, and the settings it makes on the  *)
(* socket; the requests, as far as they use what was acquired; and the end,*)
(* in exit() and the cleanup that atexit() registered, in the middle of    *)
(* which SIGALRM and user signals may still arrive.                        *)
(*                                                                         *)
(* Pinger has the requests and replies in detail, with exit() as one step; *)
(* here exit() is in detail and a request is what it uses and the timer.   *)
(* The build is the one for Linux, where Don't Fragment is the MTU         *)
(* discovery mode of the socket.                                           *)
(***************************************************************************)
EXTENDS Integers, Sequences, FiniteSets

CONSTANTS
    Devices,        \* the devices that may be named after -T tsprespec
    UserSignals,    \* the user signals that may arrive
    MaxSignals,     \* bound: how many of them arrive in one behaviour
    Count,          \* -c: requests to be attempted
    CommandLines    \* the command lines explored, members of Asked

Finishers == {"INT", "TERM"}
Displayers == {"QUIT", "USR1"}
Settings == {"ttl", "df", "broadcast"}

ASSUME SignalsAssumption ==
    UserSignals \subseteq Finishers \cup Displayers /\ MaxSignals \in Nat
ASSUME CountAssumption == Count \in Nat \ {0}
Asked == [version: BOOLEAN, help: BOOLEAN, devices: SUBSET Devices,
          ttl: BOOLEAN, df: BOOLEAN, broadcast: BOOLEAN]
ASSUME CommandLineAssumption == CommandLines \subseteq Asked
ASSUME DevicesAssumption == Devices \cap {"path", "local", "target", "rx", "tx"} = {}

VARIABLES
    pc,         \* the place in main(), or in what took over: "report", ...
    asked,      \* the command line: what to print, devices, settings
    unresolved, \* devices of asked.devices still to be looked up
    held,       \* the allocations to which a global pointer leads
    freed,      \* those that were freed, the pointers unchanged
    cleaning,   \* how far cleanupStorage() is, 0 before it was called
    sending,    \* the place of the sendPing() on top of pc, or "no"
    blocked,    \* TRUE while a handler of SIGALRM has not returned
    timer,      \* what the interval timer leads to, or "off"
    attempts,   \* calls of sendPing() that have armed the timer again
    misused,    \* history: "used" or freed "twice" after being freed
    socket,     \* TRUE when the socket is open
    handled,    \* user signals with a handler
    active,     \* finishing signals whose handler runs
    mode,       \* the state of each setting in the kernel
    reported,   \* settings that the user was told could not be made
    signals,    \* user signals so far
    status      \* the exit status, or how the process ended

pings == <<sending, blocked, timer, attempts>>
memory == <<freed, cleaning, misused>>
vars == <<pc, asked, unresolved, held, socket, handled, active, mode, reported,
          signals, status, pings, memory>>
world == <<asked, signals, active, pings, freed, misused>>

Places == {"defaults", "options", "version", "help", "local", "target", "rx",
           "tx", "protocol", "socket", "signals", "ttl", "df", "broadcast",
           "ping", "pinging", "report", "cleanup", "ended"}
Blocks == Devices \cup {"path", "local", "target", "rx", "tx"}

(* Linux starts a socket with the mode "want", or "dont" where path MTU     *)
(* discovery is switched off; "do" is what -D asks for.                     *)
Init ==
    /\ pc = "defaults"
    /\ asked \in CommandLines
    /\ unresolved = asked.devices
    /\ held = {} /\ socket = FALSE /\ handled = {} /\ active = {}
    /\ mode \in [ttl: {"default"}, df: {"want", "dont"}, broadcast: {"off"}]
    /\ reported = {} /\ signals = 0 /\ status = "running"
    /\ freed = {} /\ cleaning = 0 /\ misused = {}
    /\ sending = "no" /\ blocked = FALSE /\ timer = "off" /\ attempts = 0

(* exit() and a return from main() run cleanupStorage(), unless it was      *)
(* called before: then an exit() within it goes on with what remains for    *)
(* exit() to do, and its caller never comes back.                           *)
ReturnAgain(code) ==                                             \* mutant
    pc' = "cleanup" /\ cleaning' = 1 /\ status' = code
Return(code) ==
    /\ pc' = IF cleaning = 0 THEN "cleanup" ELSE "ended"
    /\ cleaning' = IF cleaning = 0 THEN 1 ELSE cleaning
    /\ status' = code
GoOn(place) == pc' = place /\ UNCHANGED <<status, cleaning>>

(* The status when main() ends after so many requests and replies.          *)
StatusOfLoss(sent, received) ==                                  \* mutant
    IF received < sent THEN "1" ELSE "0"
Status(sent, received) == IF received < sent \/ sent = 0 THEN "1" ELSE "0"

-----------------------------------------------------------------------------
(* setGlobalFlagDefaults(): without its copy of argv[0] main() goes on.     *)
Defaults ==
    /\ pc = "defaults"
    /\ pc' = "options"
    /\ held' \in {held, held \cup {"path"}}
    /\ UNCHANGED <<unresolved, socket, handled, mode, reported, status, cleaning, world>>

(* processCommandLineOptions() looks up one device after the other, until   *)
(* one is unknown; each one found has a name of its own.                    *)
LookUp ==
    /\ pc = "options" /\ unresolved # {}
    /\ \E d \in unresolved :
          \/ held' \in {held, held \cup {d}} /\ unresolved' = unresolved \ {d}
          \/ unresolved' = {} /\ UNCHANGED held
    /\ UNCHANGED <<pc, socket, handled, mode, reported, status, cleaning, world>>

OptionsDone ==
    /\ pc = "options" /\ unresolved = {}
    /\ pc' = "version"
    /\ UNCHANGED <<unresolved, held, socket, handled, mode, reported, status, cleaning, world>>

Version ==
    /\ pc = "version"
    /\ IF asked.version THEN Return("3") ELSE GoOn("help")
    /\ UNCHANGED <<unresolved, held, socket, handled, mode, reported, world>>

(* -h, or no device named.                                                  *)
Help ==
    /\ pc = "help"
    /\ IF asked.help THEN Return("3") ELSE GoOn("local")
    /\ UNCHANGED <<unresolved, held, socket, handled, mode, reported, world>>

(* A copy of the host's name, or else of "localhost"; no copy of a name is  *)
(* tested for NULL.                                                         *)
Local ==
    /\ pc = "local"
    /\ held' \in {held, held \cup {"local"}}
    /\ pc' = "target"
    /\ UNCHANGED <<unresolved, socket, handled, mode, reported, status, cleaning, world>>

Target ==
    /\ pc = "target"
    /\ \/ GoOn("rx") /\ held' \in {held, held \cup {"target"}}
       \/ Return("2") /\ UNCHANGED held
    /\ UNCHANGED <<unresolved, socket, handled, mode, reported, world>>

(* The chain of else ifs: what fails is reported, and main() falls through  *)
(* to its end, where no request has been sent.                              *)
GiveUpAndGoOn(next) == GoOn(next)                                \* mutant
GiveUp(next) == Return(Status(0, 0))

Buffer(place, next) ==
    /\ pc = place
    /\ \/ held' = held \cup {place} /\ GoOn(next)
       \/ GiveUp(next) /\ UNCHANGED held
    /\ UNCHANGED <<unresolved, socket, handled, mode, reported, world>>

Protocol ==
    /\ pc = "protocol"
    /\ GoOn("socket") \/ GiveUp("socket")
    /\ UNCHANGED <<unresolved, held, socket, handled, mode, reported, world>>

Socket ==
    /\ pc = "socket"
    /\ \/ socket' = TRUE /\ GoOn("signals")
       \/ GiveUp("signals") /\ UNCHANGED socket
    /\ UNCHANGED <<unresolved, held, handled, mode, reported, world>>

(* Four calls of signal(), in this order.                                   *)
HandledBefore == [INT |-> {}, QUIT |-> {"INT"}, TERM |-> {"INT", "QUIT"},
                  USR1 |-> {"INT", "QUIT", "TERM"}]
Signals ==
    /\ pc = "signals"
    /\ \E s \in DOMAIN HandledBefore :
          /\ handled = HandledBefore[s]
          /\ handled' = handled \cup {s}
          /\ pc' = IF s = "USR1" THEN "ttl" ELSE pc
    /\ UNCHANGED <<unresolved, held, socket, mode, reported, status, cleaning, world>>

-----------------------------------------------------------------------------
(* The settings of the socket: a failure is reported and main() goes on.    *)

(* -t: set, and read back.                                                  *)
TimeToLive ==
    /\ pc = "ttl"
    /\ pc' = "df"
    /\ \/ ~asked.ttl /\ UNCHANGED <<mode, reported>>
       \/ asked.ttl /\ mode' = [mode EXCEPT !.ttl = "asked"] /\ UNCHANGED reported
       \/ asked.ttl /\ mode' = [mode EXCEPT !.ttl = "asked"]    \* read fails
                    /\ reported' = reported \cup {"ttl"}
       \/ asked.ttl /\ reported' = reported \cup {"ttl"} /\ UNCHANGED mode
    /\ UNCHANGED <<unresolved, held, socket, handled, status, cleaning, world>>

(* What the getters make of the mode, and the mode the setters ask for.     *)
Reads(s) == mode[s] \in {"do", "on", "asked"}
ChosenAlike(s, value) == IF value THEN "on" ELSE "off"           \* mutant
Chosen(s, value) == IF s = "df" THEN (IF value THEN "do" ELSE "dont")
                                ELSE (IF value THEN "on" ELSE "off")

(* The setting is read first, and made only if it reads otherwise.          *)
EnsureSilently(s) == UNCHANGED <<mode, reported>>                \* mutant
Ensure(s) ==
    \/ Reads(s) = asked[s] /\ UNCHANGED <<mode, reported>>
    \/ Reads(s) # asked[s] /\ mode' = [mode EXCEPT ![s] = Chosen(s, asked[s])]
                           /\ UNCHANGED reported
    \/ reported' = reported \cup {s} /\ UNCHANGED mode

Fragment ==
    /\ pc = "df"
    /\ pc' = "broadcast"
    /\ Ensure("df")
    /\ UNCHANGED <<unresolved, held, socket, handled, status, cleaning, world>>

Broadcast ==
    /\ pc = "broadcast"
    /\ pc' = "ping"
    /\ Ensure("broadcast")
    /\ UNCHANGED <<unresolved, held, socket, handled, status, cleaning, world>>

-----------------------------------------------------------------------------
(* The requests, as far as they use what main() acquired.                   *)

Use(blocks) ==
    misused' = IF blocks \cap freed = {} THEN misused ELSE misused \cup {"used"}

StartPinging ==
    /\ pc = "ping"
    /\ pc' = "pinging" /\ sending' = "flag"
    /\ UNCHANGED <<asked, unresolved, held, socket, handled, active, mode, reported,
                   signals, status, blocked, timer, attempts, memory>>

(* The flag for the last request names the target, if it is printed.        *)
FlagLast ==
    /\ sending = "flag" /\ pc # "ended"
    /\ sending' = "build"
    /\ Use({"target"} \cap held) \/ UNCHANGED misused
    /\ UNCHANGED <<pc, asked, unresolved, held, socket, handled, active, mode,
                   reported, signals, status, blocked, timer, attempts, freed,
                   cleaning>>

(* -T tsprespec without a device reads an address in the receive buffer;    *)
(* the message is built unless the kernel refuses the header options.       *)
Build ==
    /\ sending = "build" /\ pc # "ended"
    /\ sending' = "rearm"
    /\ \E blocks \in {{}, {"rx"}, {"tx"}, {"rx", "tx"}} : Use(blocks)
    /\ UNCHANGED <<pc, asked, unresolved, held, socket, handled, active, mode,
                   reported, signals, status, blocked, timer, attempts, freed,
                   cleaning>>

RearmForgotten(n) == IF n >= Count THEN "off" ELSE "send"            \* mutant
RearmLate(n) == IF n > Count THEN "finish" ELSE "send"           \* mutant
RearmFor(n) == IF n >= Count THEN "finish" ELSE "send"

Rearm ==
    /\ sending = "rearm" /\ pc # "ended"
    /\ sending' = "no" /\ blocked' = FALSE
    /\ attempts' = attempts + 1
    /\ timer' = RearmFor(attempts + 1)
    /\ UNCHANGED <<pc, asked, unresolved, held, socket, handled, active, mode,
                   reported, signals, status, memory>>

(* SIGALRM interrupts main(), the report of a user signal, or exit().       *)
AlarmDelivered(kind) ==
    /\ timer = kind /\ ~blocked /\ pc # "ended"
    /\ blocked' = TRUE

AlarmSend ==
    /\ AlarmDelivered("send")
    /\ sending' = "flag"
    /\ UNCHANGED <<pc, asked, unresolved, held, socket, handled, active, mode,
                   reported, signals, status, timer, attempts, memory>>

(* finishOnUserInterrupt( SIGALRM ) switches the timer off first.           *)
AlarmFinish ==
    /\ AlarmDelivered("finish")
    /\ timer' = "off"
    /\ active' = active \cup {"ALRM"}
    /\ pc' = "report"
    /\ UNCHANGED <<asked, unresolved, held, socket, handled, mode, reported,
                   signals, status, sending, attempts, memory>>

-----------------------------------------------------------------------------
(* The end.                                                                 *)

(* The report was printed; exit() with the status of the totals.            *)
Report ==
    /\ pc = "report" /\ sending = "no"
    /\ \/ attempts = 0 /\ Return(Status(0, 0))
       \/ attempts > 0 /\ \E sent, received \in 0 .. 1 : Return(Status(sent, received))
    /\ UNCHANGED <<unresolved, held, socket, handled, mode, reported, world>>

(* cleanupStorage() frees what the global pointers lead to and leaves the   *)
(* pointers as they are.                                                    *)
OrderExceptNames == <<{"path"}, {"rx"}, {"tx"}, {}, {"target"}, {"local"}>> \* mutant
Order == <<{"path"}, {"rx"}, {"tx"}, Devices, {"target"}, {"local"}>>

Cleanup ==
    /\ pc = "cleanup" /\ sending = "no"
    /\ IF cleaning > Len(Order)
       THEN pc' = "ended" /\ UNCHANGED <<freed, cleaning, misused>>
       ELSE /\ freed' = freed \cup (Order[cleaning] \cap held)
            /\ misused' = IF Order[cleaning] \cap freed = {} THEN misused
                          ELSE misused \cup {"twice"}
            /\ cleaning' = cleaning + 1 /\ UNCHANGED pc
    /\ UNCHANGED <<asked, unresolved, held, socket, handled, active, mode, reported,
                   signals, status, pings>>

(* A user signal.  Without a handler it ends the process; control-C and     *)
(* SIGTERM report and call exit(), and what they interrupted, a sendPing()  *)
(* perhaps, never goes on; control-\ and SIGUSR1 print.                     *)
Signal(s) ==
    /\ pc # "ended"
    /\ signals < MaxSignals /\ s \notin active
    /\ signals' = signals + 1
    /\ \/ /\ s \notin handled /\ pc' = "ended" /\ status' = "killed"
          /\ UNCHANGED <<active, sending>>
       \/ /\ s \in handled \cap Finishers
          /\ pc' = "report" /\ sending' = "no"
          /\ active' = active \cup {s}
          /\ UNCHANGED status
       \/ s \in handled \cap Displayers /\ UNCHANGED <<pc, status, active, sending>>
    /\ UNCHANGED <<asked, unresolved, held, socket, handled, mode, reported,
                   blocked, timer, attempts, memory>>

(* main() sits in recvfrom(), or the process has ended.                     *)
Idle ==
    /\ (pc = "pinging" /\ sending = "no") \/ pc = "ended"
    /\ UNCHANGED vars

Start ==
    \/ Defaults \/ LookUp \/ OptionsDone \/ Version \/ Help \/ Local \/ Target
    \/ Buffer("rx", "tx") \/ Buffer("tx", "protocol") \/ Protocol \/ Socket
    \/ Signals \/ TimeToLive \/ Fragment \/ Broadcast \/ StartPinging
SendPing == FlagLast \/ Build \/ Rearm
Alarm == AlarmSend \/ AlarmFinish
Finish == Report \/ Cleanup

Next ==
    \/ Start \/ SendPing \/ Alarm \/ Finish
    \/ (\E s \in UserSignals : Signal(s))
    \/ Idle

Spec == Init /\ [][Next]_vars

(* The one thread is scheduled, and an armed timer goes off.                *)
FairSpec ==
    Spec /\ WF_vars(Start) /\ WF_vars(SendPing) /\ WF_vars(Alarm) /\ WF_vars(Finish)

-----------------------------------------------------------------------------
TypeOK ==
    /\ pc \in Places
    /\ asked \in Asked
    /\ unresolved \in SUBSET Devices
    /\ held \in SUBSET Blocks /\ freed \in SUBSET held
    /\ cleaning \in 0 .. Len(Order) + 1
    /\ misused \in SUBSET {"used", "twice"}
    /\ sending \in {"no", "flag", "build", "rearm"} /\ blocked \in BOOLEAN
    /\ timer \in {"off", "send", "finish"} /\ attempts \in 0 .. Count
    /\ socket \in BOOLEAN
    /\ handled \in SUBSET (Finishers \cup Displayers)
    /\ active \in SUBSET (Finishers \cup {"ALRM"})
    /\ mode \in [ttl: {"default", "asked"}, df: {"want", "dont", "do"},
                 broadcast: {"off", "on"}]
    /\ reported \in SUBSET Settings
    /\ signals \in 0 .. MaxSignals
    /\ status \in {"running", "killed", "0", "1", "2", "3"}

(***************************************************************************)
(* sendPing() runs only when both buffers were allocated, the socket is    *)
(* open and all four signals are handled, whatever failed on the way       *)
(* (ping3.c:1460-1515): it and the handlers use them untested.             *)
(***************************************************************************)
ReadyToPing ==
    sending # "no" \/ timer # "off" =>
        {"rx", "tx"} \subseteq held /\ socket /\ handled = Finishers \cup Displayers

(***************************************************************************)
(* The exit status tells how far main() came (ping3.c:1437, 1444, 1458,    *)
(* 1524 and 920): 3 before anything was looked up for the target, 2 when   *)
(* it was not found, 1 without a socket when something was missing after   *)
(* that, and 0 only when a request was made.                               *)
(***************************************************************************)
StatusTellsWhy ==
    /\ status = "0" => attempts > 0
    /\ status = "3" => (asked.version \/ asked.help) /\ "local" \notin held
    /\ status = "2" => "target" \notin held /\ handled = {}
    /\ status = "1" => socket = (handled # {}) /\ (socket => active # {})

(***************************************************************************)
(* When the process exits the heap blocks that are freed are those that    *)
(* cleanupStorage() came to, and these are all, from wherever exit() was   *)
(* called, unless a second finishing signal, the end of the wait included, *)
(* cut the cleanup short (ping3.c:902-921, 1393-1404).                     *)
(***************************************************************************)
BlocksFreed ==
    pc = "ended" /\ status # "killed" =>
        /\ freed = held \cap UNION {Order[i] : i \in 1 .. cleaning - 1}
        /\ freed = held \/ Cardinality(active) > 1

(***************************************************************************)
(* Nothing is freed twice, although cleanupStorage() leaves every pointer  *)
(* as it was and exit() may be called within exit() (ping3.c:920, 1393).   *)
(***************************************************************************)
FreedOnce == "twice" \notin misused

(***************************************************************************)
(* Control-C and SIGTERM leave the timer armed (ping3.c:902-908), so that a*)
(* sendPing() may use what exit() has just freed; but it does so for no    *)
(* other reason, and only while a request that was asked for is still to   *)
(* be made: never after the last one, and never when SIGALRM itself ends   *)
(* the program.                                                            *)
(***************************************************************************)
UsedOnlyAfterUserSignal ==
    [][ "used" \in misused' /\ "used" \notin misused =>
            active \cap Finishers # {} /\ attempts < Count ]_vars

(* The state in the kernel that an option of the command line asks for.     *)
InForce(s) == mode[s] = [ttl |-> "asked", df |-> "do", broadcast |-> "on"][s]

(***************************************************************************)
(* As long as requests are sent, no setting is in force in the kernel that *)
(* the user did not ask for, and each one asked for is, or the user was    *)
(* told that it could not be made (ping3.c:1486-1508; ipFun.c:233-414).    *)
(* Without -D the Don't Fragment bit may be sent all the same: see         *)
(* FragmentForced.                                                         *)
(***************************************************************************)
SettingsAsAsked ==
    pc = "ping" \/ sending # "no" \/ timer # "off" =>
        \A s \in Settings :
            /\ InForce(s) => asked[s]
            /\ asked[s] => InForce(s) \/ s \in reported

(***************************************************************************)
(* The process ends, whatever fails and whatever interrupts what, a        *)
(* sendPing() the cleanup included: main() gives up, or the last request   *)
(* arms the timer for the end (ping3.c:970-978).                           *)
(***************************************************************************)
ProcessEnds == <>(pc = "ended")

(* In the mode "want" Linux, too, sets the Don't Fragment bit of datagrams  *)
(* that fit the path; only "dont" clears it.                                *)
DontFragmentSent == mode.df # "dont"

(* ping3.c:1499: the setting is forced on or off.                           *)
FragmentForced ==
    pc = "ping" => "df" \in reported \/ DontFragmentSent = asked.df
=============================================================================
