# ping3 in TLA+

Specifications of [ping3](https://github.com/dutchLuck/ping3), a `ping` with IPv4 header
options, ICMP time stamp and mask requests and payload sweeps. The modules model the C source;
TLC checks them on small instances, and TLAPS proves every invariant of the runs for every value
of the constants. Line numbers refer to `ping3.c` unless another file is named.

## 1. The system

ping3 is one process with one thread. `main()` sends a first request and then sits in
`recvfrom()` for ever; every later request is sent by the SIGALRM handler `sendPing()`, which
re-arms the timer that calls it; the end, too, comes from a handler. So the program is a set of
flows of control that interrupt each other and share global variables without any masking of
signals. Around that core stand sequential algorithms that are hard at their edges: conversions
and limits, a payload sweep, fills and checksums, options that other hosts fill in.

| component | state it keeps | operations | correct when |
|---|---|---|---|
| running program (1514-1524, 927-980, 893-921, 286-302, 566-742) | `icmpHdrID`, `pingSendAttemptsLeft`, `pingsSent`, `pingsReceived`, the three arrays indexed by sequence number, transmit and receive buffer, disposition of SIGALRM, `ITIMER_REAL` | `sendPing`, `getResponseAndProcessIt`, `processReceivedDatagram`, `displayCurrentStatsInterrupt`, `finishOnUserInterrupt`, `setSendTimer` | all attempts are made, the program ends after its wait, the exit status tells what happened, times belong to their requests |
| start-up, settings, exit and cleanup (1393-1515, `ipFun.c` 210-414) | allocations, socket, handlers, settings of the socket | `main`, `ensure...RequiredValue`, `exit`, `cleanupStorage` | nothing is used before it was acquired or freed twice, everything is freed, settings are as asked, the exit status tells how far it came |
| sizes and buffers (1113-1296, 748-832, 942-968) | payload sizes and step, option size, buffer sizes | `processCommandLineOptions`, the two functions that send with options | the sweep stays in its range, messages and replies fit their buffers |
| options and number conversion (1113-1326, `genFun.c` 88-262) | flags, texts, settings | `getopt` loop, `convertOptionString...`, limits, `strsep` loops | each option does what the user said last, within its limits |
| patterns and fills (`genFun.c` 22-82, 269-300; 416-439) | pattern, payload | `convertHexByteStringToByteArray`, `fill...` | the payload holds the pattern from end to end and no more |
| messages and checksum (305-470, `ipFun.c` 20-52, `icmpFun.c` 247-253) | transmit buffer | fill, checksum, send | a received message verifies to 0, any changed word is seen |
| header options (748-832, 515-560, 683-707; `ipOptionsFun.c` 20-170) | option in the request, option in the reply | build, display, clock estimate | what is printed is what the hops recorded |
| option walk (`ipOptionsFun.c` 172-244) | position in the option area | `displayIpOptionList`, `displayIpOptions` | every option is visited, nothing else, and the walk ends |
| clock differences (`timeFun.c` 72-113, 180-200; 553; `icmpFun.c` 289) | none | milliseconds since midnight, estimate | the estimate is close to the truth |
| statistics (269-282, 840-890) | number of samples, min, max, mean, variance | `trackStats`, `printStats` | the running figures are those of all samples, also when printed in between |
| circular buffer (`genFun.c` 315-363) | two indices | full, empty, used, load | a bounded queue (called by nothing in the program) |
| display (`icmpFun.c`, `ipFun.c`, `dbgFun.c`) | none | `display...`, `print...` | formatting, not modelled |

Interactions: `main()` and the handlers share every global variable above; the kernel delivers
SIGALRM from the interval timer and the user's signals; the network sits between `sendto()` and
`recvfrom()`; `exit()` calls `cleanupStorage()`; the options decide the sizes, the sizes the
buffers.

Hard behaviours: a handler may start between any two steps of `main()` or of another handler;
SIGALRM may be pending when its disposition changes; `exit()` runs in a handler with the timer
armed; replies are lost, duplicated, late and out of order; sequence numbers wrap at 65536 and
slots at 100; each system call may fail; buffer sizes are fixed before the option sizes are
final; 16 and 32 bit arithmetic. `PROJECT.json` lists them under "hazards", each at its line,
with the properties that cover it.

## 2. The modules

| module | models |
|---|---|
| `Pinger` | the running program from `sendPing(0)` to the end of the process |
| `Session` | what the program promises its user, with no handlers, timers or arrays |
| `PingerSession` | `Pinger` as an implementation of `Session` |
| `Lifecycle` | `main()` up to `sendPing(0)`, what requests use, `exit()` and the cleanup |
| `Sizes` | payload sweep, option sizes and buffers |
| `Options` | the options with a number: texts, conversions, limits |
| `Arguments` | the word lists of `-T tsprespec` and `-s` in the array they share |
| `Payload` | the argument of -p and the fills |
| `Checksum` | `calcCheckSum()` on both sides of the network |
| `HeaderOption` | time stamp and record route options, from request to printed line |
| `OptionWalk` | the walk over the options of a received header |
| `ClockDifference` | time of day and the estimate of the difference of two clocks |
| `Stats` | `trackStats()`, interrupted by `printStats()` |
| `RingBuffer`, `BoundedFifo` | the circular buffer, and the queue it implements |
| `MCPinger`, `MCLifecycle`, `MCSizes`, `MCLibrary` | instances for TLC |
| `PingerProofs`, `ExitProofs`, `SessionProofs` | theorems about `Pinger` and its session |
| `LifecycleProofs`, `SizesProofs` | theorems about `Lifecycle` and `Sizes` |
| `NumberProofs` | theorems about `Checksum`, `Stats` and `ClockDifference`, and lemmas on sums |
| `CommandProofs` | theorems about `Options`, `Payload` and `Arguments` |
| `LibraryProofs` | theorems about `HeaderOption`, `RingBuffer`, `OptionWalk` and `MCLibrary` |

`Pinger`, `Lifecycle` and `Sizes` are three views of the same `sendPing()`: who interrupts whom
and what is counted; what memory is used and when the process ends; how long messages are. The
modules from `Options` on share no variables and are instantiated side by side in `MCLibrary`.

### Pinger

A *context* is a flow of control of the one thread: `main`, the SIGALRM handler, and one handler
per user signal. `running` is the context that has the processor, `under[c]` the one that `c`
interrupted, `pc[c]` the place it has reached. `Enter` puts a handler on top of the running
context, `Return` gives the processor back. A handler's own signal is held back while it runs and
the handler stays installed (the BSD semantics of `signal()` in glibc and on macOS), so a context
is active once at most; other signals nest.

The places of a context are cut where another flow of control could see or change the state in
between:

| action | code |
|---|---|
| `Flag`, `Bump` | 930-941: "No ICMP reply" and `icmpHdrID += 1` |
| `Record` | 345-443 and 315-328: the message is built, the slot of its sequence number taken over |
| `OptionRefused` | 792, 824: `setsockopt()` fails, nothing is built |
| `Xmit`, `XmitFails` | 330-338: `sendto()`, and what the network does with the request |
| `CountSent` | 957-968: `pingsSent += 1` |
| `Rearm` | 970-976: `--pingSendAttemptsLeft` and `signal( SIGALRM, ... )` |
| `SetTimer` | 972, 976: `setSendTimer()` and the return of `sendPing()` |
| `Tick`, `Alarm`, `Interrupt` | the timer goes off; SIGALRM or a user signal is delivered |
| `Off`, `Stop`, `Report`, `Exit` | 901-921: `finishOnUserInterrupt()` |
| `Display` | 893-898: `displayCurrentStatsInterrupt()` |
| `Loop`, `Recv`, `RecvOther`, `RecvFails` | 1516 and 722-742 |
| `Check`, `Compare`, `PayloadDiffers`, `Stamp`, `Sample`, `Tally` | 577-679 and 1517: filter, `bcmp()`, receive time, `trackStats()`, `pingsReceived += 1` |

Requests are numbered by the attempt that made them, so that the model can say which request a
slot, a buffer or a reply belongs to; the code sees that number modulo `SeqMod`. Arrays hold such
numbers instead of times: a send time *is* the request whose sending it records. `copies[n]` is
how many replies to request `n` are still to come; any of them may be received next. `onWire`,
`got` and `late` are history variables and guard nothing.

Two branches of the code are never taken, and the model keeps them so that this is a result and
not an assumption: the default action of SIGALRM in `Alarm`, and the end of the loop in `Loop`.
`exit()` is one step here; `Lifecycle` has it block by block. What is printed is left out but for
the counts of the last report.

### Session

`made`, `sent`, `received` and `phase` with five actions: `Attempt`, `Send`, `Reply`, `Wait` and
`End`. `PingerSession` maps `made` to the attempts, the totals to the totals, and `phase` to
"waiting" from the moment SIGALRM leads to `finishOnUserInterrupt()`, or to the exit status.
`KeepsSafe` is the safety part of `Session` and `KeepsPromise` its specification with fairness.

### Lifecycle

`pc` walks through `main()`; every acquisition may fail; `asked` is what the command line asks.
The chain of `else if`s in 1460-1474 is one action per link, each of which continues or gives up
with the status of "no request sent". A request is the memory that it may use (`FlagLast`,
`Build`) and the timer (`Rearm`). `Signal` is a user signal at any point: before 1476 it kills the
process, after it runs a handler. `Report` is the end of `finishOnUserInterrupt()`, `Cleanup` one
block of `cleanupStorage()`; `sendPing()`, a further finishing signal and the end of the wait may
come in between. An `exit()` within `exit()` goes on with what remains and never comes back. The
build is the one for Linux.

### Sizes

A state is a command line with everything `processCommandLineOptions()` computes from it; the one
action is what `sendPing()` does to the sizes. The options of -T and -R change
`ip4_HdrOptionSize` on the first request (`AdjustedOption`), after the receive buffer was
allocated. A quirk that is kept: with `-T tsprespec` and devices but no -s, the word list of -T is
still in the array that -s parses, so that the second size is not 0 (`SecondSize`).

### The sequential parts

- `Options`: `GetOption` takes one option of the command line after the other; then the texts are
  converted in the order of the code, one action per option. `IntMax` makes the width of int a
  constant, so that `-l` near `INT_MAX` overflows.
- `Arguments`: the loops over `strsep()` with their pointer into an array of five, empty words
  stored over, and the second loop that finds the words of the first.
- `Payload`: the characters after -p, digit or not, are taken in pairs into the pattern; a fill
  stores byte by byte, random numbers four bytes at a time.
- `Checksum`: `Compose`, `AddWord`, `AddTail`, `Fold`, `Carry`, `Send`, then the network delivers
  the message as it was or with one word changed, and the same steps verify it. A byte has `Byte`
  values.
- `HeaderOption`: build, hops after RFC 791 (external), the loops that print entries and
  differences, and the entries that the clock estimate reads.
- `OptionWalk`: areas of well-formed options, padded to words, and the walk that advances by the
  lengths it reads. Router Alert is in them as an option that ping3 does not know.
- `ClockDifference`: a true time, two clocks, a request and a reply with delays, and midnight.
- `Stats`: `trackStats()` statement by statement, in units that make its divisions exact.
- `RingBuffer`: the producer of `genFun.c` and a consumer that takes a byte between any two of
  its steps (external).

## 3. What is checked

Runs that pass:

| run | instance | question |
|---|---|---|
| `pinger_signals` | 3 attempts, 3 slots, control-C and SIGUSR1, two of them per behaviour, header options may be refused | are the attempts made and the end and the exit status right when handlers interrupt each other, and does the program implement `Session`, liveness included? |
| `pinger_continuous` | continuous mode, 4 attempts explored, 2 slots and 3 sequence numbers, each reply up to twice | are times kept apart when slots are reused, and does sending go on? |
| `sizes` | all pairs of sizes in -1..8 with all steps in -10..10; every combination of -T, -R, -M, device lists, -l and -s around their limits, packets of 100 bytes | does every sweep stay in range and keep visiting both ends, do messages and replies fit? |
| `lifecycle` | one device, control-C, SIGTERM and control-\, two per behaviour, 2 requests | is no memory used unacquired or freed twice, is every block freed, is every setting in force that was asked for and no other, and does the process end? |
| `library` | the nine sequential modules, each with the inputs of `Library.cfg` | does each compute what it should, at its limits too? |

Runs that show where the code does not do what its documentation or comments say (each is a
finding in `PROJECT.json`):

| run | what the documentation says | what happens |
|---|---|---|
| `pinger_flag` | a request without a reply is flagged (931) | after one loss answered requests are flagged |
| `pinger_flag_index` | access to the arrays wraps around (258) | line 939 uses the raw sequence number |
| `pinger_wait` | the program waits after the last request (1108) | a pending SIGALRM of the interval ends it at once |
| `pinger_payload` | the reply is compared with what was sent (666) | the handler may rebuild the transmit buffer first |
| `sizes_bumped` | the option size is settled before the buffers (1250) | it is raised on the first request |
| `lifecycle_fragment` | Don't Fragment is forced on or off (1499) | Linux's default mode reads as off but sets the bit |
| `option_start` | `displayIpOptionTimeStamps()` has four parameters, the starting time third (`ipOptionsFun.h` 14) | it is defined with three (`ipOptionsFun.c` 92) and takes the length of the options for the starting time |

### The properties

- *The control flow.* `ControlInv` (who can be where, no SIGALRM without its handler, the
  account of attempts), `EveryAttemptIsMade`.
- *The exit status.* `SuccessIsEarned` and `FailureIsReal` say what status 0 and 1 mean when no
  reply is duplicated. Neither is the plain equivalence: the two exceptions, a request between
  `sendto()` and its counting and a reply in the hands of `main()`, are real, and they are the
  only ones. `ReportMatchesExit` compares the status with what was printed last.
- *Times.* `RoundTripOfItsRequest`, `ReceiveTimesBelong`, `FlagTimesTheRequest`,
  `LastSlotsListed`. They hold for replies less than 100 attempts late, before and after each
  wrap of the sequence number, and leave out what happens over the wrap itself (`SlotIsKept`): there
  two of the last 100 attempts share a slot, because 100 does not divide 65536.
- *The whole.* `KeepsSafe` and `KeepsPromise`: `Pinger` implements `Session`. `KeepsSending` in
  continuous mode.
- *Memory and settings.* `ReadyToPing`, `StatusTellsWhy`, `BlocksFreed`, `FreedOnce`,
  `SettingsAsAsked`, `UsedOnlyAfterUserSignal`, `ProcessEnds`. `BlocksFreed` is about the heap
  only: the blocks freed are those the cleanup came to, and these are all unless a second
  finishing signal cut it short; the program never closes its socket and leaves that to the kernel.
  `SettingsAsAsked` is about what is in force in the kernel, not about what the getters read, and
  about all the time that requests are sent: nothing is in force that was not asked for, and what
  was asked for is in force or was reported as failed. What it does not say is that the Don't
  Fragment bit is off without -D, which is false (`lifecycle_fragment`). Control-C leaves the timer armed
  while `exit()` frees the buffers; `UsedOnlyAfterUserSignal` says that this is the only way in
  which freed memory is used, and that the regular end is free of it.
- *Lengths.* `SizeInRange`, `MessageFits`, `ReplyFitsByDefault`, `SweepGoesOn`.
- *Input.* `OptionsAsGiven` (`LastWordCounts`, `IntervalIsSafe`, `LengthIsNearest`): the last word
  of an option counts, at the nearest value within the limits of the help. Nothing is
  claimed of `-t` below 1, which the code lets through as 0 against the help (section 5); of the
  three largest values of `-l` the statement says what the wrap of int makes of them.
- *Words and patterns.* `ArgumentsAsGiven` (`DevicesAreThoseNamed`, `SizesAreThoseOfS`),
  `PatternIsSound` (`PatternIsPairs`, `NoEmptyPattern`).
- *Messages.* `PayloadIsRight` (`PayloadStaysInside`, `PayloadIsRepeated`), `SumIsRight`
  (`SumInRange`, `FoldsSuffice`), `VerdictIsRight` (`SentVerifies`, `ChangeSeen`).
- *Replies.* `ReplyIsTold` (`ShownIsRecorded`, `EveryHopTold`, `DifferencesAreSteps`,
  `EstimateReadsStamps`), `VisitsOptions`, `WalkEnds`, `EstimateIsClose`, `StatsTellSamples`
  (`RunningEqualsTotal`, `ExtremesAreSamples`, `PrintedIsConsistent`).
- *The circular buffer.* `UsedIsStored`, and `IsQueue`: `RingBuffer` implements `BoundedFifo`.

Every property of a passing run has a mutant: a small change of a modelled definition (an
off-by-one in the test for the last attempt, a timer left unarmed, a carry folded once, a word
left out) that violates it. The mutants are the definitions marked `mutant` in the modules, and
nothing else uses them.

### Bounds

- `Count` 3: the first attempt runs in `main()`, the last one hands over to the end, and there is
  one between them. `Slots` 2 or 3 instead of 100, `SeqMod` 3 to 8 instead of 65536: what matters
  is that slots are reused (continuous mode, 4 attempts on 2 slots). There `SeqMod` is 3, so that
  the sequence number wraps, and like 65536 and 100 it is no multiple of the slots.
- `MaxReplies` 1 means no duplicates, 2 adds them. `MaxAttempts` bounds continuous mode: the
  timer does not deliver a SIGALRM for attempts beyond it. `KeepsSending` therefore speaks of the
  attempts below the bound.
- `MaxInterrupts` and `MaxSignals` 2: a handler can be interrupted by another one, or a program
  by two signals in a row. One finishing and one displaying signal are enough in `Pinger`, where
  the two of each kind differ in nothing. The theorems hold for any number and set of them.
- `MaxPacket` 100 instead of 65535: the sizes around the limit are still there, since only the
  difference to the limit matters.
- `Options`: `IntMax` 499 (larger than every limit of an option) with arguments below, at and
  above the limits and near `IntMax`; two options per command line, so that one can be given
  twice. `Arguments`: four words after -T and three after -s fill and overfill the array of five.
- `Payload`: patterns of 3 bytes instead of 16, 8 characters, payloads of 10 bytes: longer, odd
  and interrupted patterns all occur. `Checksum`: bytes of 3 values and 4 words, so that both
  folds carry; `LengthAssumption` keeps the proportion of the longest datagram.
- `HeaderOption`: options of 8 to 20 bytes and 5 hops, more than have room, and an overflow count
  that ends at 2. `OptionWalk`: areas of up to 12 bytes, which every option that ping3 knows fits.
- `ClockDifference`: a day of 12 milliseconds of two ticks each, delays of up to a quarter of a
  day, offsets of both signs. `Stats`: 3 samples, one of them negative. `RingBuffer`: four slots.

### Fairness

`Pinger` assumes that each flow of control that can take a step takes it in the end (weak
fairness per part of the program), that an armed timer goes off and that a pending SIGALRM is
delivered: one thread that the kernel schedules, and `ITIMER_REAL`. `Recv` and `RecvOther` have no
fairness and neither has `Interrupt`: the network may stay silent, `recvfrom()` may block for
ever, and the user may do nothing. So `KeepsPromise` holds because of the timer only, as it does
in the program. `Lifecycle` assumes the same of its four parts. `Sizes` assumes that `sendPing()`
goes on being called, which is what `KeepsSending` shows of continuous mode. `OptionWalk` assumes
that a loop that can go on does.

## 4. What is proved

TLAPS checks the theorems below for every value of the constants that satisfies the assumptions
named in the modules. Every invariant that a passing run checks is stated by one of them; only
liveness is left to TLC. `PROJECT.json` lists them with the properties they establish.

| theorem | states |
|---|---|
| `PingerProofs!TypeCorrect`, `ControlCorrect` | `TypeOK`, `ControlInv` |
| `PingerProofs!AllAttemptsMade` | `EveryAttemptIsMade` |
| `PingerProofs!MainStays` | the receive loop of `main()` is never left |
| `PingerProofs!AlarmNeverKills` | SIGALRM never meets its default action |
| `PingerProofs!TimesCorrect` | the inductive invariant `TimesInv` |
| `PingerProofs!RoundTripsBelong`, `ReceiveTimesStay` | `RoundTripOfItsRequest`, `ReceiveTimesBelong` |
| `PingerProofs!FlagsTellTheirTime` | `FlagTimesTheRequest`, if requests are counted (-c) |
| `PingerProofs!LastSlotsAreListed` | `LastSlotsListed`, if there are no header options to refuse |
| `ExitProofs!ExitCorrect` | the inductive invariant `ExitInv` |
| `ExitProofs!SuccessMeansAnswered` | `SuccessIsEarned`, if no reply is duplicated |
| `ExitProofs!FailureMeansLoss`, `ReportsMatch` | `FailureIsReal`, `ReportMatchesExit` |
| `SessionProofs!SessionKept` | `KeepsSafe`: every step of `Pinger` is a step of `Session` or none |
| `LifecycleProofs!LifeCorrect` | the inductive invariant `LifeInv` |
| `LifecycleProofs!TypesCorrect`, `AlwaysReady`, `StatusIsTrue` | `TypeOK`, `ReadyToPing`, `StatusTellsWhy` |
| `LifecycleProofs!SettingsAreAsAsked`, `NeverFreedTwice` | `SettingsAsAsked`, `FreedOnce` |
| `LifecycleProofs!BlocksAreFreed`, `MisuseOnlyAfterUserSignal` | `BlocksFreed`, `UsedOnlyAfterUserSignal` |
| `SizesProofs!SizesTypeCorrect`, `SweepStaysInRange` | `TypeOK`, `SizeInRange` |
| `SizesProofs!MessagesFit`, `RepliesFitByDefault` | `MessageFits`, `ReplyFitsByDefault` |
| `LibraryProofs!ReplyIsAlwaysTold` | `ReplyIsTold` |
| `LibraryProofs!UsedIsAlwaysStored`, `RingIsQueue` | `UsedIsStored`, `IsQueue` |
| `LibraryProofs!WalkVisitsOptions` | `VisitsOptions` |
| `LibraryProofs!WalkAdvances` | over known options each step of the walk goes forward, and not past the end |
| `LibraryProofs!OptionTyped` | `OptionTypeOK`: the pointer stays in the option, the printing loop above zero |
| `LibraryProofs!LibraryIsItsParts`, `LibraryTyped` | a behaviour of `MCLibrary` is one of each part; `LibraryTypeOK` |
| `NumberProofs!ChecksumIsSum`, `ChecksumTells` | `SumIsRight`, `VerdictIsRight` |
| `NumberProofs!StatsTell` | `StatsTellSamples` |
| `NumberProofs!ClockEstimateIsClose` | `EstimateIsClose` |
| `CommandProofs!CommandLineCounts`, `OptionsTyped` | `OptionsAsGiven`, `OptionsTypeOK` |
| `CommandProofs!PayloadPattern`, `PayloadFilled` | `PatternIsSound`, `PayloadIsRight` |
| `CommandProofs!ArgumentsRead`, `ArgumentsTyped` | `ArgumentsAsGiven`, `ArgumentTypeOK` |

The assumptions are on the constants only: arrays have a positive length that holds all requests
of a counted run and is less than the range of the sequence number (`Pinger`), a packet has room
for the headers (`Sizes`), command lines have the shape the parser yields (`Sizes`, `Lifecycle`),
device names are not the names of other blocks (`Lifecycle`), option sizes and times are numbers
(`HeaderOption`), the ring's mask is positive (`RingBuffer`), an int holds the limits of the
options (`Options`), patterns and time stamps are not empty (`Payload`), a message is no longer
than the accumulator was made for: 32768 words of 16 bits, and in general half of `Byte * Byte`
(`Checksum`), the area of options has at most 40 bytes and is a multiple of 4, and its known
options are at least two bytes long (`OptionWalk`), a millisecond and a day have a positive
number of ticks, and clocks are ahead of the epoch (`ClockDifference`), samples are smaller than
`DBL_MAX` and counted in units that the divisions by 1 to `MaxSamples` leave whole (`Stats`), and
the pieces of a list are of the kinds that the code tells apart (`Arguments`). Every one is evaluated
by TLC in the runs.

### The arguments

- *Pinger.* `EveryAttemptIsMade` is not inductive: it says nothing of a pending SIGALRM or of an
  attempt under way. `ControlInv` adds that every context stays in the code it runs (`PlacesInv`),
  that until `sendPing(0)` is over no SIGALRM can come (`PendingInv`), that attempts made and left
  add up to `Count`, with one more while an attempt is bumped and not yet taken off
  (`AccountInv`, `OpenLabels`), and that a datagram past the filter is a reply (`AcceptedInv`).
  With `TypeOK` it is inductive: one lemma per part of the program. `MainStays` and
  `AlarmNeverKills` follow from it; `ControlInv` is what the run checks.
- *Times.* Requests less than `Slots` apart have different slots (`SlotsDistinct`, arithmetic with a
  variable modulus) unless the sequence number wraps between them; what is kept after another
  attempt was kept before it (`RoundBefore`, `KeptBefore`). So the slot of a request that went out
  keeps its send time until `Slots` other attempts have been made or the number has wrapped
  (`SentTimesInv`). Replies are to requests that went out
  (`WireInv`). The two conditions in the table are needed: in continuous mode `pinger_flag_index`
  refutes the one, and a refused header option leaves its slot to an older request.
- *The end.* That a report agrees with the exit status depends on who may still run once a handler
  has printed it: `Stacked` says that the active contexts are a stack, by a rank that is chosen
  anew at each step, so `main()` runs only when it is alone (`MainAlone`) and what lies below a
  handler that ends the program never runs again. An attempt that can still be counted then was
  made after the report (`ReportPrecedes`). `TotalsInv` relates `pingsSent` and `pingsReceived` to
  the cardinalities of the histories, with one request between `sendto()` and the count and one
  reply in hand.
- *Session.* The mapping needs one more fact, `SentInv`: an attempt that is still to be counted is
  not among those counted. Each action of `Pinger` then maps to one of `Session` or leaves its
  variables alone.
- *Lifecycle.* `LifeInv` has a part for each thing that the properties rest on: what has been
  acquired at each place of `main()` (`Acquired`), that nothing interferes before the first request
  (`Alone`), that timer and attempts agree (`Attempting`), what a status says (`Telling`), that
  nothing is in force unasked and which settings are made so far (`Settled`, by `Made` and
  `Requesting`; one `ensure...` function makes its setting and keeps the others, `EnsureMakes` and
  `EnsureKeeps`), which blocks are free at which index of the cleanup (`Cleaned`)
  and what can have cut it short (`Ended`). `OrderIsPartition` says that the cleanup names every
  block once, which gives `FreedOnce` and `BlocksFreed`.
- *Sizes.* `SizeInRange` alone is not inductive, because the step changes its sign: `SweepInv`
  relates size, step and the two ends. `BufferInv` adds the option: with neither -l nor a device
  0.0.0.0 its size is settled when the buffers are allocated (`DefaultSize`), so that what
  `sendPing()` makes of it is no longer than what the buffer was made for. Where -l is given this
  fails, which is the run `sizes_bumped`.
- *HeaderOption.* The pointer of the option is behind as many entries as were recorded, what was
  printed is a prefix of that, `byteCnt` is the rest, and `deltaTimeStamp` is the entry printed
  last (`Recorded`, `Printed`, `Differing`).
- *RingBuffer.* `RingInv`: the difference of the indices is the number of bytes stored
  (`UsedIsStored`). The queue is the array from one index to the other; adding a byte appends, and
  taking one removes the first.

- *Sums.* A checksum and a mean are folds over sequences of any length. `NumberProofs` first
  shows that partial sums exist (`SmallSumsExist`), that they add up however a sequence is cut
  (`SumsAddUp`), that the sum of a sequence with one more element is the sum plus that element
  (`SumToSteps`, `SumToAppended`), and that changing one element changes it by the difference
  (`SumChanged`). The library's induction theorems have an operator for a parameter, so induction
  is over a set here: if some number were not in it there would be a least one, which
  `NatLessThanWellFounded` provides (`NaturalsFollow`).
- *Checksum.* `SumSoFar` says what the accumulator holds: the sum of the words up to `wrdPtr`, of
  the message, folded once, folded twice. `TwoFoldsSuffice` shows that a second fold leaves no
  carry, for a message as long as `LengthAssumption` allows. With its checksum in place a message
  adds up to the negative zero (`CompletedSum`); changing one word or the odd byte moves the sum by
  less than the modulus, so that it is zero again only if one zero was exchanged for the other
  (`Delivered`, `OtherZero`, `WordChangeSeen`, `TailChangeSeen`).
- *Stats.* Between any two statements of `trackStats()` each figure tells of all samples or of all
  but the last; `Told` says which. `MeansTold` keeps `n * mean` equal to the sum,
  `VarianceTold` the variance to the sum of squares less `n * mean * mean`; that the update of the
  code keeps both is `MeanMoves` and `SpreadGained`. The divisions are exact because every sample is
  a multiple of `Scale`. `MeanInside` is what a signal's handler prints in the middle.
- *ClockDifference.* `Moments` ties each reading to the true moment it was taken at. The rest is
  arithmetic with a variable divisor: what a reading loses (`Reading`), what halving loses
  (`Halved`), and that the losses add up to less than two milliseconds (`EstimateError`).
- *OptionWalk.* `Chained`: the options lie one behind the other and fill the area, each with the
  length that its own bytes tell. `Walked`: the walk stands at the start of an option or at the end
  and has visited the starts before. That every option which is composed has such bytes is
  `OptionsAreMade`.
- *Payload.* `Pairs`: the pairs taken so far end before the next character and before the first
  digit of a pair that is half read. `FilledRight`: every byte filled so far is the one that belongs
  there (`RightByte`), up to the end of the payload.
- *Options.* `Heard`: the text and flag kept for an option are those of its last word, until it is
  converted. `SetSoFar` adds the settings of the options already converted (`Pending` is the
  others). `ClampIsNearest` and the lemmas on the length of -l cover int overflow;
  `NearestTimesToLive` and `TimeToLiveInLimits` relate the limits of line 1167 to those of the help.
- *Arguments.* While a list is split, the array and the words still to be split are those that
  would have been read so far (`ReadsOn`); afterwards it holds the words with a name, in their
  order, as many as there is room for, and NULL behind them (`Held`). `LooksUp` follows the loop
  over the devices and `SizePhase` the three sizes. That the words of -T left in the array do no
  harm when -s was given is part of `Held`; without -s the second size is 0 or the first one
  (`AllSized`).
- *MCLibrary.* Each part has an inductive invariant of its own that contains its types, and the
  parts share no variable, so that a step of the library is a step of one part and none of the
  others (`PartsStep`).

Every inductive invariant was also checked by TLC in the instances of the runs, with quantifiers
over all numbers bounded, before it was proved.

### Model-checked only

Liveness, and with it the fair part of the refinement: `KeepsPromise`, `KeepsSending`,
`SweepGoesOn`, `ProcessEnds`, `WalkEnds`. The prover does not do fairness and ENABLED.
`WalkAdvances` is the measure that `WalkEnds` rests on: what is left to TLC there is that a loop
which can go on does.

No module declares a RECURSIVE operator.

### What comes next

A measure for the end of the process, as there is one for the end of the walk; a reader of the received header that hands its
options to both `HeaderOption` and `OptionWalk`; the weaker statements that do hold where the
findings refute a stronger one, for every value of the constants.

## 5. Noted while modelling

Disagreements and oddities without a run of their own:

- Control-\ prints statistics, although the help text says that it stops continuous mode (1078).
- A duplicated reply makes up for a lost request in the exit status (ping3.1:110-112 promises that
  all requests were matched; `SuccessIsEarned` is checked without duplicates).
- Around the wrap of the sequence number the statistics miss some of the last 100 attempts that
  README.md:333 speaks of, since 100 does not divide 65536; `LastSlotsListed` leaves them out.
- `-t 0` and negative values are accepted and become 0 (1167), although the help says 1 to 255
  (1099, README.md:302); `OptionsAsGiven` says nothing of them.
- A reply whose checksum fails is warned about (599, 638) and counted all the same. `VerdictIsRight`
  says that a damaged message is told from a sound one, and no more.
- A payload of exactly 16 bytes holds the time (436); the manual page speaks of more than 16
  (ping3.1:74).
- A negative -c is limited to 0, which is continuous mode (1152). -p takes up to
  28 bytes where the manual page says 16.
- -l of the three largest ints wraps to the shortest option (1162). The step `INT_MIN` of -s wraps
  when its sign is changed (1277), is limited, and the sweep turns at once.
- The flag for an unanswered request names a time of a slot that a refused header option never
  took over.
- The walk over options knows no Router Alert and takes its data for options; a 0 there ends its
  progress for ever. It runs with -v 9 only. `WalkEnds` is stated for the options it knows.
- `-T tsprespec` without devices reads `ip_dst` of a receive buffer before anything was received
  (765); statistics before the first request use an unset `timeOfFirstPing` (858).
- Around midnight an estimate is off by a day; the tests for negative values after `ntohl()` into
  a long never fire where long has 64 bits.
- A mask reply is displayed as "Mask Request"; `hostName` stays NULL; a debug line reads
  `argArray[5]` before it tests the index; `displayTimeStampOptionInHex()` prints one byte more
  than there is of options of up to 4 bytes.
- `strIsA_ValidDottedQuadIPv4_Address()` reads numbers with leading zeros as decimal and
  `inet_addr()` as octal; 255.255.255.255 goes to `gethostbyname()`.

## 6. Not modelled

Formatting and display of any kind; rounding of floating point; names and addresses as text, and
the look-up itself, which is a library; failures of `strdup()` for the names (the code does not
test them); the C library's locks (`printf()` in handlers): `main()` and the handlers would have
to be split at every library call, and whether they block depends on the library; malformed option
areas, which the kernel drops; macOS's variants of the settings; the build and test scripts. The
circular buffer has no consumer and no caller in the program; its module says what they would get.
