----------------------------- MODULE MCServices -----------------------------
(***************************************************************************)
(* The classes over files, descriptors, signals and the clock, and Base64, *)
(* on small instances, one of them at a time: the others stay as they were.*)
(***************************************************************************)
EXTENDS FileRoller

CONSTANTS
    LoggerTop, Sizes,                                       \* of the logger
    MaxEntries, Capacity, Breaks,                           \* of the data log
    Fds, Objects, Failures,                                 \* of the descriptors
    Handlers, MaxHandlers,                                  \* of the signal
    Million, Wrap, Rates, MinSleep, Horizon, MaxPaced, Interrupts,  \* of the pacer
    Strings, Texts                                          \* of Base64

ASSUME ServicesAssumption ==
    /\ LoggerTop \in Nat /\ Sizes \subseteq Nat
    /\ {MaxEntries, Capacity, Breaks} \subseteq Nat
    /\ {Fds, Failures} \subseteq Nat
    /\ MaxHandlers \in Nat
ASSUME TextAssumption ==        \* bytes; digits, pads and characters that are neither
    Strings \subseteq Seq(0..255) /\ Texts \subseteq Seq(0..65)
ASSUME ClockAssumption ==       \* the times that are looked at fit into a TimeValue
    /\ {Million, Wrap} \subseteq Nat \ {0}
    /\ {MinSleep, Horizon, MaxPaced, Interrupts} \subseteq Nat /\ Rates \subseteq Nat
    /\ Horizon + 11 * MinSleep + (2 + Interrupts) * Million < Wrap * Million

VARIABLES subject,
          numRolloverFiles, rolloverSize, block, file, buffer, files, safe, logPc, logRc,
          logged, logBudget,
          logData, stored, next, writer, reader, got, breaks, upset,
          open, held, fd, failed,
          catchable, handlers, disposition, blocked, pending, call, alive, ran,
          now, nextTime, rate, wake, signals, mark, paced, late,
          text, direction, byString, byStream

Logger == INSTANCE FileLogger WITH
    Top <- LoggerTop, pc <- logPc, rc <- logRc, budget <- logBudget
LogOf == INSTANCE DataLog WITH data <- logData
DescriptorOf == INSTANCE Descriptor
SignalOf == INSTANCE Signal
PacerOf == INSTANCE Pacer
TextOf == INSTANCE Base64

loggerVars == <<numRolloverFiles, rolloverSize, block, file, buffer, files, safe, logPc, logRc,
                logged, logBudget>>
logVars == <<logData, stored, next, writer, reader, got, breaks, upset>>
descriptorVars == <<open, held, fd, failed>>
signalVars == <<catchable, handlers, disposition, blocked, pending, call, alive, ran>>
pacerVars == <<now, nextTime, rate, wake, signals, mark, paced, late>>
textVars == <<text, direction, byString, byStream>>
allVars == <<subject, vars, loggerVars, logVars, descriptorVars, signalVars, pacerVars, textVars>>

MCInit ==
    /\ Init /\ Logger!Init /\ LogOf!Init /\ DescriptorOf!Init /\ SignalOf!Init /\ PacerOf!Init /\ TextOf!Init
    /\ subject \in {"roller", "logger", "log", "descriptor", "signal", "pacer", "text"}
    /\ subject # "roller" => numFiles = 0 /\ compression = "none"
    /\ subject # "logger" => numRolloverFiles = 0 /\ rolloverSize = 0 /\ block
    /\ subject # "signal" => catchable
    /\ subject # "pacer" => rate = 1
    /\ subject # "text" => text = <<>> /\ direction = "encode"

MCNext ==
    \/ /\ subject = "roller" /\ Next
       /\ UNCHANGED <<subject, loggerVars, logVars, descriptorVars, signalVars, pacerVars, textVars>>
    \/ /\ subject = "logger" /\ Logger!Next
       /\ UNCHANGED <<subject, vars, logVars, descriptorVars, signalVars, pacerVars, textVars>>
    \/ /\ subject = "log" /\ LogOf!Next
       /\ UNCHANGED <<subject, vars, loggerVars, descriptorVars, signalVars, pacerVars, textVars>>
    \/ /\ subject = "descriptor" /\ DescriptorOf!Next
       /\ UNCHANGED <<subject, vars, loggerVars, logVars, signalVars, pacerVars, textVars>>
    \/ /\ subject = "signal" /\ SignalOf!Next
       /\ UNCHANGED <<subject, vars, loggerVars, logVars, descriptorVars, pacerVars, textVars>>
    \/ /\ subject = "pacer" /\ PacerOf!Next
       /\ UNCHANGED <<subject, vars, loggerVars, logVars, descriptorVars, signalVars, textVars>>
    \/ /\ subject = "text" /\ TextOf!Next
       /\ UNCHANGED <<subject, vars, loggerVars, logVars, descriptorVars, signalVars, pacerVars>>

MCSpec == MCInit /\ [][MCNext]_allVars

SeqsUpTo(S, n) == UNION {[1..k -> S] : k \in 0..n}
MCStrings == SeqsUpTo({0, 1, 200, 255}, 4) \cup [1..6 -> {7, 255}]
MCTexts == SeqsUpTo({0, 1, 35, 63, 64, 65}, 4) \cup {<<1, 2, 3, 4>> \o t : t \in [1..4 -> {5, 48, 64, 65}]}

\* The files are in the order of their records under both classes, after any
\* failures, crashes and changes of the number of files.
FilesInOrder == Ordered /\ Logger!Ordered

\* With no failed call, and none of the rolled files compressed in part only (as
\* GzipFile() does with one longer than its buffer), both lose nothing but the
\* oldest records, wherever they crash.
OnlyOldestLost == Contiguous /\ Logger!Contiguous

\* Without compression RollFiles() reports what it could not move.
RollReportsLoss == [][TrueIsRolled]_allVars

\* Both roll their files over as the one step of RotatedLog, as long as nothing
\* fails, crashes or is changed, and no file is compressed in part only.
ImplementsRotatedLog == [][Implements /\ Logger!Implements]_allVars

\* A reader of a log gets what was recorded.
GotAsRecorded == LogOf!GotAsRecorded

\* What the process has of the system is what its objects say: descriptors are
\* open exactly as long as they have one owner, and a signal calls the handler
\* on top of the stack.
SystemAgrees == DescriptorOf!OwnedOnce /\ SignalOf!TopIsCalled

\* Pace() keeps to the rate, however the calls fall.
RateHeld == PacerOf!RateHeld

\* Base64 and Base64Url encode and decode as the bits say.
Base64Exact == TextOf!Base64Exact
=============================================================================
