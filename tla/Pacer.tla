------------------------------- MODULE Pacer --------------------------------
(***************************************************************************)
(* DwmPacer.hh/.cc: a caller that is kept to a number of calls per second. *)
(* The clock goes on at any time and is never set back; usleep() sleeps at *)
(* least as long as asked, unless a signal ends it.  The times are those of *)
(* DwmTimeValue.hh/.cc: seconds and microseconds.                          *)
(***************************************************************************)
EXTENDS Integers

CONSTANTS
    Million,        \* the microseconds of a second
    Wrap,           \* 2^32, the width of the seconds
    Rates,          \* what Rate() is called with
    MinSleep,       \* of _minSleep: 10000, or the clock's resolution
    Horizon,        \* the microseconds that are looked at
    MaxPaced,       \* and the calls among them
    Interrupts      \* how many signals end a sleep

VARIABLES
    now,            \* the clock, in microseconds
    nextTime,       \* _nextTime
    rate,           \* _rate
    wake,           \* when the caller's usleep() ends, or Awake
    signals,        \* the sleeps that were ended early
    mark,           \* the beginning of a time that is looked at,
    paced, late     \* and how often Pace() has returned since: on time, late

pacerVars == <<now, nextTime, rate, wake, signals, mark, paced, late>>

-----------------------------------------------------------------------------
(* TimeValue: the operators go through the total of microseconds.          *)

Total(tv) == tv.secs * Million + tv.usecs
OfTotal(v) == [secs |-> (v \div Million) % Wrap, usecs |-> v % Million]

\* As given, with more than a second of microseconds too.
Set(secs, usecs) == [secs |-> secs, usecs |-> usecs]

Less(a, b) == Total(a) < Total(b)
AtLeast(a, b) == Total(a) >= Total(b)

Plus(a, b) == OfTotal(Total(a) + Total(b))
\* The code subtracts in 64 bits: of the later time, here.
Minus(a, b) == OfTotal(Total(a) - Total(b))
Times(a, x) == OfTotal(Total(a) * x)

-----------------------------------------------------------------------------

Awake == -1
Now == OfTotal(now)
Interval(r) == IF r > 1 THEN Set(0, Million \div r) ELSE Set(1, 0)
RaceTime == Times(Set(0, MinSleep), 10)

Init ==
    /\ now = 0 /\ mark = 0
    /\ rate \in Rates
    /\ nextTime = Plus(Now, Interval(rate))
    /\ wake = Awake
    /\ signals = 0 /\ paced = 0 /\ late = 0

Tick ==
    /\ now < Horizon
    /\ now' = now + 1
    /\ UNCHANGED <<nextTime, rate, wake, signals, mark, paced, late>>

\* A time that is looked at begins.
Observe ==
    /\ mark' = now
    /\ paced' = 0 /\ late' = 0
    /\ UNCHANGED <<now, nextTime, rate, wake, signals>>

SetRate ==
    /\ wake = Awake
    /\ \E r \in Rates :
          /\ rate' = r
          /\ nextTime' = Plus(Now, Interval(r))
    /\ mark' = now
    /\ paced' = 0 /\ late' = 0
    /\ UNCHANGED <<now, wake, signals>>

\* Mutant: there is no time after which what was missed is forgotten.
NeverTooLate == FALSE
TooLate == Less(Plus(nextTime, RaceTime), Now)
Sleeps == Less(Now, nextTime) /\ AtLeast(Minus(nextTime, Now), Set(0, MinSleep))

Return ==
    /\ paced < MaxPaced
    /\ nextTime' = Plus(nextTime, Interval(rate))
    /\ paced' = paced + 1

\* Pace(), in its three ways.
PaceLate ==
    /\ wake = Awake
    /\ TooLate
    /\ nextTime' = Now
    /\ late' = late + 1
    /\ UNCHANGED <<now, rate, wake, signals, mark, paced>>
PaceOnTime ==
    /\ wake = Awake
    /\ ~TooLate /\ ~Sleeps
    /\ Return
    /\ UNCHANGED <<now, rate, wake, signals, mark, late>>
PaceSleep ==
    /\ wake = Awake
    /\ ~TooLate /\ Sleeps
    /\ wake' = now + Total(Minus(nextTime, Now))
    /\ UNCHANGED <<now, nextTime, rate, signals, mark, paced, late>>
Wake ==
    /\ wake # Awake
    /\ \/ now >= wake /\ UNCHANGED signals
       \/ now < wake /\ signals < Interrupts /\ signals' = signals + 1
    /\ wake' = Awake
    /\ Return
    /\ UNCHANGED <<now, rate, mark, late>>

Next == Tick \/ Observe \/ SetRate \/ PaceLate \/ PaceOnTime \/ PaceSleep \/ Wake

Spec == Init /\ [][Next]_pacerVars

-----------------------------------------------------------------------------
\* However the calls fall, in no stretch of time more of them return than the
\* rate allows, and those that make up for ten sleeps' lateness; a call that
\* comes too late for that counts as much.  One more may have slept since
\* before, one is due at the beginning, and each sleep that a signal has ended
\* is one more.
NotFaster ==
    paced * Total(Interval(rate)) + late * Total(RaceTime) <=
        (now - mark) + MinSleep + (2 + signals) * Total(Interval(rate)) + Total(RaceTime)

\* And no call is kept for longer than the rate asks for.
NotSlower ==
    wake # Awake =>
        wake <= now + MinSleep + (1 + signals) * Total(Interval(rate))

RateHeld == NotFaster /\ NotSlower
=============================================================================
