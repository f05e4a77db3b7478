---------------------------- MODULE StatsTimeval ----------------------------
(***************************************************************************)
(* calc_timeval_diff of libcore/statistics.c, which turns two timestamps  *)
(* into the duration samples the statistics accumulate.  A caller takes a *)
(* start and an end timeval; the duration is computed with timersub and   *)
(* converted to microseconds in a uint64_t by timeval_to_uint64.  The     *)
(* checked state is the last pair of timestamps and the duration computed *)
(* for it; every pair of normalised timevals up to MaxSec is reached.     *)
(***************************************************************************)
EXTENDS Integers

CONSTANTS
    UsecPerSec,   \* STATS_IN_USECS (1000000 in the code)
    MaxSec,       \* bound on tv_sec
    ValueWidth    \* bits of the uint64_t result

ASSUME UsecPerSec \in Nat \ {0} /\ MaxSec \in Nat /\ ValueWidth \in Nat \ {0}

VARIABLES
    interval,  \* <<start, end>>: the timestamps of the last measurement
    diff       \* calc_timeval_diff(start, end)

vars == <<interval, diff>>

\* Normalised timevals: tv_usec below one second.
Timevals == [sec : 0..MaxSec, usec : 0..(UsecPerSec - 1)]

\* timeval_to_uint64: seconds times STATS_IN_USECS plus microseconds, taken
\* into a uint64_t.
timeval_to_uint64(t) == (t.sec * UsecPerSec + t.usec) % (2^ValueWidth)

\* timersub: component-wise difference with a borrow from the seconds.
timersub(a, b) ==
    IF a.usec - b.usec < 0
    THEN [sec |-> a.sec - b.sec - 1, usec |-> a.usec - b.usec + UsecPerSec]
    ELSE [sec |-> a.sec - b.sec, usec |-> a.usec - b.usec]

\* Variant of calc_timeval_diff that compares the seconds only.
calc_timeval_diff_sec_only(s, e) ==
    IF e.sec >= s.sec
    THEN timeval_to_uint64(timersub(e, s))
    ELSE timeval_to_uint64([sec |-> 0, usec |-> 0])

\* calc_timeval_diff: end - start when end is later, else a zero timeval.
calc_timeval_diff(s, e) ==
    IF e.sec > s.sec \/ (e.sec = s.sec /\ e.usec > s.usec)
    THEN timeval_to_uint64(timersub(e, s))
    ELSE timeval_to_uint64([sec |-> 0, usec |-> 0])

\* A caller measures the interval between two timestamps.
Measure(s, e) ==
    /\ interval' = <<s, e>>
    /\ diff' = calc_timeval_diff(s, e)

\* Before the first measurement both timestamps are the zero timeval.
Init ==
    /\ interval = <<[sec |-> 0, usec |-> 0], [sec |-> 0, usec |-> 0]>>
    /\ diff = 0

Next == \E s, e \in Timevals : Measure(s, e)

Spec == Init /\ [][Next]_vars

-----------------------------------------------------------------------------

\* calc_timeval_diff returns the microseconds elapsed from start to end,
\* and 0 when the end is not later than the start: the borrow of timersub
\* never turns a same-second reversal into a wrapped, huge sample.
TimevalDiffCorrect ==
    LET s == interval[1]
        e == interval[2]
        d == (e.sec * UsecPerSec + e.usec) - (s.sec * UsecPerSec + s.usec)
    IN  diff = IF d > 0 THEN d ELSE 0

=============================================================================
