---------------------------- MODULE MCStatistics ----------------------------
(***************************************************************************)
(* libcore/statistics.c checked as one component: the sample accumulator  *)
(* (Statistics) and calc_timeval_diff (StatsTimeval).  They share no       *)
(* state, so the composition interleaves their steps.                      *)
(***************************************************************************)
EXTENDS Statistics

VARIABLES interval, diff

\* Widths small enough that every range test can fail within a few samples.
MCCountWidth == 3
MCValueWidth == 5
\* Non-zero samples whose squares fit the value width.
PositiveSamples == 1..3
\* The samples calc_timeval_diff produces for equal or reversed timestamps
\* included.
SamplesWithZero == 0..2
\* A sample whose square leaves the value width.
SamplesLarge == {1, 6}
\* Three microseconds per second keep the borrow case in reach.
MCUsecPerSec == 3
MCMaxSec == 3

T == INSTANCE StatsTimeval
        WITH UsecPerSec <- MCUsecPerSec, MaxSec <- MCMaxSec,
             ValueWidth <- MCValueWidth

StatsInit == Init /\ T!Init

StatsSpec ==
    /\ StatsInit
    /\ [][\/ Next /\ UNCHANGED <<interval, diff>>
          \/ T!Next /\ UNCHANGED vars]_<<vars, interval, diff>>

\* calc_timeval_diff returns the exact number of microseconds from start
\* to end when end is later, and 0 otherwise (StatsTimeval).
TimevalDiffCorrect == T!TimevalDiffCorrect
=============================================================================
