----------------------------- MODULE Statistics -----------------------------
(***************************************************************************)
(* The sample accumulator of libcore/statistics.c.  A statistics_data     *)
(* holds a count and the sums of the samples and of their squares, from   *)
(* which calc_statistics derives mean and standard deviation, and the     *)
(* smallest and largest sample.  add_statistics_item guards each sum with *)
(* the test "x < x + v", evaluated in the field's unsigned width, and     *)
(* resets the data set when a test fails.  Samples are usually durations  *)
(* computed by calc_timeval_diff (module StatsTimeval).                   *)
(*                                                                         *)
(* The widths are reduced: CountWidth bits stand for the uint32_t count,  *)
(* ValueWidth bits for the uint64_t sums.  The variable data is the       *)
(* reference: the samples the data set should describe, i.e. those added  *)
(* since the last time an exact sum would have left the field's range.    *)
(***************************************************************************)
EXTENDS Integers, Sequences, SequencesExt

CONSTANTS
    CountWidth,   \* bits of num_items (32 in the code)
    ValueWidth,   \* bits of the sums, min and max (64 in the code)
    Samples       \* the sample values offered to add_statistics_item

ASSUME /\ CountWidth \in Nat \ {0} /\ ValueWidth \in Nat \ {0}
       /\ Samples \subseteq 0..(2^ValueWidth - 1)

VARIABLES
    num_items, added_values, added_squared_values, min_value, max_value,
    data       \* the samples the data set should describe

vars == <<num_items, added_values, added_squared_values, min_value, max_value, data>>

\* Unsigned arithmetic of width w.
U(x, w) == x % (2^w)

\* A zero-initialised statistics_data, as its users allocate it.
Init ==
    /\ num_items = 0 /\ added_values = 0 /\ added_squared_values = 0
    /\ min_value = 0 /\ max_value = 0
    /\ data = <<>>

SumOf(s)   == FoldLeft(LAMBDA acc, x : acc + x, 0, s)
SumSqOf(s) == FoldLeft(LAMBDA acc, x : acc + x * x, 0, s)

\* The data set a sample v should extend: the exact count and sums stay in
\* their fields' ranges, or the set starts over.
RefAdd(v) ==
    IF \/ Len(data) + 1 >= 2^CountWidth
       \/ SumOf(data) + v >= 2^ValueWidth
       \/ SumSqOf(data) + v * v >= 2^ValueWidth
    THEN <<>>
    ELSE Append(data, v)

-----------------------------------------------------------------------------

\* Variant of the out_err reset that forgets to zero the sum of squares.
stats_reset_keeps_sumsq ==
    /\ num_items' = 0 /\ added_values' = 0
    /\ UNCHANGED added_squared_values

\* The out_err block of add_statistics_item: zero the count and both sums;
\* min_value and max_value are left as they are.
stats_reset ==
    /\ num_items' = 0 /\ added_values' = 0 /\ added_squared_values' = 0

\* Variant of the count step whose test "x < x + 1" is evaluated in a wider
\* type than the field, so it never fails.
num_items_next_wide == num_items + 1

\* The count step of add_statistics_item: num_items + 1 in the field's width.
num_items_next == U(num_items + 1, CountWidth)

\* The last steps of add_statistics_item: a larger sample is the new
\* max_value, a smaller one (or the first, min_value 0) the new min_value.
update_min_max(v) ==
    /\ max_value' = IF v > max_value THEN v ELSE max_value
    /\ min_value' = IF v < min_value \/ min_value = 0 THEN v ELSE min_value

\* add_statistics_item: increment the count, then add the sample and its
\* square (v * v itself computed in the sum's width), each step after its
\* test "x < x + v"; a failed test jumps to out_err.  min_value 0 means
\* "no minimum yet".
add_statistics_item(v) ==
    LET n  == num_items_next
        s  == U(added_values + v, ValueWidth)
        sq == U(v * v, ValueWidth)
        err == ~(num_items < n) \/ ~(added_values < s)
                \/ ~(added_squared_values < U(added_squared_values + sq, ValueWidth))
    IN  IF err
        THEN /\ stats_reset
             /\ UNCHANGED <<min_value, max_value>>
        ELSE /\ num_items' = n /\ added_values' = s
             /\ added_squared_values' = U(added_squared_values + sq, ValueWidth)
             /\ update_min_max(v)

\* A caller records one sample.
AddItem(v) ==
    /\ add_statistics_item(v)
    /\ data' = RefAdd(v)

Next == \E v \in Samples : AddItem(v)

Spec == Init /\ [][Next]_vars

-----------------------------------------------------------------------------
(* Properties                                                              *)

\* Every field holds a value of its C type at the reduced width.
TypeOK ==
    /\ num_items \in 0..(2^CountWidth - 1)
    /\ {added_values, added_squared_values, min_value, max_value}
         \subseteq 0..(2^ValueWidth - 1)
    /\ data \in Seq(Samples)

\* The count and both sums that calc_statistics turns into the mean and the
\* standard deviation are those of the samples added since the data set
\* last had to start over: add_statistics_item's range tests fire exactly
\* when an exact sum would leave its field.
DataSetMatches ==
    /\ num_items = Len(data)
    /\ added_values = SumOf(data)
    /\ added_squared_values = SumSqOf(data)

\* calc_statistics reports min_value and max_value as the smallest and the
\* largest sample of the same data set.
MinMaxMatch ==
    data # <<>> =>
        /\ min_value = Min(ToSet(data))
        /\ max_value = Max(ToSet(data))

=============================================================================
