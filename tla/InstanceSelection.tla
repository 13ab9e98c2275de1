--------------------------- MODULE InstanceSelection ---------------------------
(***************************************************************************)
(* getInstanceWithPredicate(): one instance is picked from the list of the *)
(* server by a selector.  RandomByWeightSelector adds up the weights, times *)
(* 65536, in an int, draws a number below the sum and walks along the list  *)
(* until the weights passed exceed it; the walk has no test for the end of  *)
(* the list.                                                                *)
(*                                                                         *)
(* A weight, times 65536, is a double: "whole" is its integral part, "frac" *)
(* says what becomes of the rest when it is added to an int or subtracted   *)
(* from one and the result is rounded to a double and truncated.            *)
(***************************************************************************)
EXTENDS Integers, Sequences

CONSTANTS
    MaxInt,  \* the largest int, 2^31 - 1 in the builds; RAND_MAX is the same
    Lists    \* the lists of instances the server may answer with

VARIABLES
    selector,   \* the selector of the call
    instances,  \* the list of the server
    pc,
    next,       \* the position of the loop that adds up the weights
    weighted,   \* weightedList: the positions of the instances that count
    total,      \* total_weight, an int
    sel,        \* selectedWeight
    pos,        \* the iterator of the walk
    picked,     \* the positions of the instances returned
    sums        \* history: sums[k] is at most the weight of the first k-1 that count

summing == <<next, weighted, total, sums>>
walking == <<sel, pos>>
vars == <<selector, instances, pc, summing, walking, picked>>

MinInt == - MaxInt - 1

\* "none": an integer.  "low": so little that a subtraction from an int may lose
\* it.  "high": so near to 1 that an addition may round it up.  "negligible":
\* the weight is below 1e-10; any other weight below 1/65536 is more than "low".
Weights == {w \in [whole : Nat, frac : {"none", "low", "middle", "high", "negligible"}] :
              /\ w.frac = "negligible" => w.whole = 0
              /\ w.whole = 0 => w.frac \in {"middle", "high", "negligible"}}

Instances == [weight : Weights, healthy : BOOLEAN]
Weight(i) == instances[i].weight

\* A list has no more elements than an unsigned int counts.
ASSUME ListsAssumption ==
    /\ MaxInt \in Nat
    /\ \A list \in Lists : list \in Seq(Instances) /\ Len(list) <= 2 * MaxInt + 2

Init ==
    /\ selector \in {"weight", "random", "healthy", "null"}
    /\ instances \in Lists
    /\ pc = "call"
    /\ next = 1 /\ weighted = <<>> /\ total = 0 /\ sums = <<0>>
    /\ sel = 0 /\ pos = 1
    /\ picked = {}

-----------------------------------------------------------------------------
\* RandomUtils::random(0, end): it throws when there is nothing to choose from.
\* With end = MaxInt the divisor overflows to MinInt, which divides nothing off.
Throws(end) == end <= 0
Drawn(end) == 0 .. end

\* A null selector leaves the list as it is.
SelectAll ==
    /\ pc = "call" /\ selector = "null"
    /\ picked' = DOMAIN instances
    /\ pc' = "returned"
    /\ UNCHANGED <<selector, instances, summing, walking>>

SelectHealthy ==
    /\ pc = "call" /\ selector = "healthy"
    /\ picked' = {i \in DOMAIN instances : instances[i].healthy}
    /\ pc' = "returned"
    /\ UNCHANGED <<selector, instances, summing, walking>>

\* For an empty list the size less 1 wraps around, and is -1 as an int.
SelectRandom ==
    /\ pc = "call" /\ selector = "random"
    /\ \/ /\ Len(instances) # 1 /\ Throws(Len(instances) - 1)
          /\ pc' = "thrown" /\ UNCHANGED picked
       \/ /\ Len(instances) = 1 \/ ~Throws(Len(instances) - 1)
          /\ \E n \in Drawn(Len(instances) - 1) : picked' = {n + 1}
          /\ pc' = "returned"
    /\ UNCHANGED <<selector, instances, summing, walking>>

-----------------------------------------------------------------------------
(* RandomByWeightSelector::select(). *)

\* The sum of an int and a weight is truncated towards 0, after an addition
\* that may have rounded it up: by so much it exceeds total + w.whole.
Carries(w) ==
    {r \in {0, 1} :
        /\ w.frac = "none" => r = 0
        /\ total >= 0 /\ r = 1 => w.frac = "high"
        /\ total < 0 /\ w.whole = 0 => r = 1}

\* A sum beyond the int is converted to MinInt, as the instruction of x86 does.
Fits(n) == n <= MaxInt

\* Mutant: what must not be chosen is skipped after its weight was added.
Add_SkipsUnhealthy ==
    /\ pc = "call" /\ selector = "weight" /\ next <= Len(instances)
    /\ next' = next + 1
    /\ LET w == Weight(next) IN
       \/ w.frac = "negligible" /\ UNCHANGED <<weighted, total, sums>>
       \/ /\ w.frac # "negligible"
          /\ weighted' = IF instances[next].healthy THEN Append(weighted, next) ELSE weighted
          /\ \E r \in Carries(w) :
               /\ total' = IF Fits(total + w.whole + r) THEN total + w.whole + r ELSE MinInt
               /\ sums' = Append(sums, sums[Len(sums)] + w.whole + IF total >= 0 THEN r ELSE 0)
    /\ UNCHANGED <<selector, instances, pc, walking, picked>>

\* Mutant: every instance is listed.
Add_KeepsNegligible ==
    /\ pc = "call" /\ selector = "weight" /\ next <= Len(instances)
    /\ next' = next + 1
    /\ weighted' = Append(weighted, next)
    /\ LET w == Weight(next) IN
       \E r \in Carries(w) :
         /\ total' = IF Fits(total + w.whole + r) THEN total + w.whole + r ELSE MinInt
         /\ sums' = Append(sums, sums[Len(sums)] + w.whole + IF total >= 0 THEN r ELSE 0)
    /\ UNCHANGED <<selector, instances, pc, walking, picked>>

Add ==
    /\ pc = "call" /\ selector = "weight" /\ next <= Len(instances)
    /\ next' = next + 1
    /\ LET w == Weight(next) IN
       \/ w.frac = "negligible" /\ UNCHANGED <<weighted, total, sums>>
       \/ /\ w.frac # "negligible"
          /\ weighted' = Append(weighted, next)
          /\ \E r \in Carries(w) :
               /\ total' = IF Fits(total + w.whole + r) THEN total + w.whole + r ELSE MinInt
               /\ sums' = Append(sums, sums[Len(sums)] + w.whole + IF total >= 0 THEN r ELSE 0)
    /\ UNCHANGED <<selector, instances, pc, walking, picked>>

SelectNone ==
    /\ pc = "call" /\ selector = "weight" /\ next > Len(instances)
    /\ total = 0
    /\ pc' = "returned"
    /\ UNCHANGED <<selector, instances, summing, walking, picked>>

\* total_weight - 1 wraps around to MaxInt from MinInt.
Draw ==
    /\ pc = "call" /\ selector = "weight" /\ next > Len(instances)
    /\ total # 0
    /\ LET end == IF total = MinInt THEN MaxInt ELSE total - 1 IN
       \/ Throws(end) /\ pc' = "thrown" /\ UNCHANGED sel
       \/ ~Throws(end) /\ sel' \in Drawn(end) /\ pc' = "walk"
    /\ UNCHANGED <<selector, instances, summing, pos, picked>>

\* The rest of a weight that is subtracted from sel.
Borrows(w) ==
    {d \in {0, 1} :
        /\ w.frac = "none" => d = 0
        /\ w.frac \in {"middle", "high"} => d = 1}

Walk ==
    /\ pc = "walk"
    /\ LET w == Weight(weighted[pos]) IN
       /\ sel > w.whole
       /\ \E d \in Borrows(w) : sel' = sel - w.whole - d
    /\ pos' = pos + 1
    /\ UNCHANGED <<selector, instances, pc, summing, picked>>

Pick ==
    /\ pc = "walk"
    /\ ~(sel > Weight(weighted[pos]).whole)
    /\ picked' = {weighted[pos]}
    /\ pc' = "returned"
    /\ UNCHANGED <<selector, instances, summing, walking>>

Next == SelectAll \/ SelectHealthy \/ SelectRandom \/ Add \/ SelectNone \/ Draw \/ Walk \/ Pick

Spec == Init /\ [][Next]_vars

-----------------------------------------------------------------------------
(* Properties. *)

\* The walk of RandomByWeightSelector, which does not look for the end of the
\* list, never passes it, however the weights are rounded and the sum wraps.
NeverPastTheEnd == pc = "walk" => pos \in 1..Len(weighted)

\* A selector returns instances of the list, and the weighted choice none
\* whose weight is negligible.
PickedCounts ==
    /\ picked \subseteq DOMAIN instances
    /\ selector = "weight" => \A i \in picked : Weight(i).frac # "negligible"

-----------------------------------------------------------------------------
(* The inductive invariant. *)

Counted(k) == sums[k + 1] - sums[k]

TypeOK ==
    /\ selector \in {"weight", "random", "healthy", "null"}
    /\ instances \in Seq(Instances) /\ Len(instances) <= 2 * MaxInt + 2
    /\ pc \in {"call", "walk", "returned", "thrown"}
    /\ next \in 1..Len(instances) + 1
    /\ weighted \in Seq(Nat)
    /\ total \in MinInt..MaxInt
    /\ sel \in 0..MaxInt
    /\ pos \in Nat \ {0}
    /\ sums \in Seq(Nat)
    /\ pc = "walk" => selector = "weight"
    /\ (pc = "call" /\ selector # "weight") => picked = {}

\* What counts is in the list, and sums grows by the weights with at most what
\* the additions have rounded up.
SumsInv ==
    /\ Len(sums) = Len(weighted) + 1
    /\ Len(weighted) < next
    /\ sums[1] = 0
    /\ \A k \in DOMAIN weighted :
         LET w == Weight(weighted[k]) IN
         /\ weighted[k] \in DOMAIN instances
         /\ w.frac # "negligible"
         /\ Counted(k) = w.whole \/ (w.frac = "high" /\ Counted(k) = w.whole + 1)

\* total_weight never exceeds the weights: once it has wrapped it is behind by
\* the range of an int, and what truncation towards 0 adds to a negative sum, at
\* most 1 per instance, does not make up for that.
TotalInv ==
    LET all == sums[Len(sums)] IN
    /\ total <= all
    /\ total < 0 => total + 2 * MaxInt + 2 - Len(weighted) <= all
    /\ total = MinInt => all >= MaxInt + 1

\* What is left of the drawn number is less than what is left of the weights.
WalkInv ==
    /\ pc = "call" => pos = 1
    /\ pc = "walk" => pos \in 1..Len(weighted) /\ sel < sums[Len(sums)] - sums[pos]

Inv == TypeOK /\ SumsInv /\ TotalInv /\ WalkInv /\ PickedCounts
================================================================================
