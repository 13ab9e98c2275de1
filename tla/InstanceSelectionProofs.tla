------------------------ MODULE InstanceSelectionProofs ------------------------
(***************************************************************************)
(* For every list of weights and every width of the int: the walk of       *)
(* RandomByWeightSelector stays in the list, although it does not test for  *)
(* the end and the sum of the weights may wrap, and the selectors return    *)
(* instances that may be returned.                                          *)
(***************************************************************************)
EXTENDS InstanceSelection, TLAPS

LEMMA InitInv == Init => Inv
<1> SUFFICES ASSUME Init PROVE Inv
  OBVIOUS
<1> USE ListsAssumption
<1>1. sums \in Seq(Nat) /\ Len(sums) = 1 /\ sums[1] = 0
  BY DEF Init
<1>2. weighted \in Seq(Nat) /\ Len(weighted) = 0 /\ DOMAIN weighted = {}
  BY DEF Init
<1>3. TypeOK
  BY <1>1, <1>2 DEF Init, TypeOK, MinInt
<1>4. SumsInv
  BY <1>1, <1>2 DEF Init, SumsInv
<1>5. TotalInv
  BY <1>1, <1>2 DEF Init, TotalInv, MinInt
<1> QED
  BY <1>3, <1>4, <1>5 DEF Init, Inv, WalkInv, PickedCounts

\* The rest of a weight is carried as 0 or 1, and borrowed wherever it may have
\* been carried into the sum.
LEMMA CarryBorrow ==
  ASSUME NEW w \in Weights, NEW d \in Borrows(w)
  PROVE  /\ w.whole \in Nat /\ d \in {0, 1}
         /\ w.frac = "high" => d = 1
         /\ w.whole = 0 => w.frac # "none"
BY DEF Weights, Borrows

LEMMA Appended ==
  ASSUME NEW S, NEW s \in Seq(S), NEW e \in S
  PROVE  /\ Append(s, e) \in Seq(S) /\ Len(Append(s, e)) = Len(s) + 1
         /\ \A k \in 1..Len(s) : Append(s, e)[k] = s[k]
         /\ Append(s, e)[Len(s) + 1] = e
OBVIOUS

\* One addition to the int, of a weight with integral part "whole", when the n
\* weights before it amount to "all".
LEMMA OneAddition ==
  ASSUME NEW t \in MinInt..MaxInt, NEW all \in Nat, NEW whole \in Nat,
         NEW r \in {0, 1}, NEW n \in Nat, n + 1 <= 2 * MaxInt + 2,
         t < 0 /\ whole = 0 => r = 1,
         t <= all, t < 0 => t + 2 * MaxInt + 2 - n <= all, t = MinInt => all >= MaxInt + 1
  PROVE  LET t2 == IF Fits(t + whole + r) THEN t + whole + r ELSE MinInt
             all2 == all + whole + IF t >= 0 THEN r ELSE 0
         IN /\ t2 \in MinInt..MaxInt /\ all2 \in Nat
            /\ t2 <= all2
            /\ t2 < 0 => t2 + 2 * MaxInt + 2 - (n + 1) <= all2
            /\ t2 = MinInt => all2 >= MaxInt + 1
<1>0. MaxInt \in Nat
  BY ListsAssumption
<1> USE <1>0 DEF Fits, MinInt
<1>1. CASE t >= 0
  BY <1>1
<1>2. CASE t < 0
  BY <1>2
<1> QED
  BY <1>1, <1>2

\* One step of the walk, over a weight that counts for "counted" in the sum and
\* takes "whole" and d off the number.
LEMMA OneStep ==
  ASSUME NEW s \in 0..MaxInt, NEW whole \in Nat, NEW d \in {0, 1},
         NEW counted \in Nat, counted <= whole + d, s > whole,
         NEW before \in Nat, NEW all \in Nat, s < all - before
  PROVE  s - whole - d \in 0..MaxInt /\ s - whole - d < all - (before + counted)
BY ListsAssumption

LEMMA AddInv ==
  ASSUME Inv, Add
  PROVE  Inv'
<1>0. MaxInt \in Nat
  BY ListsAssumption
<1> USE <1>0 DEF Inv
<1> DEFINE w == Weight(next)
           all == sums[Len(sums)]
<1>1. /\ next \in 1..Len(instances) /\ next \in Nat /\ Len(instances) \in Nat /\ w \in Weights
      /\ w.whole \in Nat /\ (w.whole = 0 => w.frac # "none")
  <2>1. /\ next \in 1..Len(instances) /\ next \in Nat /\ Len(instances) \in Nat
        /\ instances[next] \in Instances
    BY DEF Add, TypeOK
  <2> QED
    BY <2>1 DEF Instances, Weights, Weight
<1>2. /\ UNCHANGED <<selector, instances, pc, sel, pos, picked>>
      /\ next' = next + 1 /\ pc = "call" /\ selector = "weight"
  BY DEF Add, walking
<1>3. CASE UNCHANGED <<weighted, total, sums>>
  <2>1. TypeOK'
    BY <1>1, <1>2, <1>3 DEF TypeOK
  <2>2. SumsInv'
    BY <1>1, <1>2, <1>3 DEF SumsInv, TypeOK, Weight, Counted
  <2> QED
    BY <2>1, <2>2, <1>2, <1>3 DEF TotalInv, WalkInv, PickedCounts, Weight
<1>4. CASE w.frac # "negligible"
  <2>1. PICK r \in Carries(w) :
          /\ weighted' = Append(weighted, next)
          /\ total' = IF Fits(total + w.whole + r) THEN total + w.whole + r ELSE MinInt
          /\ sums' = Append(sums, all + w.whole + IF total >= 0 THEN r ELSE 0)
    BY <1>4 DEF Add
  <2> DEFINE all2 == all + w.whole + IF total >= 0 THEN r ELSE 0
  <2>2. /\ r \in {0, 1} /\ (w.frac = "none" => r = 0)
        /\ (total >= 0 /\ r = 1 => w.frac = "high")
        /\ (total < 0 /\ w.whole = 0 => r = 1)
    BY DEF Carries
  <2>3. /\ total \in MinInt..MaxInt /\ all \in Nat
        /\ weighted \in Seq(Nat) /\ Len(weighted) \in Nat /\ DOMAIN weighted = 1..Len(weighted)
        /\ sums \in Seq(Nat) /\ Len(sums) = Len(weighted) + 1
        /\ Len(weighted) + 1 <= 2 * MaxInt + 2
    BY <1>1 DEF TypeOK, SumsInv
  <2>4. /\ total' \in MinInt..MaxInt /\ all2 \in Nat
        /\ total' <= all2
        /\ total' < 0 => total' + 2 * MaxInt + 2 - (Len(weighted) + 1) <= all2
        /\ total' = MinInt => all2 >= MaxInt + 1
    <3> HIDE DEF all, w
    <3>1. /\ total <= all
          /\ total < 0 => total + 2 * MaxInt + 2 - Len(weighted) <= all
          /\ total = MinInt => all >= MaxInt + 1
      BY DEF TotalInv, all
    <3>2. r \in {0, 1} /\ (total < 0 /\ w.whole = 0 => r = 1)
      BY <2>2
    <3>3. total \in MinInt..MaxInt /\ all \in Nat /\ Len(weighted) \in Nat
          /\ Len(weighted) + 1 <= 2 * MaxInt + 2 /\ w.whole \in Nat
      BY <1>1, <2>3
    <3>4. LET t2 == IF Fits(total + w.whole + r) THEN total + w.whole + r ELSE MinInt
          IN /\ t2 \in MinInt..MaxInt /\ all2 \in Nat
             /\ t2 <= all2
             /\ t2 < 0 => t2 + 2 * MaxInt + 2 - (Len(weighted) + 1) <= all2
             /\ t2 = MinInt => all2 >= MaxInt + 1
      BY <3>1, <3>2, <3>3, OneAddition
    <3> HIDE DEF all2
    <3> QED
      BY <2>1, <3>4
  <2>5. /\ weighted' \in Seq(Nat) /\ Len(weighted') = Len(weighted) + 1
        /\ \A k \in DOMAIN weighted : weighted'[k] = weighted[k]
        /\ weighted'[Len(weighted) + 1] = next
        /\ DOMAIN weighted' = 1..Len(weighted) + 1
    BY <1>1, <2>1, <2>3, Appended
  <2>6. /\ sums' \in Seq(Nat) /\ Len(sums') = Len(sums) + 1
        /\ \A k \in 1..Len(sums) : sums'[k] = sums[k]
        /\ sums'[Len(sums) + 1] = all2
    <3> HIDE DEF all2
    <3>1. sums' = Append(sums, all2)
      BY <2>1 DEF all2
    <3> QED
      BY <2>3, <2>4, <3>1, Appended
  <2>7. TypeOK'
    BY <1>1, <1>2, <2>4, <2>5, <2>6 DEF TypeOK, MinInt
  <2>8. SumsInv'
    <3>1. /\ Len(sums') = Len(weighted') + 1 /\ Len(weighted') < next' /\ sums'[1] = 0
      BY <1>1, <1>2, <2>3, <2>5, <2>6 DEF SumsInv
    <3>2. ASSUME NEW k \in DOMAIN weighted'
          PROVE  /\ weighted'[k] \in DOMAIN instances
                 /\ Weight(weighted'[k]).frac # "negligible"
                 /\ \/ sums'[k + 1] - sums'[k] = Weight(weighted'[k]).whole
                    \/ /\ Weight(weighted'[k]).frac = "high"
                       /\ sums'[k + 1] - sums'[k] = Weight(weighted'[k]).whole + 1
      <4>1. CASE k \in DOMAIN weighted
        <5>1. /\ weighted'[k] = weighted[k] /\ sums'[k] = sums[k] /\ sums'[k + 1] = sums[k + 1]
          <6>1. k \in 1..Len(sums) /\ k + 1 \in 1..Len(sums)
            BY <2>3, <4>1
          <6> QED
            BY <2>5, <2>6, <4>1, <6>1
        <5> QED
          BY <4>1, <5>1 DEF SumsInv, Counted
      <4>2. CASE k = Len(weighted) + 1
        <5>1. weighted'[k] = next /\ sums'[k] = all /\ sums'[k + 1] = all2
          BY <2>3, <2>5, <2>6, <4>2
        <5>2. next \in DOMAIN instances
          BY <1>1 DEF TypeOK
        <5>3. all2 - all = w.whole \/ (w.frac = "high" /\ all2 - all = w.whole + 1)
          <6> HIDE DEF all, w
          <6>1. all2 - all = w.whole + IF total >= 0 THEN r ELSE 0
            BY <1>1, <2>2, <2>3
          <6> QED
            BY <1>1, <2>2, <2>3, <6>1
        <5> QED
          BY <1>4, <5>1, <5>2, <5>3
      <4> QED
        BY <2>3, <2>5, <4>1, <4>2
    <3> QED
      BY <1>2, <3>1, <3>2 DEF SumsInv, Weight, Counted
  <2>9. TotalInv'
    <3>1. sums'[Len(sums')] = all2 /\ Len(weighted') = Len(weighted) + 1
      BY <2>5, <2>6
    <3> HIDE DEF all2
    <3> QED
      BY <2>4, <3>1 DEF TotalInv, MinInt
  <2> QED
    BY <1>2, <2>7, <2>8, <2>9 DEF WalkInv, PickedCounts, Weight
<1> QED
  BY <1>3, <1>4 DEF Add

LEMMA DrawInv ==
  ASSUME Inv, Draw
  PROVE  Inv'
<1>0. MaxInt \in Nat
  BY ListsAssumption
<1> USE <1>0 DEF Inv
<1> DEFINE all == sums[Len(sums)]
           end == IF total = MinInt THEN MaxInt ELSE total - 1
<1>1. /\ UNCHANGED <<selector, instances, next, weighted, total, sums, pos, picked>>
      /\ selector = "weight" /\ pc = "call" /\ total # 0 /\ pos = 1
  BY DEF Draw, summing, WalkInv
<1>2. CASE pc' = "thrown" /\ UNCHANGED sel
  BY <1>1, <1>2 DEF TypeOK, SumsInv, TotalInv, WalkInv, PickedCounts, Weight, Counted
<1>3. CASE ~Throws(end) /\ sel' \in Drawn(end) /\ pc' = "walk"
  <2>1. /\ all \in Nat /\ sums[1] = 0 /\ Len(sums) = Len(weighted) + 1
        /\ total \in MinInt..MaxInt /\ Len(weighted) \in Nat
    BY DEF TypeOK, SumsInv
  <2>2. /\ total <= all
        /\ total < 0 => total + 2 * MaxInt + 2 - Len(weighted) <= all
        /\ total = MinInt => all >= MaxInt + 1
    BY DEF TotalInv
  <2>3. Len(weighted) >= 1
    BY <1>1, <2>1, <2>2 DEF MinInt
  <2>4. sel' \in 0..MaxInt /\ sel' < all
    BY <1>1, <1>3, <2>1, <2>2 DEF Throws, Drawn, MinInt
  <2>5. TypeOK'
    BY <1>1, <1>3, <2>4 DEF TypeOK
  <2>6. WalkInv'
    BY <1>1, <1>3, <2>1, <2>3, <2>4 DEF WalkInv
  <2> QED
    BY <1>1, <1>3, <2>5, <2>6 DEF SumsInv, TotalInv, PickedCounts, Weight, Counted
<1> QED
  BY <1>2, <1>3 DEF Draw

LEMMA WalkStep ==
  ASSUME Inv, Walk
  PROVE  Inv'
<1>0. MaxInt \in Nat
  BY ListsAssumption
<1> USE <1>0 DEF Inv
<1> DEFINE w == Weight(weighted[pos])
<1>1. PICK d \in Borrows(w) : sel > w.whole /\ sel' = sel - w.whole - d
  BY DEF Walk
<1>2. /\ UNCHANGED <<selector, instances, pc, next, weighted, total, sums, picked>>
      /\ pc = "walk" /\ pos' = pos + 1
  BY DEF Walk, summing
<1>3. /\ pos \in 1..Len(weighted) /\ sel < sums[Len(sums)] - sums[pos]
      /\ sel \in 0..MaxInt /\ Len(weighted) \in Nat /\ Len(sums) = Len(weighted) + 1
      /\ sums[Len(sums)] \in Nat /\ sums[pos] \in Nat /\ sums[pos + 1] \in Nat
  <2>1. /\ pos \in 1..Len(weighted) /\ sel < sums[Len(sums)] - sums[pos]
        /\ sel \in 0..MaxInt /\ Len(weighted) \in Nat /\ Len(sums) = Len(weighted) + 1
        /\ sums \in Seq(Nat)
    BY <1>2 DEF WalkInv, TypeOK, SumsInv
  <2> QED
    BY <2>1
<1>4. /\ w \in Weights
      /\ sums[pos + 1] - sums[pos] = w.whole
           \/ (w.frac = "high" /\ sums[pos + 1] - sums[pos] = w.whole + 1)
  <2>1. pos \in DOMAIN weighted
    BY <1>3 DEF TypeOK
  <2>2. weighted[pos] \in DOMAIN instances
    BY <2>1 DEF SumsInv
  <2>3. instances[weighted[pos]] \in Instances
    BY <2>2 DEF TypeOK
  <2> QED
    BY <2>1, <2>3 DEF SumsInv, Counted, Instances, Weight
<1>5. w.whole \in Nat /\ d \in {0, 1} /\ (w.frac = "high" => d = 1)
  BY <1>4, CarryBorrow
<1>6. sel' \in 0..MaxInt /\ sel' < sums[Len(sums)] - sums[pos + 1]
  <2> HIDE DEF w
  <2> DEFINE counted == sums[pos + 1] - sums[pos]
  <2>1. counted \in Nat /\ counted <= w.whole + d
    BY <1>4, <1>5
  <2>2. sums[pos + 1] = sums[pos] + counted
    BY <1>3
  <2> HIDE DEF counted
  <2>3. /\ sel - w.whole - d \in 0..MaxInt
        /\ sel - w.whole - d < sums[Len(sums)] - (sums[pos] + counted)
    BY <1>1, <1>3, <1>5, <2>1, OneStep
  <2> QED
    BY <1>1, <2>2, <2>3
<1>7. pos + 1 \in 1..Len(weighted)
  BY <1>1, <1>3, <1>4, <1>5
<1>8. TypeOK'
  BY <1>2, <1>3, <1>6 DEF TypeOK
<1>9. WalkInv'
  BY <1>2, <1>6, <1>7 DEF WalkInv
<1> QED
  BY <1>2, <1>8, <1>9 DEF SumsInv, TotalInv, PickedCounts, Weight, Counted

\* A step that ends the call, with instances that may be returned.
LEMMA EndInv ==
  ASSUME Inv, pc' \in {"returned", "thrown"}, picked' \subseteq DOMAIN instances,
         selector = "weight" => \A i \in picked' : Weight(i).frac # "negligible",
         UNCHANGED <<selector, instances, next, weighted, total, sums, sel, pos>>
  PROVE  Inv'
<1>1. TypeOK'
  BY DEF Inv, TypeOK
<1>2. SumsInv' /\ TotalInv'
  BY DEF Inv, SumsInv, TotalInv, Weight, Counted
<1>3. WalkInv' /\ PickedCounts'
  BY DEF Inv, WalkInv, PickedCounts, Weight
<1> QED
  BY <1>1, <1>2, <1>3 DEF Inv

LEMMA NextInv ==
  ASSUME Inv, [Next]_vars
  PROVE  Inv'
<1>1. CASE SelectAll
  BY <1>1, EndInv DEF SelectAll, summing, walking
<1>2. CASE SelectHealthy
  BY <1>2, EndInv DEF SelectHealthy, summing, walking
<1>3. CASE SelectRandom
  <2>1. picked' \subseteq DOMAIN instances
    BY <1>3 DEF SelectRandom, Throws, Drawn, Inv, TypeOK, PickedCounts
  <2> QED
    BY <1>3, <2>1, EndInv DEF SelectRandom, summing, walking
<1>4. CASE Add
  BY <1>4, AddInv
<1>5. CASE SelectNone
  BY <1>5, EndInv DEF SelectNone, summing, walking, Inv, PickedCounts
<1>6. CASE Draw
  BY <1>6, DrawInv
<1>7. CASE Walk
  BY <1>7, WalkStep
<1>8. CASE Pick
  <2>1. pos \in DOMAIN weighted
    BY <1>8 DEF Pick, Inv, WalkInv, TypeOK
  <2>2. weighted[pos] \in DOMAIN instances /\ Weight(weighted[pos]).frac # "negligible"
    BY <2>1 DEF Inv, SumsInv
  <2> QED
    BY <1>8, <2>2, EndInv DEF Pick, summing, walking
<1>9. CASE UNCHANGED vars
  BY <1>9 DEF vars, summing, walking, Inv, TypeOK, SumsInv, TotalInv, WalkInv, PickedCounts, Weight, Counted
<1> QED
  BY <1>1, <1>2, <1>3, <1>4, <1>5, <1>6, <1>7, <1>8, <1>9 DEF Next

-----------------------------------------------------------------------------
\* The loop at the end of RandomByWeightSelector::select() never dereferences
\* the end of weightedList.
THEOREM WalkEnds == Spec => []NeverPastTheEnd
<1>1. Init => Inv
  BY InitInv
<1>2. Inv /\ [Next]_vars => Inv'
  BY NextInv
<1>3. Inv => NeverPastTheEnd
  BY DEF Inv, WalkInv, NeverPastTheEnd
<1> QED
  BY <1>1, <1>2, <1>3, PTL DEF Spec

\* What a selector returns is in the list of the server, and counts.
THEOREM PickedCorrect == Spec => []PickedCounts
<1>1. Init => Inv
  BY InitInv
<1>2. Inv /\ [Next]_vars => Inv'
  BY NextInv
<1>3. Inv => PickedCounts
  BY DEF Inv
<1> QED
  BY <1>1, <1>2, <1>3, PTL DEF Spec
================================================================================
