------------------------- MODULE MCInstanceSelection -------------------------
(***************************************************************************)
(* Every list of at most MaxLength instances whose weights are at most      *)
(* MaxWhole, in all the ways a weight is rounded; MaxInt is smaller than    *)
(* most of their sums.                                                      *)
(***************************************************************************)
EXTENDS InstanceSelection

CONSTANTS MaxLength, MaxWhole

MCWeights ==
    {w \in [whole : 0..MaxWhole, frac : {"none", "low", "middle", "high", "negligible"}] :
        w \in Weights}

\* Health matters to one selector only: with one weight both are listed.
MCInstances ==
    [weight : MCWeights, healthy : {TRUE}]
    \cup [weight : {w \in MCWeights : w.whole = MaxWhole /\ w.frac = "none"}, healthy : {FALSE}]

MCLists == UNION {[1..n -> MCInstances] : n \in 0..MaxLength}
=============================================================================
