------------------------- MODULE MCSequenceProvider -------------------------
(* Instances of SequenceProvider for TLC. *)
EXTENDS SequenceProvider, TLC

CONSTANTS p1, p2, t1, t2

\* Two threads on one provider.
MCOneProviderOf == (t1 :> p1) @@ (t2 :> p1)
\* One thread on each of two providers.
MCTwoProvidersOf == (t1 :> p1) @@ (t2 :> p2)
=============================================================================
