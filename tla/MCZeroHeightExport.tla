-------------------------- MODULE MCZeroHeightExport --------------------------
(***************************************************************************)
(* Instances of ZeroHeightExport for TLC: constants that are functions or  *)
(* sets of records, named here and chosen by the configurations.           *)
(***************************************************************************)
EXTENDS ZeroHeightExport

Spelled(a, how) == [addr |-> a, spelling |-> how]

\* Two validators with self-delegations of 3 and 2 tokens.
TwoValidators == {1, 2}
TwoStakes == [v \in TwoValidators |-> IF v = 1 THEN 3 ELSE 2]

\* Three validators, one of which comes, and may go, by messages; with the
\* smallest stake it ties with validator 1.
ThreeValidators == {1, 2, 3}
TwoOfThreeStakes == [v \in {1, 3} |-> IF v = 3 THEN 3 ELSE 2]

\* No list, everybody, one validator (in each spelling), a stranger, garbage.
FiveLists ==
    {{}, {Spelled(1, "lower"), Spelled(2, "lower")}, {Spelled(1, "lower")},
     {Spelled(1, "upper"), Spelled(2, "lower")}, {Spelled(3, "malformed")}}

\* No list, or one that leaves a single validator out.
AllButOne ==
    {{}} \cup {{Spelled(v, "lower") : v \in Validators \ {w}} : w \in Validators}
=============================================================================
