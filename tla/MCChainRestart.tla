---------------------------- MODULE MCChainRestart ----------------------------
(***************************************************************************)
(* Instances of ChainRestart for TLC: two validators, with 3 and 2 tokens, *)
(* that compete for one seat, and no allow list or one naming the first.   *)
(***************************************************************************)
EXTENDS ChainRestart

TwoValidators == {1, 2}
TwoStakes == [v \in TwoValidators |-> IF v = 1 THEN 3 ELSE 2]
NoListOrFirst == {{}, {[addr |-> 1, spelling |-> "lower"]}}
=============================================================================
