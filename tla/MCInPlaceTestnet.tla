--------------------------- MODULE MCInPlaceTestnet ---------------------------
(***************************************************************************)
(* Instances of InPlaceTestnet for TLC: a node with one or two validators, *)
(* and a further operator it has not seen.                                 *)
(***************************************************************************)
EXTENDS InPlaceTestnet

ThreeValidators == {1, 2, 3}
TwoValidators == {1, 2}
TwoStakes == [v \in {1, 2} |-> IF v = 1 THEN 3 ELSE 2]
OneStake == [v \in {1} |-> 3]

\* No allow list: what a list does is checked without the testnet.
NoList == {{}}

\* The default, one account, one account twice, and one that is none.
Flags == {<<>>, <<1>>, <<1, 1>>, <<1, NoAddress>>}
OneAccount == {<<1>>}
=============================================================================
