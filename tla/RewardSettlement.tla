--------------------------- MODULE RewardSettlement ---------------------------
(***************************************************************************)
(* What reward accounting promises, whatever the periods and references    *)
(* behind it: the coins of the distribution module are owed to somebody.   *)
(* `held' decimal units are outstanding to validators and delegators,      *)
(* `pool' belong to the community, `funds' coins cover the two exactly.    *)
(* Coins come in with a block and leave only to an account that is paid;   *)
(* what is owed turns into a payment or moves to the pool, never the other *)
(* way round, and never disappears.                                        *)
(***************************************************************************)
EXTENDS Integers

CONSTANTS Unit,  \* decimal units in one coin
          Fee    \* coins collected per block

VARIABLES held, pool, funds, paid

settlement == <<held, pool, funds, paid>>

Init == held = 0 /\ pool = 0 /\ funds = 0 /\ paid = 0

\* A block's fees are divided between the outstanding rewards and the pool.
Accrue ==
    /\ funds' = funds + Fee
    /\ held' >= held
    /\ pool' >= pool
    /\ held' + pool' = held + pool + Fee * Unit
    /\ UNCHANGED paid

\* Outstanding rewards are paid out in whole coins, the decimals are donated.
Settle ==
    /\ held' <= held
    /\ pool' >= pool
    /\ paid' >= paid
    /\ funds' = funds - (paid' - paid)
    /\ held' + pool' = held + pool - (paid' - paid) * Unit

Next == Accrue \/ Settle

Spec == Init /\ [][Next]_settlement

Covered == funds * Unit = held + pool
=============================================================================
