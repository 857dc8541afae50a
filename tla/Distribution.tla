---------------------------- MODULE Distribution ----------------------------
(***************************************************************************)
(* The part of the Cosmos SDK's x/distribution keeper that mirrorvaultd    *)
(* calls: fee distribution by reference-counted reward periods.  The       *)
(* keeper is a library (not under src/); it is modelled from the calls     *)
(* src/chain/app/export.go makes.                                          *)
(*                                                                         *)
(* The keeper's store is one record d, and every keeper method a pure      *)
(* operator from the store to the store, so that one step of the program   *)
(* that makes several calls is their composition:                          *)
(*   outst[v]   outstanding rewards of validator v, in decimal units       *)
(*   comm[v]    accumulated commission, in decimal units                   *)
(*   rew[v]     rewards of the period that is still open                   *)
(*   period[v]  number of the open period                                  *)
(*   hist[v]    historical rewards: period -> [ratio, refs], partial       *)
(*   start[<<a, v>>]  starting info of a's delegation to v, or NoInfo      *)
(*   pool       community pool, in decimal units                           *)
(*   funds      whole coins of the distribution module account             *)
(*   paid[a]    whole coins sent to account a so far                       *)
(*   fault      the first panic or unexpected error of the keeper          *)
(* A coin is Unit decimal units: sdk.Dec has 18 digits, the model a few.   *)
(* s is the store of the staking keeper (module Staking): tokens of a      *)
(* validator and shares of a delegation.  No validator is ever slashed     *)
(* (x/slashing and x/evidence are not wired, app_config.go), so a share    *)
(* is worth one token and slash events do not exist.                       *)
(***************************************************************************)
EXTENDS Integers

CONSTANTS Validators,    \* operator addresses, in key order
          Accounts,      \* account addresses; an operator is an account
          NoInfo,        \* no delegator starting info under the key
          Unit,          \* decimal units in one coin
          CommissionDiv  \* commission rate: one part in CommissionDiv

ASSUME AddressAssumption == Validators \subseteq Accounts /\ Accounts \subseteq Nat
ASSUME UnitAssumption == Unit \in Nat \ {0} /\ CommissionDiv \in Nat \ {0}

\* A delegation is keyed by its delegator and its validator.
Pairs == Accounts \X Validators

HistoricalRewards == [ratio : Nat, refs : Nat]
StartingInfo == [period : Nat, stake : Nat, height : Nat]

\* The panics of the reference counts, and the other checks of the accounting
\* (negative coins, a stake or ratio that shrank, a missing starting info, a
\* module account that cannot pay).
RefFaults == {"references exceed 2", "references negative"}
Faults == RefFaults \cup {"negative coins", "calculation", "no info", "unfunded"}

ASSUME NoInfoAssumption == NoInfo \notin StartingInfo

\* What the KV store holds: every field of d has its type.
DistOK(d) ==
    /\ d \in [outst : [Validators -> Nat], comm : [Validators -> Nat],
              rew : [Validators -> Nat], period : [Validators -> Nat \ {0}],
              hist : [Validators -> {d.hist[v] : v \in Validators}],
              start : [Pairs -> StartingInfo \cup {NoInfo}],
              pool : Nat, funds : Nat, paid : [Accounts -> Nat],
              fault : {"none"} \cup Faults]
    /\ \A v \in Validators :
           /\ DOMAIN d.hist[v] \subseteq Nat
           /\ d.hist[v] \in [DOMAIN d.hist[v] -> HistoricalRewards]

-----------------------------------------------------------------------------
\* A panic (or an error nobody expects) ends the calling step: keep the first.
Fault(d, why) == [d EXCEPT !.fault = IF d.fault = "none" THEN why ELSE d.fault]

\* GetValidatorHistoricalRewards: a missing key reads as the zero value.
Historical(d, v, p) ==
    IF p \in DOMAIN d.hist[v] THEN d.hist[v][p] ELSE [ratio |-> 0, refs |-> 0]

\* SetValidatorHistoricalRewards
SetHistorical(d, v, p, ratio, refs) ==
    [d EXCEPT !.hist[v] =
        [q \in DOMAIN d.hist[v] \cup {p} |->
            IF q = p THEN [ratio |-> ratio, refs |-> refs] ELSE d.hist[v][q]]]

\* DeleteValidatorHistoricalReward
DeleteHistorical(d, v, p) ==
    [d EXCEPT !.hist[v] = [q \in DOMAIN d.hist[v] \ {p} |-> d.hist[v][q]]]

\* incrementReferenceCount panics above two references.
IncrementReferenceCount(d, v, p) ==
    LET old == Historical(d, v, p)
    IN  IF old.refs > 2
        THEN Fault(d, "references exceed 2")
        ELSE SetHistorical(d, v, p, old.ratio, old.refs + 1)

\* decrementReferenceCount panics at zero and prunes the last reference.
DecrementReferenceCount(d, v, p) ==
    LET old == Historical(d, v, p)
    IN  IF old.refs = 0
        THEN Fault(d, "references negative")
        ELSE IF old.refs = 1
             THEN DeleteHistorical(d, v, p)
             ELSE SetHistorical(d, v, p, old.ratio, old.refs - 1)

-----------------------------------------------------------------------------
(***************************************************************************)
(* IncrementValidatorPeriod: closes the open period.  Its rewards per      *)
(* token, truncated, are added to the ratio of the period before; a        *)
(* validator without tokens leaves them to the community pool instead.     *)
(***************************************************************************)
IncrementValidatorPeriod(d, s, v) ==
    LET closing == d.period[v]
        stray == IF s.tokens[v] = 0 THEN d.rew[v] ELSE 0
        ratio == Historical(d, v, closing - 1).ratio
                   + (IF s.tokens[v] = 0 THEN 0 ELSE d.rew[v] \div s.tokens[v])
        donated == [d EXCEPT !.outst[v] = @ - stray, !.pool = @ + stray]
        released == DecrementReferenceCount(donated, v, closing - 1)
        closed == SetHistorical(released, v, closing, ratio, 1)
    IN  IF stray > d.outst[v]
        THEN Fault(d, "negative coins")
        ELSE [closed EXCEPT !.rew[v] = 0, !.period[v] = closing + 1]

\* The sanity checks of CalculateDelegationRewards: each one panics.
CalculationPanics(d, s, pair, ending) ==
    LET info == d.start[pair]
    IN  \/ info.stake > s.shares[pair]
        \/ info.period > ending
        \/ Historical(d, pair[2], ending).ratio
              < Historical(d, pair[2], info.period).ratio

\* CalculateDelegationRewards: nothing is due at the height the delegation
\* started, otherwise the stake times the growth of the ratio.
CalculateDelegationRewards(d, pair, ending, h) ==
    LET info == d.start[pair]
    IN  IF info.height = h
        THEN 0
        ELSE info.stake * (Historical(d, pair[2], ending).ratio
                             - Historical(d, pair[2], info.period).ratio)

\* SendCoinsFromModuleToAccount
SendCoins(d, a, coins) == [d EXCEPT !.funds = @ - coins, !.paid[a] = @ + coins]

(***************************************************************************)
(* withdrawDelegationRewards (the hook BeforeDelegationSharesModified):    *)
(* closes the period, pays the whole coins of what is due but no more than *)
(* is outstanding, gives the decimals to the pool, and drops the starting  *)
(* info with its reference.                                                *)
(***************************************************************************)
SettleDelegation(d, s, pair, h) ==
    LET v == pair[2]
        ending == d.period[v]
        closed == IncrementValidatorPeriod(d, s, v)
        raw == CalculateDelegationRewards(closed, pair, ending, h)
        due == IF raw <= closed.outst[v] THEN raw ELSE closed.outst[v]
        coins == due \div Unit
        sent == SendCoins(closed, pair[1], coins)
        settled == [sent EXCEPT !.outst[v] = @ - due, !.pool = @ + (due % Unit)]
        released == DecrementReferenceCount(settled, v, d.start[pair].period)
    IN  IF d.start[pair] = NoInfo
        THEN Fault(d, "no info")
        ELSE IF closed.start[pair].height # h /\ CalculationPanics(closed, s, pair, ending)
        THEN Fault(closed, "calculation")
        ELSE IF coins > closed.funds
        THEN Fault(closed, "unfunded")
        ELSE [released EXCEPT !.start[pair] = NoInfo]

\* initializeDelegation (the hook AfterDelegationModified): the delegation
\* starts from the period closed last and holds a reference to it.
InitializeDelegation(d, s, pair, h) ==
    LET previous == d.period[pair[2]] - 1
        counted == IncrementReferenceCount(d, pair[2], previous)
    IN  [counted EXCEPT !.start[pair] =
            [period |-> previous, stake |-> s.shares[pair], height |-> h]]

\* WithdrawDelegationRewards: an error when there is no starting info.
WithdrawDelegationRewards(d, s, pair, h) ==
    IF d.start[pair] = NoInfo
    THEN d
    ELSE InitializeDelegation(SettleDelegation(d, s, pair, h), s, pair, h)

\* WithdrawValidatorCommission: whole coins only, the decimals stay; an error
\* (and no change) when there is no commission at all.
WithdrawValidatorCommission(d, v) ==
    LET coins == d.comm[v] \div Unit
        sent == SendCoins(d, v, coins)
    IN  IF d.comm[v] = 0
        THEN d
        ELSE IF coins * Unit > d.outst[v] \/ coins > d.funds
        THEN Fault(d, "negative coins")
        ELSE [sent EXCEPT !.comm[v] = d.comm[v] % Unit,
                          !.outst[v] = @ - coins * Unit]

\* initializeValidator (the hook AfterValidatorCreated)
InitializeValidator(d, v) ==
    LET current == [SetHistorical(d, v, 0, 0, 1) EXCEPT !.rew[v] = 0, !.period[v] = 1]
    IN  [current EXCEPT !.comm[v] = 0, !.outst[v] = 0]

(***************************************************************************)
(* The hook AfterValidatorRemoved: pays the whole coins of the commission, *)
(* gives everything else that is outstanding to the pool and deletes the   *)
(* records of the validator.  The number of its open period is read again  *)
(* only after InitializeValidator, so it is left as it is.                 *)
(***************************************************************************)
RemoveRecords(d, v) ==
    LET coins == d.comm[v] \div Unit
        sent == SendCoins(d, v, coins)
        dust == d.outst[v] - coins * Unit
    IN  IF d.comm[v] > d.outst[v]
        THEN Fault(d, "negative coins")
        ELSE IF coins > d.funds
        THEN Fault(d, "unfunded")
        ELSE [sent EXCEPT !.pool = @ + dust, !.hist[v] = [p \in {} |-> 0],
                          !.outst[v] = 0, !.comm[v] = 0, !.rew[v] = 0]

\* BeginBlocker: the votes of the last block share Fee whole coins, share[v]
\* decimal units each (AllocateTokensToValidator); the rest goes to the pool.
AllocateTokens(d, share, fee, total) ==
    [d EXCEPT
        !.comm = [v \in Validators |-> d.comm[v] + share[v] \div CommissionDiv],
        !.rew = [v \in Validators |-> d.rew[v] + share[v] - share[v] \div CommissionDiv],
        !.outst = [v \in Validators |-> d.outst[v] + share[v]],
        !.funds = @ + fee,
        !.pool = @ + (fee * Unit - total)]
=============================================================================
