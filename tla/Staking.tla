------------------------------- MODULE Staking -------------------------------
(***************************************************************************)
(* The part of the Cosmos SDK's x/staking keeper that mirrorvaultd relies  *)
(* on: delegations, the power index, the last validator set, and the hooks *)
(* into x/distribution that app_config.go wires.  A library (not under     *)
(* src/), modelled from the calls of src/chain/app/export.go.              *)
(*                                                                         *)
(* The keeper's store is one record s; what it holds under a validator     *)
(* that is not in vals is not read:                                        *)
(*   vals             validators that exist (ValidatorsKey)                *)
(*   tokens[v]        tokens delegated to v                                *)
(*   shares[<<a, v>>] shares of a's delegation to v; 0: no delegation      *)
(*   status[v]        "bonded", "unbonding" or "unbonded"                  *)
(*   jailed[v]        whether v is jailed                                  *)
(*   unbondHeight[v]  height at which v left the set                       *)
(*   index            validators in the power index (a store of its own)   *)
(*   last[v]          power of v in the last validator set, 0: not in it,  *)
(*                    or (testnet.go, line 152) in it and bonded all the   *)
(*                    same                                                 *)
(*   ubd[<<a, v>>]    entries of the unbonding delegation                  *)
(*   red[<<a, v, w>>] entries of the redelegation                          *)
(* A share is worth one token (nothing slashes).  Balances of accounts are *)
(* left out (they can pay), and the two staking pools: they hold what is   *)
(* delegated to validators in the set and to the others, so no transfer    *)
(* between them fails.  InPlaceTestnet, where that breaks, adds the pool.  *)
(***************************************************************************)
EXTENDS Distribution, FiniteSets

CONSTANTS MaxValidators,   \* staking parameter max_validators
          PowerReduction,  \* tokens in one unit of consensus power
          MinSelfDelegation, \* below it an operator's undelegation jails
          MaxEntries       \* staking parameter max_entries

ASSUME StakingAssumption ==
    /\ IsFiniteSet(Accounts)
    /\ MaxValidators \in Nat \ {0}
    /\ PowerReduction \in Nat \ {0}
    /\ MinSelfDelegation \in Nat \ {0}
    /\ MaxEntries \in Nat \ {0}

Status == {"bonded", "unbonding", "unbonded"}
Entry == [height : Nat, due : Nat, amount : Nat]
Routes == Accounts \X Validators \X Validators

StakOK(s) ==
    s \in [vals : SUBSET Validators,
           tokens : [Validators -> Nat], shares : [Pairs -> Nat],
           status : [Validators -> Status], jailed : [Validators -> BOOLEAN],
           unbondHeight : [Validators -> Nat], index : SUBSET Validators,
           last : [Validators -> Nat], ubd : [Pairs -> SUBSET Entry],
           red : [Routes -> SUBSET Entry]]

\* GetAllDelegations
Delegations(s) == {pair \in Pairs : s.shares[pair] > 0}

Power(s, v) == s.tokens[v] \div PowerReduction

-----------------------------------------------------------------------------
\* Order of the power index, read in reverse: more power first, and of two
\* validators with the same power the lower address first.
Outranks(s, v, w) ==
    \/ Power(s, v) > Power(s, w)
    \/ Power(s, v) = Power(s, w) /\ v < w

\* The entries ApplyAndReturnValidatorSetUpdates reads: at most MaxValidators,
\* up to and including the first without power.
Considered(s) ==
    {v \in s.index :
        LET above == {w \in s.index : Outranks(s, w, v)}
        IN  /\ Cardinality(above) < MaxValidators
            /\ \A w \in above : Power(s, w) > 0}

\* It panics on a jailed validator in the power index.
MeetsJailed(s) == \E v \in Considered(s) : s.jailed[v]

\* ... and on a validator in the power index or the last set that is gone.
MeetsUnknown(s) ==
    \E v \in Considered(s) \cup {w \in Validators : s.last[w] > 0} : v \notin s.vals

\* In the last set, with power or (a validator written there by hand) without.
InLastSet(s, v) == s.last[v] > 0 \/ s.status[v] = "bonded"

\* ApplyAndReturnValidatorSetUpdates: who is in the set from now on is bonded,
\* who was and is not starts unbonding at height h.
ApplyValidatorSetUpdates(s, h) ==
    LET in == {v \in Considered(s) : Power(s, v) > 0}
        out == {v \in Validators \ in : InLastSet(s, v)}
    IN  [s EXCEPT
          !.status = [v \in Validators |-> IF v \in in THEN "bonded"
                                           ELSE IF v \in out THEN "unbonding"
                                           ELSE @[v]],
          !.unbondHeight = [v \in Validators |-> IF v \in out THEN h ELSE @[v]],
          !.last = [v \in Validators |-> IF v \in in THEN Power(s, v) ELSE 0]]

-----------------------------------------------------------------------------
\* SetValidator with new tokens, its key in the power index moved along
\* (SetValidatorByPowerIndex skips a jailed validator).
SetTokens(s, v, tokens) ==
    [s EXCEPT !.tokens[v] = tokens,
              !.index = IF s.jailed[v] THEN @ \ {v} ELSE @ \cup {v}]

\* jailValidator, unlike SetValidator alone, also leaves the power index.
Jail(s, v) == [s EXCEPT !.jailed[v] = TRUE, !.index = @ \ {v}]

(***************************************************************************)
(* MsgCreateValidator, before its self-delegation: SetValidator and the    *)
(* power index.  A validator without a seat and without delegations is     *)
(* removed (RemoveValidator) by the message that takes the last of them.   *)
(***************************************************************************)
CreateValidator(s, v) ==
    [s EXCEPT !.vals = @ \cup {v}, !.index = @ \cup {v}, !.tokens[v] = 0,
              !.status[v] = "unbonded", !.jailed[v] = FALSE, !.unbondHeight[v] = 0]

Abandoned(s, v) ==
    /\ s.status[v] = "unbonded"
    /\ s.tokens[v] = 0
    /\ \A a \in Accounts : s.shares[<<a, v>>] = 0

RemoveAbandoned(s, v) ==
    IF Abandoned(s, v)
    THEN [s EXCEPT !.vals = @ \ {v}, !.index = @ \ {v}]
    ELSE s

\* Unbond refuses more shares than there are, and RemoveDelShares panics (the
\* message fails) rather than let the validator's tokens go negative.
Removable(s, pair, amount) ==
    /\ pair[2] \in s.vals
    /\ amount <= s.shares[pair]
    /\ amount <= s.tokens[pair[2]]

\* Unbond, staking side: an operator that goes below its minimum is jailed,
\* then the shares and tokens are removed, and perhaps the validator.
RemoveShares(s, pair, amount) ==
    LET v == pair[2]
        left == s.shares[pair] - amount
        leaves == pair[1] = v /\ ~ s.jailed[v] /\ left < MinSelfDelegation
        kept == IF leaves THEN Jail(s, v) ELSE s
        paid == [SetTokens(kept, v, s.tokens[v] - amount) EXCEPT !.shares[pair] = left]
    IN  RemoveAbandoned(paid, v)

AddShares(s, pair, amount) ==
    [SetTokens(s, pair[2], s.tokens[pair[2]] + amount)
        EXCEPT !.shares[pair] = @ + amount]

-----------------------------------------------------------------------------
\* The distribution hooks around a change of shares, from s to t: settle (or,
\* for a new delegation, only close the period) before, start again after.
DelegationHooks(d, s, t, pair, h) ==
    LET before == IF s.shares[pair] > 0
                  THEN SettleDelegation(d, s, pair, h)
                  ELSE IncrementValidatorPeriod(d, s, pair[2])
    IN  IF t.shares[pair] > 0
        THEN InitializeDelegation(before, t, pair, h)
        ELSE before

\* Bug variant: the records of a removed validator are left behind.
UnbondHooksKept(d, s, t, pair, h) == DelegationHooks(d, s, t, pair, h)

\* ... and those of Unbond, which may remove the validator as well.
UnbondHooks(d, s, t, pair, h) ==
    LET modified == DelegationHooks(d, s, t, pair, h)
    IN  IF pair[2] \in t.vals THEN modified ELSE RemoveRecords(modified, pair[2])
=============================================================================
