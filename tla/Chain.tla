-------------------------------- MODULE Chain --------------------------------
(***************************************************************************)
(* The running mirrorvaultd chain up to the state an export reads: blocks  *)
(* of distribution and staking as app_config.go wires them (BeginBlockers  *)
(* distribution then staking, EndBlockers staking) and the messages of the *)
(* two modules in between.  It reaches the committed states from which     *)
(* `mirrorvaultd export` starts.                                           *)
(*                                                                         *)
(* Bounds: MaxHeight blocks and MaxMsgs messages in all; every message     *)
(* moves one of Amounts tokens.  No unbonding period ends within a run, so *)
(* no unbonding entry matures, and a validator that has had a seat stays.  *)
(***************************************************************************)
EXTENDS Staking, Functions

CONSTANTS MaxHeight,    \* bound: height of the last block
          MaxMsgs,      \* bound: messages in the whole run
          Amounts,      \* bound: amounts a message may move
          GenesisStake, \* self-delegation of each validator of the genesis
          Fee,          \* whole coins collected per block
          VoteShares    \* bound: decimal units a vote may earn in a block

ASSUME ChainAssumption ==
    /\ MaxHeight \in Nat \ {0}
    /\ MaxMsgs \in Nat
    /\ Amounts \subseteq Nat \ {0}
    /\ DOMAIN GenesisStake \subseteq Validators
    /\ GenesisStake \in [DOMAIN GenesisStake -> Nat \ {0}]
    /\ Fee \in Nat
    /\ VoteShares \subseteq Nat

\* The module manager refuses a genesis that seats nobody.
ASSUME GenesisAssumption ==
    \E v \in DOMAIN GenesisStake : GenesisStake[v] >= PowerReduction

VARIABLES pc,      \* "idle" (a block is committed), "block", then the export's
          height,  \* LastBlockHeight, or the height of the open block
          msgs,    \* messages delivered so far
          dist,    \* store of x/distribution
          stak     \* store of x/staking

chainVars == <<pc, height, msgs, dist, stak>>

-----------------------------------------------------------------------------
(***************************************************************************)
(* InitChain at height 1: genutil delivers one gentx per validator.  Each  *)
(* creates the validator (period 0) and its self-delegation, which closes  *)
(* period 0 and holds period 1 together with the open period.              *)
(***************************************************************************)
GenesisValidators == DOMAIN GenesisStake

GenesisDist ==
    [outst  |-> [v \in Validators |-> 0],
     comm   |-> [v \in Validators |-> 0],
     rew    |-> [v \in Validators |-> 0],
     period |-> [v \in Validators |-> 2],
     hist   |-> [v \in Validators |->
                    [p \in (IF v \in GenesisValidators THEN {1} ELSE {}) |->
                        [ratio |-> 0, refs |-> 2]]],
     start  |-> [pair \in Pairs |->
                    IF pair[1] = pair[2] /\ pair[2] \in GenesisValidators
                    THEN [period |-> 1, stake |-> GenesisStake[pair[2]], height |-> 1]
                    ELSE NoInfo],
     pool   |-> 0,
     funds  |-> 0,
     paid   |-> [a \in Accounts |-> 0],
     fault  |-> "none"]

CreatedStak ==
    [vals   |-> GenesisValidators,
     tokens |-> [v \in Validators |->
                    IF v \in GenesisValidators THEN GenesisStake[v] ELSE 0],
     shares |-> [pair \in Pairs |->
                    IF pair[1] = pair[2] /\ pair[2] \in GenesisValidators
                    THEN GenesisStake[pair[2]] ELSE 0],
     status |-> [v \in Validators |-> "unbonded"],
     jailed |-> [v \in Validators |-> FALSE],
     unbondHeight |-> [v \in Validators |-> 0],
     index  |-> GenesisValidators,
     last   |-> [v \in Validators |-> 0],
     ubd    |-> [pair \in Pairs |-> {}],
     red    |-> [route \in Routes |-> {}]]

ChainInit ==
    /\ pc = "idle"
    /\ height = 1
    /\ msgs = 0
    /\ dist = GenesisDist
    /\ stak = ApplyValidatorSetUpdates(CreatedStak, 1)

-----------------------------------------------------------------------------
\* A change of the set takes two blocks to reach the votes: a validator that
\* has just left still earns (one at height 0 left before a new genesis).
Voters == {v \in stak.vals :
              \/ stak.status[v] = "bonded"
              \/ /\ stak.status[v] = "unbonding"
                 /\ stak.unbondHeight[v] > 0
                 /\ height < stak.unbondHeight[v] + 2}

Total(share) == SumFunctionOnSet(share, Validators)

\* x/distribution's BeginBlocker pays the votes of the last block.
BeginBlock ==
    /\ pc = "idle"
    /\ height < MaxHeight
    /\ \E share \in [Validators -> VoteShares \cup {0}] :
         /\ \A v \in Validators \ Voters : share[v] = 0
         /\ Total(share) \in 0..(Fee * Unit)
         /\ dist' = AllocateTokens(dist, share, Fee, Total(share))
    /\ height' = height + 1
    /\ pc' = "block"
    /\ UNCHANGED <<msgs, stak>>

\* x/staking's EndBlocker; the block is committed, unless CometBFT refuses a
\* set without validators.
EndBlock ==
    /\ pc = "block"
    /\ ~ MeetsJailed(stak)
    /\ ~ MeetsUnknown(stak)
    /\ stak' = ApplyValidatorSetUpdates(stak, height)
    /\ \E v \in Validators : stak'.last[v] > 0
    /\ pc' = "idle"
    /\ UNCHANGED <<height, msgs, dist>>

\* What every message handler has in common.
Deliver ==
    /\ pc = "block"
    /\ msgs < MaxMsgs
    /\ msgs' = msgs + 1
    /\ UNCHANGED <<pc, height>>

MsgDelegate(pair, amount) ==
    /\ Deliver
    /\ pair[2] \in stak.vals
    /\ stak' = AddShares(stak, pair, amount)
    /\ dist' = DelegationHooks(dist, stak, stak', pair, height)

\* Bug variant: the self-delegation comes before the hook AfterValidatorCreated.
MsgCreateValidatorHookLate(v, amount) ==
    LET pair == <<v, v>>
        created == CreateValidator(stak, v)
    IN  /\ Deliver
        /\ v \notin stak.vals
        /\ amount >= MinSelfDelegation
        /\ stak' = AddShares(created, pair, amount)
        /\ dist' = InitializeValidator(
                        DelegationHooks(dist, created, stak', pair, height), v)

\* The operator's account creates its validator with a self-delegation.
MsgCreateValidator(v, amount) ==
    LET pair == <<v, v>>
        created == CreateValidator(stak, v)
    IN  /\ Deliver
        /\ v \notin stak.vals
        /\ amount >= MinSelfDelegation
        /\ stak' = AddShares(created, pair, amount)
        /\ dist' = DelegationHooks(InitializeValidator(dist, v), created, stak',
                                   pair, height)

\* Bug variant: more shares may be removed than there are.
MsgUndelegateUnchecked(pair, amount) ==
    /\ Deliver
    /\ pair[2] \in stak.vals /\ stak.shares[pair] > 0
    /\ stak' = RemoveShares(stak, pair, amount)
    /\ dist' = UnbondHooks(dist, stak, stak', pair, height)

\* Undelegating at one height twice adds to one entry.
MsgUndelegate(pair, amount) ==
    LET entries == stak.ubd[pair]
        merged == {e \in entries : e.height = height /\ e.due = height}
        more == {[e EXCEPT !.amount = @ + amount] : e \in merged}
        added == IF merged = {}
                 THEN {[height |-> height, due |-> height, amount |-> amount]}
                 ELSE more
    IN  /\ Deliver
        /\ Removable(stak, pair, amount)
        /\ Cardinality(entries) < MaxEntries
        /\ stak' = [RemoveShares(stak, pair, amount) EXCEPT
                        !.ubd[pair] = (entries \ merged) \cup added]
        /\ dist' = UnbondHooks(dist, stak, stak', pair, height)

(***************************************************************************)
(* BeginRedelegate: not from a validator the delegator is still moving to. *)
(* A source that is already unbonding lends its own unbonding height to    *)
(* the entry, an unbonded one needs no entry.  (One that the message       *)
(* itself removes gets an entry without a completion time, which the       *)
(* EndBlocker of the same block completes: it is left out.)                *)
(***************************************************************************)
MsgBeginRedelegate(a, from, to, amount) ==
    LET route == <<a, from, to>>
        removed == RemoveShares(stak, <<a, from>>, amount)
        created == IF stak.status[from] = "unbonding"
                   THEN stak.unbondHeight[from] ELSE height
        entry == [height |-> created, due |-> created, amount |-> amount]
        added == IF stak.status[from] = "unbonded" THEN {} ELSE {entry}
        left == UnbondHooks(dist, stak, removed, <<a, from>>, height)
        moved == AddShares(removed, <<a, to>>, amount)
    IN  /\ Deliver
        /\ from # to
        /\ to \in stak.vals
        /\ Removable(stak, <<a, from>>, amount)
        /\ \A w \in Validators : stak.red[<<a, w, from>>] = {}
        /\ Cardinality(stak.red[route]) < MaxEntries
        /\ stak' = [moved EXCEPT !.red[route] = @ \cup added]
        /\ dist' = DelegationHooks(left, removed, moved, <<a, to>>, height)

MsgWithdrawDelegatorReward(pair) ==
    /\ Deliver
    /\ pair[2] \in stak.vals
    /\ stak.shares[pair] > 0
    /\ dist' = WithdrawDelegationRewards(dist, stak, pair, height)
    /\ UNCHANGED stak

MsgWithdrawValidatorCommission(v) ==
    /\ Deliver
    /\ dist.comm[v] > 0
    /\ dist' = WithdrawValidatorCommission(dist, v)
    /\ UNCHANGED stak

ChainNext ==
    \/ BeginBlock
    \/ EndBlock
    \/ \E pair \in Pairs, amount \in Amounts :
           MsgDelegate(pair, amount) \/ MsgUndelegate(pair, amount)
    \/ \E a \in Accounts, from, to \in Validators, amount \in Amounts :
           MsgBeginRedelegate(a, from, to, amount)
    \/ \E v \in Validators, amount \in Amounts : MsgCreateValidator(v, amount)
    \/ \E pair \in Pairs : MsgWithdrawDelegatorReward(pair)
    \/ \E v \in Validators : MsgWithdrawValidatorCommission(v)
=============================================================================
