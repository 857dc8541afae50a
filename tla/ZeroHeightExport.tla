--------------------------- MODULE ZeroHeightExport ---------------------------
(***************************************************************************)
(* `mirrorvaultd export [--for-zero-height [--jail-allowed-addrs ...]]`:   *)
(* ExportAppStateAndValidators and prepForZeroHeightGenesis of             *)
(* src/chain/app/export.go, started from any state module Chain commits.   *)
(*                                                                         *)
(* The preparation pays out every reward, throws the reward history away   *)
(* and rebuilds it at height zero, forgets the heights kept by staking and *)
(* jails the validators that are not on the allow list.  One action is one *)
(* iteration of a loop of the code, or the straight-line code between two  *)
(* loops; `pc' names the loop.  It runs on a branch of the committed state *)
(* (NewContextLegacy) that is never written back.                          *)
(*                                                                         *)
(* An entry of the allow list is a spelling of an address: bech32 decodes  *)
(* "upper" case as well as "lower", and anything else is "malformed".      *)
(***************************************************************************)
EXTENDS Chain

CONSTANTS AllowLists,    \* bound: the --jail-allowed-addrs lists considered
          CloseMayFail,  \* whether closing the store iterator may fail
          NoGenesis      \* nothing has been exported

Entries == [addr : Accounts, spelling : {"lower", "upper", "malformed"}]

ASSUME ExportAssumption ==
    /\ AllowLists \subseteq SUBSET Entries
    /\ CloseMayFail \in BOOLEAN

VARIABLES forZero,  \* the --for-zero-height flag
          allow,    \* jailAllowedAddrs
          ctx,      \* block height of the export's context
          todoV,    \* validators the current loop has still to visit
          todoD,    \* delegations of `dels' the current loop has still to visit
          snap,     \* the committed state the export started from
          genesis   \* what the export returned

exportVars == <<forZero, allow, ctx, todoV, todoD, snap, genesis>>
vars == <<pc, height, msgs, dist, stak, forZero, allow, ctx, todoV, todoD,
          snap, genesis>>

PC == {"idle", "block", "allowList", "commission", "rewards", "validators",
       "delegations", "redelegations", "unbondings", "bondHeights", "apply",
       "collect", "done", "panicked"}

Ended == pc \in {"done", "panicked"}
Exporting == pc \in PC \ {"idle", "block", "done", "panicked"}

Init ==
    /\ ChainInit
    /\ forZero = FALSE
    /\ allow = {}
    /\ ctx = 0
    /\ todoV = {}
    /\ todoD = {}
    /\ snap = [dist |-> dist, stak |-> stak]
    /\ genesis = NoGenesis

-----------------------------------------------------------------------------
\* Keys are visited in order: of the delegator, then of the validator.
Precedes(p, q) == p[1] < q[1] \/ (p[1] = q[1] /\ p[2] < q[2])
NextV(v) == v \in todoV /\ \A w \in todoV : v <= w
LastV(v) == v \in todoV /\ \A w \in todoV : w <= v
NextD(pair) == pair \in todoD /\ \A q \in todoD : pair = q \/ Precedes(pair, q)

\* A keeper that panics takes the command down with it.
Goto(label) == pc' = IF dist'.fault = "none" THEN label ELSE "panicked"

StartExport(zero, list) ==
    /\ pc = "idle"
    /\ forZero' = zero
    /\ allow' = list
    /\ ctx' = height
    /\ snap' = [dist |-> dist, stak |-> stak]
    /\ pc' = IF zero THEN "allowList" ELSE "collect"
    /\ UNCHANGED <<height, msgs, dist, stak, todoV, todoD, genesis>>

ParseAllowList ==
    /\ pc = "allowList"
    /\ pc' = IF \E e \in allow : e.spelling = "malformed"
             THEN "panicked" ELSE "commission"
    /\ todoV' = stak.vals
    /\ UNCHANGED <<height, msgs, dist, stak, forZero, allow, ctx, todoD, snap, genesis>>

\* Bug variant: the loop visits the bonded validators only.
WithdrawCommissionOfBonded(v) ==
    /\ pc = "commission"
    /\ NextV(v)
    /\ dist' = IF stak.status[v] = "bonded"
               THEN WithdrawValidatorCommission(dist, v) ELSE dist
    /\ todoV' = todoV \ {v}
    /\ Goto("commission")
    /\ UNCHANGED <<height, msgs, stak, forZero, allow, ctx, todoD, snap, genesis>>

\* An error (no commission) is ignored.
WithdrawCommission(v) ==
    /\ pc = "commission"
    /\ NextV(v)
    /\ dist' = WithdrawValidatorCommission(dist, v)
    /\ todoV' = todoV \ {v}
    /\ Goto("commission")
    /\ UNCHANGED <<height, msgs, stak, forZero, allow, ctx, todoD, snap, genesis>>

GetAllDelegations ==
    /\ pc = "commission"
    /\ todoV = {}
    /\ todoD' = Delegations(stak)
    /\ pc' = "rewards"
    /\ UNCHANGED <<height, msgs, dist, stak, forZero, allow, ctx, todoV, snap, genesis>>

\* An error (no such validator, no starting info) is ignored here too.
WithdrawRewards(pair) ==
    /\ pc = "rewards"
    /\ NextD(pair)
    /\ dist' = IF pair[2] \in stak.vals
               THEN WithdrawDelegationRewards(dist, stak, pair, ctx) ELSE dist
    /\ todoD' = todoD \ {pair}
    /\ Goto("rewards")
    /\ UNCHANGED <<height, msgs, stak, forZero, allow, ctx, todoV, snap, genesis>>

\* Bug variant: the context keeps its height.
ClearHistoryAtHeight ==
    /\ pc = "rewards"
    /\ todoD = {}
    /\ dist' = [dist EXCEPT !.hist = [v \in Validators |-> [p \in {} |-> 0]]]
    /\ todoV' = stak.vals
    /\ pc' = "validators"
    /\ UNCHANGED <<height, msgs, stak, forZero, allow, ctx, todoD, snap, genesis>>

\* DeleteAllValidatorSlashEvents (there are none), then
\* DeleteAllValidatorHistoricalRewards, then the context goes to height zero.
ClearHistory ==
    /\ pc = "rewards"
    /\ todoD = {}
    /\ dist' = [dist EXCEPT !.hist = [v \in Validators |-> [p \in {} |-> 0]]]
    /\ ctx' = 0
    /\ todoV' = stak.vals
    /\ pc' = "validators"
    /\ UNCHANGED <<height, msgs, stak, forZero, allow, todoD, snap, genesis>>

\* Bug variants: the hook is forgotten, or called before the donation.
ReinitValidatorUnhooked(v) ==
    /\ pc = "validators"
    /\ NextV(v)
    /\ dist' = [dist EXCEPT !.pool = @ + dist.outst[v], !.outst[v] = 0]
    /\ todoV' = todoV \ {v}
    /\ Goto("validators")
    /\ UNCHANGED <<height, msgs, stak, forZero, allow, ctx, todoD, snap, genesis>>

ReinitValidatorDonatesLate(v) ==
    /\ pc = "validators"
    /\ NextV(v)
    /\ LET hooked == InitializeValidator(dist, v)
       IN  dist' = [hooked EXCEPT !.pool = @ + hooked.outst[v]]
    /\ todoV' = todoV \ {v}
    /\ Goto("validators")
    /\ UNCHANGED <<height, msgs, stak, forZero, allow, ctx, todoD, snap, genesis>>

\* Donate what is still outstanding, then the hook AfterValidatorCreated.
ReinitValidator(v) ==
    /\ pc = "validators"
    /\ NextV(v)
    /\ dist' = InitializeValidator([dist EXCEPT !.pool = @ + dist.outst[v]], v)
    /\ todoV' = todoV \ {v}
    /\ Goto("validators")
    /\ UNCHANGED <<height, msgs, stak, forZero, allow, ctx, todoD, snap, genesis>>

StartDelegations ==
    /\ pc = "validators"
    /\ todoV = {}
    /\ todoD' = Delegations(snap.stak)
    /\ pc' = "delegations"
    /\ UNCHANGED <<height, msgs, dist, stak, forZero, allow, ctx, todoV, snap, genesis>>

\* Bug variant: BeforeDelegationCreated is not called.
ReinitDelegationUnhooked(pair) ==
    /\ pc = "delegations"
    /\ NextD(pair)
    /\ dist' = InitializeDelegation(dist, stak, pair, ctx)
    /\ todoD' = todoD \ {pair}
    /\ Goto("delegations")
    /\ UNCHANGED <<height, msgs, stak, forZero, allow, ctx, todoV, snap, genesis>>

\* The hooks BeforeDelegationCreated and AfterDelegationModified: both return
\* an error when the validator is gone, and an error panics.
ReinitDelegation(pair) ==
    /\ pc = "delegations"
    /\ NextD(pair)
    /\ todoD' = todoD \ {pair}
    /\ IF pair[2] \in stak.vals
       THEN /\ dist' = InitializeDelegation(
                          IncrementValidatorPeriod(dist, stak, pair[2]), stak, pair, ctx)
            /\ Goto("delegations")
       ELSE pc' = "panicked" /\ UNCHANGED dist
    /\ UNCHANGED <<height, msgs, stak, forZero, allow, ctx, todoV, snap, genesis>>

RestoreHeight ==
    /\ pc = "delegations"
    /\ todoD = {}
    /\ ctx' = height
    /\ pc' = "redelegations"
    /\ UNCHANGED <<height, msgs, dist, stak, forZero, allow, todoV, todoD, snap, genesis>>

AtHeightZero(entries) == {[e EXCEPT !.height = 0] : e \in entries}

ResetRedelegations ==
    /\ pc = "redelegations"
    /\ stak' = [stak EXCEPT !.red = [r \in Routes |-> AtHeightZero(stak.red[r])]]
    /\ pc' = "unbondings"
    /\ UNCHANGED <<height, msgs, dist, forZero, allow, ctx, todoV, todoD, snap, genesis>>

ResetUnbondings ==
    /\ pc = "unbondings"
    /\ stak' = [stak EXCEPT !.ubd = [p \in Pairs |-> AtHeightZero(stak.ubd[p])]]
    /\ todoV' = stak.vals
    /\ pc' = "bondHeights"
    /\ UNCHANGED <<height, msgs, dist, forZero, allow, ctx, todoD, snap, genesis>>

\* allowedAddrsMap is keyed by the string of the list, looked up with the
\* codec's own lower-case string.
Allowed(v) == [addr |-> v, spelling |-> "lower"] \in allow

\* Bug variants: the list overwrites what was jailed before, or the iterator
\* is not moved on.
ResetValidatorUnjails(v) ==
    /\ pc = "bondHeights"
    /\ LastV(v)
    /\ stak' = [stak EXCEPT !.unbondHeight[v] = 0,
                            !.jailed[v] = allow # {} /\ ~ Allowed(v)]
    /\ todoV' = todoV \ {v}
    /\ UNCHANGED <<pc, height, msgs, dist, forZero, allow, ctx, todoD, snap, genesis>>

ResetValidatorStuck(v) ==
    /\ pc = "bondHeights"
    /\ LastV(v)
    /\ stak' = [stak EXCEPT !.unbondHeight[v] = 0,
                            !.jailed[v] = @ \/ (allow # {} /\ ~ Allowed(v))]
    /\ UNCHANGED <<pc, height, msgs, dist, exportVars>>

\* In descending key order.  SetValidator writes the record and nothing else:
\* a validator that is jailed here stays in the power index.
ResetValidator(v) ==
    /\ pc = "bondHeights"
    /\ LastV(v)
    /\ stak' = [stak EXCEPT !.unbondHeight[v] = 0,
                            !.jailed[v] = @ \/ (allow # {} /\ ~ Allowed(v))]
    /\ todoV' = todoV \ {v}
    /\ UNCHANGED <<pc, height, msgs, dist, forZero, allow, ctx, todoD, snap, genesis>>

\* An error is logged, and the preparation returns early.
CloseIterator ==
    /\ pc = "bondHeights"
    /\ todoV = {}
    /\ \/ pc' = "apply"
       \/ CloseMayFail /\ pc' = "collect"
    /\ UNCHANGED <<height, msgs, dist, stak, exportVars>>

\* Bug variant: the error is dropped.
ApplySetUpdatesUnchecked ==
    /\ pc = "apply"
    /\ pc' = "collect"
    /\ stak' = IF MeetsJailed(stak) THEN stak ELSE ApplyValidatorSetUpdates(stak, ctx)
    /\ UNCHANGED <<height, msgs, dist, exportVars>>

ApplySetUpdates ==
    /\ pc = "apply"
    /\ IF MeetsJailed(stak) \/ MeetsUnknown(stak)
       THEN pc' = "panicked" /\ UNCHANGED stak
       ELSE pc' = "collect" /\ stak' = ApplyValidatorSetUpdates(stak, ctx)
    /\ UNCHANGED <<height, msgs, dist, exportVars>>

\* Bug variant: the set is read from the records of the unjailed validators.
CollectGenesisUnjailed ==
    /\ pc = "collect"
    /\ genesis' = [height |-> IF forZero THEN 0 ELSE height + 1,
                   validators |-> {v \in stak.vals : ~ stak.jailed[v]}]
    /\ pc' = "done"
    /\ UNCHANGED <<height, msgs, dist, stak, forZero, allow, ctx, todoV, todoD, snap>>

\* ExportGenesisForModules and staking.WriteValidators: the last set.
CollectGenesis ==
    /\ pc = "collect"
    /\ genesis' = [height |-> IF forZero THEN 0 ELSE height + 1,
                   validators |-> {v \in Validators : stak.last[v] > 0}]
    /\ pc' = "done"
    /\ UNCHANGED <<height, msgs, dist, stak, forZero, allow, ctx, todoV, todoD, snap>>

-----------------------------------------------------------------------------
ExportStep ==
    \/ ParseAllowList \/ GetAllDelegations \/ ClearHistory \/ StartDelegations
    \/ RestoreHeight \/ ResetRedelegations \/ ResetUnbondings
    \/ CloseIterator \/ ApplySetUpdates \/ CollectGenesis
    \/ \E v \in Validators :
           WithdrawCommission(v) \/ ReinitValidator(v) \/ ResetValidator(v)
    \/ \E pair \in Pairs : WithdrawRewards(pair) \/ ReinitDelegation(pair)

Next ==
    \/ ChainNext /\ UNCHANGED exportVars
    \/ StartExport(FALSE, {})
    \/ \E list \in AllowLists : StartExport(TRUE, list)
    \/ ExportStep

Spec == Init /\ [][Next]_vars

-----------------------------------------------------------------------------
(***************************************************************************)
(* Properties.                                                             *)
(***************************************************************************)

\* Every variable holds a value of its type.
TypeOK ==
    /\ pc \in PC
    /\ height \in Nat
    /\ msgs \in Nat
    /\ DistOK(dist)
    /\ StakOK(stak)
    /\ forZero \in BOOLEAN
    /\ allow \subseteq Entries
    /\ ctx \in Nat
    /\ todoV \subseteq Validators
    /\ todoD \subseteq Pairs
    /\ snap \in [dist : {snap.dist}, stak : {snap.stak}]
    /\ DistOK(snap.dist)
    /\ StakOK(snap.stak)
    /\ genesis \in [height : Nat, validators : SUBSET Validators] \cup {NoGenesis}

\* Validators and delegations whose reward history is in force: while the
\* export rebuilds it, those it has already been rebuilt for.
LiveValidators == IF pc = "validators" THEN stak.vals \ todoV ELSE stak.vals
LiveDelegations ==
    CASE pc = "validators" -> {}
      [] pc = "delegations" -> Delegations(snap.stak) \ todoD
      [] OTHER -> Delegations(stak)

\* The references to period p of v among the delegations D: one by each that
\* starts there, one by the open period to its predecessor.
References(d, D, v, p) ==
    Cardinality({pair \in D : pair[2] = v /\ d.start[pair].period = p})
      + (IF p = d.period[v] - 1 THEN 1 ELSE 0)

(***************************************************************************)
(* Every delegation starts from a closed period of its validator, no two   *)
(* from the same one, and a period is kept exactly as long as it is        *)
(* referred to, with exactly that many references.  A hook that is skipped,*)
(* repeated or called out of order on any path (messages of two delegators,*)
(* withdrawals of the export, the two re-initialisation loops over a       *)
(* cleared history) breaks it, and a later withdrawal panics or underpays. *)
(***************************************************************************)
RefCountsExact ==
    dist.fault = "none" =>
      \A v \in LiveValidators :
        /\ \A pair \in LiveDelegations : pair[2] = v =>
              /\ dist.start[pair] # NoInfo
              /\ dist.start[pair].period < dist.period[v]
              /\ \A other \in LiveDelegations :
                    other[2] = v /\ other # pair =>
                      dist.start[other].period # dist.start[pair].period
        /\ \A p \in 0..dist.period[v] :
              Historical(dist, v, p).refs = References(dist, LiveDelegations, v, p)
        /\ \A p \in DOMAIN dist.hist[v] :
              p < dist.period[v] /\ dist.hist[v][p].refs > 0

(***************************************************************************)
(* The export of a state the chain committed panics for two reasons only:  *)
(* the allow list holds something that is not an address (line 67), or     *)
(* jailing by the list left a jailed validator among the leading entries   *)
(* of the power index (line 237).  The "should never" panics of the        *)
(* distribution keeper that the hooks may raise (lines 80, 104, 137, 157,  *)
(* 162) are unreachable, although errors of the withdrawals are dropped.   *)
(***************************************************************************)
OnlyTwoPanics ==
    /\ dist.fault = "none"
    /\ pc = "panicked" =>
          \/ \E e \in allow : e.spelling = "malformed"
          \/ allow # {} /\ MeetsJailed(stak) /\ ~ MeetsJailed(snap.stak)

\* What the committed state owes delegator pair[1] on validator pair[2].
Owed(pair) ==
    LET d == snap.dist
        v == pair[2]
        open == IF snap.stak.tokens[v] = 0 THEN 0
                ELSE d.rew[v] \div snap.stak.tokens[v]
        grown == Historical(d, v, d.period[v] - 1).ratio + open
                   - Historical(d, v, d.start[pair].period).ratio
    IN  d.start[pair].stake * grown

(***************************************************************************)
(* A zero-height export pays every account the whole coins of everything   *)
(* the committed state owed it: its commission and the rewards of each of  *)
(* its delegations, whatever was paid out before it in the same loops, and *)
(* leaves nothing outstanding.                                             *)
(***************************************************************************)
PaidInFull ==
    pc = "done" /\ forZero =>
      /\ \A v \in Validators :
            dist.outst[v] = 0 /\ dist.comm[v] = 0 /\ dist.rew[v] = 0
      /\ \A a \in Accounts :
            dist.paid[a] - snap.dist.paid[a] =
              SumFunction([pair \in {p \in Delegations(snap.stak) : p[1] = a} |->
                              Owed(pair) \div Unit])
                + (IF a \in Validators THEN snap.dist.comm[a] \div Unit ELSE 0)

(***************************************************************************)
(* A zero-height genesis remembers no height of the old chain: a height    *)
(* that survived would make a delegation earn nothing in the new chain's   *)
(* block of that number, or date an unbonding into its future.  Every      *)
(* delegation starts afresh with its own shares as stake.                  *)
(***************************************************************************)
FreshStart ==
    pc = "done" /\ forZero =>
      /\ genesis.height = 0
      /\ \A pair \in Pairs :
            IF stak.shares[pair] = 0
            THEN dist.start[pair] = NoInfo
            ELSE /\ dist.start[pair].height = 0
                 /\ dist.start[pair].stake = snap.stak.shares[pair]
      /\ \A v \in stak.vals : stak.unbondHeight[v] = 0
      /\ \A pair \in Pairs : \A e \in stak.ubd[pair] : e.height = 0
      /\ \A r \in Routes : \A e \in stak.red[r] : e.height = 0
      /\ \A v \in Validators : \A p \in DOMAIN dist.hist[v] :
            dist.hist[v][p].ratio = 0

\* The export jails exactly the validators an allow list does not spell the
\* way the codec does, and frees nobody, be they on the list or not.
JailedByList ==
    pc = "done" /\ forZero =>
      \A v \in stak.vals :
        stak.jailed[v] <=> \/ snap.stak.jailed[v]
                           \/ allow # {} /\ ~ Allowed(v)

(***************************************************************************)
(* The validators a new chain starts with are the bonded ones, with the    *)
(* powers of the committed set: neither the jailing nor the election at    *)
(* height zero moves a seat, although ties and truncated powers are decided*)
(* anew.  A jailed one is among them only by the list, and only where the  *)
(* iterator could not be closed (lines 230-233): the preparation then      *)
(* returns before the election that refuses it, and the export goes on.    *)
(***************************************************************************)
GenesisSetSound ==
    pc = "done" =>
      \A v \in Validators :
        /\ v \in genesis.validators <=> stak.status[v] = "bonded"
        /\ stak.last[v] = snap.stak.last[v]
        /\ v \in genesis.validators /\ stak.jailed[v] =>
              CloseMayFail /\ ~ snap.stak.jailed[v]

\* An export, once started, returns or panics.
ExportEnds == Exporting ~> Ended

TotalOutstanding == SumFunctionOnSet(dist.outst, Validators)
TotalPaid == SumFunctionOnSet(dist.paid, Accounts)

Settlement == INSTANCE RewardSettlement WITH
    held <- TotalOutstanding, pool <- dist.pool,
    funds <- dist.funds, paid <- TotalPaid

\* Chain and export together implement the settlement of rewards: every step
\* of either takes in a block's fees, settles, or leaves the books alone.
SettlesRewards == Settlement!Spec

\* In every state the coins of the module account cover what is owed to
\* validators and delegators and to the pool, to the last decimal.
FundsCovered == Settlement!Covered

\* A list of well-formed addresses is honoured: the export does not panic.
WellFormedListExports ==
    pc = "panicked" => \E e \in allow : e.spelling = "malformed"
=============================================================================
