------------------------- MODULE InPlaceTestnetProofs -------------------------
(***************************************************************************)
(* What `mirrorvaultd in-place-testnet' leaves behind does no harm.        *)
(*                                                                         *)
(* The election: no EndBlocker of the node it starts meets an unknown or a *)
(* jailed validator.  A takeover deletes validators, the power index and   *)
(* the last set together, and leaves nobody jailed (Manned, Unjailed).     *)
(*                                                                         *)
(* The accounts, as long as no validator is created over old records: the  *)
(* books go on covering the deleted validators, a set of which the stores  *)
(* know nothing (the G of Ledger), until an export clears their history.   *)
(*                                                                         *)
(* The books of a validator that is gone, always: no call of the keeper    *)
(* changes the books of another validator than the one it is made for      *)
(* (BooksAt), and none but the commission's is made for one that is gone.  *)
(***************************************************************************)
EXTENDS InPlaceTestnet, ExportProofs

\* A command that has exited has changed nothing, and nothing follows it.
TestnetTypeOK == pc = "exited" \/ TypeOK

MannedInv ==
    /\ TestnetTypeOK
    /\ pc \in {"idle", "block"} => Manned(stak) /\ Unjailed(stak)

-----------------------------------------------------------------------------
\* The four records are the open period of a validator without rewards.
LEMMA WriteRecordsType ==
    ASSUME NEW d, DistOK(d), NEW v \in Validators
    PROVE  DistOK(WriteRecords(d, v))
<1>1. WriteRecords(d, v) = InitializeValidator(d, v)
  <2>1. /\ v \in DOMAIN d.rew /\ v \in DOMAIN d.period
        /\ v \in DOMAIN d.comm /\ v \in DOMAIN d.outst
    BY DEF DistOK
  <2> QED BY <2>1 DEF WriteRecords, InitializeValidator
<1> QED BY <1>1, InitializeValidatorType

\* Writing them by hand after the hook did changes nothing.
LEMMA WrittenOnce ==
    ASSUME NEW d, DistOK(d), NEW v \in Validators, NEW e, e = InitializeValidator(d, v)
    PROVE  WriteRecords(e, v) = e
<1> DEFINE one == [ratio |-> 0, refs |-> 1]
           h == [q \in DOMAIN d.hist[v] \cup {0} |-> IF q = 0 THEN one ELSE d.hist[v][q]]
<1>1. DistOK(e)
  BY InitializeValidatorType
<1>2. /\ e.hist[v] = h /\ e.rew[v] = 0 /\ e.period[v] = 1
      /\ e.comm[v] = 0 /\ e.outst[v] = 0
  BY DEF InitializeValidator, SetHistorical, DistOK
<1>3. [q \in DOMAIN h \cup {0} |-> IF q = 0 THEN one ELSE h[q]] = h
  OBVIOUS
<1> HIDE DEF h
<1>4. SetHistorical(e, v, 0, 0, 1) = e
  <2>1. SetHistorical(e, v, 0, 0, 1) = [e EXCEPT !.hist[v] = h]
    BY <1>2, <1>3 DEF SetHistorical
  <2>2. [e.hist EXCEPT ![v] = h] = e.hist
    BY <1>1, <1>2 DEF DistOK
  <2> QED BY <1>1, <2>1, <2>2 DEF DistOK
<1>5. /\ [e.rew EXCEPT ![v] = 0] = e.rew /\ [e.period EXCEPT ![v] = 1] = e.period
      /\ [e.comm EXCEPT ![v] = 0] = e.comm /\ [e.outst EXCEPT ![v] = 0] = e.outst
  BY <1>1, <1>2 DEF DistOK
<1> QED BY <1>1, <1>4, <1>5 DEF WriteRecords, DistOK

\* The set a takeover writes: one validator, in the index, not yet seated.
LEMMA NewSetManned ==
    ASSUME NEW s, StakOK(s), NEW op \in Validators
    PROVE  StakOK(NewSet(s, op)) /\ Manned(NewSet(s, op)) /\ Unjailed(NewSet(s, op))
<1> DEFINE t == NewSet(s, op)
<1>1. /\ t.vals = {op} /\ t.index = {op}
      /\ t.last = [v \in Validators |-> 0]
      /\ t.jailed = [v \in Validators |-> FALSE]
  BY DEF NewSet, StakOK
<1>2. StakOK(t)
  BY TestnetAssumption DEF NewSet, StakOK, Status
<1> QED BY <1>1, <1>2 DEF Manned, Unjailed

LEMMA MannedTakeOver ==
    ASSUME MannedInv, NEW op, NEW list, op \in Validators \cup {NoAddress},
           TakeOver(op, list)
    PROVE  MannedInv'
<1>1. CASE pc' = "exited"
  BY <1>1 DEF MannedInv, TestnetTypeOK
<1>2. CASE pc' # "exited"
  <2>1. /\ pc = "idle" /\ pc' = pc /\ op \in Validators
        /\ stak' = NewSet(stak, op)
        /\ dist' = WriteRecords(InitializeValidator(dist, op), op)
        /\ UNCHANGED <<height, msgs, exportVars>>
    BY <1>2 DEF TakeOver
  <2>2. TypeOK
    BY <2>1 DEF MannedInv, TestnetTypeOK
  <2>3. DistOK(dist')
    BY <2>1, <2>2, InitializeValidatorType, WriteRecordsType DEF TypeOK
  <2>4. StakOK(stak') /\ Manned(stak') /\ Unjailed(stak')
    BY <2>1, <2>2, NewSetManned DEF TypeOK
  <2>5. TypeOK'
    BY <2>1, <2>2, <2>3, <2>4 DEF TypeOK, exportVars
  <2> QED BY <2>4, <2>5 DEF MannedInv, TestnetTypeOK
<1> QED BY <1>1, <1>2

-----------------------------------------------------------------------------
\* Blocks and messages.
LEMMA MannedChain ==
    ASSUME MannedInv, TypeOK, ChainNext
    PROVE  pc' \in {"idle", "block"} => Manned(stak') /\ Unjailed(stak')
<1>1. StakOK(stak)
  BY DEF TypeOK
<1>2. CASE BeginBlock
  BY <1>2 DEF BeginBlock, MannedInv
<1>3. CASE EndBlock
  <2>1. pc = "block" /\ stak' = ApplyValidatorSetUpdates(stak, height)
    BY <1>3 DEF EndBlock
  <2>2. Manned(stak') /\ stak'.index = stak.index /\ stak'.jailed = stak.jailed
    BY <1>1, <2>1, ElectionSeats, SetUpdatesFields DEF MannedInv
  <2> QED BY <2>1, <2>2, UnjailedSame DEF MannedInv
<1>4. CASE ~ BeginBlock /\ ~ EndBlock
  BY <1>1, <1>4, ChainRuns, MessagesMan DEF MannedInv, SeatsManned
<1> QED BY <1>2, <1>3, <1>4

\* No step of the export leads back to the chain.
LEMMA ExportStays == ExportStep => pc' \notin {"idle", "block"}
  BY DEF ExportStep, ParseAllowList, GetAllDelegations, ClearHistory, StartDelegations,
         RestoreHeight, ResetRedelegations, ResetUnbondings, CloseIterator,
         ApplySetUpdates, CollectGenesis, WithdrawCommission, ReinitValidator,
         ResetValidator, WithdrawRewards, ReinitDelegation, Goto, exportVars

\* An exited command runs nothing.
LEMMA ExitedStays == pc = "exited" /\ Next => FALSE
  BY ChainRuns
     DEF Next, StartExport, ExportStep, ParseAllowList, GetAllDelegations, ClearHistory,
         StartDelegations,
         RestoreHeight, ResetRedelegations, ResetUnbondings, CloseIterator,
         ApplySetUpdates, CollectGenesis, WithdrawCommission, ReinitValidator,
         ResetValidator, WithdrawRewards, ReinitDelegation

LEMMA MannedRun ==
    ASSUME MannedInv, Next
    PROVE  MannedInv'
<1>1. TypeOK /\ TypeOK'
  BY ExitedStays, NextType DEF MannedInv, TestnetTypeOK
<1>2. CASE ChainNext
  BY <1>1, <1>2, MannedChain DEF MannedInv, TestnetTypeOK
<1>3. CASE ExportStep
  BY <1>1, <1>3, ExportStays DEF MannedInv, TestnetTypeOK
<1>4. \A zero, list : StartExport(zero, list) => pc' \notin {"idle", "block"}
  BY DEF StartExport
<1> QED BY <1>1, <1>2, <1>3, <1>4 DEF Next, MannedInv, TestnetTypeOK

LEMMA MannedNext == MannedInv /\ [TestnetNext]_allVars => MannedInv'
<1>1. MannedInv /\ UNCHANGED allVars => MannedInv'
  BY DEF MannedInv, TestnetTypeOK, TypeOK, allVars, vars
<1> QED BY <1>1, MannedRun, MannedTakeOver DEF TestnetNext, Run, RunAs

LEMMA MannedInit == TestnetInit => MannedInv
  BY InitType, SeatsInit DEF TestnetInit, MannedInv, TestnetTypeOK, SeatsInv, Electable

(***************************************************************************)
(* The stores keep their types whatever is rewritten: no amount in the     *)
(* records that a takeover keeps or writes goes negative.                  *)
(***************************************************************************)
THEOREM TestnetTypes == TestnetSpec => []TestnetTypeOK
<1>1. MannedInv => TestnetTypeOK
  BY DEF MannedInv
<1> QED BY <1>1, MannedInit, MannedNext, PTL DEF TestnetSpec

(***************************************************************************)
(* No EndBlocker meets an unknown or a jailed validator, for any number of *)
(* takeovers, by any operators, between any blocks and messages: the loop  *)
(* of testnet.go over the index and the last set leaves no entry that      *)
(* ApplyAndReturnValidatorSetUpdates panics on.  (An empty set, or a       *)
(* bonded pool short of coins, may still halt the chain.)                  *)
(***************************************************************************)
THEOREM TestnetElectsSoundly == TestnetSpec => []ElectionSound
<1>1. MannedInv => ElectionSound
  BY NobodyUnknown, UnjailedMeetsNone DEF MannedInv, TestnetTypeOK, TypeOK, ElectionSound
<1> QED BY <1>1, MannedInit, MannedNext, PTL DEF TestnetSpec

-----------------------------------------------------------------------------
(***************************************************************************)
(* The books, as long as no validator has been created over old records.   *)
(* Until the export clears the history they are the Ledger of the chain,   *)
(* with a set G of validators that a takeover has deleted and whose        *)
(* records, and delegations, go on as if they were there; from then on     *)
(* they are those of the validators that exist and the delegations that    *)
(* have been rebuilt.                                                      *)
(***************************************************************************)
Whole ==
    \/ pc \in {"idle", "block", "exited", "allowList", "commission", "rewards"}
    \/ pc \in {"collect", "done"} /\ ~ forZero

Rebuilding == pc = "validators" \/ Rebuilt

BooksInv ==
    /\ dist.fault = "none"
    /\ Funded(dist)
    /\ Whole => \E G \in SUBSET Validators : Ledger(dist, stak, G, height)
    /\ Rebuilding => Sound(dist, stak, LiveValidators, LiveDelegations, 0) /\ Backed(stak)

\* An export that has panicked without a list has met a delegation to a
\* validator that is gone.
PanicExplained ==
    pc = "panicked" /\ allow = {} =>
        \E pair \in Delegations(snap.stak) : pair[2] \notin snap.stak.vals

\* What the loops of the export rely on.
LoopsInv ==
    /\ pc \notin {"idle", "block", "exited", "panicked"} =>
         /\ snap.stak.shares = stak.shares /\ snap.stak.vals = stak.vals
         /\ Manned(stak)
         /\ allow = {} => Unjailed(stak)
    /\ pc \in {"rewards", "delegations"} => todoD \subseteq Delegations(stak)
    /\ pc = "validators" => todoV \subseteq stak.vals
    /\ Prepares => forZero
    /\ pc \in {"allowList", "commission", "rewards"} => ctx = height
    /\ pc \in {"validators", "delegations"} => ctx = 0

AccountsInv == BooksInv /\ PanicExplained /\ LoopsInv

TestnetInv ==
    /\ MannedInv
    /\ renewed = {} => AccountsInv

-----------------------------------------------------------------------------
\* A validator that counts for the books has records.
LEMMA HistoryOf ==
    ASSUME NEW d, NEW s, NEW G, NEW h, Ledger(d, s, G, h), NEW v \in s.vals \cup G
    PROVE  DOMAIN d.hist[v] # {}
<1> DEFINE V == s.vals \cup G
           D == Delegations(s)
<1>1. /\ DistOK(d) /\ Counted(d, V, D) /\ v \in V /\ v \in Validators
  BY LedgerSets DEF Ledger, Sound
<1> HIDE DEF V, D
<1>2. d.period[v] - 1 \in Nat
  BY <1>1 DEF DistOK
<1>3. Refs(d, v, d.period[v] - 1) # 0
  BY <1>1, <1>2 DEF Counted
<1> QED BY <1>3 DEF Refs, Historical

\* The tokens of the new validator back the shares it has, which are none.
LEMMA NewSetBacked ==
    ASSUME NEW s, StakOK(s), Backed(s), NEW op \in Validators,
           \A pair \in Delegations(s) : pair[2] # op
    PROVE  Backed(NewSet(s, op))
<1> DEFINE t == NewSet(s, op)
<1>1. t.shares = s.shares /\ t.tokens = [s.tokens EXCEPT ![op] = TestnetTokens]
  BY DEF NewSet, StakOK
<1> HIDE DEF t
<1>2. SumFunctionOnSet(Shares(s, op), Accounts) = 0
  BY UndelegatedShares
<1>3. ASSUME NEW v \in Validators
      PROVE  SumFunctionOnSet(Shares(t, v), Accounts) <= t.tokens[v]
  <2>1. Shares(t, v) = Shares(s, v)
    BY <1>1 DEF Shares
  <2>2. CASE v = op
    <3>1. t.tokens[v] = TestnetTokens
      BY <1>1, <2>2 DEF StakOK
    <3> QED BY <1>2, <2>1, <2>2, <3>1, TestnetAssumption
  <2>3. CASE v # op
    <3>1. t.tokens[v] = s.tokens[v]
      BY <1>1, <2>3 DEF StakOK
    <3> QED BY <2>1, <3>1 DEF Backed
  <2> QED BY <2>2, <2>3
<1> QED BY <1>3 DEF Backed, t

\* The validators that a takeover drops join those left behind.
LEMMA AccountsTakeOver ==
    ASSUME MannedInv, AccountsInv, NEW op, NEW list, op \in Validators \cup {NoAddress},
           TakeOver(op, list), renewed' = {}
    PROVE  AccountsInv' /\ (Keeps(dist, dist') \/ dist' = dist)
<1>1. /\ pc = "idle" /\ pc' \in {"idle", "exited"}
      /\ UNCHANGED <<height, exportVars>>
  BY DEF TakeOver
<1>2. PICK G \in SUBSET Validators : Ledger(dist, stak, G, height)
  BY <1>1 DEF AccountsInv, BooksInv, Whole
<1>3. PanicExplained' /\ LoopsInv' /\ ~ Rebuilding'
  BY <1>1 DEF PanicExplained, LoopsInv, Prepares, Rebuilding, Rebuilt
<1>4. /\ \E H \in SUBSET Validators : Ledger(dist', stak', H, height')
      /\ Settles(dist, dist') \/ dist' = dist
  <2>1. CASE pc' = "exited"
    BY <1>1, <1>2, <2>1 DEF TakeOver
  <2>2. CASE pc' # "exited"
    <3> DEFINE V == stak.vals \cup G
               t == NewSet(stak, op)
    <3>1. /\ op \in Validators /\ stak' = t
          /\ dist' = WriteRecords(InitializeValidator(dist, op), op)
          /\ DOMAIN dist.hist[op] = {}
      BY <2>2 DEF TakeOver, Renewed
    <3>2. /\ DistOK(dist) /\ StakOK(stak) /\ Backed(stak) /\ V \in SUBSET Validators
          /\ \A pair \in Delegations(stak) : pair[2] \in V
      BY <1>2, LedgerSets DEF Ledger
    <3>3. op \notin V
      BY <1>2, <3>1, HistoryOf
    <3>4. StakOK(t) /\ Backed(t)
      BY <3>1, <3>2, <3>3, NewSetManned, NewSetBacked
    <3>5. t.shares = stak.shares /\ t.vals = {op}
      BY <3>2 DEF NewSet, StakOK
    <3>6. dist' = InitializeValidator(dist, op)
      BY <3>1, <3>2, WrittenOnce
    <3> HIDE DEF t
    <3>7. V \in SUBSET (Validators \ t.vals) /\ t.vals \cup V = V \cup {op}
          /\ op \in Validators \ V
      BY <3>1, <3>2, <3>3, <3>5
    <3>8. Ledger(dist', t, V, height) /\ Settles(dist, dist')
      BY <1>2, <3>4, <3>5, <3>6, <3>7, LedgerCreated
    <3> QED BY <1>1, <3>1, <3>2, <3>8
  <2> QED BY <2>1, <2>2
<1>5. dist'.fault = "none" /\ Funded(dist')
  BY <1>4 DEF Ledger, Sound
<1> QED BY <1>3, <1>4, <1>5 DEF AccountsInv, BooksInv, Keeps

\* Blocks and messages: a validator created in one of them is new to the books.
LEMMA AccountsChain ==
    ASSUME AccountsInv, TypeOK', ChainNext, UNCHANGED exportVars,
           Renewed(stak'.vals \ stak.vals) = {}
    PROVE  AccountsInv' /\ Keeps(dist, dist')
<1>1. pc \in {"idle", "block"} /\ pc' \in {"idle", "block"}
  BY ChainRuns
<1>2. PICK G \in SUBSET Validators : Ledger(dist, stak, G, height)
  BY <1>1 DEF AccountsInv, BooksInv, Whole
<1>3. PanicExplained' /\ LoopsInv' /\ ~ Rebuilding'
  BY <1>1 DEF PanicExplained, LoopsInv, Prepares, Rebuilding, Rebuilt
<1>4. (stak'.vals \ stak.vals) \cap G = {}
  BY <1>2, HistoryOf DEF Renewed
<1>5. Ledger(dist', stak', G, height') /\ Keeps(dist, dist')
  BY <1>2, <1>4, LedgerChain DEF TypeOK
<1>6. dist'.fault = "none" /\ Funded(dist')
  BY <1>5 DEF Ledger, Sound
<1> QED BY <1>3, <1>5, <1>6 DEF AccountsInv, BooksInv

-----------------------------------------------------------------------------
\* The export, step by step.  What a step keeps that touches no reward: ...
LEMMA BooksQuiet ==
    ASSUME BooksInv, TypeOK', dist' = dist, height' = height,
           stak'.shares = stak.shares, stak'.vals = stak.vals, stak'.tokens = stak.tokens,
           Whole' => Whole, Rebuilding' => Rebuilding,
           Rebuilding' => /\ LiveValidators' = LiveValidators
                          /\ LiveDelegations' = LiveDelegations
    PROVE  BooksInv'
<1>1. StakOK(stak')
  BY DEF TypeOK
<1>2. ASSUME Whole'
      PROVE  \E G \in SUBSET Validators : Ledger(dist', stak', G, height')
  <2>1. PICK G \in SUBSET Validators : Ledger(dist, stak, G, height)
    BY <1>2 DEF BooksInv
  <2>2. Ledger(dist, stak', G, height)
    BY <1>1, <2>1, LedgerSame
  <2> QED BY <2>2
<1>3. ASSUME Rebuilding'
      PROVE  Sound(dist, stak, LiveValidators, LiveDelegations, 0)' /\ Backed(stak')
  <2>1. Sound(dist, stak, LiveValidators, LiveDelegations, 0) /\ Backed(stak)
    BY <1>3 DEF BooksInv
  <2>2. \A pair \in LiveDelegations : stak'.shares[pair] = stak.shares[pair]
    OBVIOUS
  <2>3. Sound(dist, stak', LiveValidators, LiveDelegations, 0)
    BY <2>1, <2>2, SharesSame
  <2> QED BY <1>3, <2>1, <2>3, BackedSame
<1> QED BY <1>2, <1>3 DEF BooksInv, Funded

LEMMA AccountsStart ==
    ASSUME MannedInv, AccountsInv, TypeOK', NEW zero \in BOOLEAN, NEW list,
           StartExport(zero, list)
    PROVE  AccountsInv' /\ dist' = dist
<1>1. /\ pc = "idle" /\ pc' = (IF zero THEN "allowList" ELSE "collect")
      /\ forZero' = zero /\ ctx' = height /\ snap'.stak = stak
      /\ UNCHANGED <<height, dist, stak>>
  BY DEF StartExport
<1>2. Whole /\ ~ Rebuilding'
  BY <1>1 DEF Whole, Rebuilding, Rebuilt
<1>3. BooksInv'
  BY <1>1, <1>2, BooksQuiet DEF AccountsInv
<1>4. PanicExplained' /\ LoopsInv'
  BY <1>1 DEF PanicExplained, LoopsInv, Prepares, MannedInv
<1> QED BY <1>1, <1>3, <1>4 DEF AccountsInv

\* ... the list, the loops that are over, the genesis, ...
LEMMA AccountsPassed ==
    ASSUME AccountsInv, TypeOK, TypeOK',
           ParseAllowList \/ GetAllDelegations \/ CloseIterator \/ CollectGenesis
    PROVE  AccountsInv' /\ dist' = dist
<1>1. /\ UNCHANGED <<dist, stak, height, forZero, ctx, snap, allow>>
      /\ \/ /\ pc = "allowList" /\ pc' \in {"commission", "panicked"}
            /\ pc' = "panicked" => allow # {}
         \/ pc = "commission" /\ pc' = "rewards" /\ todoD' = Delegations(stak)
         \/ pc = "bondHeights" /\ pc' \in {"apply", "collect"}
         \/ pc = "collect" /\ pc' = "done"
  BY DEF ParseAllowList, GetAllDelegations, CloseIterator, CollectGenesis, exportVars
<1>2. (Prepares => forZero) /\ (Prepares' => Prepares)
  BY <1>1 DEF AccountsInv, LoopsInv, Prepares
<1>3. /\ Whole' => Whole
      /\ Rebuilding' => Rebuilding
      /\ Rebuilding' => LiveValidators' = LiveValidators /\ LiveDelegations' = LiveDelegations
  BY <1>1, <1>2 DEF Whole, Rebuilding, Rebuilt, Prepares, LiveValidators, LiveDelegations
<1>4. BooksInv'
  BY <1>1, <1>3, BooksQuiet DEF AccountsInv
<1>5. PanicExplained' /\ LoopsInv'
  BY <1>1, <1>2 DEF AccountsInv, PanicExplained, LoopsInv
<1> QED BY <1>1, <1>4, <1>5 DEF AccountsInv

\* ... the heights that are forgotten, the jail and the election.
LEMMA AccountsForget ==
    ASSUME AccountsInv, TypeOK, TypeOK',
           ResetRedelegations \/ ResetUnbondings \/ ApplySetUpdates
             \/ \E v \in Validators : ResetValidator(v)
    PROVE  AccountsInv' /\ dist' = dist
<1>1. StakOK(stak) /\ Manned(stak) /\ (allow = {} => Unjailed(stak)) /\ forZero
  BY DEF TypeOK, AccountsInv, LoopsInv, Prepares, ResetRedelegations, ResetUnbondings,
         ApplySetUpdates, ResetValidator
<1>2. /\ UNCHANGED <<dist, height, forZero, ctx, snap, allow>>
      /\ pc \in {"redelegations", "unbondings", "bondHeights", "apply"}
      /\ \/ pc' \in {"unbondings", "bondHeights"}
         \/ pc = "apply" /\ pc' \in {"collect", "panicked"}
  BY DEF ResetRedelegations, ResetUnbondings, ApplySetUpdates, ResetValidator, exportVars
<1>3. pc' = "panicked" => allow # {}
  BY <1>1, NobodyUnknown, UnjailedMeetsNone
     DEF ResetRedelegations, ResetUnbondings, ApplySetUpdates, ResetValidator
<1>4. /\ stak'.shares = stak.shares /\ stak'.vals = stak.vals /\ stak'.tokens = stak.tokens
      /\ Manned(stak') /\ (allow = {} => Unjailed(stak'))
  <2>1. CASE ResetRedelegations \/ ResetUnbondings \/ \E v \in Validators : ResetValidator(v)
    <3>1. /\ stak'.shares = stak.shares /\ stak'.vals = stak.vals
          /\ stak'.tokens = stak.tokens /\ stak'.index = stak.index
          /\ stak'.last = stak.last /\ stak'.status = stak.status
      BY <1>1, <2>1 DEF ResetRedelegations, ResetUnbondings, ResetValidator, StakOK
    <3>2. CASE ResetRedelegations \/ ResetUnbondings
      <4>1. stak'.jailed = stak.jailed
        BY <1>1, <3>2 DEF ResetRedelegations, ResetUnbondings, StakOK
      <4> QED BY <1>1, <3>1, <4>1, MannedSame, UnjailedSame
    <3>3. ASSUME NEW v \in Validators, ResetValidator(v), allow = {}, Unjailed(stak)
          PROVE  Unjailed(stak')
      <4>1. stak'.jailed = [stak.jailed EXCEPT ![v] =
                               stak.jailed[v] \/ (allow # {} /\ ~ Allowed(v))]
        BY <1>1, <3>3 DEF ResetValidator, StakOK
      <4>2. \A w \in stak.index : w \in DOMAIN stak.jailed
        BY <1>1 DEF StakOK
      <4>3. \A w \in stak.index : ~ stak'.jailed[w]
        BY <3>3, <4>1, <4>2, Zenon DEF Unjailed
      <4> QED BY <3>1, <4>3 DEF Unjailed
    <3>4. Manned(stak')
      BY <1>1, <3>1, MannedSame
    <3> QED BY <1>1, <2>1, <3>1, <3>2, <3>3, <3>4
  <2>2. CASE ApplySetUpdates
    <3>1. CASE stak' = stak
      BY <1>1, <3>1
    <3>2. CASE stak' = ApplyValidatorSetUpdates(stak, ctx)
      BY <1>1, <3>2, ElectionSeats, SetUpdatesFields, UnjailedSame
    <3> QED BY <2>2, <3>1, <3>2 DEF ApplySetUpdates
  <2> QED BY <2>1, <2>2
<1>5. /\ Whole' => Whole
      /\ Rebuilding' => Rebuilding
      /\ Rebuilding' => LiveValidators' = LiveValidators /\ LiveDelegations' = LiveDelegations
  BY <1>1, <1>2, <1>4
     DEF Whole, Rebuilding, Rebuilt, LiveValidators, LiveDelegations, Delegations
<1>6. BooksInv'
  BY <1>2, <1>4, <1>5, BooksQuiet DEF AccountsInv
<1>7. PanicExplained' /\ LoopsInv'
  BY <1>1, <1>2, <1>3, <1>4 DEF AccountsInv, PanicExplained, LoopsInv
<1> QED BY <1>2, <1>6, <1>7 DEF AccountsInv

\* The steps between the loops that rebuild, and after them.
LEMMA AccountsBetween ==
    ASSUME AccountsInv, TypeOK, TypeOK', StartDelegations \/ RestoreHeight
    PROVE  AccountsInv' /\ dist' = dist
<1>1. /\ UNCHANGED <<dist, stak, height, forZero, snap, allow>>
      /\ \/ /\ pc = "validators" /\ pc' = "delegations" /\ todoV = {} /\ ctx' = ctx
            /\ todoD' = Delegations(snap.stak)
         \/ pc = "delegations" /\ pc' = "redelegations" /\ todoD = {} /\ todoD' = todoD
  BY DEF StartDelegations, RestoreHeight
<1>2. forZero /\ snap.stak.shares = stak.shares
  BY <1>1 DEF AccountsInv, LoopsInv, Prepares
<1>3. Delegations(snap.stak) = Delegations(stak)
  BY <1>2 DEF Delegations
<1>4. LiveValidators' = LiveValidators /\ LiveDelegations' = LiveDelegations
  <2>1. CASE pc = "validators"
    <3>1. /\ LiveValidators = stak.vals \ todoV /\ LiveDelegations = {}
          /\ LiveValidators' = stak'.vals
          /\ LiveDelegations' = Delegations(snap'.stak) \ todoD'
      BY <1>1, <2>1 DEF LiveValidators, LiveDelegations
    <3> QED BY <1>1, <2>1, <3>1
  <2>2. CASE pc = "delegations"
    <3>1. /\ LiveValidators = stak.vals /\ LiveValidators' = stak'.vals
          /\ LiveDelegations = Delegations(snap.stak) \ todoD
          /\ LiveDelegations' = Delegations(stak')
      BY <1>1, <2>2 DEF LiveValidators, LiveDelegations
    <3> QED BY <1>1, <1>3, <2>2, <3>1
  <2> QED BY <1>1, <2>1, <2>2
<1>5. Rebuilding /\ ~ Whole'
  BY <1>1, <1>2 DEF Rebuilding, Rebuilt, Whole
<1>6. BooksInv'
  BY <1>1, <1>4, <1>5, BooksQuiet DEF AccountsInv
<1>7. PanicExplained' /\ LoopsInv'
  BY <1>1, <1>2, <1>3 DEF AccountsInv, PanicExplained, LoopsInv
<1> QED BY <1>1, <1>6, <1>7 DEF AccountsInv

\* The withdrawals: a delegation to a validator that is gone is passed over.
LEMMA AccountsWithdraw ==
    ASSUME AccountsInv, TypeOK, TypeOK',
           \/ \E v \in Validators : WithdrawCommission(v)
           \/ \E pair \in Pairs : WithdrawRewards(pair)
    PROVE  AccountsInv' /\ (Keeps(dist, dist') \/ dist' = dist)
<1>1. /\ UNCHANGED <<stak, height, forZero, ctx, snap, allow>>
      /\ pc \in {"commission", "rewards"} /\ todoD' \subseteq todoD
      /\ pc' = IF dist'.fault = "none" THEN pc ELSE "panicked"
  BY DEF WithdrawCommission, WithdrawRewards, Goto
<1>2. PICK G \in SUBSET Validators : Ledger(dist, stak, G, height)
  BY <1>1 DEF AccountsInv, BooksInv, Whole
<1>3. ctx = height /\ (pc = "rewards" => todoD \subseteq Delegations(stak))
  BY <1>1 DEF AccountsInv, LoopsInv
<1>4. Ledger(dist', stak', G, height') /\ (Settles(dist, dist') \/ dist' = dist)
  <2>1. ASSUME NEW v \in Validators, WithdrawCommission(v)
        PROVE  Ledger(dist', stak, G, height) /\ (Settles(dist, dist') \/ dist' = dist)
    BY <1>2, <2>1, LedgerCommission DEF WithdrawCommission
  <2>2. ASSUME NEW pair \in Pairs, WithdrawRewards(pair)
        PROVE  Ledger(dist', stak, G, height) /\ (Settles(dist, dist') \/ dist' = dist)
    <3>1. CASE pair[2] \in stak.vals
      <4>1. /\ pair \in Delegations(stak)
            /\ dist' = WithdrawDelegationRewards(dist, stak, pair, height)
        BY <1>3, <2>2, <3>1 DEF WithdrawRewards, NextD
      <4> QED BY <1>2, <4>1, LedgerWithdrawn
    <3>2. CASE pair[2] \notin stak.vals
      BY <1>2, <2>2, <3>2 DEF WithdrawRewards
    <3> QED BY <3>1, <3>2
  <2> QED BY <1>1, <2>1, <2>2
<1>5. dist'.fault = "none" /\ Funded(dist')
  BY <1>4 DEF Ledger, Sound
<1>6. pc' = pc /\ ~ Rebuilding'
  BY <1>1, <1>5 DEF Rebuilding, Rebuilt
<1>7. BooksInv'
  BY <1>4, <1>5, <1>6 DEF BooksInv
<1>8. PanicExplained' /\ LoopsInv'
  BY <1>1, <1>6 DEF AccountsInv, PanicExplained, LoopsInv, Prepares
<1> QED BY <1>4, <1>7, <1>8 DEF AccountsInv, Keeps

\* The cleared history ends what the records of deleted validators were for.
LEMMA AccountsClear ==
    ASSUME AccountsInv, TypeOK, TypeOK', ClearHistory
    PROVE  AccountsInv' /\ (Keeps(dist, dist') \/ dist' = dist)
<1>1. /\ pc = "rewards" /\ pc' = "validators" /\ todoV' = stak.vals /\ ctx' = 0
      /\ UNCHANGED <<stak, height, forZero, snap, allow>>
      /\ dist' = [dist EXCEPT !.hist = [v \in Validators |-> [p \in {} |-> 0]]]
  BY DEF ClearHistory
<1>2. PICK G \in SUBSET Validators : Ledger(dist, stak, G, height)
  BY <1>1 DEF AccountsInv, BooksInv, Whole
<1>3. /\ dist'.outst = dist.outst /\ dist'.pool = dist.pool /\ dist'.funds = dist.funds
      /\ dist'.paid = dist.paid /\ dist'.fault = dist.fault
      /\ \A v \in Validators : DOMAIN dist'.hist[v] = {}
  BY <1>1, <1>2 DEF Ledger, DistOK
<1>4. dist'.fault = "none" /\ Funded(dist') /\ Backed(stak')
  BY <1>1, <1>2, <1>3 DEF Ledger, Sound, Funded, Held
<1>5. LiveValidators' = {} /\ LiveDelegations' = {}
  BY <1>1 DEF LiveValidators, LiveDelegations
<1>6. Counted(dist', {}, {})
  BY <1>3 DEF Counted, Refs, Historical, Starts
<1>7. Sound(dist, stak, LiveValidators, LiveDelegations, 0)'
  BY <1>4, <1>5, <1>6 DEF Sound
<1>8. BooksInv'
  BY <1>1, <1>4, <1>7 DEF BooksInv, Whole
<1>9. PanicExplained' /\ LoopsInv'
  BY <1>1 DEF AccountsInv, PanicExplained, LoopsInv, Prepares
<1>10. Settles(dist, dist')
  BY <1>2, <1>3, SettlesNothing DEF Ledger
<1> QED BY <1>8, <1>9, <1>10 DEF AccountsInv, Keeps

LEMMA AccountsValidator ==
    ASSUME AccountsInv, TypeOK, TypeOK', NEW v \in Validators, ReinitValidator(v)
    PROVE  AccountsInv' /\ (Keeps(dist, dist') \/ dist' = dist)
<1> DEFINE V == stak.vals \ todoV
<1>1. /\ pc = "validators" /\ v \in todoV /\ todoV' = todoV \ {v}
      /\ UNCHANGED <<stak, height, forZero, ctx, snap, allow>>
      /\ dist' = InitializeValidator([dist EXCEPT !.pool = @ + dist.outst[v]], v)
      /\ pc' = IF dist'.fault = "none" THEN "validators" ELSE "panicked"
  BY DEF ReinitValidator, Goto, NextV
<1>2. /\ DistOK(dist) /\ Backed(stak) /\ Funded(dist) /\ Sound(dist, stak, V, {}, 0)
      /\ V \in SUBSET Validators /\ todoV \subseteq stak.vals /\ v \in Validators \ V
  <2>1. LiveValidators = V /\ LiveDelegations = {} /\ Rebuilding
    BY <1>1 DEF LiveValidators, LiveDelegations, Rebuilding
  <2> QED BY <1>1, <2>1 DEF AccountsInv, BooksInv, LoopsInv, TypeOK, StakOK
<1>3. V \cup {v} = stak.vals \ todoV'
  BY <1>1, <1>2
<1> HIDE DEF V
<1>4. Created(dist, stak, dist', V, {}, v, 0)
  <2>1. {} \in SUBSET Pairs /\ \A pair \in {} : pair[2] # v
    OBVIOUS
  <2> QED BY <1>1, <1>2, <2>1, CreateSound
<1>5. DistOK(dist') /\ Sound(dist', stak, stak.vals \ todoV', {}, 0) /\ Settles(dist, dist')
  BY <1>3, <1>4 DEF Created
<1>6. dist'.fault = "none" /\ Funded(dist') /\ pc' = "validators"
  BY <1>1, <1>2, <1>5, SettlesFunded DEF Sound
<1>7. LiveValidators' = stak.vals \ todoV' /\ LiveDelegations' = {}
  BY <1>1, <1>6 DEF LiveValidators, LiveDelegations
<1>8. BooksInv'
  BY <1>1, <1>2, <1>5, <1>6, <1>7 DEF BooksInv, Whole
<1>9. PanicExplained' /\ LoopsInv'
  BY <1>1, <1>2, <1>6 DEF AccountsInv, PanicExplained, LoopsInv, Prepares
<1> QED BY <1>5, <1>8, <1>9 DEF AccountsInv, Keeps

\* The hooks refuse a delegation to a validator that is gone: the panic.
LEMMA AccountsDelegation ==
    ASSUME AccountsInv, TypeOK, TypeOK', NEW pair \in Pairs, ReinitDelegation(pair)
    PROVE  AccountsInv' /\ (Keeps(dist, dist') \/ dist' = dist)
<1> DEFINE D == Delegations(stak) \ todoD
           closed == IncrementValidatorPeriod(dist, stak, pair[2])
<1>1. /\ pc = "delegations" /\ pair \in todoD /\ todoD' = todoD \ {pair}
      /\ UNCHANGED <<stak, height, forZero, ctx, snap, allow>>
  BY DEF ReinitDelegation, NextD
<1>2. /\ snap.stak.shares = stak.shares /\ snap.stak.vals = stak.vals
      /\ forZero /\ ctx = 0 /\ todoD \subseteq Delegations(stak)
  BY <1>1 DEF AccountsInv, LoopsInv, Prepares
<1>3. Delegations(snap.stak) = Delegations(stak)
  BY <1>2 DEF Delegations
<1>4. CASE pair[2] \notin stak.vals
  <2>1. pc' = "panicked" /\ dist' = dist
    BY <1>4 DEF ReinitDelegation
  <2>2. BooksInv'
    BY <2>1 DEF AccountsInv, BooksInv, Whole, Rebuilding, Rebuilt
  <2>3. PanicExplained'
    BY <1>1, <1>2, <1>3, <1>4 DEF PanicExplained
  <2> QED BY <2>1, <2>2, <2>3 DEF AccountsInv, LoopsInv, Prepares
<1>5. CASE pair[2] \in stak.vals
  <2>1. /\ dist' = InitializeDelegation(closed, stak, pair, 0)
        /\ pc' = IF dist'.fault = "none" THEN "delegations" ELSE "panicked"
    BY <1>2, <1>5 DEF ReinitDelegation, Goto
  <2>2. /\ DistOK(dist) /\ StakOK(stak) /\ Backed(stak) /\ Funded(dist)
        /\ Sound(dist, stak, stak.vals, D, 0)
        /\ D \in SUBSET Pairs /\ stak.vals \in SUBSET Validators
        /\ pair \in Pairs \ D /\ D \cup {pair} = Delegations(stak) \ todoD'
    <3>1. LiveValidators = stak.vals /\ LiveDelegations = D /\ Rebuilding
      BY <1>1, <1>2, <1>3 DEF LiveValidators, LiveDelegations, Rebuilding, Rebuilt
    <3> QED BY <1>1, <1>2, <3>1 DEF AccountsInv, BooksInv, TypeOK, StakOK, Delegations
  <2> HIDE DEF D, closed
  <2>3. Advanced(dist, stak, closed, stak.vals, D, pair[2], 0)
    BY <1>5, <2>2, IncrementSound DEF closed
  <2>4. /\ DistOK(closed) /\ Sound(closed, stak, stak.vals, D, 0)
        /\ Fresh(closed, D, pair[2]) /\ Settles(dist, closed) /\ closed.rew[pair[2]] = 0
    BY <2>3 DEF Advanced
  <2>5. Begun(closed, stak, dist', stak.vals, D, pair, 0)
    BY <1>5, <2>1, <2>2, <2>4, StartSound
  <2>6. /\ DistOK(dist') /\ Sound(dist', stak, stak.vals, Delegations(stak) \ todoD', 0)
        /\ Settles(closed, dist')
    BY <2>2, <2>5 DEF Begun
  <2>7. dist'.fault = "none" /\ pc' = "delegations"
    BY <2>1, <2>6 DEF Sound
  <2>8. Settles(dist, dist') /\ Funded(dist')
    <3>1. Settles(dist, dist')
      BY <2>2, <2>4, <2>6, SettlesTwice
    <3> QED BY <2>2, <2>6, <3>1, SettlesFunded
  <2>9. LiveValidators' = stak.vals /\ LiveDelegations' = Delegations(stak) \ todoD'
    BY <1>1, <1>3, <2>7 DEF LiveValidators, LiveDelegations
  <2>10. BooksInv'
    BY <1>1, <2>2, <2>6, <2>7, <2>8, <2>9 DEF BooksInv, Whole
  <2>11. PanicExplained' /\ LoopsInv'
    BY <1>1, <1>2, <2>7 DEF AccountsInv, PanicExplained, LoopsInv, Prepares
  <2> QED BY <2>8, <2>10, <2>11 DEF AccountsInv, Keeps
<1> QED BY <1>4, <1>5

LEMMA AccountsExport ==
    ASSUME AccountsInv, TypeOK, TypeOK', ExportStep
    PROVE  AccountsInv' /\ (Keeps(dist, dist') \/ dist' = dist)
  BY AccountsPassed, AccountsForget, AccountsBetween, AccountsWithdraw, AccountsClear,
     AccountsValidator, AccountsDelegation DEF ExportStep

-----------------------------------------------------------------------------
LEMMA TestnetRun ==
    ASSUME TestnetInv, Run
    PROVE  TestnetInv' /\ (renewed' = {} => Keeps(dist, dist') \/ dist' = dist)
<1>1. TypeOK /\ TypeOK'
  BY ExitedStays, NextType DEF TestnetInv, MannedInv, TestnetTypeOK, Run, RunAs
<1>2. MannedInv'
  BY MannedRun DEF TestnetInv, Run, RunAs
<1>3. ASSUME renewed' = {} PROVE AccountsInv' /\ (Keeps(dist, dist') \/ dist' = dist)
  <2>1. renewed = {} /\ Renewed(stak'.vals \ stak.vals) = {}
    BY <1>3 DEF Run, RunAs
  <2>2. MannedInv /\ AccountsInv
    BY <2>1 DEF TestnetInv
  <2>3. CASE ChainNext /\ UNCHANGED exportVars
    BY <1>1, <2>1, <2>2, <2>3, AccountsChain
  <2>4. CASE ExportStep
    BY <1>1, <2>2, <2>4, AccountsExport
  <2>5. ASSUME NEW zero \in BOOLEAN, NEW list, StartExport(zero, list)
        PROVE  AccountsInv' /\ dist' = dist
    BY <1>1, <2>2, <2>5, AccountsStart
  <2> QED BY <2>3, <2>4, <2>5 DEF Run, RunAs, Next
<1> QED BY <1>2, <1>3 DEF TestnetInv

LEMMA TestnetNextSound ==
    ASSUME TestnetInv, [TestnetNext]_allVars
    PROVE  TestnetInv' /\ (renewed' = {} => Keeps(dist, dist') \/ dist' = dist)
<1>1. CASE UNCHANGED allVars
  BY <1>1 DEF TestnetInv, MannedInv, TestnetTypeOK, TypeOK, AccountsInv, BooksInv, Whole,
     Rebuilding, Rebuilt, PanicExplained, LoopsInv, Prepares, LiveValidators,
     LiveDelegations, allVars, vars, testnetVars
<1>2. ASSUME NEW op, NEW list, op \in Validators \cup {NoAddress}, TakeOver(op, list)
      PROVE  TestnetInv' /\ (renewed' = {} => Keeps(dist, dist') \/ dist' = dist)
  <2>1. MannedInv'
    BY <1>2, MannedTakeOver DEF TestnetInv
  <2>2. ASSUME renewed' = {} PROVE AccountsInv' /\ (Keeps(dist, dist') \/ dist' = dist)
    <3>1. renewed = {}
      BY <1>2, <2>2 DEF TakeOver
    <3> QED BY <1>2, <2>2, <3>1, AccountsTakeOver DEF TestnetInv
  <2> QED BY <2>1, <2>2 DEF TestnetInv
<1> QED BY <1>1, <1>2, TestnetRun DEF TestnetNext

LEMMA TestnetInitSound == TestnetInit => TestnetInv
<1> SUFFICES ASSUME TestnetInit PROVE TestnetInv
  OBVIOUS
<1>1. MannedInv /\ pc = "idle"
  BY MannedInit DEF TestnetInit, Init, ChainInit
<1>2. Ledger(dist, stak, {}, height)
  BY <1>1, SolvencyInit, ChainSoundFrom, LedgerFrom DEF TestnetInit
<1>3. BooksInv
  <2>1. dist.fault = "none" /\ Funded(dist)
    BY <1>2 DEF Ledger, Sound
  <2>2. \E G \in SUBSET Validators : Ledger(dist, stak, G, height)
    BY <1>2
  <2> QED BY <1>1, <2>1, <2>2 DEF BooksInv, Rebuilding, Rebuilt
<1>4. PanicExplained /\ LoopsInv
  BY <1>1 DEF PanicExplained, LoopsInv, Prepares
<1> QED BY <1>1, <1>3, <1>4 DEF TestnetInv, AccountsInv

LEMMA TestnetAlways == TestnetSpec => []TestnetInv
<1>1. TestnetInv /\ [TestnetNext]_allVars => TestnetInv'
  BY TestnetNextSound
<1> QED BY <1>1, TestnetInitSound, PTL DEF TestnetSpec

\* The invariant holds what the property promises: the references of those in
\* force are among the ones the books count.
LEMMA TestnetInvSound == TestnetInv => TestnetSound
<1> SUFFICES ASSUME TestnetInv, renewed = {}
             PROVE  /\ dist.fault = "none"
                    /\ pc # "panicked" => RefCountsExact
                    /\ FundsCovered
                    /\ PanicExplained
  BY DEF TestnetSound, PanicExplained
<1>1. MannedInv /\ BooksInv /\ PanicExplained /\ LoopsInv
  BY DEF TestnetInv, AccountsInv
<1>2. FundsCovered
  BY <1>1 DEF BooksInv, Funded, FundsCovered, Settlement!Covered, TotalOutstanding, Held
<1>3. ASSUME Whole PROVE RefCountsExact
  <2>1. PICK G \in SUBSET Validators : Ledger(dist, stak, G, height)
    BY <1>1, <1>3 DEF BooksInv
  <2>2. LiveValidators = stak.vals /\ LiveDelegations = Delegations(stak)
    BY <1>3 DEF Whole, LiveValidators, LiveDelegations
  <2>3. /\ DistOK(dist) /\ stak.vals \cup G \in SUBSET Validators
        /\ Counted(dist, stak.vals \cup G, Delegations(stak))
    BY <2>1, LedgerSets DEF Ledger, Sound
  <2> QED BY <2>2, <2>3, CountedExact
<1>4. ASSUME Rebuilding, TypeOK PROVE RefCountsExact
  <2>1. DistOK(dist) /\ LiveValidators \in SUBSET Validators
    BY <1>4 DEF TypeOK, StakOK, LiveValidators
  <2>2. Counted(dist, LiveValidators, LiveDelegations)
    BY <1>1, <1>4 DEF BooksInv, Sound
  <2> QED BY <2>1, <2>2, CountedExact
<1>5. pc # "panicked" => Whole \/ (Rebuilding /\ TypeOK)
  BY <1>1 DEF MannedInv, TestnetTypeOK, TypeOK, PC, LoopsInv, Prepares, Whole, Rebuilding,
              Rebuilt
<1> QED BY <1>1, <1>2, <1>3, <1>4, <1>5 DEF BooksInv

(***************************************************************************)
(* The rewriting of the stores leaves accounts that add up: whatever       *)
(* operators take the chain over, as often as they like, with any          *)
(* messages, blocks and exports in between, no keeper panics, the          *)
(* references of the validators that exist are exact, the module account   *)
(* covers what is owed, also to the deleted validators, and an export      *)
(* without a list panics only over a delegation to one of them; as long as *)
(* no validator is created over the records of a deleted one.              *)
(***************************************************************************)
THEOREM TestnetAccountsSound == TestnetSpec => []TestnetSound
<1> QED BY TestnetAlways, TestnetInvSound, PTL

-----------------------------------------------------------------------------
(***************************************************************************)
(* The books of a validator that is gone.  What the keeper does for one    *)
(* validator changes the books of no other, whatever the state of its      *)
(* records is: the types are enough.                                       *)
(***************************************************************************)
BooksAt(d, e, v) ==
    \A w \in Validators \ {v} :
        e.rew[w] = d.rew[w] /\ e.outst[w] = d.outst[w] /\ e.comm[w] = d.comm[w]

LEMMA BooksAtTwice ==
    ASSUME NEW d, NEW e, NEW f, NEW v, BooksAt(d, e, v), BooksAt(e, f, v)
    PROVE  BooksAt(d, f, v)
  BY DEF BooksAt

LEMMA FaultBooks ==
    ASSUME NEW d, DistOK(d), NEW v, NEW why
    PROVE  BooksAt(d, Fault(d, why), v)
  BY DEF BooksAt, Fault, DistOK

LEMMA IncrementBooksAt ==
    ASSUME NEW d, DistOK(d), NEW s, StakOK(s), NEW v \in Validators
    PROVE  BooksAt(d, IncrementValidatorPeriod(d, s, v), v)
<1> DEFINE stray == IF s.tokens[v] = 0 THEN d.rew[v] ELSE 0
           ratio == Historical(d, v, d.period[v] - 1).ratio
                      + (IF s.tokens[v] = 0 THEN 0 ELSE d.rew[v] \div s.tokens[v])
           donated == [d EXCEPT !.outst[v] = @ - stray, !.pool = @ + stray]
           released == DecrementReferenceCount(donated, v, d.period[v] - 1)
           closed == SetHistorical(released, v, d.period[v], ratio, 1)
           last == [closed EXCEPT !.rew[v] = 0, !.period[v] = d.period[v] + 1]
<1>1. stray \in Nat /\ d.outst[v] \in Nat /\ d.period[v] - 1 \in Nat
  BY DEF DistOK, StakOK
<1>2. CASE stray > d.outst[v]
  <2>1. IncrementValidatorPeriod(d, s, v) = Fault(d, "negative coins")
    BY <1>2 DEF IncrementValidatorPeriod
  <2> QED BY <2>1, FaultBooks
<1>3. CASE ~ (stray > d.outst[v])
  <2>1. IncrementValidatorPeriod(d, s, v) = last
    BY <1>3, Zenon DEF IncrementValidatorPeriod
  <2>2. DistOK(donated) /\ BooksAt(d, donated, v)
    <3> HIDE DEF stray
    <3>1. stray <= d.outst[v]
      BY <1>1, <1>3
    <3>2. DistOK(donated)
      BY <1>1, <3>1, DonateType
    <3> QED BY <3>2 DEF BooksAt, DistOK
  <2> HIDE DEF donated, stray, ratio
  <2>3. /\ DistOK(released) /\ released.rew = donated.rew
        /\ released.outst = donated.outst /\ released.comm = donated.comm
    BY <1>1, <2>2, CountsKeepBooks, DecrementReferenceCountType
  <2> HIDE DEF released
  <2>4. /\ closed.rew = released.rew /\ closed.outst = released.outst
        /\ closed.comm = released.comm /\ "rew" \in DOMAIN closed /\ DOMAIN closed.rew = Validators
    BY <2>3 DEF SetHistorical, DistOK
  <2> HIDE DEF closed
  <2>5. BooksAt(closed, last, v)
    BY <2>4 DEF BooksAt
  <2> HIDE DEF last
  <2>6. BooksAt(donated, closed, v)
    BY <2>3, <2>4 DEF BooksAt
  <2> QED BY <2>1, <2>2, <2>5, <2>6, BooksAtTwice
<1> QED BY <1>2, <1>3

LEMMA SettleBooksAt ==
    ASSUME NEW d, DistOK(d), NEW s, StakOK(s), NEW pair \in Pairs, NEW h \in Nat
    PROVE  BooksAt(d, SettleDelegation(d, s, pair, h), pair[2])
<1> DEFINE v == pair[2]
           ending == d.period[v]
           closed == IncrementValidatorPeriod(d, s, v)
           raw == CalculateDelegationRewards(closed, pair, ending, h)
           due == IF raw <= closed.outst[v] THEN raw ELSE closed.outst[v]
           coins == due \div Unit
           sent == SendCoins(closed, pair[1], coins)
           settled == [sent EXCEPT !.outst[v] = @ - due, !.pool = @ + (due % Unit)]
           released == DecrementReferenceCount(settled, v, d.start[pair].period)
           e == SettleDelegation(d, s, pair, h)
<1>1. v \in Validators
  BY PairOf
<1>2. DistOK(closed) /\ BooksAt(d, closed, v)
  BY <1>1, IncrementValidatorPeriodType, IncrementBooksAt
<1>3. e \in {Fault(d, "no info"), Fault(closed, "calculation"), Fault(closed, "unfunded"),
             [released EXCEPT !.start[pair] = NoInfo]}
  BY Zenon DEF SettleDelegation
<1> HIDE DEF closed, due, coins, e
<1>4. CASE e = Fault(d, "no info")
  BY <1>4, FaultBooks DEF e
<1>5. CASE e \in {Fault(closed, "calculation"), Fault(closed, "unfunded")}
  <2>1. BooksAt(closed, e, v)
    BY <1>2, <1>5, FaultBooks
  <2> QED BY <1>2, <2>1, BooksAtTwice DEF e
<1>6. CASE e = [released EXCEPT !.start[pair] = NoInfo]
  <2>1. BooksAt(closed, settled, v) /\ DOMAIN settled = DOMAIN closed
    BY <1>2 DEF SendCoins, BooksAt, DistOK
  <2> HIDE DEF settled
  <2>2. /\ released.rew = settled.rew /\ released.outst = settled.outst
        /\ released.comm = settled.comm
    <3>1. {"hist", "fault"} \subseteq DOMAIN settled
      BY <1>2, <2>1 DEF DistOK
    <3> QED BY DEF DecrementReferenceCount, Fault, SetHistorical, DeleteHistorical
  <2>3. e.rew = released.rew /\ e.outst = released.outst /\ e.comm = released.comm
    BY <1>6
  <2>4. BooksAt(settled, e, v)
    BY <2>2, <2>3 DEF BooksAt
  <2> QED BY <1>2, <2>1, <2>4, BooksAtTwice DEF e
<1> QED BY <1>3, <1>4, <1>5, <1>6

LEMMA StartBooksAt ==
    ASSUME NEW d, DistOK(d), NEW s, StakOK(s), NEW pair \in Pairs, NEW h \in Nat
    PROVE  BooksAt(d, InitializeDelegation(d, s, pair, h), pair[2])
<1> DEFINE previous == d.period[pair[2]] - 1
           counted == IncrementReferenceCount(d, pair[2], previous)
           info == [period |-> previous, stake |-> s.shares[pair], height |-> h]
           e == InitializeDelegation(d, s, pair, h)
<1>1. e = [counted EXCEPT !.start[pair] = info]
  BY Zenon DEF InitializeDelegation
<1>2. pair[2] \in Validators /\ previous \in Nat
  BY PairOf DEF DistOK
<1> HIDE DEF previous, info
<1>3. counted.rew = d.rew /\ counted.outst = d.outst /\ counted.comm = d.comm
  BY <1>2, CountsKeepBooks
<1> HIDE DEF counted, e
<1>4. e.rew = d.rew /\ e.outst = d.outst /\ e.comm = d.comm
  BY <1>1, <1>3
<1> QED BY <1>4 DEF BooksAt, e

LEMMA WithdrawBooksAt ==
    ASSUME NEW d, DistOK(d), NEW s, StakOK(s), NEW pair \in Pairs, NEW h \in Nat
    PROVE  BooksAt(d, WithdrawDelegationRewards(d, s, pair, h), pair[2])
<1> DEFINE f == SettleDelegation(d, s, pair, h)
<1>1. BooksAt(d, f, pair[2]) /\ DistOK(f)
  BY SettleBooksAt, SettleDelegationType
<1> HIDE DEF f
<1>2. BooksAt(f, InitializeDelegation(f, s, pair, h), pair[2])
  BY <1>1, StartBooksAt
<1>3. BooksAt(d, InitializeDelegation(f, s, pair, h), pair[2]) /\ BooksAt(d, d, pair[2])
  BY <1>1, <1>2, BooksAtTwice DEF BooksAt
<1> QED BY <1>3 DEF WithdrawDelegationRewards, f

LEMMA RecordsBooksAt ==
    ASSUME NEW d, DistOK(d), NEW v \in Validators
    PROVE  /\ BooksAt(d, InitializeValidator(d, v), v)
           /\ BooksAt(d, RemoveRecords(d, v), v)
           /\ BooksAt(d, WriteRecords(d, v), v)
<1>1. BooksAt(d, InitializeValidator(d, v), v)
  BY DEF InitializeValidator, SetHistorical, BooksAt, DistOK
<1>2. BooksAt(d, WriteRecords(d, v), v)
  BY DEF WriteRecords, SetHistorical, BooksAt, DistOK
<1>3. BooksAt(d, RemoveRecords(d, v), v)
  BY DEF RemoveRecords, SendCoins, Fault, BooksAt, DistOK
<1> QED BY <1>1, <1>2, <1>3

LEMMA HooksBooksAt ==
    ASSUME NEW d, DistOK(d), NEW s, StakOK(s), NEW t, StakOK(t), NEW pair \in Pairs,
           NEW h \in Nat
    PROVE  BooksAt(d, DelegationHooks(d, s, t, pair, h), pair[2])
<1> DEFINE before == IF s.shares[pair] > 0 THEN SettleDelegation(d, s, pair, h)
                     ELSE IncrementValidatorPeriod(d, s, pair[2])
<1>1. BooksAt(d, before, pair[2]) /\ DistOK(before)
  <2>1. /\ BooksAt(d, SettleDelegation(d, s, pair, h), pair[2])
        /\ DistOK(SettleDelegation(d, s, pair, h))
    BY SettleBooksAt, SettleDelegationType
  <2>2. /\ BooksAt(d, IncrementValidatorPeriod(d, s, pair[2]), pair[2])
        /\ DistOK(IncrementValidatorPeriod(d, s, pair[2]))
    BY PairOf, IncrementBooksAt, IncrementValidatorPeriodType
  <2> QED BY <2>1, <2>2
<1>2. DelegationHooks(d, s, t, pair, h)
        = IF t.shares[pair] > 0 THEN InitializeDelegation(before, t, pair, h) ELSE before
  BY Zenon DEF DelegationHooks
<1> HIDE DEF before
<1>3. BooksAt(before, InitializeDelegation(before, t, pair, h), pair[2])
  BY <1>1, StartBooksAt
<1>4. BooksAt(d, InitializeDelegation(before, t, pair, h), pair[2])
  BY <1>1, <1>3, BooksAtTwice
<1> QED BY <1>1, <1>2, <1>4

LEMMA UnbondBooksAt ==
    ASSUME NEW d, DistOK(d), NEW s, StakOK(s), NEW t, StakOK(t), NEW pair \in Pairs,
           NEW h \in Nat
    PROVE  BooksAt(d, UnbondHooks(d, s, t, pair, h), pair[2])
<1> DEFINE f == DelegationHooks(d, s, t, pair, h)
<1>1. BooksAt(d, f, pair[2]) /\ DistOK(f) /\ pair[2] \in Validators
  BY HooksBooksAt, DelegationHooksType, PairOf
<1>2. UnbondHooks(d, s, t, pair, h) = IF pair[2] \in t.vals THEN f ELSE RemoveRecords(f, pair[2])
  BY Zenon DEF UnbondHooks
<1> HIDE DEF f
<1>3. BooksAt(d, RemoveRecords(f, pair[2]), pair[2])
  BY <1>1, RecordsBooksAt, BooksAtTwice
<1> QED BY <1>1, <1>2, <1>3

\* Nobody's books change but v's, or v's only by commission that it is paid.
LEMMA KeptElsewhere ==
    ASSUME DistOK(dist), NEW v, BooksAt(dist, dist', v), NEW w \in Validators, w # v
    PROVE  BooksKept(w)
  BY DEF BooksAt, BooksKept, DistOK

LEMMA KeptQuiet ==
    ASSUME DistOK(dist), dist'.rew = dist.rew, dist'.outst = dist.outst,
           dist'.comm = dist.comm, NEW w \in Validators
    PROVE  BooksKept(w)
  BY DEF BooksKept, DistOK

LEMMA KeptCommission ==
    ASSUME DistOK(dist), NEW v \in Validators,
           dist' = WithdrawValidatorCommission(dist, v), NEW w \in Validators
    PROVE  BooksKept(w)
<1> DEFINE coins == dist.comm[v] \div Unit
           sent == SendCoins(dist, v, coins)
           rest == dist.comm[v] % Unit
           last == [sent EXCEPT !.comm[v] = rest, !.outst[v] = @ - coins * Unit]
<1>1. /\ dist.comm[v] \in Nat /\ dist.outst[v] \in Nat /\ v \in Accounts
      /\ dist.paid[v] \in Nat
  BY AddressAssumption DEF DistOK
<1>2. /\ coins \in Nat /\ rest \in Nat /\ coins * Unit \in Nat
      /\ dist.comm[v] = coins * Unit + rest
  BY <1>1, UnitAssumption, DivMod
<1>3. dist' \in {dist, Fault(dist, "negative coins"), last}
  BY Zenon DEF WithdrawValidatorCommission
<1> HIDE DEF coins, rest
<1>4. CASE dist' \in {dist, Fault(dist, "negative coins")}
  <2>1. dist'.rew = dist.rew /\ dist'.outst = dist.outst /\ dist'.comm = dist.comm
    BY <1>4 DEF Fault, DistOK
  <2> QED BY <2>1, KeptQuiet
<1>5. CASE dist' = last
  <2>1. /\ dist'.rew = dist.rew
        /\ dist'.comm = [dist.comm EXCEPT ![v] = rest]
        /\ dist'.outst = [dist.outst EXCEPT ![v] = @ - coins * Unit]
        /\ dist'.paid = [dist.paid EXCEPT ![v] = @ + coins]
    BY <1>5 DEF SendCoins, DistOK
  <2>2. CASE w = v
    <3>1. /\ dist.comm[v] - dist'.comm[v] = coins * Unit
          /\ dist'.outst[v] = dist.outst[v] - coins * Unit
          /\ dist'.paid[v] - dist.paid[v] = coins
      BY <1>1, <1>2, <2>1 DEF DistOK
    <3> QED BY <2>1, <2>2, <3>1 DEF BooksKept
  <2>3. CASE w # v
    <3>1. BooksAt(dist, dist', v)
      BY <2>1 DEF BooksAt, DistOK
    <3> QED BY <2>3, <3>1, KeptElsewhere
  <2> QED BY <2>2, <2>3
<1> QED BY <1>3, <1>4, <1>5

\* A vote is paid to a validator that exists.
LEMMA KeptBegin ==
    ASSUME TypeOK, BeginBlock, NEW w \in Validators \ stak.vals
    PROVE  BooksKept(w)
<1>1. PICK share \in [Validators -> VoteShares \cup {0}] :
        /\ \A v \in Validators \ Voters : share[v] = 0
        /\ dist' = AllocateTokens(dist, share, Fee, Total(share))
  BY DEF BeginBlock
<1>2. share[w] = 0 /\ DistOK(dist)
  BY <1>1 DEF Voters, TypeOK
<1>3. 0 \div CommissionDiv = 0
  BY UnitAssumption
<1>4. /\ dist'.comm[w] = dist.comm[w] + 0 \div CommissionDiv
      /\ dist'.rew[w] = dist.rew[w] + 0 - 0 \div CommissionDiv
      /\ dist'.outst[w] = dist.outst[w] + 0
  BY <1>1, <1>2 DEF AllocateTokens, DistOK
<1> QED BY <1>2, <1>3, <1>4 DEF BooksKept, DistOK

LEMMA KeptMessage ==
    ASSUME TypeOK, TypeOK', ChainNext, ~ BeginBlock, ~ EndBlock,
           NEW w \in Validators \ stak.vals, w \notin stak'.vals
    PROVE  BooksKept(w)
<1>1. DistOK(dist) /\ StakOK(stak) /\ StakOK(stak') /\ height \in Nat
  BY DEF TypeOK
<1>2. ASSUME NEW pair \in Pairs, NEW amount \in Amounts, MsgDelegate(pair, amount)
      PROVE  BooksKept(w)
  <2>1. pair[2] \in stak.vals /\ dist' = DelegationHooks(dist, stak, stak', pair, height)
    BY <1>2 DEF MsgDelegate
  <2> QED BY <1>1, <2>1, HooksBooksAt, KeptElsewhere
<1>3. ASSUME NEW pair \in Pairs, NEW amount \in Amounts, MsgUndelegate(pair, amount)
      PROVE  BooksKept(w)
  <2>1. pair[2] \in stak.vals /\ dist' = UnbondHooks(dist, stak, stak', pair, height)
    BY <1>3 DEF MsgUndelegate, Removable
  <2> QED BY <1>1, <2>1, UnbondBooksAt, KeptElsewhere
<1>4. ASSUME NEW a \in Accounts, NEW from \in Validators, NEW to \in Validators,
             NEW amount \in Amounts, MsgBeginRedelegate(a, from, to, amount)
      PROVE  BooksKept(w)
  <2> DEFINE u == RemoveShares(stak, <<a, from>>, amount)
             t == AddShares(u, <<a, to>>, amount)
             left == UnbondHooks(dist, stak, u, <<a, from>>, height)
  <2>1. /\ from \in stak.vals /\ to \in stak.vals /\ Removable(stak, <<a, from>>, amount)
        /\ dist' = DelegationHooks(left, u, t, <<a, to>>, height)
    BY <1>4 DEF MsgBeginRedelegate, Removable
  <2>2. amount \in Nat /\ <<a, from>> \in Pairs /\ <<a, to>> \in Pairs
    BY ChainAssumption DEF Pairs
  <2>3. StakOK(u)
    BY <1>1, <2>1, <2>2, RemoveSharesType
  <2>4. StakOK(t)
    <3> HIDE DEF u
    <3> QED BY <2>2, <2>3, AddSharesType
  <2> HIDE DEF u, t
  <2>5. DistOK(left)
    BY <1>1, <2>2, <2>3, UnbondHooksType
  <2>6. BooksAt(dist, left, from)
    <3>1. BooksAt(dist, left, <<a, from>>[2])
      BY <1>1, <2>2, <2>3, UnbondBooksAt
    <3> QED BY <3>1
  <2> HIDE DEF left
  <2>7. BooksAt(left, dist', to)
    <3>1. BooksAt(left, dist', <<a, to>>[2])
      BY <1>1, <2>1, <2>2, <2>3, <2>4, <2>5, HooksBooksAt
    <3> QED BY <3>1
  <2>8. w # from /\ w # to
    BY <2>1
  <2>9. dist'.rew[w] = dist.rew[w] /\ dist'.outst[w] = dist.outst[w] /\ dist'.comm[w] = dist.comm[w]
    BY <2>6, <2>7, <2>8 DEF BooksAt
  <2> QED BY <1>1, <2>9 DEF BooksKept, DistOK
<1>5. ASSUME NEW v \in Validators, NEW amount \in Amounts, MsgCreateValidator(v, amount)
      PROVE  BooksKept(w)
  <2> DEFINE pair == <<v, v>>
             created == CreateValidator(stak, v)
             hooked == InitializeValidator(dist, v)
  <2>1. /\ stak' = AddShares(created, pair, amount)
        /\ dist' = DelegationHooks(hooked, created, stak', pair, height)
    BY <1>5 DEF MsgCreateValidator
  <2>2. pair \in Pairs /\ StakOK(created) /\ DistOK(hooked) /\ BooksAt(dist, hooked, v)
    BY <1>1, AddressAssumption, CreateValidatorType, InitializeValidatorType, RecordsBooksAt
       DEF Pairs
  <2>3. v \in stak'.vals
    <3>1. v \in created.vals
      BY <1>1 DEF CreateValidator, StakOK
    <3>2. created.vals \subseteq stak'.vals
      <4> HIDE DEF created, pair
      <4> QED BY <2>1, <2>2 DEF AddShares, SetTokens, StakOK
    <3> QED BY <3>1, <3>2
  <2> HIDE DEF created, hooked
  <2>4. BooksAt(hooked, dist', pair[2])
    <3> HIDE DEF pair
    <3> QED BY <1>1, <2>1, <2>2, HooksBooksAt
  <2>5. BooksAt(hooked, dist', v)
    BY <2>4
  <2>6. BooksAt(dist, dist', v)
    BY <2>2, <2>5, BooksAtTwice
  <2> QED BY <1>1, <2>3, <2>6, KeptElsewhere
<1>6. ASSUME NEW pair \in Pairs, MsgWithdrawDelegatorReward(pair)
      PROVE  BooksKept(w)
  <2>1. pair[2] \in stak.vals /\ dist' = WithdrawDelegationRewards(dist, stak, pair, height)
    BY <1>6 DEF MsgWithdrawDelegatorReward
  <2> QED BY <1>1, <2>1, WithdrawBooksAt, KeptElsewhere
<1>7. ASSUME NEW v \in Validators, MsgWithdrawValidatorCommission(v)
      PROVE  BooksKept(w)
  BY <1>1, <1>7, KeptCommission DEF MsgWithdrawValidatorCommission
<1> QED BY <1>2, <1>3, <1>4, <1>5, <1>6, <1>7 DEF ChainNext

\* The loop over the validators visits only those that exist.
VisitsInv == pc = "validators" => todoV \subseteq stak.vals

KeptInv == MannedInv /\ VisitsInv

LEMMA KeptExport ==
    ASSUME TypeOK, TypeOK', VisitsInv, ExportStep, NEW w \in Validators \ stak.vals
    PROVE  BooksKept(w)
<1>1. DistOK(dist) /\ StakOK(stak) /\ ctx \in Nat
  BY DEF TypeOK
<1>2. CASE \/ ParseAllowList \/ GetAllDelegations \/ StartDelegations \/ RestoreHeight
           \/ ResetRedelegations \/ ResetUnbondings \/ CloseIterator \/ ApplySetUpdates
           \/ CollectGenesis \/ ClearHistory
           \/ \E v \in Validators : ResetValidator(v)
  <2>1. dist'.rew = dist.rew /\ dist'.outst = dist.outst /\ dist'.comm = dist.comm
    BY <1>1, <1>2
       DEF ParseAllowList, GetAllDelegations, StartDelegations, RestoreHeight,
           ResetRedelegations, ResetUnbondings, CloseIterator, ApplySetUpdates,
           CollectGenesis, ClearHistory, ResetValidator, DistOK
  <2> QED BY <1>1, <2>1, KeptQuiet
<1>3. ASSUME NEW v \in Validators, WithdrawCommission(v)
      PROVE  BooksKept(w)
  BY <1>1, <1>3, KeptCommission DEF WithdrawCommission
<1>4. ASSUME NEW v \in Validators, ReinitValidator(v)
      PROVE  BooksKept(w)
  <2> DEFINE donated == [dist EXCEPT !.pool = @ + dist.outst[v]]
  <2>1. v \in stak.vals /\ dist' = InitializeValidator(donated, v)
    BY <1>4 DEF ReinitValidator, NextV, VisitsInv
  <2>2. /\ dist'.rew = [dist.rew EXCEPT ![v] = 0]
        /\ dist'.outst = [dist.outst EXCEPT ![v] = 0]
        /\ dist'.comm = [dist.comm EXCEPT ![v] = 0]
    BY <1>1, <2>1 DEF InitializeValidator, SetHistorical, DistOK
  <2>3. BooksAt(dist, dist', v)
    BY <1>1, <2>2 DEF BooksAt, DistOK
  <2> QED BY <1>1, <2>1, <2>3, KeptElsewhere
<1>5. ASSUME NEW pair \in Pairs, WithdrawRewards(pair)
      PROVE  BooksKept(w)
  <2>1. CASE pair[2] \in stak.vals
    <3>1. dist' = WithdrawDelegationRewards(dist, stak, pair, ctx)
      BY <1>5, <2>1 DEF WithdrawRewards
    <3> QED BY <1>1, <2>1, <3>1, WithdrawBooksAt, KeptElsewhere
  <2>2. CASE pair[2] \notin stak.vals
    BY <1>1, <1>5, <2>2, KeptQuiet DEF WithdrawRewards
  <2> QED BY <2>1, <2>2
<1>6. ASSUME NEW pair \in Pairs, ReinitDelegation(pair)
      PROVE  BooksKept(w)
  <2> DEFINE closed == IncrementValidatorPeriod(dist, stak, pair[2])
  <2>1. CASE pair[2] \in stak.vals
    <3>1. dist' = InitializeDelegation(closed, stak, pair, ctx)
      BY <1>6, <2>1 DEF ReinitDelegation
    <3>2. DistOK(closed) /\ BooksAt(dist, closed, pair[2])
      BY <1>1, PairOf, IncrementValidatorPeriodType, IncrementBooksAt
    <3> HIDE DEF closed
    <3>3. BooksAt(dist, dist', pair[2])
      BY <1>1, <3>1, <3>2, StartBooksAt, BooksAtTwice
    <3> QED BY <1>1, <2>1, <3>3, KeptElsewhere
  <2>2. CASE pair[2] \notin stak.vals
    BY <1>1, <1>6, <2>2, KeptQuiet DEF ReinitDelegation
  <2> QED BY <2>1, <2>2
<1> QED BY <1>2, <1>3, <1>4, <1>5, <1>6 DEF ExportStep

\* Every step keeps the books of those that are gone.
LEMMA KeptStep ==
    ASSUME KeptInv, TestnetNext, NEW w \in Gone
    PROVE  BooksKept(w)
<1>1. w \in Validators /\ w \notin stak'.vals /\ (w \in stak.vals => pc = "idle")
  BY DEF Gone
<1>2. ASSUME NEW op, NEW list, op \in Validators \cup {NoAddress}, TakeOver(op, list)
      PROVE  BooksKept(w)
  <2>1. TypeOK
    BY <1>2 DEF TakeOver, KeptInv, MannedInv, TestnetTypeOK
  <2>2. CASE pc' = "exited"
    BY <1>1, <1>2, <2>1, <2>2, KeptQuiet DEF TakeOver, TypeOK
  <2>3. CASE pc' # "exited"
    <3> DEFINE hooked == InitializeValidator(dist, op)
    <3>1. /\ op \in Validators /\ stak' = NewSet(stak, op)
          /\ dist' = WriteRecords(hooked, op)
      BY <1>2, <2>3 DEF TakeOver
    <3>2. DistOK(hooked) /\ BooksAt(dist, hooked, op)
      BY <2>1, <3>1, InitializeValidatorType, RecordsBooksAt DEF TypeOK
    <3> HIDE DEF hooked
    <3>3. BooksAt(dist, dist', op)
      BY <3>1, <3>2, RecordsBooksAt, BooksAtTwice
    <3>4. w # op
      BY <1>1, <2>1, <3>1 DEF NewSet, TypeOK, StakOK
    <3> QED BY <1>1, <2>1, <3>3, <3>4, KeptElsewhere DEF TypeOK
  <2> QED BY <2>2, <2>3
<1>3. CASE Next
  <2>1. TypeOK /\ TypeOK'
    BY <1>3, ExitedStays, NextType DEF KeptInv, MannedInv, TestnetTypeOK
  <2>2. CASE ChainNext
    <3>1. CASE BeginBlock
      BY <1>1, <2>1, <3>1, KeptBegin DEF BeginBlock
    <3>2. CASE EndBlock
      BY <1>1, <2>1, <3>2, KeptQuiet DEF EndBlock, TypeOK
    <3>3. CASE ~ BeginBlock /\ ~ EndBlock
      <4>1. /\ \A pair, amount : MsgDelegate(pair, amount) \/ MsgUndelegate(pair, amount)
                                  => Deliver
            /\ \A a, from, to, amount : MsgBeginRedelegate(a, from, to, amount) => Deliver
            /\ \A v, amount : MsgCreateValidator(v, amount) => Deliver
            /\ \A pair : MsgWithdrawDelegatorReward(pair) => Deliver
            /\ \A v : MsgWithdrawValidatorCommission(v) => Deliver
        BY DEF MsgDelegate, MsgUndelegate, MsgBeginRedelegate, MsgCreateValidator,
               MsgWithdrawDelegatorReward, MsgWithdrawValidatorCommission
      <4>2. Deliver
        BY <2>2, <3>3, <4>1 DEF ChainNext
      <4>3. pc = "block"
        BY <4>2 DEF Deliver
      <4> QED BY <1>1, <2>1, <2>2, <3>3, <4>3, KeptMessage
    <3> QED BY <3>1, <3>2, <3>3
  <2>3. ASSUME NEW zero, NEW list, StartExport(zero, list)
        PROVE  BooksKept(w)
    BY <1>1, <2>1, <2>3, KeptQuiet DEF StartExport, TypeOK
  <2>4. CASE ExportStep
    <3>1. pc # "idle"
      BY <2>4 DEF ExportStep, ParseAllowList, GetAllDelegations, ClearHistory,
         StartDelegations, RestoreHeight, ResetRedelegations, ResetUnbondings, CloseIterator,
         ApplySetUpdates, CollectGenesis, WithdrawCommission, ReinitValidator,
         ResetValidator, WithdrawRewards, ReinitDelegation
    <3> QED BY <1>1, <2>1, <2>4, <3>1, KeptExport DEF KeptInv
  <2> QED BY <1>3, <2>2, <2>3, <2>4 DEF Next
<1> QED BY <1>2, <1>3 DEF TestnetNext, Run, RunAs

LEMMA VisitsNext ==
    ASSUME VisitsInv, TypeOK, [Next]_vars
    PROVE  VisitsInv'
<1>1. CASE UNCHANGED vars
  BY <1>1 DEF VisitsInv, vars
<1>2. CASE ChainNext
  BY <1>2, ChainRuns DEF VisitsInv
<1>3. ASSUME NEW zero, NEW list, StartExport(zero, list)
      PROVE  VisitsInv'
  BY <1>3 DEF StartExport, VisitsInv
<1>4. CASE ExportStep
  BY <1>4 DEF VisitsInv, ExportStep, ParseAllowList, GetAllDelegations, ClearHistory,
     StartDelegations, RestoreHeight, ResetRedelegations, ResetUnbondings, CloseIterator,
     ApplySetUpdates, CollectGenesis, WithdrawCommission, ReinitValidator,
     ResetValidator, WithdrawRewards, ReinitDelegation, Goto, exportVars
<1> QED BY <1>1, <1>2, <1>3, <1>4 DEF Next

LEMMA KeptAlways == TestnetSpec => []KeptInv
<1>1. TestnetInit => VisitsInv
  BY DEF TestnetInit, Init, ChainInit, VisitsInv
<1>2. ASSUME KeptInv, [TestnetNext]_allVars PROVE VisitsInv'
  <2>1. CASE UNCHANGED allVars
    BY <1>2, <2>1 DEF KeptInv, VisitsInv, allVars, vars
  <2>2. ASSUME NEW op, NEW list, TakeOver(op, list) PROVE VisitsInv'
    BY <2>2 DEF TakeOver, VisitsInv
  <2>3. CASE Next
    BY <1>2, <2>3, ExitedStays, VisitsNext DEF KeptInv, MannedInv, TestnetTypeOK
  <2> QED BY <1>2, <2>1, <2>2, <2>3 DEF TestnetNext, Run, RunAs
<1>3. KeptInv /\ [TestnetNext]_allVars => KeptInv'
  BY <1>2, MannedNext DEF KeptInv
<1> QED BY <1>1, <1>3, MannedInit, PTL DEF TestnetSpec, KeptInv

LEMMA KeptSteps == KeptInv /\ [TestnetNext]_allVars => [\A v \in Gone : BooksKept(v)]_allVars
  BY KeptStep

(***************************************************************************)
(* A takeover leaves the settlement of rewards alone.  As long as no       *)
(* validator is created over the records of a deleted one, everything      *)
(* after it implements the aggregate settlement as before: coins come in   *)
(* with fees and leave to accounts, and what is settled and not paid goes  *)
(* to the pool.  And whatever happens, no step takes anything from the     *)
(* books of a deleted validator, or adds to them, except the commission    *)
(* that its own account draws.                                             *)
(***************************************************************************)
THEOREM TestnetImplementsSettlement == TestnetSpec => TestnetSettles
<1>1. TestnetInit => Settlement!Init
  BY SettlementStarts DEF TestnetInit
<1>2. TestnetInv /\ [TestnetNext]_allVars
          => [renewed' = {} => [Settlement!Next]_(Settlement!settlement)]_allVars
  BY TestnetNextSound, SettlementSteps
<1> QED BY <1>1, <1>2, KeptAlways, KeptSteps, TestnetAlways, PTL
        DEF TestnetSpec, TestnetSettles

(***************************************************************************)
(* Between the operations of the testnet chain what a validator and its    *)
(* delegators could withdraw never exceeds what is outstanding to it, also *)
(* for the validators that a takeover has deleted, whose delegations stay. *)
(***************************************************************************)
THEOREM TestnetClaimsCovered ==
    TestnetSpec =>
        [](pc \in {"idle", "block"} /\ renewed = {} =>
              \A v \in Validators :
                  dist.comm[v] + dist.rew[v] + Claimed(dist, Delegations(stak), v)
                      <= dist.outst[v])
<1>1. TestnetInv => (pc \in {"idle", "block"} /\ renewed = {} =>
                        \A v \in Validators :
                            dist.comm[v] + dist.rew[v] + Claimed(dist, Delegations(stak), v)
                                <= dist.outst[v])
  <2> SUFFICES ASSUME TestnetInv, pc \in {"idle", "block"}, renewed = {},
                      NEW v \in Validators
               PROVE  dist.comm[v] + dist.rew[v] + Claimed(dist, Delegations(stak), v)
                          <= dist.outst[v]
    OBVIOUS
  <2>1. PICK G \in SUBSET Validators : Ledger(dist, stak, G, height)
    BY DEF TestnetInv, AccountsInv, BooksInv, Whole
  <2> QED BY <2>1, LedgerCovers
<1> QED BY <1>1, TestnetAlways, PTL
=============================================================================
