------------------------ MODULE ZeroHeightExportProofs ------------------------
(***************************************************************************)
(* ZeroHeightExport is type correct, and the reference counts of the       *)
(* reward history are exact in every reachable state: the panics that      *)
(* guard them never fire.  The invariant is Safe of the validators and     *)
(* delegations in force, with what the loops of the export need to stay    *)
(* inside it.                                                              *)
(***************************************************************************)
EXTENDS ZeroHeightExport, DistributionProofs

-----------------------------------------------------------------------------
\* The operators of Staking keep its store well typed.

LEMMA SetTokensType ==
    ASSUME NEW s, StakOK(s), NEW v \in Validators, NEW n \in Nat
    PROVE  StakOK(SetTokens(s, v, n))
  BY DEF StakOK, SetTokens

LEMMA JailType ==
    ASSUME NEW s, StakOK(s), NEW v \in Validators
    PROVE  StakOK(Jail(s, v))
  BY DEF StakOK, Jail

LEMMA SetSharesType ==
    ASSUME NEW s, StakOK(s), NEW pair \in Pairs, NEW n \in Nat
    PROVE  StakOK([s EXCEPT !.shares[pair] = n])
  BY DEF StakOK

LEMMA CreateValidatorType ==
    ASSUME NEW s, StakOK(s), NEW v \in Validators
    PROVE  StakOK(CreateValidator(s, v))
  BY ZenonT(30) DEF StakOK, CreateValidator, Status

LEMMA RemoveAbandonedType ==
    ASSUME NEW s, StakOK(s), NEW v \in Validators
    PROVE  StakOK(RemoveAbandoned(s, v))
  BY DEF StakOK, RemoveAbandoned

LEMMA RemoveSharesType ==
    ASSUME NEW s, StakOK(s), NEW pair \in Pairs, NEW amount \in Nat,
           Removable(s, pair, amount)
    PROVE  StakOK(RemoveShares(s, pair, amount))
<1> DEFINE v == pair[2]
           left == s.shares[pair] - amount
           leaves == pair[1] = v /\ ~ s.jailed[v] /\ left < MinSelfDelegation
           kept == IF leaves THEN Jail(s, v) ELSE s
           set == SetTokens(kept, v, s.tokens[v] - amount)
<1>1. v \in Validators /\ left \in Nat /\ s.tokens[v] - amount \in Nat
  BY DEF Pairs, StakOK, Removable
<1>2. StakOK(kept)
  BY <1>1, JailType
<1> HIDE DEF kept
<1>3. StakOK(set)
  BY <1>1, <1>2, SetTokensType
<1> DEFINE paid == [set EXCEPT !.shares[pair] = left]
<1>4. StakOK(paid)
  <2> HIDE DEF set, left
  <2> QED BY <1>1, <1>3, SetSharesType
<1>5. StakOK(RemoveAbandoned(paid, v))
  <2> HIDE DEF paid
  <2> QED BY <1>1, <1>4, RemoveAbandonedType
<1> QED BY <1>5, Zenon DEF RemoveShares, kept

LEMMA AddSharesType ==
    ASSUME NEW s, StakOK(s), NEW pair \in Pairs, NEW amount \in Nat
    PROVE  StakOK(AddShares(s, pair, amount))
<1> DEFINE set == SetTokens(s, pair[2], s.tokens[pair[2]] + amount)
<1>1. pair[2] \in Validators /\ s.tokens[pair[2]] + amount \in Nat
  BY DEF Pairs, StakOK
<1>2. StakOK(set)
  BY <1>1, SetTokensType
<1> HIDE DEF set
<1>3. set.shares[pair] + amount \in Nat
  BY <1>2 DEF StakOK
<1>4. StakOK([set EXCEPT !.shares[pair] = @ + amount])
  BY <1>2, <1>3 DEF StakOK
<1> QED BY <1>4, Zenon DEF AddShares, set

LEMMA ApplyValidatorSetUpdatesType ==
    ASSUME NEW s, StakOK(s), NEW h \in Nat
    PROVE  StakOK(ApplyValidatorSetUpdates(s, h))
<1>1. \A v \in Validators : Power(s, v) \in Nat
  BY DivMod, StakingAssumption DEF Power, StakOK
<1> QED BY <1>1 DEF StakOK, ApplyValidatorSetUpdates, Status

LEMMA EntriesType ==
    ASSUME NEW s, StakOK(s), NEW f \in [Pairs -> SUBSET Entry],
           NEW g \in [Routes -> SUBSET Entry]
    PROVE  StakOK([s EXCEPT !.ubd = f]) /\ StakOK([s EXCEPT !.red = g])
  BY DEF StakOK

-----------------------------------------------------------------------------
\* The state a chain starts from is well typed.

LEMMA GenesisType == DistOK(GenesisDist) /\ StakOK(CreatedStak)
<1>1. DistOK(GenesisDist)
  <2> DEFINE info(pair) == [period |-> 1, stake |-> GenesisStake[pair[2]], height |-> 1]
  <2>1. \A pair \in Pairs : pair[2] \in GenesisValidators => info(pair) \in StartingInfo
    BY ChainAssumption DEF StartingInfo, GenesisValidators
  <2>2. GenesisDist.start \in [Pairs -> StartingInfo \cup {NoInfo}]
    BY <2>1 DEF GenesisDist
  <2>3. \A P \in SUBSET Nat :
          [p \in P |-> [ratio |-> 0, refs |-> 2]] \in [P -> HistoricalRewards]
    BY DEF HistoricalRewards
  <2> QED BY <2>2, <2>3 DEF DistOK, GenesisDist
<1>2. StakOK(CreatedStak)
  BY ChainAssumption DEF StakOK, CreatedStak, Status, Pairs, GenesisValidators
<1> QED BY <1>1, <1>2

LEMMA InitType == Init => TypeOK
<1> SUFFICES ASSUME Init PROVE TypeOK
  OBVIOUS
<1>1. DistOK(dist) /\ StakOK(stak)
  BY GenesisType, ApplyValidatorSetUpdatesType DEF Init, ChainInit
<1>2. snap.dist = dist /\ snap.stak = stak
      /\ snap \in [dist : {snap.dist}, stak : {snap.stak}]
  BY DEF Init
<1>3. pc \in PC /\ height \in Nat /\ msgs \in Nat /\ ctx \in Nat
  BY DEF Init, ChainInit, PC
<1>4. /\ forZero \in BOOLEAN /\ allow \subseteq Entries
      /\ todoV \subseteq Validators /\ todoD \subseteq Pairs
      /\ genesis \in [height : Nat, validators : SUBSET Validators] \cup {NoGenesis}
  BY DEF Init
<1> QED BY <1>1, <1>2, <1>3, <1>4 DEF TypeOK

-----------------------------------------------------------------------------
\* A block and the messages in it keep every variable well typed.

LEMMA BeginBlockType == TypeOK /\ BeginBlock /\ UNCHANGED exportVars => TypeOK'
<1> SUFFICES ASSUME TypeOK, BeginBlock, UNCHANGED exportVars PROVE TypeOK'
  OBVIOUS
<1>1. PICK share \in [Validators -> VoteShares \cup {0}], total \in 0..(Fee * Unit) :
        dist' = AllocateTokens(dist, share, Fee, total)
  BY DEF BeginBlock
<1>2. share \in [Validators -> Nat] /\ Fee \in Nat
  <2>1. VoteShares \cup {0} \subseteq Nat /\ Fee \in Nat
    BY ChainAssumption
  <2>2. \A v \in Validators : share[v] \in Nat
    BY <2>1
  <2> QED BY <2>1, <2>2
<1>3. DistOK(dist')
  BY <1>1, <1>2, AllocateTokensType DEF TypeOK
<1> QED BY <1>3 DEF TypeOK, BeginBlock, exportVars, PC

LEMMA EndBlockType == TypeOK /\ EndBlock /\ UNCHANGED exportVars => TypeOK'
<1> SUFFICES ASSUME TypeOK, EndBlock, UNCHANGED exportVars PROVE TypeOK'
  OBVIOUS
<1>1. StakOK(stak')
  BY ApplyValidatorSetUpdatesType DEF EndBlock, TypeOK
<1> QED BY <1>1 DEF TypeOK, EndBlock, exportVars, PC

\* A message changes the two stores and the count of messages.
LEMMA DeliverType ==
    ASSUME TypeOK, Deliver, UNCHANGED exportVars, DistOK(dist'), StakOK(stak')
    PROVE  TypeOK'
  BY DEF TypeOK, Deliver, exportVars

LEMMA MessageType ==
    ASSUME TypeOK, UNCHANGED exportVars,
           \/ \E pair \in Pairs, amount \in Amounts :
                MsgDelegate(pair, amount) \/ MsgUndelegate(pair, amount)
           \/ \E a \in Accounts, from, to \in Validators, amount \in Amounts :
                MsgBeginRedelegate(a, from, to, amount)
           \/ \E v \in Validators, amount \in Amounts : MsgCreateValidator(v, amount)
           \/ \E pair \in Pairs : MsgWithdrawDelegatorReward(pair)
           \/ \E v \in Validators : MsgWithdrawValidatorCommission(v)
    PROVE  TypeOK'
<1> USE DEF TypeOK
<1>1. ASSUME NEW pair \in Pairs, NEW amount \in Amounts, MsgDelegate(pair, amount)
      PROVE  TypeOK'
  <2>1. Deliver /\ StakOK(stak')
    BY <1>1, AddSharesType, ChainAssumption DEF MsgDelegate
  <2>2. DistOK(dist')
    BY <1>1, <2>1, DelegationHooksType DEF MsgDelegate
  <2> QED BY <2>1, <2>2, DeliverType
<1>2. ASSUME NEW pair \in Pairs, NEW amount \in Amounts, MsgUndelegate(pair, amount)
      PROVE  TypeOK'
  <2> DEFINE entries == stak.ubd[pair]
             merged == {e \in entries : e.height = height /\ e.due = height}
             more == {[e EXCEPT !.amount = @ + amount] : e \in merged}
             added == IF merged = {}
                      THEN {[height |-> height, due |-> height, amount |-> amount]}
                      ELSE more
             now == (entries \ merged) \cup added
             removed == RemoveShares(stak, pair, amount)
  <2>1. amount \in Nat
    BY ChainAssumption
  <2>2. StakOK(removed)
    BY <1>2, <2>1, RemoveSharesType DEF MsgUndelegate
  <2>3. now \in SUBSET Entry
    <3>1. entries \in SUBSET Entry
      BY DEF StakOK
    <3>2. added \in SUBSET Entry
      BY <2>1, <3>1 DEF Entry
    <3> QED BY <3>1, <3>2
  <2>4. StakOK([removed EXCEPT !.ubd[pair] = now])
    <3> HIDE DEF removed, now
    <3>1. removed.ubd \in [Pairs -> SUBSET Entry]
      BY <2>2 DEF StakOK
    <3>2. [removed.ubd EXCEPT ![pair] = now] \in [Pairs -> SUBSET Entry]
      BY <2>3, <3>1
    <3> QED BY <2>2, <3>2 DEF StakOK
  <2>5. Deliver /\ StakOK(stak')
    BY <1>2, <2>4, Zenon DEF MsgUndelegate
  <2>6. DistOK(dist')
    BY <1>2, <2>5, UnbondHooksType DEF MsgUndelegate
  <2> QED BY <2>5, <2>6, DeliverType
<1>3. ASSUME NEW a \in Accounts, NEW from \in Validators, NEW to \in Validators,
             NEW amount \in Amounts, MsgBeginRedelegate(a, from, to, amount)
      PROVE  TypeOK'
  <2> DEFINE route == <<a, from, to>>
             removed == RemoveShares(stak, <<a, from>>, amount)
             created == IF stak.status[from] = "unbonding"
                        THEN stak.unbondHeight[from] ELSE height
             entry == [height |-> created, due |-> created, amount |-> amount]
             added == IF stak.status[from] = "unbonded" THEN {} ELSE {entry}
             left == UnbondHooks(dist, stak, removed, <<a, from>>, height)
             moved == AddShares(removed, <<a, to>>, amount)
  <2>1. amount \in Nat /\ <<a, from>> \in Pairs /\ <<a, to>> \in Pairs
        /\ route \in Routes
    BY ChainAssumption DEF Pairs, Routes
  <2>2. StakOK(removed)
    BY <1>3, <2>1, RemoveSharesType DEF MsgBeginRedelegate
  <2>3. StakOK(moved)
    <3> HIDE DEF removed
    <3> QED BY <2>1, <2>2, AddSharesType
  <2>4. added \in SUBSET Entry
    <3>1. created \in Nat
      BY DEF StakOK
    <3> QED BY <2>1, <3>1 DEF Entry
  <2>5. StakOK([moved EXCEPT !.red[route] = @ \cup added])
    <3> HIDE DEF moved, added, route
    <3>1. moved.red \in [Routes -> SUBSET Entry]
      BY <2>3 DEF StakOK
    <3>2. [moved.red EXCEPT ![route] = @ \cup added] \in [Routes -> SUBSET Entry]
      BY <2>1, <2>4, <3>1
    <3> QED BY <2>3, <3>2 DEF StakOK
  <2>6. DistOK(left)
    <3> HIDE DEF removed
    <3> QED BY <2>1, <2>2, UnbondHooksType
  <2>7. DistOK(DelegationHooks(left, removed, moved, <<a, to>>, height))
    <3> HIDE DEF left, removed, moved
    <3> QED BY <2>1, <2>2, <2>3, <2>6, DelegationHooksType
  <2>8. Deliver /\ StakOK(stak') /\ DistOK(dist')
    BY <1>3, <2>5, <2>7, Zenon DEF MsgBeginRedelegate
  <2> QED BY <2>8, DeliverType
<1>4. ASSUME NEW pair \in Pairs, MsgWithdrawDelegatorReward(pair)
      PROVE  TypeOK'
  <2>1. DistOK(dist') /\ StakOK(stak') /\ Deliver
    BY <1>4, WithdrawDelegationRewardsType DEF MsgWithdrawDelegatorReward
  <2> QED BY <2>1, DeliverType
<1>5. ASSUME NEW v \in Validators, MsgWithdrawValidatorCommission(v)
      PROVE  TypeOK'
  <2>1. DistOK(dist') /\ StakOK(stak') /\ Deliver
    BY <1>5, WithdrawValidatorCommissionType DEF MsgWithdrawValidatorCommission
  <2> QED BY <2>1, DeliverType
<1>6. ASSUME NEW v \in Validators, NEW amount \in Amounts, MsgCreateValidator(v, amount)
      PROVE  TypeOK'
  <2> DEFINE pair == <<v, v>>
             created == CreateValidator(stak, v)
             hooked == InitializeValidator(dist, v)
  <2>1. amount \in Nat /\ pair \in Pairs
    BY ChainAssumption, AddressAssumption DEF Pairs
  <2>2. StakOK(created) /\ DistOK(hooked)
    BY CreateValidatorType, InitializeValidatorType
  <2>3. /\ Deliver
        /\ stak' = AddShares(created, pair, amount)
        /\ dist' = DelegationHooks(hooked, created, stak', pair, height)
    BY <1>6, Zenon DEF MsgCreateValidator
  <2> HIDE DEF created, hooked, pair
  <2>4. StakOK(stak')
    BY <2>1, <2>2, <2>3, AddSharesType
  <2>5. DistOK(dist')
    BY <2>1, <2>2, <2>3, <2>4, DelegationHooksType
  <2> QED BY <2>3, <2>4, <2>5, DeliverType
<1> QED BY <1>1, <1>2, <1>3, <1>4, <1>5, <1>6

-----------------------------------------------------------------------------
\* A step of the export keeps every variable well typed.

LEMMA GotoType ==
    ASSUME NEW label \in PC, Goto(label)
    PROVE  pc' \in PC
  BY DEF Goto, PC

LEMMA StartExportType ==
    ASSUME TypeOK, NEW zero \in BOOLEAN, NEW list \in SUBSET Entries,
           StartExport(zero, list)
    PROVE  TypeOK'
  BY DEF TypeOK, StartExport, PC

LEMMA AtHeightZeroType ==
    ASSUME NEW entries \in SUBSET Entry
    PROVE  AtHeightZero(entries) \in SUBSET Entry
<1>1. ASSUME NEW e \in Entry PROVE [e EXCEPT !.height = 0] \in Entry
  BY DEF Entry
<1> QED BY <1>1 DEF AtHeightZero

LEMMA ExportStepType == TypeOK /\ ExportStep => TypeOK'
<1> SUFFICES ASSUME TypeOK, ExportStep PROVE TypeOK'
  OBVIOUS
<1> USE DEF TypeOK
<1>1. CASE ParseAllowList
  BY <1>1 DEF ParseAllowList, PC, StakOK
<1>2. CASE GetAllDelegations
  BY <1>2 DEF GetAllDelegations, PC, Delegations
<1>3. CASE ClearHistory
  <2> DEFINE h == [v \in Validators |-> [p \in {} |-> 0]]
  <2>1. dist' = [dist EXCEPT !.hist = h]
    BY <1>3 DEF ClearHistory
  <2>2. DistOK(dist')
    <3>1. \A v \in Validators : DOMAIN h[v] = {} /\ h[v] \in [{} -> HistoricalRewards]
      OBVIOUS
    <3>2. h \in [Validators -> {h[v] : v \in Validators}]
      OBVIOUS
    <3> HIDE DEF h
    <3>3. dist' \in Books(h)
      BY <2>1, TypeBooks DEF Books
    <3>4. dist'.hist = h
      BY <3>3 DEF Books
    <3>5. dist' \in Books(dist'.hist)
      BY <3>3, <3>4
    <3>6. dist'.hist \in [Validators -> {dist'.hist[v] : v \in Validators}]
      BY <3>2, <3>4
    <3>7. \A v \in Validators : DOMAIN dist'.hist[v] \subseteq Nat
            /\ dist'.hist[v] \in [DOMAIN dist'.hist[v] -> HistoricalRewards]
      BY <3>1, <3>4
    <3> QED BY <3>5, <3>6, <3>7 DEF DistOK, Books
  <2>3. stak.vals \subseteq Validators
    BY DEF StakOK
  <2> QED BY <2>2, <2>3, <1>3 DEF ClearHistory, PC
<1>4. CASE StartDelegations
  BY <1>4 DEF StartDelegations, PC, Delegations
<1>5. CASE RestoreHeight
  BY <1>5 DEF RestoreHeight, PC
<1>6. CASE ResetRedelegations
  <2> DEFINE g == [r \in Routes |-> AtHeightZero(stak.red[r])]
  <2>1. g \in [Routes -> SUBSET Entry]
    BY AtHeightZeroType DEF StakOK
  <2>2. StakOK([stak EXCEPT !.red = g])
    <3> HIDE DEF g
    <3> QED BY <2>1 DEF StakOK
  <2> QED BY <2>2, <1>6 DEF ResetRedelegations, PC
<1>7. CASE ResetUnbondings
  <2> DEFINE f == [p \in Pairs |-> AtHeightZero(stak.ubd[p])]
  <2>1. f \in [Pairs -> SUBSET Entry]
    BY AtHeightZeroType DEF StakOK
  <2>2. StakOK([stak EXCEPT !.ubd = f])
    <3> HIDE DEF f
    <3> QED BY <2>1 DEF StakOK
  <2>3. stak.vals \subseteq Validators
    BY DEF StakOK
  <2> QED BY <2>2, <2>3, <1>7 DEF ResetUnbondings, PC
<1>8. CASE CloseIterator
  BY <1>8 DEF CloseIterator, PC, exportVars
<1>9. CASE ApplySetUpdates
  BY <1>9, ApplyValidatorSetUpdatesType DEF ApplySetUpdates, PC, exportVars
<1>10. CASE CollectGenesis
  BY <1>10 DEF CollectGenesis, PC
<1>11. ASSUME NEW v \in Validators, WithdrawCommission(v) PROVE TypeOK'
  <2>1. DistOK(dist') /\ pc' \in PC
    BY <1>11, WithdrawValidatorCommissionType, GotoType DEF WithdrawCommission, PC
  <2> QED BY <1>11, <2>1 DEF WithdrawCommission
<1>12. ASSUME NEW v \in Validators, ReinitValidator(v) PROVE TypeOK'
  <2> DEFINE donated == [dist EXCEPT !.pool = @ + dist.outst[v]]
  <2>1. donated \in Books(dist.hist)
    <3>1. dist.pool + dist.outst[v] \in Nat
      <4>1. dist \in Books(dist.hist)
        BY TypeBooks
      <4>2. dist.pool \in Nat /\ dist.outst[v] \in Nat
        BY <4>1 DEF Books
      <4> QED BY <4>2
    <3> QED BY <3>1, TypeBooks DEF Books
  <2>2. DistOK(donated)
    BY <2>1, BooksType
  <2>3. DistOK(InitializeValidator(donated, v))
    <3> HIDE DEF donated
    <3> QED BY <2>2, InitializeValidatorType
  <2>4. DistOK(dist') /\ pc' \in PC
    BY <1>12, <2>3, GotoType DEF ReinitValidator, PC
  <2> QED BY <1>12, <2>4 DEF ReinitValidator
<1>13. ASSUME NEW v \in Validators, ResetValidator(v) PROVE TypeOK'
  <2> DEFINE newly == allow # {} /\ ~ Allowed(v)
             jail == stak.jailed[v] \/ newly
  <2>1. StakOK(stak')
    <3>1. stak' = [stak EXCEPT !.unbondHeight[v] = 0, !.jailed[v] = jail]
      BY <1>13 DEF ResetValidator
    <3>2. jail \in BOOLEAN
      OBVIOUS
    <3> HIDE DEF jail
    <3> QED BY <3>1, <3>2 DEF StakOK
  <2> QED BY <1>13, <2>1 DEF ResetValidator
<1>14. ASSUME NEW pair \in Pairs, WithdrawRewards(pair) PROVE TypeOK'
  <2>1. DistOK(dist') /\ pc' \in PC
    BY <1>14, WithdrawDelegationRewardsType, GotoType DEF WithdrawRewards, PC
  <2> QED BY <1>14, <2>1 DEF WithdrawRewards
<1>15. ASSUME NEW pair \in Pairs, ReinitDelegation(pair) PROVE TypeOK'
  <2>1. DistOK(IncrementValidatorPeriod(dist, stak, pair[2]))
    BY IncrementValidatorPeriodType DEF Pairs
  <2>2. DistOK(dist') /\ pc' \in PC
    BY <1>15, <2>1, InitializeDelegationType, GotoType DEF ReinitDelegation, PC
  <2> QED BY <1>15, <2>2 DEF ReinitDelegation
<1> QED BY <1>1, <1>2, <1>3, <1>4, <1>5, <1>6, <1>7, <1>8, <1>9, <1>10, <1>11,
           <1>12, <1>13, <1>14, <1>15 DEF ExportStep

LEMMA NextType == TypeOK /\ [Next]_vars => TypeOK'
<1> SUFFICES ASSUME TypeOK, [Next]_vars PROVE TypeOK'
  OBVIOUS
<1>1. CASE ChainNext /\ UNCHANGED exportVars
  BY <1>1, BeginBlockType, EndBlockType, MessageType, Zenon DEF ChainNext
<1>2. CASE StartExport(FALSE, {})
  BY <1>2, StartExportType
<1>3. CASE \E list \in AllowLists : StartExport(TRUE, list)
  BY <1>3, StartExportType, ExportAssumption
<1>4. CASE ExportStep
  BY <1>4, ExportStepType
<1>5. CASE UNCHANGED vars
  BY <1>5 DEF vars, TypeOK
<1> QED BY <1>1, <1>2, <1>3, <1>4, <1>5 DEF Next

(***************************************************************************)
(* Every variable holds a value of its type in every reachable state: in   *)
(* particular no coin amount, reward, share, token or reference count of   *)
(* the two stores ever goes negative, whatever the number of accounts and  *)
(* validators, the stakes, the fees and the allow lists.                   *)
(***************************************************************************)
THEOREM TypeCorrect == Spec => []TypeOK
<1>1. Init => TypeOK
  BY InitType
<1>2. TypeOK /\ [Next]_vars => TypeOK'
  BY NextType
<1> QED BY <1>1, <1>2, PTL DEF Spec

-----------------------------------------------------------------------------
\* The export changes no shares, so the delegations it read stay the ones
\* there are; a loop has still to visit some of them, or of the validators.
LoopsSound ==
    /\ pc \notin {"idle", "block"} => snap.stak.shares = stak.shares
    /\ pc \in {"rewards", "delegations"} => todoD \subseteq Delegations(stak)
    /\ pc = "validators" => todoV \subseteq stak.vals

\* The validator of a delegation exists.
Hosted(s) == \A pair \in Delegations(s) : pair[2] \in s.vals

CountInv ==
    /\ TypeOK
    /\ Safe(dist, LiveValidators, LiveDelegations)
    /\ LoopsSound
    /\ Hosted(stak)

-----------------------------------------------------------------------------
LEMMA CountInit == Init => CountInv
<1> SUFFICES ASSUME Init PROVE CountInv
  OBVIOUS
<1>1. TypeOK
  BY InitType
<1>2. /\ pc = "idle" /\ dist = GenesisDist /\ stak.shares = CreatedStak.shares
      /\ stak.vals = GenesisValidators
  BY DEF Init, ChainInit, ApplyValidatorSetUpdates, CreatedStak
<1> DEFINE V == GenesisValidators
<1>3. /\ LiveValidators = V /\ LiveDelegations = Delegations(stak)
      /\ V \subseteq Validators
  BY <1>2, ChainAssumption DEF LiveValidators, LiveDelegations, GenesisValidators
<1>4. \A pair \in Delegations(stak) :
        /\ pair \in Pairs /\ pair[1] = pair[2] /\ pair[2] \in V
        /\ dist.start[pair].period = 1 /\ dist.start[pair] # NoInfo
  <2> SUFFICES ASSUME NEW pair \in Pairs, stak.shares[pair] > 0
               PROVE  /\ pair[1] = pair[2] /\ pair[2] \in V
                      /\ dist.start[pair].period = 1 /\ dist.start[pair] # NoInfo
    BY DEF Delegations
  <2>1. pair[1] = pair[2] /\ pair[2] \in V
    BY <1>2 DEF CreatedStak
  <2>2. dist.start[pair] = [period |-> 1, stake |-> GenesisStake[pair[2]], height |-> 1]
    BY <1>2, <2>1 DEF GenesisDist
  <2>3. dist.start[pair] \in StartingInfo
    BY <2>1, <2>2, ChainAssumption DEF StartingInfo, GenesisValidators
  <2> QED BY <2>1, <2>2, <2>3, NoInfoAssumption
<1>5. \A v \in V : <<v, v>> \in Delegations(stak)
  <2> SUFFICES ASSUME NEW v \in V PROVE <<v, v>> \in Delegations(stak)
    OBVIOUS
  <2>1. <<v, v>> \in Pairs
    BY <1>3, AddressAssumption DEF Pairs
  <2>2. stak.shares[<<v, v>>] > 0
    BY <1>2, <2>1, ChainAssumption DEF CreatedStak, GenesisValidators
  <2> QED BY <2>1, <2>2 DEF Delegations
<1>6. \A v \in Validators : dist.period[v] = 2
  <2>1. GenesisDist.period = [v \in Validators |-> 2]
    BY DEF GenesisDist
  <2> QED BY <1>2, <2>1
<1>7. ASSUME NEW v \in Validators, NEW p \in Nat
      PROVE  Refs(dist, v, p) = IF v \in V /\ p = 1 THEN 2 ELSE 0
  BY <1>2 DEF GenesisDist, Refs, Historical
<1>8. ASSUME NEW v \in Validators, NEW p \in Nat
      PROVE  Starts(dist, Delegations(stak), v, p) <=> v \in V /\ p = 1
  BY <1>4, <1>5 DEF Starts
<1>9. \A v \in Validators : \A p \in DOMAIN dist.hist[v] : Refs(dist, v, p) # 0
  BY <1>2 DEF GenesisDist, Refs, Historical
<1>10. Counted(dist, V, Delegations(stak))
  <2>1. \A pair, other \in Delegations(stak) : pair[2] = other[2] => pair = other
    BY <1>4 DEF Pairs
  <2>2. \A v \in Validators, p \in Nat :
          Refs(dist, v, p) = (IF Starts(dist, Delegations(stak), v, p) THEN 1 ELSE 0)
                               + (IF v \in V /\ p = dist.period[v] - 1 THEN 1 ELSE 0)
    BY <1>6, <1>7, <1>8
  <2>3. \A pair \in Delegations(stak) : pair[2] \in V =>
          dist.start[pair] # NoInfo /\ dist.start[pair].period < dist.period[pair[2]]
    BY <1>3, <1>4, <1>6
  <2> HIDE DEF V
  <2> QED BY <1>9, <2>1, <2>2, <2>3 DEF Counted
<1>11. dist.fault = "none"
  BY <1>2 DEF GenesisDist
<1>12. Safe(dist, LiveValidators, LiveDelegations)
  BY <1>3, <1>10, <1>11 DEF Safe, RefFaults
<1>13. Hosted(stak)
  BY <1>2, <1>4 DEF Hosted
<1> QED BY <1>1, <1>2, <1>12, <1>13 DEF CountInv, LoopsSound

-----------------------------------------------------------------------------
\* Messages change the shares of one delegation at a time.

LEMMA SharesChanged ==
    ASSUME NEW s, StakOK(s), NEW pair \in Pairs, NEW amount
    PROVE  /\ \A other \in Pairs : other # pair =>
                AddShares(s, pair, amount).shares[other] = s.shares[other]
           /\ \A other \in Pairs : other # pair =>
                RemoveShares(s, pair, amount).shares[other] = s.shares[other]
  BY DEF AddShares, RemoveShares, RemoveAbandoned, SetTokens, Jail, StakOK

\* A message that adds shares keeps the validators, one that removes shares
\* may remove the validator, if nobody delegates to it any more.
LEMMA AddKeepsHosted ==
    ASSUME NEW s, StakOK(s), NEW pair \in Pairs, NEW amount, Hosted(s),
           pair[2] \in s.vals
    PROVE  AddShares(s, pair, amount).vals = s.vals /\ Hosted(AddShares(s, pair, amount))
<1>1. AddShares(s, pair, amount).vals = s.vals
  BY DEF AddShares, SetTokens, StakOK
<1>2. \A other \in Pairs : other # pair =>
        AddShares(s, pair, amount).shares[other] = s.shares[other]
  BY SharesChanged
<1> QED BY <1>1, <1>2 DEF Hosted, Delegations

LEMMA RemoveVacates ==
    ASSUME NEW s, StakOK(s), NEW pair \in Pairs, NEW amount \in Nat,
           Removable(s, pair, amount), NEW t, t = RemoveShares(s, pair, amount)
    PROVE  /\ pair[2] \in t.vals => t.vals = s.vals
           /\ pair[2] \notin t.vals =>
                /\ t.vals = s.vals \ {pair[2]}
                /\ \A other \in Delegations(t) : other[2] # pair[2]
<1> DEFINE v == pair[2]
           left == s.shares[pair] - amount
           leaves == pair[1] = v /\ ~ s.jailed[v] /\ left < MinSelfDelegation
           kept == IF leaves THEN Jail(s, v) ELSE s
           paid == [SetTokens(kept, v, s.tokens[v] - amount) EXCEPT !.shares[pair] = left]
<1>1. t = RemoveAbandoned(paid, v)
  BY Zenon DEF RemoveShares
<1>2. paid.vals = s.vals /\ v \in s.vals
  BY DEF SetTokens, Jail, StakOK, Removable
<1> HIDE DEF paid
<1>3. t.shares = paid.shares
  BY <1>1 DEF RemoveAbandoned
<1>4. CASE Abandoned(paid, v)
  <2>1. t.vals = s.vals \ {v}
    BY <1>1, <1>2, <1>4 DEF RemoveAbandoned
  <2>2. \A other \in Delegations(t) : other[2] # v
    <3> SUFFICES ASSUME NEW other \in Pairs, other[2] = v PROVE ~ (t.shares[other] > 0)
      BY DEF Delegations
    <3>1. other[1] \in Accounts /\ other = <<other[1], v>>
      BY DEF Pairs
    <3>2. paid.shares[other] = 0
      BY <1>4, <3>1 DEF Abandoned
    <3> QED BY <1>3, <3>2
  <2> QED BY <2>1, <2>2
<1>5. CASE ~ Abandoned(paid, v)
  BY <1>1, <1>2, <1>5 DEF RemoveAbandoned
<1> QED BY <1>4, <1>5

LEMMA RemoveKeepsHosted ==
    ASSUME NEW s, StakOK(s), NEW pair \in Pairs, NEW amount \in Nat, Hosted(s),
           Removable(s, pair, amount), NEW t, t = RemoveShares(s, pair, amount)
    PROVE  /\ pair[2] \in t.vals => t.vals = s.vals
           /\ pair[2] \notin t.vals =>
                /\ t.vals = s.vals \ {pair[2]}
                /\ \A other \in Delegations(t) : other[2] # pair[2]
           /\ Hosted(t)
<1>1. /\ pair[2] \in t.vals => t.vals = s.vals
      /\ pair[2] \notin t.vals =>
           /\ t.vals = s.vals \ {pair[2]}
           /\ \A other \in Delegations(t) : other[2] # pair[2]
  BY RemoveVacates
<1>2. \A other \in Pairs : other # pair => t.shares[other] = s.shares[other]
  BY SharesChanged
<1>3. Hosted(t)
  <2> SUFFICES ASSUME NEW other \in Delegations(t) PROVE other[2] \in t.vals
    BY DEF Hosted
  <2>1. CASE other[2] = pair[2]
    BY <1>1, <2>1 DEF Removable
  <2>2. CASE other[2] # pair[2]
    <3>1. other \in Delegations(s)
      BY <1>2, <2>2 DEF Delegations
    <3> QED BY <1>1, <2>2, <3>1 DEF Hosted
  <2> QED BY <2>1, <2>2
<1> QED BY <1>1, <1>3

\* Electing the set changes neither the validators nor the shares.
LEMMA SetUpdatesKeep ==
    ASSUME NEW s, StakOK(s), NEW h
    PROVE  LET t == ApplyValidatorSetUpdates(s, h)
           IN  t.shares = s.shares /\ t.vals = s.vals
<1> DEFINE in == {v \in Considered(s) : Power(s, v) > 0}
           out == {v \in Validators \ in : InLastSet(s, v)}
           status == [v \in Validators |-> IF v \in in THEN "bonded"
                                           ELSE IF v \in out THEN "unbonding"
                                           ELSE s.status[v]]
           heights == [v \in Validators |-> IF v \in out THEN h ELSE s.unbondHeight[v]]
           last == [v \in Validators |-> IF v \in in THEN Power(s, v) ELSE 0]
<1>1. ApplyValidatorSetUpdates(s, h) =
        [s EXCEPT !.status = status, !.unbondHeight = heights, !.last = last]
  BY DEF ApplyValidatorSetUpdates, StakOK
<1> HIDE DEF status, heights, last
<1> QED BY <1>1 DEF StakOK

LEMMA CountMessage ==
    ASSUME CountInv, Deliver, UNCHANGED exportVars, TypeOK',
           Safe(dist', stak'.vals, Delegations(stak')), Hosted(stak')
    PROVE  CountInv'
<1>1. pc = "block" /\ pc' = "block"
  BY DEF Deliver
<1>2. (LiveValidators = stak.vals)' /\ (LiveDelegations = Delegations(stak))'
  BY <1>1 DEF LiveValidators, LiveDelegations
<1> QED BY <1>1, <1>2 DEF CountInv, LoopsSound

LEMMA CountChain == CountInv /\ ChainNext /\ UNCHANGED exportVars => CountInv'
<1> SUFFICES ASSUME CountInv, ChainNext, UNCHANGED exportVars PROVE CountInv'
  OBVIOUS
<1>1. TypeOK /\ TypeOK'
  BY NextType DEF CountInv, Next
<1>2. pc \in {"idle", "block"}
  <2>1. BeginBlock \/ EndBlock \/ Deliver => pc \in {"idle", "block"}
    BY DEF BeginBlock, EndBlock, Deliver
  <2>2. ASSUME NEW pair \in Pairs, NEW amount \in Amounts,
               MsgDelegate(pair, amount) \/ MsgUndelegate(pair, amount)
        PROVE  Deliver
    BY <2>2, Zenon DEF MsgDelegate, MsgUndelegate
  <2>3. ASSUME NEW a \in Accounts, NEW from \in Validators, NEW to \in Validators,
               NEW amount \in Amounts, MsgBeginRedelegate(a, from, to, amount)
        PROVE  Deliver
    BY <2>3, Zenon DEF MsgBeginRedelegate
  <2>4. ASSUME NEW pair \in Pairs, MsgWithdrawDelegatorReward(pair) PROVE Deliver
    BY <2>4 DEF MsgWithdrawDelegatorReward
  <2>5. ASSUME NEW v \in Validators, MsgWithdrawValidatorCommission(v) PROVE Deliver
    BY <2>5 DEF MsgWithdrawValidatorCommission
  <2>6. ASSUME NEW v \in Validators, NEW amount \in Amounts, MsgCreateValidator(v, amount)
        PROVE  Deliver
    BY <2>6, Zenon DEF MsgCreateValidator
  <2> QED BY <2>1, <2>2, <2>3, <2>4, <2>5, <2>6 DEF ChainNext
<1>3. /\ DistOK(dist) /\ StakOK(stak) /\ StakOK(stak') /\ height \in Nat
      /\ Safe(dist, stak.vals, Delegations(stak))
      /\ Delegations(stak) \in SUBSET Pairs
      /\ stak.vals \in SUBSET Validators
      /\ Hosted(stak)
  BY <1>1, <1>2 DEF CountInv, TypeOK, StakOK, LiveValidators, LiveDelegations, Delegations
<1>4. CASE BeginBlock
  <2>1. Safe(dist', stak.vals, Delegations(stak)) /\ stak' = stak /\ pc' = "block"
    BY <1>3, <1>4, AllocateTokensSafe DEF BeginBlock
  <2> QED BY <1>1, <2>1 DEF CountInv, LoopsSound, LiveValidators, LiveDelegations
<1>5. CASE EndBlock
  <2>1. /\ dist' = dist /\ pc' = "idle"
        /\ stak'.shares = stak.shares /\ stak'.vals = stak.vals
    BY <1>3, <1>5, SetUpdatesKeep DEF EndBlock
  <2>2. Delegations(stak') = Delegations(stak)
    BY <2>1 DEF Delegations
  <2> QED BY <1>1, <1>3, <2>1, <2>2 DEF CountInv, LoopsSound, Hosted, LiveValidators, LiveDelegations
<1>6. ASSUME NEW pair \in Pairs, NEW amount \in Amounts, MsgDelegate(pair, amount)
      PROVE  CountInv'
  <2>1. /\ Deliver /\ pair[2] \in stak.vals
        /\ stak' = AddShares(stak, pair, amount)
        /\ dist' = DelegationHooks(dist, stak, stak', pair, height)
    BY <1>6 DEF MsgDelegate
  <2>2. \A other \in Pairs : other # pair => stak'.shares[other] = stak.shares[other]
    BY <1>3, <2>1, SharesChanged
  <2>3. stak'.vals = stak.vals /\ Hosted(stak')
    BY <1>3, <2>1, AddKeepsHosted
  <2>4. Safe(dist', stak.vals, Delegations(stak'))
    BY <1>3, <2>1, <2>2, DelegationHooksSafe
  <2> QED BY <1>1, <2>1, <2>3, <2>4, CountMessage
<1>7. ASSUME NEW pair \in Pairs, NEW amount \in Amounts, MsgUndelegate(pair, amount)
      PROVE  CountInv'
  <2> DEFINE removed == RemoveShares(stak, pair, amount)
  <2>1. /\ Deliver /\ Removable(stak, pair, amount) /\ amount \in Nat
        /\ dist' = UnbondHooks(dist, stak, stak', pair, height)
    BY <1>7, ChainAssumption, Zenon DEF MsgUndelegate
  <2>2. StakOK(removed)
    BY <1>3, <2>1, RemoveSharesType
  <2>3. stak'.shares = removed.shares /\ stak'.vals = removed.vals
    BY <1>7, <2>2 DEF MsgUndelegate, StakOK
  <2>4. /\ pair[2] \in removed.vals => removed.vals = stak.vals
        /\ pair[2] \notin removed.vals =>
             /\ removed.vals = stak.vals \ {pair[2]}
             /\ \A other \in Delegations(removed) : other[2] # pair[2]
        /\ Hosted(removed)
    BY <1>3, <2>1, RemoveKeepsHosted
  <2>5. \A other \in Pairs : other # pair => removed.shares[other] = stak.shares[other]
    BY <1>3, SharesChanged
  <2> HIDE DEF removed
  <2>6. Delegations(stak') = Delegations(removed)
    BY <2>3 DEF Delegations
  <2>7. Hosted(stak')
    BY <2>3, <2>4, <2>6 DEF Hosted
  <2>8. pair[2] \in stak.vals
    BY <2>1 DEF Removable
  <2>9. Safe(dist', stak'.vals, Delegations(stak'))
    BY <1>3, <2>1, <2>3, <2>4, <2>5, <2>6, <2>8, UnbondHooksSafe
  <2> QED BY <1>1, <2>1, <2>7, <2>9, CountMessage
<1>8. ASSUME NEW a \in Accounts, NEW from \in Validators, NEW to \in Validators,
             NEW amount \in Amounts, MsgBeginRedelegate(a, from, to, amount)
      PROVE  CountInv'
  <2> DEFINE route == <<a, from, to>>
             one == <<a, from>>
             two == <<a, to>>
             removed == RemoveShares(stak, one, amount)
             created == IF stak.status[from] = "unbonding"
                        THEN stak.unbondHeight[from] ELSE height
             entry == [height |-> created, due |-> created, amount |-> amount]
             added == IF stak.status[from] = "unbonded" THEN {} ELSE {entry}
             left == UnbondHooks(dist, stak, removed, one, height)
             moved == AddShares(removed, two, amount)
  <2>1. amount \in Nat /\ one \in Pairs /\ two \in Pairs
        /\ one[2] = from /\ two[2] = to
    BY ChainAssumption DEF Pairs
  <2>2. StakOK(removed)
    BY <1>3, <1>8, <2>1, RemoveSharesType DEF MsgBeginRedelegate
  <2>3. stak' = [moved EXCEPT !.red[route] = @ \cup added]
        /\ dist' = DelegationHooks(left, removed, moved, two, height)
        /\ Deliver /\ from # to /\ to \in stak.vals
        /\ Removable(stak, one, amount)
    BY <1>8, Zenon DEF MsgBeginRedelegate
  <2> HIDE DEF one, two
  <2>4. \A other \in Pairs : other # one => removed.shares[other] = stak.shares[other]
    BY <1>3, <2>1, SharesChanged
  <2>5. /\ from \in removed.vals => removed.vals = stak.vals
        /\ from \notin removed.vals =>
             /\ removed.vals = stak.vals \ {from}
             /\ \A other \in Delegations(removed) : other[2] # from
        /\ Hosted(removed) /\ from \in stak.vals
    BY <1>3, <2>1, <2>3, RemoveKeepsHosted DEF Removable
  <2> HIDE DEF removed
  <2>6. to \in removed.vals /\ removed.vals \in SUBSET Validators
    BY <2>2, <2>3, <2>5 DEF StakOK
  <2>7. \A other \in Pairs : other # two => moved.shares[other] = removed.shares[other]
    BY <2>1, <2>2, SharesChanged
  <2>8. StakOK(moved) /\ moved.vals = removed.vals /\ Hosted(moved)
    BY <2>1, <2>2, <2>5, <2>6, AddSharesType, AddKeepsHosted
  <2>9. DistOK(left) /\ Safe(left, removed.vals, Delegations(removed))
    BY <1>3, <2>1, <2>2, <2>4, <2>5, UnbondHooksType, UnbondHooksSafe
  <2> HIDE DEF moved, left, added, route
  <2>10. Safe(dist', removed.vals, Delegations(moved))
    BY <1>3, <2>1, <2>2, <2>3, <2>6, <2>7, <2>8, <2>9, DelegationHooksSafe
  <2>11. stak'.shares = moved.shares /\ stak'.vals = moved.vals
    BY <2>3, <2>8 DEF StakOK
  <2>12. Delegations(stak') = Delegations(moved)
    BY <2>11 DEF Delegations
  <2>13. Hosted(stak')
    BY <2>8, <2>11, <2>12 DEF Hosted
  <2> QED BY <1>1, <2>3, <2>8, <2>10, <2>11, <2>12, <2>13, CountMessage
<1>9. ASSUME NEW pair \in Pairs, MsgWithdrawDelegatorReward(pair)
      PROVE  CountInv'
  <2>1. pair \in Delegations(stak) /\ pair[2] \in stak.vals
    BY <1>9 DEF MsgWithdrawDelegatorReward, Delegations
  <2>2. dist' = WithdrawDelegationRewards(dist, stak, pair, height) /\ stak' = stak
        /\ Deliver
    BY <1>9 DEF MsgWithdrawDelegatorReward
  <2>3. Safe(dist', stak'.vals, Delegations(stak')) /\ Hosted(stak')
    BY <1>3, <2>1, <2>2, WithdrawDelegationRewardsSafe
  <2> QED BY <1>1, <2>2, <2>3, CountMessage
<1>10. ASSUME NEW v \in Validators, MsgWithdrawValidatorCommission(v)
      PROVE  CountInv'
  <2>1. dist' = WithdrawValidatorCommission(dist, v) /\ stak' = stak /\ Deliver
    BY <1>10 DEF MsgWithdrawValidatorCommission
  <2>2. Safe(dist', stak'.vals, Delegations(stak')) /\ Hosted(stak')
    BY <1>3, <2>1, WithdrawValidatorCommissionSafe
  <2> QED BY <1>1, <2>1, <2>2, CountMessage
<1>11. ASSUME NEW v \in Validators, NEW amount \in Amounts, MsgCreateValidator(v, amount)
      PROVE  CountInv'
  <2> DEFINE pair == <<v, v>>
             created == CreateValidator(stak, v)
             hooked == InitializeValidator(dist, v)
             V == stak.vals \cup {v}
  <2>1. /\ Deliver /\ v \notin stak.vals
        /\ stak' = AddShares(created, pair, amount)
        /\ dist' = DelegationHooks(hooked, created, stak', pair, height)
    BY <1>11, Zenon DEF MsgCreateValidator
  <2>2. pair \in Pairs /\ pair[2] = v
    BY AddressAssumption DEF Pairs
  <2>3. StakOK(created) /\ DistOK(hooked)
    BY <1>3, CreateValidatorType, InitializeValidatorType
  <2>4. created.vals = V /\ created.shares = stak.shares /\ V \in SUBSET Validators
    BY <1>3 DEF CreateValidator, StakOK
  <2>5. \A one \in Delegations(stak) : one[2] # v
    BY <1>3, <2>1 DEF Hosted
  <2>6. Safe(hooked, V, Delegations(stak))
    BY <1>3, <2>1, <2>5, InitializeValidatorSafe
  <2> HIDE DEF created, hooked, pair, V
  <2>7. Delegations(created) = Delegations(stak)
    BY <2>4 DEF Delegations
  <2>8. Hosted(created) /\ v \in V
    BY <1>3, <2>4, <2>7 DEF Hosted, V
  <2>9. stak'.vals = V /\ Hosted(stak')
    BY <2>1, <2>2, <2>3, <2>4, <2>8, AddKeepsHosted
  <2>10. \A other \in Pairs : other # pair => stak'.shares[other] = created.shares[other]
    BY <2>1, <2>2, <2>3, SharesChanged
  <2>11. Safe(dist', V, Delegations(stak'))
    BY <1>3, <2>1, <2>2, <2>3, <2>4, <2>6, <2>7, <2>8, <2>10, DelegationHooksSafe
  <2> QED BY <1>1, <2>1, <2>9, <2>11, CountMessage
<1> QED BY <1>4, <1>5, <1>6, <1>7, <1>8, <1>9, <1>10, <1>11 DEF ChainNext

-----------------------------------------------------------------------------
\* Steps of the export.

LEMMA CountStart ==
    ASSUME CountInv, NEW zero, NEW list, StartExport(zero, list), TypeOK'
    PROVE  CountInv'
<1>1. /\ pc = "idle" /\ pc' \in {"allowList", "collect"}
      /\ dist' = dist /\ stak' = stak /\ snap' = [dist |-> dist, stak |-> stak]
  BY DEF StartExport
<1> QED BY <1>1 DEF CountInv, LoopsSound, Hosted, LiveValidators, LiveDelegations

\* While the history is whole, a step that leaves the shares alone only has
\* to keep the counts.
LEMMA CountWhole ==
    ASSUME CountInv, TypeOK', snap' = snap,
           stak'.shares = stak.shares, stak'.vals = stak.vals,
           pc \notin {"idle", "block"}, pc \notin {"validators", "delegations"},
           pc' \notin {"validators", "delegations", "rewards"},
           Safe(dist', stak.vals, Delegations(stak))
    PROVE  CountInv'
<1>1. Delegations(stak') = Delegations(stak)
  BY DEF Delegations
<1>2. (LiveValidators = stak.vals)' /\ (LiveDelegations = Delegations(stak))'
  BY DEF LiveValidators, LiveDelegations
<1>3. LoopsSound' /\ Hosted(stak')
  BY <1>1 DEF LoopsSound, CountInv, Hosted
<1> QED BY <1>1, <1>2, <1>3 DEF CountInv

LEMMA CountExport == CountInv /\ ExportStep => CountInv'
<1> SUFFICES ASSUME CountInv, ExportStep PROVE CountInv'
  OBVIOUS
<1>1. TypeOK /\ TypeOK'
  BY NextType DEF CountInv, Next
<1>2. /\ DistOK(dist) /\ StakOK(stak) /\ ctx \in Nat
      /\ todoV \subseteq Validators /\ todoD \subseteq Pairs
      /\ Safe(dist, LiveValidators, LiveDelegations)
      /\ LoopsSound
      /\ Delegations(stak) \in SUBSET Pairs
      /\ stak.vals \in SUBSET Validators
      /\ Hosted(stak)
  BY DEF CountInv, TypeOK, StakOK, Delegations
<1>3. pc \notin {"validators", "delegations"} =>
        LiveValidators = stak.vals /\ LiveDelegations = Delegations(stak)
  BY DEF LiveValidators, LiveDelegations
<1>4. pc = "validators" =>
        LiveValidators = stak.vals \ todoV /\ LiveDelegations = {}
  BY DEF LiveValidators, LiveDelegations
<1>5. pc = "delegations" =>
        LiveValidators = stak.vals
          /\ LiveDelegations = Delegations(stak) \ todoD
  BY <1>2 DEF LiveValidators, LiveDelegations, LoopsSound, Delegations
<1>6. CASE ParseAllowList
  BY <1>1, <1>2, <1>3, <1>6, CountWhole DEF ParseAllowList
<1>7. CASE GetAllDelegations
  <2>1. /\ pc = "commission" /\ pc' = "rewards" /\ todoD' = Delegations(stak)
        /\ UNCHANGED <<dist, stak, snap>>
    BY <1>7 DEF GetAllDelegations
  <2> QED BY <1>1, <1>2, <1>3, <2>1 DEF CountInv, LoopsSound, LiveValidators, LiveDelegations
<1>8. CASE ClearHistory
  <2>1. /\ pc = "rewards" /\ pc' = "validators" /\ todoV' = stak.vals
        /\ stak' = stak /\ snap' = snap
        /\ dist' = [dist EXCEPT !.hist = [v \in Validators |-> [p \in {} |-> 0]]]
    BY <1>8 DEF ClearHistory
  <2>2. dist'.fault = dist.fault /\ \A v \in Validators : DOMAIN dist'.hist[v] = {}
    BY <1>2, <2>1 DEF DistOK
  <2>3. (LiveValidators = {})' /\ (LiveDelegations = {})'
    BY <2>1 DEF LiveValidators, LiveDelegations
  <2>4. Safe(dist', {}, {})
    BY <1>2, <2>2 DEF Safe, Counted, Refs, Historical, Starts
  <2> QED BY <1>1, <1>2, <2>1, <2>2, <2>3, <2>4 DEF CountInv, LoopsSound
<1>9. CASE StartDelegations
  <2>1. /\ pc = "validators" /\ pc' = "delegations" /\ todoV = {}
        /\ todoD' = Delegations(snap.stak)
        /\ UNCHANGED <<dist, stak, snap>>
    BY <1>9 DEF StartDelegations
  <2>2. Safe(dist, stak.vals, {})
    BY <1>2, <1>4, <2>1
  <2>3. (LiveValidators = stak.vals)' /\ (LiveDelegations = {})'
    BY <2>1 DEF LiveValidators, LiveDelegations
  <2>4. todoD' \subseteq Delegations(stak)
    BY <1>2, <2>1 DEF LoopsSound, Delegations
  <2> QED BY <1>1, <1>2, <2>1, <2>2, <2>3, <2>4 DEF CountInv, LoopsSound
<1>10. CASE RestoreHeight
  <2>1. /\ pc = "delegations" /\ pc' = "redelegations" /\ todoD = {}
        /\ UNCHANGED <<dist, stak, snap>>
    BY <1>10 DEF RestoreHeight
  <2>2. Safe(dist, stak.vals, Delegations(stak))
    BY <1>2, <1>5, <2>1
  <2>3. (LiveValidators = stak.vals)' /\ (LiveDelegations = Delegations(stak))'
    BY <2>1 DEF LiveValidators, LiveDelegations
  <2> QED BY <1>1, <1>2, <2>1, <2>2, <2>3 DEF CountInv, LoopsSound
<1>11. CASE ResetRedelegations
  <2>1. stak'.shares = stak.shares /\ stak'.vals = stak.vals
    BY <1>2, <1>11 DEF ResetRedelegations, StakOK
  <2> QED BY <1>1, <1>2, <1>3, <1>11, <2>1, CountWhole DEF ResetRedelegations
<1>12. CASE ResetUnbondings
  <2>1. stak'.shares = stak.shares /\ stak'.vals = stak.vals
    BY <1>2, <1>12 DEF ResetUnbondings, StakOK
  <2> QED BY <1>1, <1>2, <1>3, <1>12, <2>1, CountWhole DEF ResetUnbondings
<1>13. CASE CloseIterator
  BY <1>1, <1>2, <1>3, <1>13, CountWhole DEF CloseIterator, exportVars
<1>14. CASE ApplySetUpdates
  <2>1. stak'.shares = stak.shares /\ stak'.vals = stak.vals
    BY <1>2, <1>14, SetUpdatesKeep DEF ApplySetUpdates
  <2>2. pc = "apply" /\ pc' \in {"panicked", "collect"} /\ dist' = dist /\ snap' = snap
    BY <1>14 DEF ApplySetUpdates, exportVars
  <2> QED BY <1>1, <1>2, <1>3, <2>1, <2>2, CountWhole
<1>15. CASE CollectGenesis
  BY <1>1, <1>2, <1>3, <1>15, CountWhole DEF CollectGenesis
<1>16. ASSUME NEW v \in Validators, WithdrawCommission(v) PROVE CountInv'
  <2>1. /\ pc = "commission" /\ pc' \in {"commission", "panicked"}
        /\ UNCHANGED <<stak, snap>>
        /\ dist' = WithdrawValidatorCommission(dist, v)
    BY <1>16 DEF WithdrawCommission, Goto
  <2>2. Safe(dist', stak.vals, Delegations(stak))
    BY <1>2, <1>3, <2>1, WithdrawValidatorCommissionSafe
  <2> QED BY <1>1, <2>1, <2>2, CountWhole
<1>17. ASSUME NEW pair \in Pairs, WithdrawRewards(pair) PROVE CountInv'
  <2>1. /\ pc = "rewards" /\ pc' \in {"rewards", "panicked"} /\ pair \in todoD
        /\ UNCHANGED <<stak, snap>> /\ todoD' = todoD \ {pair}
        /\ pair[2] \in stak.vals => dist' = WithdrawDelegationRewards(dist, stak, pair, ctx)
    BY <1>17 DEF WithdrawRewards, Goto, NextD
  <2>2. pair \in Delegations(stak) /\ pair[2] \in stak.vals
    BY <1>2, <2>1 DEF LoopsSound, Hosted
  <2>3. Safe(dist', stak.vals, Delegations(stak))
    BY <1>2, <1>3, <2>1, <2>2, WithdrawDelegationRewardsSafe
  <2> QED BY <1>1, <1>2, <2>1, <2>3 DEF CountInv, LoopsSound, LiveValidators, LiveDelegations
<1>18. ASSUME NEW v \in Validators, ReinitValidator(v) PROVE CountInv'
  <2> DEFINE donated == [dist EXCEPT !.pool = @ + dist.outst[v]]
             V == stak.vals \ todoV
  <2>1. /\ pc = "validators" /\ v \in todoV /\ todoV' = todoV \ {v}
        /\ UNCHANGED <<stak, snap>>
        /\ dist' = InitializeValidator(donated, v)
        /\ pc' = IF dist'.fault = "none" THEN "validators" ELSE "panicked"
    BY <1>18 DEF ReinitValidator, Goto, NextV
  <2>2. DistOK(donated)
    <3>1. dist.pool + dist.outst[v] \in Nat
      <4>1. dist.pool \in Nat /\ dist.outst[v] \in Nat
        BY <1>2, TypeBooks DEF Books
      <4> QED BY <4>1
    <3>2. donated \in Books(dist.hist)
      BY <1>2, <3>1, TypeBooks DEF Books
    <3> QED BY <1>2, <3>2, BooksType
  <2>3. /\ donated.start = dist.start /\ donated.period = dist.period
        /\ donated.hist = dist.hist /\ donated.fault = dist.fault
    BY <1>2 DEF DistOK
  <2> HIDE DEF donated
  <2>4. Safe(donated, V, {})
    BY <1>2, <1>4, <2>1, <2>3, SameCounts
  <2>5. V \in SUBSET Validators /\ v \in Validators \ V
        /\ {} \in SUBSET Pairs /\ \A pair \in {} : pair[2] # v
    BY <1>2, <2>1
  <2>6. V \cup {v} = stak.vals \ todoV' /\ todoV' \subseteq stak.vals
    BY <1>2, <2>1 DEF LoopsSound
  <2> HIDE DEF V
  <2>7. Safe(dist', stak.vals \ todoV', {})
    BY <2>1, <2>2, <2>4, <2>5, <2>6, InitializeValidatorSafe
  <2>8. CASE dist'.fault = "none"
    <3>1. pc' = "validators"
      BY <2>1, <2>8
    <3>2. LoopsSound'
      BY <1>2, <2>1, <2>6, <3>1 DEF LoopsSound
    <3>3. (LiveValidators = stak.vals \ todoV)' /\ (LiveDelegations = {})'
      BY <3>1 DEF LiveValidators, LiveDelegations
    <3> QED BY <1>1, <1>2, <2>1, <2>7, <3>2, <3>3 DEF CountInv
  <2>9. CASE dist'.fault # "none"
    <3>1. pc' = "panicked"
      BY <2>1, <2>9
    <3>2. LoopsSound'
      BY <1>2, <2>1, <3>1 DEF LoopsSound
    <3> QED BY <1>1, <1>2, <2>1, <2>7, <2>9, <3>2 DEF CountInv, Safe
  <2> QED BY <2>8, <2>9
<1>19. ASSUME NEW v \in Validators, ResetValidator(v) PROVE CountInv'
  <2>1. stak'.shares = stak.shares /\ stak'.vals = stak.vals
    BY <1>2, <1>19 DEF ResetValidator, StakOK
  <2> QED BY <1>1, <1>2, <1>3, <1>19, <2>1, CountWhole DEF ResetValidator
<1>20. ASSUME NEW pair \in Pairs, ReinitDelegation(pair) PROVE CountInv'
  <2> DEFINE closed == IncrementValidatorPeriod(dist, stak, pair[2])
             D == Delegations(stak) \ todoD
  <2>0. pc = "delegations" /\ pair[2] \in stak.vals
    BY <1>2, <1>20 DEF ReinitDelegation, NextD, LoopsSound, Hosted
  <2>1. /\ pc = "delegations" /\ pair \in todoD /\ todoD' = todoD \ {pair}
        /\ UNCHANGED <<stak, snap>>
        /\ dist' = InitializeDelegation(closed, stak, pair, ctx)
        /\ pc' = IF dist'.fault = "none" THEN "delegations" ELSE "panicked"
    BY <1>20, <2>0 DEF ReinitDelegation, Goto, NextD
  <2>2. /\ pair[2] \in stak.vals /\ D \in SUBSET Pairs /\ pair \in Pairs \ D
        /\ D \cup {pair} = Delegations(stak) \ todoD'
    BY <1>2, <2>0, <2>1 DEF LoopsSound
  <2>3. Safe(dist, stak.vals, D)
    BY <1>2, <1>5, <2>1
  <2> HIDE DEF D
  <2>4. /\ DistOK(closed) /\ Safe(closed, stak.vals, D)
        /\ closed.fault = "none" => Fresh(closed, D, pair[2])
    <3>1. DistOK(closed)
      BY <1>2, <2>2, IncrementValidatorPeriodType
    <3>2. closed = IncrementValidatorPeriod(dist, stak, pair[2])
      OBVIOUS
    <3> HIDE DEF closed
    <3>3. Safe(closed, stak.vals, D) /\ (closed.fault = "none" => Fresh(closed, D, pair[2]))
      BY <1>2, <2>2, <2>3, <3>2, IncrementValidatorPeriodSafe
    <3> QED BY <3>1, <3>3
  <2> HIDE DEF closed
  <2>5. Safe(dist', stak.vals, Delegations(stak) \ todoD')
    BY <1>2, <2>1, <2>2, <2>4, InitializeDelegationSafe
  <2>6. CASE dist'.fault = "none"
    <3>1. pc' = "delegations"
      BY <2>1, <2>6
    <3>2. LoopsSound'
      BY <1>2, <2>1, <3>1 DEF LoopsSound
    <3>3. (LiveValidators = stak.vals)'
      BY <3>1 DEF LiveValidators
    <3>4. (LiveDelegations = Delegations(stak) \ todoD)'
      BY <1>2, <2>1, <3>1 DEF LiveDelegations, LoopsSound, Delegations
    <3> QED BY <1>1, <1>2, <2>1, <2>5, <3>2, <3>3, <3>4 DEF CountInv
  <2>7. CASE dist'.fault # "none"
    <3>1. pc' = "panicked"
      BY <2>1, <2>7
    <3>2. LoopsSound'
      BY <1>2, <2>1, <3>1 DEF LoopsSound
    <3> QED BY <1>1, <1>2, <2>1, <2>5, <2>7, <3>2 DEF CountInv, Safe
  <2> QED BY <2>6, <2>7
<1> QED BY <1>6, <1>7, <1>8, <1>9, <1>10, <1>11, <1>12, <1>13, <1>14, <1>15,
           <1>16, <1>17, <1>18, <1>19, <1>20 DEF ExportStep

LEMMA CountNext == CountInv /\ [Next]_vars => CountInv'
<1> SUFFICES ASSUME CountInv, [Next]_vars PROVE CountInv'
  OBVIOUS
<1>1. TypeOK'
  BY NextType DEF CountInv
<1>2. CASE UNCHANGED vars
  BY <1>1, <1>2 DEF CountInv, vars, LoopsSound, Hosted, LiveValidators, LiveDelegations
<1> QED BY <1>1, <1>2, CountChain, CountStart, CountExport DEF Next

LEMMA CountsAlways == Spec => []CountInv
<1>1. Init => CountInv
  BY CountInit
<1>2. CountInv /\ [Next]_vars => CountInv'
  BY CountNext
<1> QED BY <1>1, <1>2, PTL DEF Spec

-----------------------------------------------------------------------------
\* At most one delegation starts from a period: the references counted by
\* cardinality are the ones Counted speaks of.
LEMMA OneStarter ==
    ASSUME NEW d, NEW V, NEW D, Counted(d, V, D), NEW v \in V, NEW p
    PROVE  Cardinality({pair \in D : pair[2] = v /\ d.start[pair].period = p})
             = IF Starts(d, D, v, p) THEN 1 ELSE 0
<1> DEFINE S == {pair \in D : pair[2] = v /\ d.start[pair].period = p}
<1>1. CASE ~ Starts(d, D, v, p)
  <2>1. S = {}
    BY <1>1 DEF Starts
  <2> HIDE DEF S
  <2>2. Cardinality(S) = 0
    BY <2>1, FS_EmptySet
  <2> QED BY <1>1, <2>2 DEF S
<1>2. CASE Starts(d, D, v, p)
  <2>1. PICK pair \in D : pair[2] = v /\ d.start[pair].period = p
    BY <1>2 DEF Starts
  <2>2. S = {pair}
    BY <2>1 DEF Counted
  <2> HIDE DEF S
  <2>3. Cardinality(S) = 1
    BY <2>2, FS_Singleton
  <2> QED BY <1>2, <2>3 DEF S
<1> QED BY <1>1, <1>2

\* Counts that are exact for more validators than those in force are exact.
LEMMA CountedExact ==
    ASSUME DistOK(dist), NEW V \in SUBSET Validators, LiveValidators \subseteq V,
           Counted(dist, V, LiveDelegations)
    PROVE  RefCountsExact
<1> SUFFICES ASSUME NEW v \in LiveValidators
             PROVE  /\ \A pair \in LiveDelegations : pair[2] = v =>
                         /\ dist.start[pair] # NoInfo
                         /\ dist.start[pair].period < dist.period[v]
                         /\ \A other \in LiveDelegations :
                               other[2] = v /\ other # pair =>
                                 dist.start[other].period # dist.start[pair].period
                    /\ \A p \in 0..dist.period[v] :
                         Historical(dist, v, p).refs = References(dist, LiveDelegations, v, p)
                    /\ \A p \in DOMAIN dist.hist[v] :
                         p < dist.period[v] /\ dist.hist[v][p].refs > 0
  BY DEF RefCountsExact
<1>1. v \in V /\ v \in Validators /\ dist.period[v] \in Nat \ {0}
  BY DEF DistOK
<1>2. ASSUME NEW p \in 0..dist.period[v]
      PROVE  Historical(dist, v, p).refs = References(dist, LiveDelegations, v, p)
  <2>1. p \in Nat
    BY <1>1
  <2>2. Refs(dist, v, p) = (IF Starts(dist, LiveDelegations, v, p) THEN 1 ELSE 0)
                             + (IF p = dist.period[v] - 1 THEN 1 ELSE 0)
    BY <1>1, <2>1 DEF Counted
  <2> QED BY <1>1, <2>2, OneStarter DEF References, Refs
<1>3. ASSUME NEW p \in DOMAIN dist.hist[v]
      PROVE  p < dist.period[v] /\ dist.hist[v][p].refs > 0
  <2>1. p \in Nat /\ Historical(dist, v, p) = dist.hist[v][p]
    BY <1>1 DEF DistOK, Historical
  <2>2. Refs(dist, v, p) \in Nat /\ Refs(dist, v, p) # 0
    BY <1>1, <2>1, HistoricalType DEF Counted, Refs, HistoricalRewards
  <2>3. Starts(dist, LiveDelegations, v, p) \/ p = dist.period[v] - 1
    BY <1>1, <2>1, <2>2 DEF Counted
  <2>4. p < dist.period[v]
    BY <1>1, <2>1, <2>3 DEF Starts, Counted
  <2> QED BY <2>1, <2>2, <2>4 DEF Refs
<1> QED BY <1>1, <1>2, <1>3 DEF Counted

LEMMA CountInvExact == CountInv => RefCountsExact
<1> SUFFICES ASSUME CountInv, dist.fault = "none" PROVE RefCountsExact
  BY DEF RefCountsExact
<1>1. LiveValidators \in SUBSET Validators /\ DistOK(dist)
  BY DEF LiveValidators, CountInv, TypeOK, StakOK
<1>2. Counted(dist, LiveValidators, LiveDelegations)
  BY DEF CountInv, Safe
<1> QED BY <1>1, <1>2, CountedExact

(***************************************************************************)
(* The reference counts of the reward history are exact in every reachable *)
(* state, between any two hooks of the chain and of the export: for every  *)
(* number of accounts, validators, blocks and messages and every allow     *)
(* list, with no assumption on stakes, fees or the commission rate.        *)
(***************************************************************************)
THEOREM ReferenceCounts == Spec => []RefCountsExact
<1>1. Spec => []CountInv
  BY CountsAlways
<1>2. CountInv => RefCountsExact
  BY CountInvExact
<1> QED BY <1>1, <1>2, PTL

(***************************************************************************)
(* incrementReferenceCount and decrementReferenceCount never panic, neither*)
(* in a block nor in the loops of the export, whose errors are dropped.    *)
(***************************************************************************)
THEOREM NoReferencePanic == Spec => [](dist.fault \notin RefFaults)
<1>1. Spec => []CountInv
  BY CountsAlways
<1>2. CountInv => dist.fault \notin RefFaults
  BY DEF CountInv, Safe
<1> QED BY <1>1, <1>2, PTL
=============================================================================
