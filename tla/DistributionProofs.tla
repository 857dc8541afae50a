-------------------------- MODULE DistributionProofs --------------------------
(***************************************************************************)
(* Lemmas about the operators of Distribution.  Each keeps the store well  *)
(* typed; and for any set V of validators and D of delegations whose       *)
(* history is in force each keeps the reference counts: closing a period   *)
(* makes the period before the open one fresh (no delegation starts        *)
(* there), and only then may a delegation start.  The second part is about *)
(* the books of coins.                                                     *)
(***************************************************************************)
EXTENDS Staking, Functions, FiniteSetTheorems, TLAPS

\* Quotients and remainders of naturals are naturals, and no larger.
LEMMA DivMod ==
    ASSUME NEW a \in Nat, NEW b \in Nat \ {0}
    PROVE  /\ a \div b \in Nat
           /\ a % b \in Nat
           /\ a \div b <= a
  OBVIOUS

\* The whole coins in a decimal amount are worth no more than it.
LEMMA WholeCoins ==
    ASSUME NEW a \in Nat
    PROVE  /\ a \div Unit \in Nat
           /\ (a \div Unit) * Unit \in Nat
           /\ (a \div Unit) * Unit <= a
  BY UnitAssumption

LEMMA FaultType ==
    ASSUME NEW d, DistOK(d), NEW why \in Faults
    PROVE  DistOK(Fault(d, why))
  BY DEF DistOK, Fault

LEMMA SetHistoricalType ==
    ASSUME NEW d, DistOK(d), NEW v \in Validators, NEW p \in Nat,
           NEW ratio \in Nat, NEW refs \in Nat
    PROVE  DistOK(SetHistorical(d, v, p, ratio, refs))
<1> DEFINE e == SetHistorical(d, v, p, ratio, refs)
           h == [q \in DOMAIN d.hist[v] \cup {p} |->
                   IF q = p THEN [ratio |-> ratio, refs |-> refs] ELSE d.hist[v][q]]
<1>1. h \in [DOMAIN h -> HistoricalRewards] /\ DOMAIN h \subseteq Nat
  BY DEF DistOK, HistoricalRewards
<1>2. /\ e = [d EXCEPT !.hist = [d.hist EXCEPT ![v] = h]]
  BY DEF DistOK, SetHistorical
<1> HIDE DEF h, e
<1>3. e \in [outst : [Validators -> Nat], comm : [Validators -> Nat],
              rew : [Validators -> Nat], period : [Validators -> Nat \ {0}],
              hist : {[d.hist EXCEPT ![v] = h]},
              start : [Pairs -> StartingInfo \cup {NoInfo}],
              pool : Nat, funds : Nat, paid : [Accounts -> Nat],
              fault : {"none"} \cup Faults]
  BY <1>2 DEF DistOK
<1>4. ASSUME NEW w \in Validators PROVE e.hist[w] = IF w = v THEN h ELSE d.hist[w] 
  BY <1>2, <1>3 DEF DistOK
<1>5. e.hist \in [Validators -> {e.hist[w] : w \in Validators}]
  BY <1>2, <1>3 DEF DistOK
<1> QED BY <1>1, <1>3, <1>4,<1>5 DEF DistOK, e

LEMMA DeleteHistoricalType ==
    ASSUME NEW d, DistOK(d), NEW v \in Validators, NEW p \in Nat
    PROVE  DistOK(DeleteHistorical(d, v, p))
<1> DEFINE e == DeleteHistorical(d, v, p)
           h == [q \in DOMAIN d.hist[v] \ {p} |-> d.hist[v][q]]
<1>1. h \in [DOMAIN h -> HistoricalRewards] /\ DOMAIN h \subseteq Nat
  BY DEF DistOK
<1>2. e = [d EXCEPT !.hist = [d.hist EXCEPT ![v] = h]]
  BY DEF DistOK, DeleteHistorical
<1> HIDE DEF h, e
<1>3. e \in [outst : [Validators -> Nat], comm : [Validators -> Nat],
              rew : [Validators -> Nat], period : [Validators -> Nat \ {0}],
              hist : {[d.hist EXCEPT ![v] = h]},
              start : [Pairs -> StartingInfo \cup {NoInfo}],
              pool : Nat, funds : Nat, paid : [Accounts -> Nat],
              fault : {"none"} \cup Faults]
  BY <1>2 DEF DistOK
<1>4. ASSUME NEW w \in Validators PROVE e.hist[w] = IF w = v THEN h ELSE d.hist[w]
  BY <1>2, <1>3 DEF DistOK
<1>5. e.hist \in [Validators -> {e.hist[w] : w \in Validators}]
  BY <1>2, <1>3 DEF DistOK
<1> QED BY <1>1, <1>3, <1>4, <1>5 DEF DistOK, e

LEMMA HistoricalType ==
    ASSUME NEW d, DistOK(d), NEW v \in Validators, NEW p \in Nat
    PROVE  Historical(d, v, p) \in HistoricalRewards
BY DEF DistOK, Historical, HistoricalRewards

LEMMA IncrementReferenceCountType ==
    ASSUME NEW d, DistOK(d), NEW v \in Validators, NEW p \in Nat
    PROVE  DistOK(IncrementReferenceCount(d, v, p))
<1> DEFINE old == Historical(d, v, p)
<1>1. old.refs \in Nat /\ old.ratio \in Nat /\ old.refs + 1 \in Nat
  BY HistoricalType DEF HistoricalRewards
<1>2. DistOK(Fault(d, "references exceed 2"))
  BY FaultType DEF Faults, RefFaults
<1>3. DistOK(SetHistorical(d, v, p, old.ratio, old.refs + 1))
  BY <1>1, SetHistoricalType
<1> QED BY <1>2, <1>3, Zenon DEF IncrementReferenceCount

LEMMA DecrementReferenceCountType ==
    ASSUME NEW d, DistOK(d), NEW v \in Validators, NEW p \in Nat
    PROVE  DistOK(DecrementReferenceCount(d, v, p))
<1> DEFINE old == Historical(d, v, p)
<1>1. old.refs \in Nat /\ old.ratio \in Nat
  BY HistoricalType DEF HistoricalRewards
<1>2. DistOK(Fault(d, "references negative"))
  BY FaultType DEF Faults, RefFaults
<1>3. CASE old.refs = 0
  BY <1>2, <1>3, Zenon DEF DecrementReferenceCount
<1>4. CASE old.refs = 1
  BY <1>1, <1>4, DeleteHistoricalType DEF DecrementReferenceCount
<1>5. CASE old.refs > 1
  <2>1. DistOK(SetHistorical(d, v, p, old.ratio, old.refs - 1))
    BY <1>1, <1>5, SetHistoricalType
  <2>2. old.refs # 0 /\ old.refs # 1
    BY <1>5
  <2> QED BY <2>1, <2>2, Zenon DEF DecrementReferenceCount
<1> QED BY <1>1, <1>3, <1>4, <1>5


\* A store with the reward history hist and otherwise well typed.
Books(hist) ==
    [outst : [Validators -> Nat], comm : [Validators -> Nat],
     rew : [Validators -> Nat], period : [Validators -> Nat \ {0}],
     hist : {hist}, start : [Pairs -> StartingInfo \cup {NoInfo}],
     pool : Nat, funds : Nat, paid : [Accounts -> Nat],
     fault : {"none"} \cup Faults]

LEMMA BooksType ==
    ASSUME NEW d, DistOK(d), NEW e \in Books(d.hist)
    PROVE  DistOK(e)
  BY DEF DistOK, Books

LEMMA TypeBooks ==
    ASSUME NEW d, DistOK(d)
    PROVE  d \in Books(d.hist)
  BY DEF DistOK, Books

\* Moving decimals out of a validator's outstanding rewards.
LEMMA DonateType ==
    ASSUME NEW d, DistOK(d), NEW v \in Validators,
           NEW x \in Nat, x <= d.outst[v], NEW y \in Nat
    PROVE  DistOK([d EXCEPT !.outst[v] = @ - x, !.pool = @ + y])
<1>1. d.outst[v] - x \in Nat /\ d.pool + y \in Nat
  BY DEF DistOK
<1>2. [d EXCEPT !.outst[v] = @ - x, !.pool = @ + y] \in Books(d.hist)
  BY <1>1, TypeBooks DEF Books
<1> QED BY <1>2, BooksType

LEMMA SendCoinsType ==
    ASSUME NEW d, DistOK(d), NEW a \in Accounts, NEW c \in Nat, c <= d.funds
    PROVE  DistOK(SendCoins(d, a, c))
<1>1. d.funds - c \in Nat /\ d.paid[a] + c \in Nat
  BY DEF DistOK
<1>2. SendCoins(d, a, c) \in Books(d.hist)
  BY <1>1, TypeBooks DEF Books, SendCoins
<1> QED BY <1>2, BooksType

LEMMA StartType ==
    ASSUME NEW d, DistOK(d), NEW pair \in Pairs,
           NEW info \in StartingInfo \cup {NoInfo}
    PROVE  DistOK([d EXCEPT !.start[pair] = info])
  BY DEF DistOK

\* Neither a fault nor a reference count touches the books.
LEMMA CountsKeepBooks ==
    ASSUME NEW d, DistOK(d), NEW v \in Validators, NEW p \in Nat,
           NEW e \in {IncrementReferenceCount(d, v, p), DecrementReferenceCount(d, v, p)}
    PROVE  /\ e.outst = d.outst /\ e.comm = d.comm /\ e.rew = d.rew
           /\ e.period = d.period /\ e.start = d.start /\ e.pool = d.pool
           /\ e.funds = d.funds /\ e.paid = d.paid
  BY DEF DistOK, IncrementReferenceCount, DecrementReferenceCount, Fault,
         SetHistorical, DeleteHistorical

LEMMA IncrementValidatorPeriodType ==
    ASSUME NEW d, DistOK(d), NEW s, StakOK(s), NEW v \in Validators
    PROVE  DistOK(IncrementValidatorPeriod(d, s, v))
<1> DEFINE closing == d.period[v]
           stray == IF s.tokens[v] = 0 THEN d.rew[v] ELSE 0
           ratio == Historical(d, v, closing - 1).ratio
                      + (IF s.tokens[v] = 0 THEN 0 ELSE d.rew[v] \div s.tokens[v])
           donated == [d EXCEPT !.outst[v] = @ - stray, !.pool = @ + stray]
           released == DecrementReferenceCount(donated, v, closing - 1)
           closed == SetHistorical(released, v, closing, ratio, 1)
<1>1. closing \in Nat \ {0} /\ closing - 1 \in Nat /\ stray \in Nat
      /\ d.rew[v] \in Nat /\ s.tokens[v] \in Nat
  BY DEF DistOK, StakOK
<1>2. ratio \in Nat
  <2>1. Historical(d, v, closing - 1).ratio \in Nat
    BY <1>1, HistoricalType DEF HistoricalRewards
  <2>2. CASE s.tokens[v] = 0
    BY <2>1, <2>2
  <2>3. CASE s.tokens[v] # 0
    <3>1. d.rew[v] \div s.tokens[v] \in Nat
      BY <1>1, <2>3, DivMod
    <3> QED BY <2>1, <2>3, <3>1
  <2> QED BY <2>2, <2>3
<1>3. CASE stray > d.outst[v]
  BY <1>3, FaultType DEF IncrementValidatorPeriod, Faults
<1>4. CASE ~ (stray > d.outst[v])
  <2>1. DistOK(donated)
    <3>1. stray <= d.outst[v]
      BY <1>1, <1>4 DEF DistOK
    <3> HIDE DEF stray
    <3> QED BY <1>1, <3>1, DonateType
  <2>2. DistOK(released)
    BY <2>1, <1>1, DecrementReferenceCountType
  <2>3. DistOK(closed)
    BY <2>2, <1>1, <1>2, SetHistoricalType
  <2> HIDE DEF closed
  <2>5. closing + 1 \in Nat \ {0}
    BY <1>1
  <2>4. [closed EXCEPT !.rew[v] = 0, !.period[v] = closing + 1] \in Books(closed.hist)
    BY <2>3, <2>5, TypeBooks DEF Books
  <2> QED BY <2>3, <2>4, <1>4, BooksType DEF IncrementValidatorPeriod, closed
<1> QED BY <1>3, <1>4

LEMMA CalculationType ==
    ASSUME NEW d, DistOK(d), NEW s, StakOK(s), NEW pair \in Pairs,
           d.start[pair] # NoInfo, NEW ending \in Nat, NEW h \in Nat,
           d.start[pair].height = h \/ ~ CalculationPanics(d, s, pair, ending)
    PROVE  CalculateDelegationRewards(d, pair, ending, h) \in Nat
<1> DEFINE info == d.start[pair]
           grown == Historical(d, pair[2], ending).ratio
                      - Historical(d, pair[2], info.period).ratio
<1>1. info \in StartingInfo /\ pair[2] \in Validators
  BY DEF DistOK, Pairs
<1>2. CASE info.height = h
  BY <1>2 DEF CalculateDelegationRewards
<1>3. CASE info.height # h
  <2>1. grown \in Nat
    <3>1. Historical(d, pair[2], ending).ratio \in Nat
          /\ Historical(d, pair[2], info.period).ratio \in Nat
      BY <1>1, HistoricalType DEF StartingInfo, HistoricalRewards
    <3> QED BY <3>1, <1>3 DEF CalculationPanics
  <2>2. info.stake \in Nat
    BY <1>1 DEF StartingInfo
  <2> HIDE DEF grown
  <2>3. info.stake * grown \in Nat
    BY <2>1, <2>2
  <2> QED BY <2>3, <1>3 DEF CalculateDelegationRewards, grown
<1> QED BY <1>2, <1>3

\* Closing a period leaves the starting infos and the module's coins alone.
LEMMA IncrementKeeps ==
    ASSUME NEW d, DistOK(d), NEW s, StakOK(s), NEW v \in Validators
    PROVE  LET e == IncrementValidatorPeriod(d, s, v)
           IN  e.start = d.start /\ e.funds = d.funds /\ e.paid = d.paid
<1> DEFINE stray == IF s.tokens[v] = 0 THEN d.rew[v] ELSE 0
           donated == [d EXCEPT !.outst[v] = @ - stray, !.pool = @ + stray]
<1> SUFFICES ASSUME stray <= d.outst[v]
             PROVE LET e == IncrementValidatorPeriod(d, s, v)
                   IN  e.start = d.start /\ e.funds = d.funds /\ e.paid = d.paid
  BY DEF IncrementValidatorPeriod, Fault, DistOK, StakOK
<1>1. DistOK(donated)
  <2>1. stray \in Nat
    BY DEF DistOK, StakOK
  <2> HIDE DEF stray
  <2> QED BY <2>1, DonateType
<1>2. donated.start = d.start /\ donated.funds = d.funds /\ donated.paid = d.paid
  BY DEF DistOK
<1>3. d.period[v] - 1 \in Nat /\ stray \in Nat
  BY DEF DistOK, StakOK
<1> DEFINE released == DecrementReferenceCount(donated, v, d.period[v] - 1)
<1>4. /\ released.start = d.start /\ released.funds = d.funds /\ released.paid = d.paid
      /\ DistOK(released)
  <2> HIDE DEF donated
  <2> QED BY <1>1, <1>2, <1>3, CountsKeepBooks, DecrementReferenceCountType
<1> DEFINE ratio == Historical(d, v, d.period[v] - 1).ratio
                      + (IF s.tokens[v] = 0 THEN 0 ELSE d.rew[v] \div s.tokens[v])
           closed == SetHistorical(released, v, d.period[v], ratio, 1)
<1> HIDE DEF released
<1>5. closed.start = d.start /\ closed.funds = d.funds /\ closed.paid = d.paid
  BY <1>4 DEF SetHistorical, DistOK
<1> HIDE DEF closed
<1>6. LET e == [closed EXCEPT !.rew[v] = 0, !.period[v] = d.period[v] + 1]
      IN  e.start = d.start /\ e.funds = d.funds /\ e.paid = d.paid
  BY <1>5
<1>7. ~ (stray > d.outst[v])
  BY <1>3 DEF DistOK
<1> QED BY <1>6, <1>7, Zenon DEF IncrementValidatorPeriod, closed, released

LEMMA SettleDelegationType ==
    ASSUME NEW d, DistOK(d), NEW s, StakOK(s), NEW pair \in Pairs, NEW h \in Nat
    PROVE  DistOK(SettleDelegation(d, s, pair, h))
<1> DEFINE v == pair[2]
           ending == d.period[v]
           closed == IncrementValidatorPeriod(d, s, v)
           raw == CalculateDelegationRewards(closed, pair, ending, h)
           due == IF raw <= closed.outst[v] THEN raw ELSE closed.outst[v]
           coins == due \div Unit
           sent == SendCoins(closed, pair[1], coins)
           settled == [sent EXCEPT !.outst[v] = @ - due, !.pool = @ + (due % Unit)]
           released == DecrementReferenceCount(settled, v, d.start[pair].period)
           panics == closed.start[pair].height # h
                       /\ CalculationPanics(closed, s, pair, ending)
<1>1. v \in Validators /\ pair[1] \in Accounts /\ ending \in Nat
  BY DEF Pairs, DistOK
<1>2. DistOK(closed) /\ closed.start = d.start
  BY <1>1, IncrementValidatorPeriodType, IncrementKeeps
<1>3. DistOK(Fault(d, "no info")) /\ DistOK(Fault(closed, "calculation"))
      /\ DistOK(Fault(closed, "unfunded"))
  <2> HIDE DEF closed
  <2> QED BY <1>2, FaultType DEF Faults
<1>4. CASE d.start[pair] = NoInfo \/ panics \/ coins > closed.funds
  BY <1>3, <1>4, Zenon DEF SettleDelegation
<1>5. CASE ~ (d.start[pair] = NoInfo \/ panics \/ coins > closed.funds)
  <2>1. d.start[pair] \in StartingInfo
    BY <1>5 DEF DistOK
  <2>2. raw \in Nat
    <3> HIDE DEF closed
    <3> QED BY <1>1, <1>2, <1>5, CalculationType
  <2>3. due \in Nat /\ due <= closed.outst[v]
    <3>1. closed.outst[v] \in Nat
      BY <1>1, <1>2 DEF DistOK
    <3> HIDE DEF closed, raw
    <3> QED BY <2>2, <3>1
  <2>4. coins \in Nat /\ due % Unit \in Nat /\ coins <= closed.funds
    <3>1. closed.funds \in Nat
      BY <1>2 DEF DistOK
    <3>2. coins \in Nat /\ due % Unit \in Nat
      <4> HIDE DEF due
      <4> QED BY <2>3, DivMod, UnitAssumption
    <3> HIDE DEF coins, closed
    <3> QED BY <3>1, <3>2, <1>5
  <2> HIDE DEF closed, due, coins
  <2>5. DistOK(sent) /\ sent.outst = closed.outst
    <3>1. sent.outst = closed.outst
      BY <1>2 DEF SendCoins, DistOK
    <3> QED BY <3>1, <1>1, <1>2, <2>4, SendCoinsType
  <2>6. DistOK(settled)
    <3> HIDE DEF sent
    <3> QED BY <1>1, <2>3, <2>4, <2>5, DonateType
  <2>7. DistOK(released)
    <3> HIDE DEF settled
    <3> QED BY <1>1, <2>1, <2>6, DecrementReferenceCountType DEF StartingInfo
  <2>8. DistOK([released EXCEPT !.start[pair] = NoInfo])
    <3> HIDE DEF released
    <3> QED BY <2>7, StartType
  <2> QED BY <2>8, <1>5, Zenon DEF SettleDelegation, closed, due, coins
<1> QED BY <1>4, <1>5

LEMMA InitializeDelegationType ==
    ASSUME NEW d, DistOK(d), NEW s, StakOK(s), NEW pair \in Pairs, NEW h \in Nat
    PROVE  DistOK(InitializeDelegation(d, s, pair, h))
<1> DEFINE previous == d.period[pair[2]] - 1
           counted == IncrementReferenceCount(d, pair[2], previous)
           info == [period |-> previous, stake |-> s.shares[pair], height |-> h]
<1>1. previous \in Nat /\ pair[2] \in Validators
  BY DEF Pairs, DistOK
<1>2. info \in StartingInfo
  BY <1>1 DEF StartingInfo, StakOK
<1>3. DistOK(counted)
  BY <1>1, IncrementReferenceCountType
<1>4. DistOK([counted EXCEPT !.start[pair] = info])
  <2> HIDE DEF counted, info
  <2> QED BY <1>2, <1>3, StartType
<1> QED BY <1>4, Zenon DEF InitializeDelegation

LEMMA WithdrawDelegationRewardsType ==
    ASSUME NEW d, DistOK(d), NEW s, StakOK(s), NEW pair \in Pairs, NEW h \in Nat
    PROVE  DistOK(WithdrawDelegationRewards(d, s, pair, h))
  BY SettleDelegationType, InitializeDelegationType DEF WithdrawDelegationRewards

LEMMA WithdrawValidatorCommissionType ==
    ASSUME NEW d, DistOK(d), NEW v \in Validators
    PROVE  DistOK(WithdrawValidatorCommission(d, v))
<1> DEFINE coins == d.comm[v] \div Unit
           sent == SendCoins(d, v, coins)
           over == coins * Unit > d.outst[v] \/ coins > d.funds
<1>1. /\ d.comm[v] \in Nat /\ d.outst[v] \in Nat /\ d.funds \in Nat
      /\ v \in Accounts
  BY AddressAssumption DEF DistOK
<1>2. coins \in Nat /\ d.comm[v] % Unit \in Nat /\ coins * Unit \in Nat
  <2>1. coins \in Nat /\ d.comm[v] % Unit \in Nat
    BY <1>1, DivMod, UnitAssumption
  <2> HIDE DEF coins
  <2> QED BY <2>1, UnitAssumption
<1>3. CASE d.comm[v] = 0
  BY <1>3 DEF WithdrawValidatorCommission
<1>4. CASE d.comm[v] # 0 /\ over
  <2>1. DistOK(Fault(d, "negative coins"))
    BY FaultType DEF Faults
  <2> QED BY <2>1, <1>4, Zenon DEF WithdrawValidatorCommission
<1>5. CASE d.comm[v] # 0 /\ ~ over
  <2> DEFINE amount == coins * Unit
  <2>1. amount \in Nat /\ coins <= d.funds /\ amount <= d.outst[v]
    <3> HIDE DEF coins
    <3> QED BY <1>1, <1>2, <1>5
  <2> HIDE DEF coins, amount
  <2>2. DistOK(sent) /\ sent.outst = d.outst
    <3>1. sent.outst = d.outst
      BY DEF SendCoins, DistOK
    <3> QED BY <3>1, <1>1, <1>2, <2>1, SendCoinsType
  <2> DEFINE rest == d.comm[v] % Unit
             e == [sent EXCEPT !.comm[v] = rest, !.outst[v] = @ - amount]
  <2>3. sent.outst[v] - amount \in Nat /\ rest \in Nat
    BY <1>1, <1>2, <2>1, <2>2
  <2>4. e \in Books(sent.hist)
    <3> HIDE DEF sent, rest
    <3> QED BY <2>2, <2>3, TypeBooks DEF Books
  <2>5. DistOK(e)
    <3> HIDE DEF sent, rest
    <3> QED BY <2>2, <2>4, BooksType
  <2> QED BY <2>5, <1>5, Zenon DEF WithdrawValidatorCommission, coins, amount
<1> QED BY <1>3, <1>4, <1>5

\* Deleting the history of one validator.
LEMMA NoHistoryType ==
    ASSUME NEW d, DistOK(d), NEW v \in Validators
    PROVE  DistOK([d EXCEPT !.hist[v] = [p \in {} |-> 0]])
<1> DEFINE none == [p \in {} |-> 0]
<1>1. none \in [DOMAIN none -> HistoricalRewards] /\ DOMAIN none \subseteq Nat
  OBVIOUS
<1>2. [d EXCEPT !.hist[v] = none] = [d EXCEPT !.hist = [d.hist EXCEPT ![v] = none]]
  BY DEF DistOK
<1> HIDE DEF none
<1> QED BY <1>1, <1>2 DEF DistOK, none

LEMMA RemoveRecordsType ==
    ASSUME NEW d, DistOK(d), NEW v \in Validators
    PROVE  DistOK(RemoveRecords(d, v))
<1> DEFINE coins == d.comm[v] \div Unit
           sent == SendCoins(d, v, coins)
           dust == d.outst[v] - coins * Unit
<1>1. /\ d.comm[v] \in Nat /\ d.outst[v] \in Nat /\ d.funds \in Nat
      /\ v \in Accounts
  BY AddressAssumption DEF DistOK
<1>2. CASE d.comm[v] > d.outst[v]
  <2>1. DistOK(Fault(d, "negative coins"))
    BY FaultType DEF Faults
  <2> QED BY <2>1, <1>2, Zenon DEF RemoveRecords
<1>3. CASE ~ (d.comm[v] > d.outst[v]) /\ coins > d.funds
  <2>1. DistOK(Fault(d, "unfunded"))
    BY FaultType DEF Faults
  <2> QED BY <2>1, <1>3, Zenon DEF RemoveRecords
<1>4. CASE ~ (d.comm[v] > d.outst[v]) /\ ~ (coins > d.funds)
  <2>1. coins \in Nat /\ coins * Unit <= d.comm[v] /\ coins * Unit \in Nat
    BY <1>1, WholeCoins
  <2>2. coins <= d.funds /\ dust \in Nat
    <3> HIDE DEF coins
    <3> QED BY <1>1, <1>4, <2>1
  <2> HIDE DEF coins, dust
  <2>3. DistOK(sent)
    BY <1>1, <2>1, <2>2, SendCoinsType
  <2> DEFINE bare == [sent EXCEPT !.hist[v] = [p \in {} |-> 0]]
             e == [bare EXCEPT !.pool = @ + dust,
                               !.outst[v] = 0, !.comm[v] = 0, !.rew[v] = 0]
  <2>4. DistOK(bare)
    <3> HIDE DEF sent
    <3> QED BY <2>3, NoHistoryType
  <2>5. [sent EXCEPT !.pool = @ + dust, !.hist[v] = [p \in {} |-> 0],
                     !.outst[v] = 0, !.comm[v] = 0, !.rew[v] = 0] = e
    <3> HIDE DEF sent
    <3> QED BY <2>3 DEF DistOK
  <2>6. RemoveRecords(d, v) = e
    BY <2>5, <1>4, Zenon DEF RemoveRecords, coins, dust
  <2>7. e \in Books(bare.hist)
    <3> HIDE DEF bare
    <3>1. bare.pool + dust \in Nat
      <4>1. bare.pool \in Nat
        BY <2>4, TypeBooks DEF Books
      <4> QED BY <2>2, <4>1
    <3> QED BY <2>4, <3>1, TypeBooks DEF Books
  <2> HIDE DEF bare, e
  <2>8. DistOK(e)
    BY <2>4, <2>7, BooksType
  <2> QED BY <2>6, <2>8
<1> QED BY <1>2, <1>3, <1>4

LEMMA InitializeValidatorType ==
    ASSUME NEW d, DistOK(d), NEW v \in Validators
    PROVE  DistOK(InitializeValidator(d, v))
<1> DEFINE e == SetHistorical(d, v, 0, 0, 1)
<1>1. DistOK(e)
  BY SetHistoricalType
<1> HIDE DEF e
<1> DEFINE one == [e EXCEPT !.rew[v] = 0, !.period[v] = 1]
           two == [one EXCEPT !.comm[v] = 0, !.outst[v] = 0]
<1>2. one \in Books(e.hist)
  <2>1. \A x \in Nat, y \in Nat \ {0} :
          [e EXCEPT !.rew[v] = x, !.period[v] = y] \in Books(e.hist)
    BY <1>1, TypeBooks DEF Books
  <2>2. 0 \in Nat /\ 1 \in Nat \ {0}
    OBVIOUS
  <2> QED BY <2>1, <2>2, Zenon
<1> HIDE DEF one
<1>3. two \in Books(e.hist)
  BY <1>2 DEF Books
<1>4. DistOK(two)
  BY <1>1, <1>3, BooksType
<1> QED BY <1>4, Zenon DEF InitializeValidator, e, one

LEMMA AllocateTokensType ==
    ASSUME NEW d, DistOK(d), NEW share \in [Validators -> Nat], NEW fee \in Nat,
           NEW total \in 0..(fee * Unit)
    PROVE  DistOK(AllocateTokens(d, share, fee, total))
<1> DEFINE comm == [v \in Validators |-> d.comm[v] + share[v] \div CommissionDiv]
           rew == [v \in Validators |-> d.rew[v] + share[v] - share[v] \div CommissionDiv]
           outst == [v \in Validators |-> d.outst[v] + share[v]]
           rest == fee * Unit - total
<1>1. /\ comm \in [Validators -> Nat] /\ rew \in [Validators -> Nat]
      /\ outst \in [Validators -> Nat]
  <2> SUFFICES ASSUME NEW v \in Validators
               PROVE  /\ d.comm[v] + share[v] \div CommissionDiv \in Nat
                      /\ d.rew[v] + share[v] - share[v] \div CommissionDiv \in Nat
                      /\ d.outst[v] + share[v] \in Nat
    OBVIOUS
  <2>1. d.comm[v] \in Nat /\ d.rew[v] \in Nat /\ d.outst[v] \in Nat /\ share[v] \in Nat
    BY DEF DistOK
  <2>2. share[v] \div CommissionDiv \in Nat /\ share[v] \div CommissionDiv <= share[v]
    BY <2>1, DivMod, UnitAssumption
  <2> QED BY <2>1, <2>2
<1>2. d.funds + fee \in Nat /\ d.pool + rest \in Nat
  <2>1. rest \in Nat
    BY UnitAssumption
  <2> QED BY <2>1 DEF DistOK
<1>3. AllocateTokens(d, share, fee, total) =
        [d EXCEPT !.comm = comm, !.rew = rew, !.outst = outst,
                  !.funds = @ + fee, !.pool = @ + rest]
  BY Zenon DEF AllocateTokens
<1> HIDE DEF comm, rew, outst, rest
<1>4. AllocateTokens(d, share, fee, total) \in Books(d.hist)
  BY <1>1, <1>2, <1>3, TypeBooks DEF Books
<1> QED BY <1>4, BooksType

LEMMA DelegationHooksType ==
    ASSUME NEW d, DistOK(d), NEW s, StakOK(s), NEW t, StakOK(t),
           NEW pair \in Pairs, NEW h \in Nat
    PROVE  DistOK(DelegationHooks(d, s, t, pair, h))
<1> DEFINE before == IF s.shares[pair] > 0
                     THEN SettleDelegation(d, s, pair, h)
                     ELSE IncrementValidatorPeriod(d, s, pair[2])
<1>1. pair[2] \in Validators
  BY DEF Pairs
<1>2. DistOK(before)
  BY <1>1, SettleDelegationType, IncrementValidatorPeriodType
<1>3. DistOK(InitializeDelegation(before, t, pair, h))
  <2> HIDE DEF before
  <2> QED BY <1>2, InitializeDelegationType
<1> QED BY <1>2, <1>3, Zenon DEF DelegationHooks

LEMMA UnbondHooksType ==
    ASSUME NEW d, DistOK(d), NEW s, StakOK(s), NEW t, StakOK(t),
           NEW pair \in Pairs, NEW h \in Nat
    PROVE  DistOK(UnbondHooks(d, s, t, pair, h))
<1> DEFINE modified == DelegationHooks(d, s, t, pair, h)
<1>1. DistOK(modified) /\ pair[2] \in Validators
  BY DelegationHooksType DEF Pairs
<1>2. DistOK(RemoveRecords(modified, pair[2]))
  <2> HIDE DEF modified
  <2> QED BY <1>1, RemoveRecordsType
<1> QED BY <1>1, <1>2, Zenon DEF UnbondHooks

-----------------------------------------------------------------------------
\* The reference counts of the reward history.

Refs(d, v, p) == Historical(d, v, p).refs

\* Some delegation of D to v starts from period p.
Starts(d, D, v, p) == \E pair \in D : pair[2] = v /\ d.start[pair].period = p

\* The counts are exact for the validators V and the delegations D; a validator
\* outside V has no history.
Counted(d, V, D) ==
    /\ \A pair \in D : pair[2] \in V =>
         d.start[pair] # NoInfo /\ d.start[pair].period < d.period[pair[2]]
    /\ \A pair, other \in D :
         pair # other /\ pair[2] = other[2] /\ pair[2] \in V =>
           d.start[pair].period # d.start[other].period
    /\ \A v \in Validators : \A p \in Nat :
         Refs(d, v, p) = (IF Starts(d, D, v, p) THEN 1 ELSE 0)
                           + (IF v \in V /\ p = d.period[v] - 1 THEN 1 ELSE 0)
    /\ \A v \in Validators : \A p \in DOMAIN d.hist[v] : Refs(d, v, p) # 0

\* No delegation of D starts from the last closed period of v.
Fresh(d, D, v) ==
    \A pair \in D : pair[2] = v => d.start[pair].period # d.period[v] - 1

\* Exact counts as long as the accounting is sound, and no panic of theirs.
Safe(d, V, D) ==
    /\ d.fault \notin RefFaults
    /\ d.fault = "none" => Counted(d, V, D)

-----------------------------------------------------------------------------
\* What the elementary operators do to the counts.


\* Every key present has a reference.
Kept(d, v) == \A p \in DOMAIN d.hist[v] : Refs(d, v, p) # 0

\* From d to e nothing but the count of v's period p changes, to n; a count
\* of zero means no key.
Recounts(d, e, v, p, n) ==
    /\ e.start = d.start
    /\ e.period = d.period
    /\ e.fault = d.fault
    /\ \A w \in Validators, q \in Nat :
         Refs(e, w, q) = IF w = v /\ q = p THEN n ELSE Refs(d, w, q)
    /\ \A w \in Validators : Kept(d, w) => Kept(e, w)

LEMMA HistoryUpdate ==
    ASSUME NEW d, DistOK(d), NEW v \in Validators, NEW p \in Nat, NEW n \in Nat,
           NEW h, DOMAIN h \subseteq Nat, NEW e, e = [d EXCEPT !.hist[v] = h],
           \A q \in Nat :
             (IF q \in DOMAIN h THEN h[q] ELSE [ratio |-> 0, refs |-> 0]).refs
               = IF q = p THEN n ELSE Refs(d, v, q),
           \A q \in DOMAIN h : q # p => q \in DOMAIN d.hist[v],
           p \in DOMAIN h => n # 0
    PROVE  Recounts(d, e, v, p, n)
<1>1. /\ e.start = d.start /\ e.period = d.period /\ e.fault = d.fault
      /\ e.hist = [d.hist EXCEPT ![v] = h]
  BY DEF DistOK
<1>2. d.hist \in [Validators -> {d.hist[w] : w \in Validators}]
  BY DEF DistOK
<1>3. e.hist[v] = h /\ \A w \in Validators : w # v => e.hist[w] = d.hist[w]
  BY <1>1, <1>2
<1>4. ASSUME NEW w \in Validators, NEW q \in Nat, w # v
      PROVE  Refs(e, w, q) = Refs(d, w, q)
  BY <1>3, <1>4 DEF Refs, Historical
<1>5. ASSUME NEW q \in Nat
      PROVE  Refs(e, v, q) = IF q = p THEN n ELSE Refs(d, v, q)
  BY <1>3 DEF Refs, Historical
<1>6. ASSUME NEW w \in Validators, Kept(d, w) PROVE Kept(e, w)
  <2>1. CASE w # v
    BY <1>3, <1>6, <2>1 DEF Kept, Refs, Historical
  <2>2. CASE w = v
    <3> SUFFICES ASSUME NEW q \in DOMAIN h PROVE Refs(e, v, q) # 0
      BY <1>3, <2>2 DEF Kept
    <3>1. q \in Nat
      OBVIOUS
    <3>2. CASE q = p
      BY <1>5, <3>1, <3>2
    <3>3. CASE q # p
      BY <1>5, <1>6, <2>2, <3>1, <3>3 DEF Kept
    <3> QED BY <3>2, <3>3
  <2> QED BY <2>1, <2>2
<1> QED BY <1>1, <1>4, <1>5, <1>6 DEF Recounts

LEMMA SetHistoricalEffect ==
    ASSUME NEW d, DistOK(d), NEW v \in Validators, NEW p \in Nat,
           NEW ratio \in Nat, NEW n \in Nat \ {0},
           NEW e, e = SetHistorical(d, v, p, ratio, n)
    PROVE  Recounts(d, e, v, p, n)
<1> DEFINE h == [q \in DOMAIN d.hist[v] \cup {p} |->
                   IF q = p THEN [ratio |-> ratio, refs |-> n] ELSE d.hist[v][q]]
<1>1. e = [d EXCEPT !.hist[v] = h]
  BY Zenon DEF SetHistorical
<1>2. DOMAIN h = DOMAIN d.hist[v] \cup {p} /\ DOMAIN h \subseteq Nat
  BY DEF DistOK
<1>3. h[p].refs = n /\ \A q \in DOMAIN d.hist[v] : q # p => h[q] = d.hist[v][q]
  OBVIOUS
<1> HIDE DEF h
<1>4. ASSUME NEW q \in Nat
      PROVE  (IF q \in DOMAIN h THEN h[q] ELSE [ratio |-> 0, refs |-> 0]).refs
               = IF q = p THEN n ELSE Refs(d, v, q)
  <2>1. CASE q = p
    BY <1>2, <1>3, <2>1
  <2>2. CASE q # p
    BY <1>2, <1>3, <2>2 DEF Refs, Historical
  <2> QED BY <2>1, <2>2
<1>5. /\ \A q \in DOMAIN h : q # p => q \in DOMAIN d.hist[v]
      /\ p \in DOMAIN h => n # 0
  BY <1>2
<1> QED BY <1>1, <1>2, <1>4, <1>5, HistoryUpdate

LEMMA DeleteHistoricalEffect ==
    ASSUME NEW d, DistOK(d), NEW v \in Validators, NEW p \in Nat,
           NEW e, e = DeleteHistorical(d, v, p)
    PROVE  Recounts(d, e, v, p, 0)
<1> DEFINE h == [q \in DOMAIN d.hist[v] \ {p} |-> d.hist[v][q]]
<1>1. e = [d EXCEPT !.hist[v] = h]
  BY Zenon DEF DeleteHistorical
<1>2. DOMAIN h = DOMAIN d.hist[v] \ {p} /\ DOMAIN h \subseteq Nat
  BY DEF DistOK
<1>3. \A q \in DOMAIN d.hist[v] : q # p => h[q] = d.hist[v][q]
  OBVIOUS
<1> HIDE DEF h
<1>4. ASSUME NEW q \in Nat
      PROVE  (IF q \in DOMAIN h THEN h[q] ELSE [ratio |-> 0, refs |-> 0]).refs
               = IF q = p THEN 0 ELSE Refs(d, v, q)
  <2>1. CASE q = p
    BY <1>2, <2>1
  <2>2. CASE q # p
    BY <1>2, <1>3, <2>2 DEF Refs, Historical
  <2> QED BY <2>1, <2>2
<1>5. /\ \A q \in DOMAIN h : q # p => q \in DOMAIN d.hist[v]
      /\ p \notin DOMAIN h
  BY <1>2
<1>6. 0 \in Nat
  OBVIOUS
<1> QED BY <1>1, <1>2, <1>4, <1>5, <1>6, HistoryUpdate

\* A fault is never forgotten.
LEMMA FaultEffect ==
    ASSUME NEW d, DistOK(d), NEW why \in Faults
    PROVE  /\ Fault(d, why).fault # "none"
           /\ d.fault # "none" => Fault(d, why).fault = d.fault
           /\ d.fault = "none" => Fault(d, why).fault = why
  BY DEF Fault, DistOK, Faults, RefFaults

LEMMA DecrementEffect ==
    ASSUME NEW d, DistOK(d), NEW v \in Validators, NEW p \in Nat,
           NEW e, e = DecrementReferenceCount(d, v, p)
    PROVE  /\ Refs(d, v, p) \in Nat
           /\ d.fault # "none" => e.fault = d.fault
           /\ Refs(d, v, p) # 0 => Recounts(d, e, v, p, Refs(d, v, p) - 1)
           /\ Refs(d, v, p) = 0 => e.fault # "none"
<1> DEFINE old == Historical(d, v, p)
<1>1. old.refs \in Nat /\ old.ratio \in Nat /\ old.refs = Refs(d, v, p)
  BY HistoricalType DEF HistoricalRewards, Refs
<1>2. CASE old.refs = 0
  <2>1. e = Fault(d, "references negative")
    BY <1>2 DEF DecrementReferenceCount
  <2>2. "references negative" \in Faults
    BY DEF Faults, RefFaults
  <2>3. e.fault # "none" /\ (d.fault # "none" => e.fault = d.fault)
    BY <2>1, <2>2, FaultEffect, Zenon
  <2> HIDE DEF old
  <2> QED BY <1>1, <1>2, <2>3
<1>3. CASE old.refs = 1
  <2>1. e = DeleteHistorical(d, v, p)
    BY <1>3 DEF DecrementReferenceCount
  <2>2. Recounts(d, e, v, p, 0)
    BY <2>1, DeleteHistoricalEffect
  <2> HIDE DEF old
  <2>3. Refs(d, v, p) = 1 /\ Refs(d, v, p) - 1 = 0 /\ e.fault = d.fault
    BY <1>1, <1>3, <2>2 DEF Recounts
  <2> QED BY <2>2, <2>3
<1>4. CASE old.refs # 0 /\ old.refs # 1
  <2> DEFINE r == old.ratio
             n == old.refs - 1
  <2>1. e = SetHistorical(d, v, p, r, n)
    BY <1>4, Zenon DEF DecrementReferenceCount
  <2>2. r \in Nat /\ n \in Nat \ {0} /\ n = Refs(d, v, p) - 1 /\ Refs(d, v, p) # 0
    BY <1>1, <1>4
  <2> HIDE DEF old, r, n
  <2>3. Recounts(d, e, v, p, n)
    BY <2>1, <2>2, SetHistoricalEffect
  <2>4. e.fault = d.fault
    BY <2>3 DEF Recounts
  <2> QED BY <1>1, <2>2, <2>3, <2>4
<1> QED BY <1>2, <1>3, <1>4

LEMMA IncrementEffect ==
    ASSUME NEW d, DistOK(d), NEW v \in Validators, NEW p \in Nat,
           NEW e, e = IncrementReferenceCount(d, v, p)
    PROVE  /\ Refs(d, v, p) \in Nat
           /\ d.fault # "none" => e.fault = d.fault
           /\ Refs(d, v, p) <= 2 => Recounts(d, e, v, p, Refs(d, v, p) + 1)
           /\ e.start = d.start /\ e.period = d.period
<1> DEFINE old == Historical(d, v, p)
<1>1. old.refs \in Nat /\ old.ratio \in Nat /\ old.refs = Refs(d, v, p)
  BY HistoricalType DEF HistoricalRewards, Refs
<1>2. CASE old.refs > 2
  <2>1. e = Fault(d, "references exceed 2")
    BY <1>2 DEF IncrementReferenceCount
  <2>2. "references exceed 2" \in Faults
    BY DEF Faults, RefFaults
  <2>3. d.fault # "none" => e.fault = d.fault
    BY <2>1, <2>2, FaultEffect, Zenon
  <2>4. e.start = d.start /\ e.period = d.period
    BY <2>1 DEF Fault, DistOK
  <2> HIDE DEF old
  <2>5. ~ (Refs(d, v, p) <= 2)
    BY <1>1, <1>2
  <2> QED BY <1>1, <2>3, <2>4, <2>5
<1>3. CASE ~ (old.refs > 2)
  <2> DEFINE r == old.ratio
             n == old.refs + 1
  <2>1. e = SetHistorical(d, v, p, r, n)
    BY <1>3, Zenon DEF IncrementReferenceCount
  <2>2. r \in Nat /\ n \in Nat \ {0} /\ n = Refs(d, v, p) + 1
    BY <1>1
  <2> HIDE DEF old, r, n
  <2>3. Recounts(d, e, v, p, n)
    BY <2>1, <2>2, SetHistoricalEffect
  <2>4. e.fault = d.fault /\ e.start = d.start /\ e.period = d.period
    BY <2>3 DEF Recounts
  <2> QED BY <1>1, <2>2, <2>3, <2>4
<1> QED BY <1>2, <1>3

-----------------------------------------------------------------------------
\* How the counts stay exact: closing the open period of v, ...
LEMMA CountedAdvance ==
    ASSUME NEW d, DistOK(d), NEW e, NEW V \in SUBSET Validators,
           NEW D \in SUBSET Pairs, NEW v \in V, Counted(d, V, D),
           e.start = d.start,
           e.period = [d.period EXCEPT ![v] = d.period[v] + 1],
           \A w \in Validators, q \in Nat :
             Refs(e, w, q) = IF w = v /\ q = d.period[v] THEN 1
                             ELSE IF w = v /\ q = d.period[v] - 1
                             THEN Refs(d, w, q) - 1 ELSE Refs(d, w, q),
           \A w \in Validators : Kept(d, w) => Kept(e, w)
    PROVE  Counted(e, V, D) /\ Fresh(e, D, v)
<1>1. /\ d.period \in [Validators -> Nat \ {0}]
      /\ d.start \in [Pairs -> StartingInfo \cup {NoInfo}]
  BY DEF DistOK
<1>2. e.period[v] = d.period[v] + 1
      /\ \A w \in Validators : w # v => e.period[w] = d.period[w]
  BY <1>1
<1>3. ASSUME NEW pair \in D, pair[2] \in V
      PROVE  /\ e.start[pair] # NoInfo
             /\ e.start[pair].period < e.period[pair[2]]
             /\ pair[2] = v => e.start[pair].period < d.period[v]
             /\ e.start[pair].period \in Nat
  <2>1. e.start[pair] # NoInfo /\ e.start[pair].period < d.period[pair[2]]
    BY <1>3 DEF Counted
  <2>2. e.start[pair].period \in Nat
    BY <1>1, <2>1 DEF StartingInfo
  <2>3. d.period[pair[2]] \in Nat /\ d.period[v] \in Nat
    BY <1>1, <1>3
  <2> QED BY <1>2, <1>3, <2>1, <2>2, <2>3
<1>4. ASSUME NEW w \in Validators, NEW q \in Nat
      PROVE  Refs(e, w, q) = (IF Starts(e, D, w, q) THEN 1 ELSE 0)
                               + (IF w \in V /\ q = e.period[w] - 1 THEN 1 ELSE 0)
  <2>1. Starts(e, D, w, q) <=> Starts(d, D, w, q)
    BY DEF Starts
  <2>2. Refs(d, w, q) = (IF Starts(d, D, w, q) THEN 1 ELSE 0)
                          + (IF w \in V /\ q = d.period[w] - 1 THEN 1 ELSE 0)
    BY DEF Counted
  <2>3. d.period[w] \in Nat \ {0} /\ d.period[v] \in Nat \ {0}
    BY <1>1
  <2>4. CASE w # v
    BY <1>2, <2>1, <2>2, <2>4
  <2>5. CASE w = v /\ q = d.period[v]
    <3>1. ~ Starts(e, D, w, q)
      BY <1>3, <2>3, <2>5 DEF Starts
    <3>2. Refs(e, w, q) = 1 /\ w \in V /\ q = e.period[w] - 1
      BY <1>2, <2>3, <2>5
    <3> QED BY <3>1, <3>2
  <2>6. CASE w = v /\ q = d.period[v] - 1
    <3>1. Refs(e, w, q) = Refs(d, w, q) - 1 /\ q # e.period[w] - 1
      BY <1>2, <2>3, <2>6
    <3> QED BY <2>1, <2>2, <2>6, <3>1
  <2>7. CASE w = v /\ q # d.period[v] /\ q # d.period[v] - 1
    <3>1. Refs(e, w, q) = Refs(d, w, q) /\ q # e.period[w] - 1
      BY <1>2, <2>3, <2>7
    <3> QED BY <2>1, <2>2, <2>7, <3>1
  <2> QED BY <2>4, <2>5, <2>6, <2>7
<1>5. \A w \in Validators : \A q \in DOMAIN e.hist[w] : Refs(e, w, q) # 0
  BY DEF Counted, Kept
<1>6. \A pair, other \in D :
        pair # other /\ pair[2] = other[2] /\ pair[2] \in V =>
          e.start[pair].period # e.start[other].period
  BY DEF Counted
<1>7. Fresh(e, D, v)
  BY <1>1, <1>2, <1>3 DEF Fresh
<1> QED BY <1>3, <1>4, <1>5, <1>6, <1>7 DEF Counted

\* ... a delegation leaving the period it started from, ...
LEMMA CountedLeave ==
    ASSUME NEW d, DistOK(d), NEW e, NEW V \in SUBSET Validators,
           NEW D \in SUBSET Pairs, NEW pair \in D, pair[2] \in V,
           Counted(d, V, D), Fresh(d, D, pair[2]),
           \A other \in D : other # pair => e.start[other] = d.start[other],
           e.period = d.period,
           \A w \in Validators, q \in Nat :
             Refs(e, w, q) = IF w = pair[2] /\ q = d.start[pair].period
                             THEN Refs(d, w, q) - 1 ELSE Refs(d, w, q),
           \A w \in Validators : Kept(d, w) => Kept(e, w)
    PROVE  /\ Counted(e, V, D \ {pair})
           /\ Fresh(e, D \ {pair}, pair[2])
<1> DEFINE E == D \ {pair}
           p == d.start[pair].period
           v == pair[2]
<1>1. p \in Nat
  <2>1. d.start[pair] \in StartingInfo
    BY DEF DistOK, Counted
  <2> QED BY <2>1 DEF StartingInfo
<1>2. ASSUME NEW w \in Validators, NEW q \in Nat
      PROVE  Refs(e, w, q) = (IF Starts(e, E, w, q) THEN 1 ELSE 0)
                               + (IF w \in V /\ q = e.period[w] - 1 THEN 1 ELSE 0)
  <2>1. Refs(d, w, q) = (IF Starts(d, D, w, q) THEN 1 ELSE 0)
                          + (IF w \in V /\ q = d.period[w] - 1 THEN 1 ELSE 0)
    BY DEF Counted
  <2>2. CASE w = v /\ q = p
    <3>1. Starts(d, D, w, q)
      BY <2>2 DEF Starts
    <3>2. ~ Starts(e, E, w, q)
      BY <2>2 DEF Starts, Counted
    <3>3. q # d.period[w] - 1
      BY <2>2 DEF Fresh
    <3>4. Refs(e, w, q) = Refs(d, w, q) - 1
      BY <2>2
    <3> QED BY <2>1, <3>1, <3>2, <3>3, <3>4
  <2>3. CASE ~ (w = v /\ q = p)
    <3>1. Starts(e, E, w, q) <=> Starts(d, D, w, q)
      BY <2>3 DEF Starts
    <3>2. Refs(e, w, q) = Refs(d, w, q)
      BY <2>3
    <3> QED BY <2>1, <3>1, <3>2
  <2> QED BY <2>2, <2>3
<1>3. \A w \in Validators : \A q \in DOMAIN e.hist[w] : Refs(e, w, q) # 0
  BY DEF Counted, Kept
<1>4. /\ \A one \in E : one[2] \in V =>
           e.start[one] # NoInfo /\ e.start[one].period < e.period[one[2]]
      /\ \A one, other \in E :
           one # other /\ one[2] = other[2] /\ one[2] \in V =>
             e.start[one].period # e.start[other].period
  BY DEF Counted
<1>5. Fresh(e, E, v)
  BY DEF Fresh
<1> QED BY <1>2, <1>3, <1>4, <1>5 DEF Counted

\* ... and a delegation starting from a fresh one.
LEMMA CountedStart ==
    ASSUME NEW d, DistOK(d), NEW e, NEW V \in SUBSET Validators,
           NEW D \in SUBSET Pairs, NEW pair \in Pairs \ D, pair[2] \in V,
           Counted(d, V, D), Fresh(d, D, pair[2]),
           \A other \in D : e.start[other] = d.start[other],
           e.start[pair] # NoInfo,
           e.start[pair].period = d.period[pair[2]] - 1,
           e.period = d.period,
           \A w \in Validators, q \in Nat :
             Refs(e, w, q) = IF w = pair[2] /\ q = d.period[w] - 1
                             THEN Refs(d, w, q) + 1 ELSE Refs(d, w, q),
           \A w \in Validators : Kept(d, w) => Kept(e, w)
    PROVE  Counted(e, V, D \cup {pair})
<1> DEFINE E == D \cup {pair}
           v == pair[2]
<1>1. \A w \in Validators : d.period[w] \in Nat \ {0}
  BY DEF DistOK
<1>2. ASSUME NEW w \in Validators, NEW q \in Nat
      PROVE  Refs(e, w, q) = (IF Starts(e, E, w, q) THEN 1 ELSE 0)
                               + (IF w \in V /\ q = e.period[w] - 1 THEN 1 ELSE 0)
  <2>1. Refs(d, w, q) = (IF Starts(d, D, w, q) THEN 1 ELSE 0)
                          + (IF w \in V /\ q = d.period[w] - 1 THEN 1 ELSE 0)
    BY DEF Counted
  <2>2. CASE w = v /\ q = d.period[w] - 1
    <3>1. Starts(e, E, w, q)
      BY <2>2 DEF Starts
    <3>2. ~ Starts(d, D, w, q)
      BY <2>2 DEF Starts, Fresh
    <3>3. Refs(e, w, q) = Refs(d, w, q) + 1
      BY <2>2
    <3> QED BY <2>1, <2>2, <3>1, <3>2, <3>3
  <2>3. CASE ~ (w = v /\ q = d.period[w] - 1)
    <3>1. Starts(e, E, w, q) <=> Starts(d, D, w, q)
      BY <2>3 DEF Starts
    <3>2. Refs(e, w, q) = Refs(d, w, q)
      BY <2>3
    <3> QED BY <2>1, <3>1, <3>2
  <2> QED BY <2>2, <2>3
<1>3. \A w \in Validators : \A q \in DOMAIN e.hist[w] : Refs(e, w, q) # 0
  BY DEF Counted, Kept
<1>4. \A one \in E : one[2] \in V =>
        e.start[one] # NoInfo /\ e.start[one].period < e.period[one[2]]
  <2>1. \A one \in D : one[2] \in V =>
          d.start[one] # NoInfo /\ d.start[one].period < d.period[one[2]]
    BY DEF Counted
  <2> QED BY <1>1, <2>1
<1>5. \A one, other \in E :
        one # other /\ one[2] = other[2] /\ one[2] \in V =>
          e.start[one].period # e.start[other].period
  <2> SUFFICES ASSUME NEW one \in E, NEW other \in E, one # other,
                      one[2] = other[2], one[2] \in V
               PROVE  e.start[one].period # e.start[other].period
    OBVIOUS
  <2>1. CASE one = pair
    BY <2>1 DEF Fresh
  <2>2. CASE other = pair
    BY <2>2 DEF Fresh
  <2>3. CASE one # pair /\ other # pair
    BY <2>3 DEF Counted
  <2> QED BY <2>1, <2>2, <2>3
<1> QED BY <1>2, <1>3, <1>4, <1>5 DEF Counted

-----------------------------------------------------------------------------
\* The keeper's methods keep the counts exact, or report a fault of another
\* kind; a fault once reported stays.

LEMMA OtherFault ==
    ASSUME NEW d, DistOK(d), NEW V, NEW D, Safe(d, V, D),
           NEW why \in Faults \ RefFaults, NEW W, NEW E
    PROVE  Safe(Fault(d, why), W, E) /\ Fault(d, why).fault # "none"
<1>1. /\ Fault(d, why).fault # "none"
      /\ d.fault # "none" => Fault(d, why).fault = d.fault
      /\ d.fault = "none" => Fault(d, why).fault = why
  BY FaultEffect
<1> HIDE DEF Fault
<1> QED BY <1>1 DEF Safe

LEMMA IncrementValidatorPeriodSafe ==
    ASSUME NEW d, DistOK(d), NEW s, StakOK(s), NEW V \in SUBSET Validators,
           NEW D \in SUBSET Pairs, NEW v \in V, Safe(d, V, D),
           NEW e, e = IncrementValidatorPeriod(d, s, v)
    PROVE  /\ Safe(e, V, D)
           /\ e.fault = "none" => Fresh(e, D, v)
           /\ d.fault # "none" => e.fault # "none"
<1> DEFINE closing == d.period[v]
           stray == IF s.tokens[v] = 0 THEN d.rew[v] ELSE 0
           ratio == Historical(d, v, closing - 1).ratio
                      + (IF s.tokens[v] = 0 THEN 0 ELSE d.rew[v] \div s.tokens[v])
           donated == [d EXCEPT !.outst[v] = @ - stray, !.pool = @ + stray]
           released == DecrementReferenceCount(donated, v, closing - 1)
           closed == SetHistorical(released, v, closing, ratio, 1)
           last == [closed EXCEPT !.rew[v] = 0, !.period[v] = closing + 1]
<1>1. closing \in Nat \ {0} /\ closing - 1 \in Nat /\ stray \in Nat
      /\ d.rew[v] \in Nat /\ s.tokens[v] \in Nat
  BY DEF DistOK, StakOK
<1>2. CASE stray > d.outst[v]
  <2>1. e = Fault(d, "negative coins")
    BY <1>2, Zenon DEF IncrementValidatorPeriod
  <2>2. "negative coins" \in Faults \ RefFaults
    BY DEF Faults, RefFaults
  <2> HIDE DEF stray
  <2>3. Safe(e, V, D) /\ e.fault # "none"
    BY <2>1, <2>2, OtherFault
  <2> QED BY <2>3
<1>3. CASE ~ (stray > d.outst[v])
  <2>1. e = last
    BY <1>3, Zenon DEF IncrementValidatorPeriod
  <2>2. ratio \in Nat
    <3>1. Historical(d, v, closing - 1).ratio \in Nat
      BY <1>1, HistoricalType DEF HistoricalRewards
    <3>2. CASE s.tokens[v] = 0
      BY <3>1, <3>2
    <3>3. CASE s.tokens[v] # 0
      <4>1. d.rew[v] \div s.tokens[v] \in Nat
        BY <1>1, <3>3, DivMod
      <4> QED BY <3>1, <3>3, <4>1
    <3> QED BY <3>2, <3>3
  <2>3. DistOK(donated)
    <3>1. stray <= d.outst[v]
      BY <1>1, <1>3 DEF DistOK
    <3> HIDE DEF stray
    <3> QED BY <1>1, <3>1, DonateType
  <2>4. /\ donated.start = d.start /\ donated.period = d.period
        /\ donated.fault = d.fault /\ donated.hist = d.hist
    BY DEF DistOK
  <2>5. DistOK(released)
    BY <1>1, <2>3, DecrementReferenceCountType
  <2>6. /\ \A w \in Validators, q \in Nat : Refs(donated, w, q) = Refs(d, w, q)
        /\ \A w \in Validators : Kept(donated, w) <=> Kept(d, w)
    <3> HIDE DEF donated
    <3> QED BY <2>4 DEF Refs, Historical, Kept
  <2> HIDE DEF ratio, donated
  <2>7. DistOK(closed) /\ Recounts(released, closed, v, closing, 1)
    <3>1. 1 \in Nat \ {0} /\ closing \in Nat /\ 1 \in Nat
      BY <1>1
    <3> HIDE DEF released
    <3>2. DistOK(closed)
      BY <2>2, <2>5, <3>1, SetHistoricalType
    <3> QED BY <2>2, <2>5, <3>1, <3>2, SetHistoricalEffect
  <2>8. /\ d.fault # "none" => released.fault = d.fault
        /\ Refs(donated, v, closing - 1) # 0 =>
             Recounts(donated, released, v, closing - 1, Refs(donated, v, closing - 1) - 1)
    <3> DEFINE prior == closing - 1
    <3>1. prior \in Nat /\ v \in Validators
      BY <1>1
    <3> HIDE DEF prior
    <3>2. released = DecrementReferenceCount(donated, v, prior)
      BY DEF prior
    <3> HIDE DEF released, donated
    <3>3. /\ donated.fault # "none" => released.fault = donated.fault
          /\ Refs(donated, v, prior) # 0 =>
               Recounts(donated, released, v, prior, Refs(donated, v, prior) - 1)
      BY <2>3, <3>1, <3>2, DecrementEffect
    <3> QED BY <2>4, <3>3 DEF prior
  <2> HIDE DEF released, closed
  <2>9. /\ last.start = closed.start /\ last.fault = closed.fault
        /\ last.hist = closed.hist
        /\ last.period = [closed.period EXCEPT ![v] = closing + 1]
    BY <2>7 DEF DistOK
  <2> HIDE DEF last
  <2>10. closed.fault = released.fault
    BY <2>7 DEF Recounts
  <2>11. CASE d.fault # "none"
    <3>1. e.fault = d.fault
      BY <2>1, <2>8, <2>9, <2>10, <2>11
    <3> QED BY <2>11, <3>1 DEF Safe
  <2>12. CASE d.fault = "none"
    <3>1. Counted(d, V, D)
      BY <2>12 DEF Safe
    <3>2. Refs(donated, v, closing - 1) # 0
      <4>1. Refs(d, v, closing - 1) = (IF Starts(d, D, v, closing - 1) THEN 1 ELSE 0) + 1
        BY <1>1, <3>1 DEF Counted
      <4> QED BY <1>1, <2>6, <4>1
    <3>3. Recounts(donated, released, v, closing - 1, Refs(d, v, closing - 1) - 1)
      BY <1>1, <2>6, <2>8, <3>2
    <3>4. /\ e.start = d.start /\ e.fault = d.fault
          /\ e.period = [d.period EXCEPT ![v] = closing + 1]
      BY <2>1, <2>4, <2>7, <2>9, <3>3 DEF Recounts
    <3>5. /\ \A w \in Validators, q \in Nat : Refs(e, w, q) = Refs(closed, w, q)
          /\ \A w \in Validators : Kept(e, w) <=> Kept(closed, w)
      BY <2>1, <2>9 DEF Refs, Historical, Kept
    <3>6. \A w \in Validators : Kept(d, w) => Kept(e, w)
      BY <2>6, <2>7, <3>3, <3>5 DEF Recounts
    <3>7. \A w \in Validators, q \in Nat :
            Refs(e, w, q) = IF w = v /\ q = closing THEN 1
                            ELSE IF w = v /\ q = closing - 1
                            THEN Refs(d, w, q) - 1 ELSE Refs(d, w, q)
      BY <2>6, <2>7, <3>3, <3>5 DEF Recounts
    <3>8. Counted(e, V, D) /\ Fresh(e, D, v)
      BY <3>1, <3>4, <3>6, <3>7, CountedAdvance
    <3> QED BY <2>12, <3>4, <3>8 DEF Safe
  <2> QED BY <2>11, <2>12
<1> QED BY <1>2, <1>3

LEMMA SettleDelegationSafe ==
    ASSUME NEW d, DistOK(d), NEW s, StakOK(s), NEW V \in SUBSET Validators,
           NEW D \in SUBSET Pairs, NEW pair \in D, pair[2] \in V, NEW h \in Nat,
           Safe(d, V, D), NEW e, e = SettleDelegation(d, s, pair, h)
    PROVE  /\ Safe(e, V, D \ {pair})
           /\ e.fault = "none" => Fresh(e, D \ {pair}, pair[2])
<1> DEFINE v == pair[2]
           ending == d.period[v]
           closed == IncrementValidatorPeriod(d, s, v)
           raw == CalculateDelegationRewards(closed, pair, ending, h)
           due == IF raw <= closed.outst[v] THEN raw ELSE closed.outst[v]
           coins == due \div Unit
           sent == SendCoins(closed, pair[1], coins)
           settled == [sent EXCEPT !.outst[v] = @ - due, !.pool = @ + (due % Unit)]
           p == d.start[pair].period
           released == DecrementReferenceCount(settled, v, p)
           panics == closed.start[pair].height # h
                       /\ CalculationPanics(closed, s, pair, ending)
<1>1. v \in Validators /\ pair[1] \in Accounts /\ ending \in Nat /\ pair \in Pairs
  BY DEF Pairs, DistOK
<1>2. DistOK(closed) /\ closed.start = d.start
  BY <1>1, IncrementValidatorPeriodType, IncrementKeeps
<1>3. /\ Safe(closed, V, D)
      /\ closed.fault = "none" => Fresh(closed, D, v)
      /\ d.fault # "none" => closed.fault # "none"
  BY IncrementValidatorPeriodSafe
<1>4. /\ "no info" \in Faults \ RefFaults /\ "calculation" \in Faults \ RefFaults
      /\ "unfunded" \in Faults \ RefFaults
  BY DEF Faults, RefFaults
<1>5. CASE d.start[pair] = NoInfo
  <2>1. e = Fault(d, "no info")
    BY <1>5, Zenon DEF SettleDelegation
  <2>2. "no info" \in Faults \ RefFaults
    BY <1>4
  <2> HIDE DEF closed
  <2>3. Safe(Fault(d, "no info"), V, D \ {pair}) /\ Fault(d, "no info").fault # "none"
    BY <2>2, OtherFault
  <2> QED BY <2>1, <2>3
<1>6. CASE d.start[pair] # NoInfo /\ panics
  <2>1. e = Fault(closed, "calculation")
    BY <1>6, Zenon DEF SettleDelegation
  <2>2. "calculation" \in Faults \ RefFaults /\ DistOK(closed) /\ Safe(closed, V, D)
    BY <1>2, <1>3, <1>4
  <2> HIDE DEF closed
  <2>3. Safe(Fault(closed, "calculation"), V, D \ {pair}) /\ Fault(closed, "calculation").fault # "none"
    BY <2>2, OtherFault
  <2> QED BY <2>1, <2>3
<1>7. CASE d.start[pair] # NoInfo /\ ~ panics /\ coins > closed.funds
  <2>1. e = Fault(closed, "unfunded")
    BY <1>7, Zenon DEF SettleDelegation
  <2>2. Safe(e, V, D \ {pair}) /\ e.fault # "none"
    <3>1. DistOK(closed) /\ Safe(closed, V, D)
      BY <1>2, <1>3
    <3>2. "unfunded" \in Faults \ RefFaults
      BY <1>4
    <3> HIDE DEF closed
    <3> QED BY <2>1, <3>1, <3>2, OtherFault
  <2> QED BY <2>2
<1>8. CASE d.start[pair] # NoInfo /\ ~ panics /\ ~ (coins > closed.funds)
  <2>1. e = [released EXCEPT !.start[pair] = NoInfo]
    BY <1>8, Zenon DEF SettleDelegation
  <2>2. p \in Nat
    <3>1. d.start[pair] \in StartingInfo
      BY <1>1, <1>8 DEF DistOK
    <3> QED BY <3>1 DEF StartingInfo
  <2>3. raw \in Nat
    <3> HIDE DEF closed
    <3> QED BY <1>1, <1>2, <1>8, CalculationType
  <2>4. due \in Nat /\ due <= closed.outst[v]
    <3>1. closed.outst[v] \in Nat
      BY <1>1, <1>2 DEF DistOK
    <3> HIDE DEF closed, raw
    <3> QED BY <2>3, <3>1
  <2>5. coins \in Nat /\ due % Unit \in Nat /\ coins <= closed.funds
    <3>1. closed.funds \in Nat
      BY <1>2 DEF DistOK
    <3>2. coins \in Nat /\ due % Unit \in Nat
      <4> HIDE DEF due
      <4> QED BY <2>4, DivMod, UnitAssumption
    <3> HIDE DEF coins, closed
    <3> QED BY <3>1, <3>2, <1>8
  <2> HIDE DEF closed, due, coins, p
  <2>6. /\ DistOK(sent) /\ sent.outst = closed.outst /\ sent.start = closed.start
        /\ sent.period = closed.period /\ sent.hist = closed.hist
        /\ sent.fault = closed.fault
    <3>1. /\ sent.outst = closed.outst /\ sent.start = closed.start
          /\ sent.period = closed.period /\ sent.hist = closed.hist
          /\ sent.fault = closed.fault
      BY <1>2 DEF SendCoins, DistOK
    <3> QED BY <3>1, <1>1, <1>2, <2>5, SendCoinsType
  <2>7. /\ DistOK(settled) /\ settled.start = closed.start
        /\ settled.period = closed.period /\ settled.hist = closed.hist
        /\ settled.fault = closed.fault
    <3> HIDE DEF sent
    <3>1. DistOK(settled)
      BY <1>1, <2>4, <2>5, <2>6, DonateType
    <3> QED BY <3>1, <2>6 DEF DistOK
  <2> HIDE DEF sent, settled
  <2>8. /\ \A w \in Validators, q \in Nat : Refs(settled, w, q) = Refs(closed, w, q)
        /\ \A w \in Validators : Kept(settled, w) <=> Kept(closed, w)
    BY <2>7 DEF Refs, Historical, Kept
  <2>9. /\ settled.fault # "none" => released.fault = settled.fault
        /\ Refs(settled, v, p) # 0 =>
             Recounts(settled, released, v, p, Refs(settled, v, p) - 1)
        /\ DistOK(released)
    <3>1. DistOK(settled) /\ v \in Validators /\ p \in Nat
      BY <1>1, <2>2, <2>7
    <3>2. released = DecrementReferenceCount(settled, v, p)
      OBVIOUS
    <3>3. DistOK(released)
      BY <3>1, DecrementReferenceCountType
    <3> HIDE DEF v, released
    <3>4. /\ settled.fault # "none" => released.fault = settled.fault
          /\ Refs(settled, v, p) # 0 =>
               Recounts(settled, released, v, p, Refs(settled, v, p) - 1)
      BY <3>1, <3>2, DecrementEffect
    <3> QED BY <3>3, <3>4
  <2> HIDE DEF released
  <2>10. /\ e.fault = released.fault /\ e.period = released.period
         /\ e.hist = released.hist
         /\ \A other \in Pairs : other # pair => e.start[other] = released.start[other]
    BY <2>1, <2>9 DEF DistOK
  <2>11. CASE closed.fault # "none"
    <3>1. e.fault = closed.fault
      BY <2>7, <2>9, <2>10, <2>11
    <3> QED BY <1>3, <2>11, <3>1 DEF Safe
  <2>12. CASE closed.fault = "none"
    <3>1. Counted(closed, V, D) /\ Fresh(closed, D, v)
      BY <1>3, <2>12 DEF Safe
    <3>2. Refs(closed, v, p) # 0 /\ p = closed.start[pair].period
      <4>1. p = closed.start[pair].period
        BY <1>2 DEF p
      <4>2. Starts(closed, D, v, p)
        BY <4>1 DEF Starts
      <4>3. Refs(closed, v, p) = 1 + (IF p = closed.period[v] - 1 THEN 1 ELSE 0)
        BY <2>2, <3>1, <4>2 DEF Counted
      <4> QED BY <4>1, <4>3
    <3>3. Recounts(settled, released, v, p, Refs(closed, v, p) - 1)
      BY <1>1, <2>2, <2>8, <2>9, <3>2
    <3>4. /\ e.period = closed.period /\ e.fault = "none"
          /\ \A other \in D : other # pair => e.start[other] = closed.start[other]
      BY <2>7, <2>10, <2>12, <3>3 DEF Recounts
    <3>5. /\ \A w \in Validators, q \in Nat : Refs(e, w, q) = Refs(released, w, q)
          /\ \A w \in Validators : Kept(e, w) <=> Kept(released, w)
      BY <2>10 DEF Refs, Historical, Kept
    <3>6. \A w \in Validators : Kept(closed, w) => Kept(e, w)
      BY <2>8, <3>3, <3>5 DEF Recounts
    <3>7. \A w \in Validators, q \in Nat :
            Refs(e, w, q) = IF w = v /\ q = closed.start[pair].period
                            THEN Refs(closed, w, q) - 1 ELSE Refs(closed, w, q)
      BY <2>8, <3>2, <3>3, <3>5 DEF Recounts
    <3>8. Counted(e, V, D \ {pair}) /\ Fresh(e, D \ {pair}, v)
      BY <1>2, <3>1, <3>4, <3>6, <3>7, CountedLeave
    <3> QED BY <3>4, <3>8 DEF Safe, RefFaults
  <2> QED BY <2>11, <2>12
<1> QED BY <1>5, <1>6, <1>7, <1>8

LEMMA InitializeDelegationSafe ==
    ASSUME NEW d, DistOK(d), NEW s, StakOK(s), NEW V \in SUBSET Validators,
           NEW D \in SUBSET Pairs, NEW pair \in Pairs \ D, pair[2] \in V,
           NEW h \in Nat, Safe(d, V, D),
           d.fault = "none" => Fresh(d, D, pair[2]),
           NEW e, e = InitializeDelegation(d, s, pair, h)
    PROVE  Safe(e, V, D \cup {pair})
<1> DEFINE v == pair[2]
           previous == d.period[v] - 1
           counted == IncrementReferenceCount(d, v, previous)
           info == [period |-> previous, stake |-> s.shares[pair], height |-> h]
<1>1. previous \in Nat /\ v \in Validators
  BY DEF Pairs, DistOK
<1>2. info \in StartingInfo /\ info.period = previous
  BY <1>1 DEF StartingInfo, StakOK
<1>3. /\ Refs(d, v, previous) \in Nat
      /\ d.fault # "none" => counted.fault = d.fault
      /\ Refs(d, v, previous) <= 2 =>
           Recounts(d, counted, v, previous, Refs(d, v, previous) + 1)
      /\ DistOK(counted)
  <2>1. DistOK(counted)
    BY <1>1, IncrementReferenceCountType
  <2> HIDE DEF previous, v
  <2> QED BY <1>1, <2>1, IncrementEffect
<1>4. e = [counted EXCEPT !.start[pair] = info]
  BY Zenon DEF InitializeDelegation
<1> HIDE DEF counted, info
<1>5. /\ e.fault = counted.fault /\ e.period = counted.period /\ e.hist = counted.hist
      /\ e.start[pair] = info
      /\ \A other \in Pairs : other # pair => e.start[other] = counted.start[other]
  BY <1>3, <1>4 DEF DistOK
<1>6. CASE d.fault # "none"
  <2>1. e.fault = d.fault
    BY <1>3, <1>5, <1>6
  <2> QED BY <1>6, <2>1 DEF Safe
<1>7. CASE d.fault = "none"
  <2>1. Counted(d, V, D) /\ Fresh(d, D, v)
    BY <1>7 DEF Safe
  <2>2. Refs(d, v, previous) = 1
    <3>1. ~ Starts(d, D, v, previous)
      BY <2>1 DEF Starts, Fresh
    <3> QED BY <1>1, <2>1, <3>1 DEF Counted
  <2>3. Recounts(d, counted, v, previous, Refs(d, v, previous) + 1)
    BY <1>3, <2>2
  <2>4. /\ e.period = d.period /\ e.fault = "none"
        /\ \A other \in D : e.start[other] = d.start[other]
    BY <1>5, <1>7, <2>3 DEF Recounts
  <2>5. e.start[pair] # NoInfo /\ e.start[pair].period = d.period[v] - 1
    BY <1>2, <1>5, NoInfoAssumption
  <2>6. /\ \A w \in Validators, q \in Nat : Refs(e, w, q) = Refs(counted, w, q)
        /\ \A w \in Validators : Kept(e, w) <=> Kept(counted, w)
    BY <1>5 DEF Refs, Historical, Kept
  <2>7. \A w \in Validators : Kept(d, w) => Kept(e, w)
    BY <2>3, <2>6 DEF Recounts
  <2>8. \A w \in Validators, q \in Nat :
          Refs(e, w, q) = IF w = v /\ q = d.period[w] - 1
                          THEN Refs(d, w, q) + 1 ELSE Refs(d, w, q)
    BY <2>3, <2>6 DEF Recounts
  <2>9. Counted(e, V, D \cup {pair})
    BY <2>1, <2>4, <2>5, <2>7, <2>8, CountedStart
  <2> QED BY <2>4, <2>9 DEF Safe, RefFaults
<1> QED BY <1>6, <1>7

LEMMA WithdrawDelegationRewardsSafe ==
    ASSUME NEW d, DistOK(d), NEW s, StakOK(s), NEW V \in SUBSET Validators,
           NEW D \in SUBSET Pairs, NEW pair \in D, pair[2] \in V, NEW h \in Nat,
           Safe(d, V, D), NEW e, e = WithdrawDelegationRewards(d, s, pair, h)
    PROVE  Safe(e, V, D)
<1> DEFINE settled == SettleDelegation(d, s, pair, h)
           E == D \ {pair}
<1>1. CASE d.start[pair] = NoInfo
  BY <1>1, Zenon DEF WithdrawDelegationRewards
<1>2. CASE d.start[pair] # NoInfo
  <2>1. e = InitializeDelegation(settled, s, pair, h)
    BY <1>2, Zenon DEF WithdrawDelegationRewards
  <2>2. DistOK(settled)
    BY SettleDelegationType
  <2>3. Safe(settled, V, E) /\ (settled.fault = "none" => Fresh(settled, E, pair[2]))
    BY SettleDelegationSafe
  <2>4. E \in SUBSET Pairs /\ pair \in Pairs \ E /\ E \cup {pair} = D
    OBVIOUS
  <2> HIDE DEF settled, E
  <2>5. Safe(e, V, E \cup {pair})
    BY <2>1, <2>2, <2>3, <2>4, InitializeDelegationSafe
  <2> QED BY <2>4, <2>5
<1> QED BY <1>1, <1>2

\* The books of coins do not matter to the counts.
LEMMA SameCounts ==
    ASSUME NEW d, NEW e, NEW V, NEW D, Safe(d, V, D), e.start = d.start,
           e.period = d.period, e.hist = d.hist, e.fault = d.fault
    PROVE  Safe(e, V, D)
  BY DEF Safe, Counted, Refs, Historical, Starts

LEMMA WithdrawValidatorCommissionSafe ==
    ASSUME NEW d, DistOK(d), NEW V, NEW D, Safe(d, V, D), NEW v \in Validators,
           NEW e, e = WithdrawValidatorCommission(d, v)
    PROVE  Safe(e, V, D)
<1> DEFINE coins == d.comm[v] \div Unit
           left == d.comm[v] % Unit
           sent == SendCoins(d, v, coins)
           over == coins * Unit > d.outst[v] \/ coins > d.funds
<1>1. CASE d.comm[v] = 0
  BY <1>1, Zenon DEF WithdrawValidatorCommission
<1>2. CASE d.comm[v] # 0 /\ over
  <2>1. e = Fault(d, "negative coins")
    BY <1>2, Zenon DEF WithdrawValidatorCommission
  <2>2. "negative coins" \in Faults \ RefFaults
    BY DEF Faults, RefFaults
  <2> QED BY <2>1, <2>2, OtherFault
<1>3. CASE d.comm[v] # 0 /\ ~ over
  <2>1. e = [sent EXCEPT !.comm[v] = left, !.outst[v] = @ - coins * Unit]
    BY <1>3, Zenon DEF WithdrawValidatorCommission
  <2> HIDE DEF coins, left
  <2>2. /\ e.start = d.start /\ e.period = d.period
        /\ e.hist = d.hist /\ e.fault = d.fault
    BY <2>1 DEF DistOK, SendCoins
  <2> QED BY <2>2, SameCounts
<1> QED BY <1>1, <1>2, <1>3

LEMMA AllocateTokensSafe ==
    ASSUME NEW d, DistOK(d), NEW V, NEW D, Safe(d, V, D), NEW share, NEW fee,
           NEW total, NEW e, e = AllocateTokens(d, share, fee, total)
    PROVE  Safe(e, V, D)
<1>1. /\ e.start = d.start /\ e.period = d.period
      /\ e.hist = d.hist /\ e.fault = d.fault
  BY DEF DistOK, AllocateTokens
<1> QED BY <1>1, SameCounts

\* A validator that is created, or initialised again over a cleared history,
\* before it has any delegation.
LEMMA InitializeValidatorSafe ==
    ASSUME NEW d, DistOK(d), NEW V \in SUBSET Validators,
           NEW D \in SUBSET Pairs, NEW v \in Validators \ V,
           \A pair \in D : pair[2] # v, Safe(d, V, D),
           NEW e, e = InitializeValidator(d, v)
    PROVE  Safe(e, V \cup {v}, D)
<1> DEFINE set == SetHistorical(d, v, 0, 0, 1)
<1>1. 0 \in Nat /\ 1 \in Nat \ {0} /\ 1 \in Nat
  OBVIOUS
<1>2. DistOK(set)
  BY <1>1, SetHistoricalType
<1>3. Recounts(d, set, v, 0, 1)
  BY <1>1, SetHistoricalEffect
<1>5. e = [[set EXCEPT !.rew[v] = 0, !.period[v] = 1] EXCEPT !.comm[v] = 0, !.outst[v] = 0]
  BY Zenon DEF InitializeValidator
<1> HIDE DEF set
<1>6. /\ e.fault = set.fault /\ e.hist = set.hist /\ e.start = set.start
      /\ e.period = [set.period EXCEPT ![v] = 1]
  BY <1>2, <1>5 DEF DistOK
<1>7. \A w \in Validators, q \in Nat : Refs(e, w, q) = Refs(set, w, q)
  BY <1>6 DEF Refs, Historical
<1>8. e.fault = d.fault /\ e.start = d.start /\ e.period = [d.period EXCEPT ![v] = 1]
  BY <1>3, <1>6 DEF Recounts
<1>9. CASE d.fault = "none"
  <2>1. Counted(d, V, D)
    BY <1>9 DEF Safe
  <2>2. ASSUME NEW w \in Validators, NEW q \in Nat
        PROVE  Refs(e, w, q) = (IF Starts(e, D, w, q) THEN 1 ELSE 0)
                                 + (IF w \in V \cup {v} /\ q = e.period[w] - 1
                                    THEN 1 ELSE 0)
    <3>1. Starts(e, D, w, q) <=> Starts(d, D, w, q)
      BY <1>8 DEF Starts
    <3>2. Refs(d, w, q) = (IF Starts(d, D, w, q) THEN 1 ELSE 0)
                            + (IF w \in V /\ q = d.period[w] - 1 THEN 1 ELSE 0)
      BY <2>1 DEF Counted
    <3>3. CASE w = v
      <4>1. ~ Starts(d, D, w, q)
        BY <3>3 DEF Starts
      <4>2. Refs(e, w, q) = IF q = 0 THEN 1 ELSE 0
        BY <1>3, <1>7, <3>2, <3>3, <4>1 DEF Recounts
      <4>3. e.period[w] = 1
        BY <1>8, <3>3 DEF DistOK
      <4> QED BY <3>1, <3>3, <4>1, <4>2, <4>3
    <3>4. CASE w # v
      <4>1. Refs(e, w, q) = Refs(d, w, q)
        BY <1>3, <1>7, <3>4 DEF Recounts
      <4>2. e.period[w] = d.period[w]
        BY <1>8, <3>4 DEF DistOK
      <4> QED BY <3>1, <3>2, <3>4, <4>1, <4>2
    <3> QED BY <3>3, <3>4
  <2>3. \A w \in Validators : \A q \in DOMAIN e.hist[w] : Refs(e, w, q) # 0
    <3>1. \A w \in Validators : Kept(set, w)
      BY <1>3, <2>1 DEF Recounts, Counted, Kept
    <3> QED BY <1>6, <3>1 DEF Kept, Refs, Historical
  <2>4. \A pair \in D : pair[2] \in V \cup {v} =>
          /\ pair[2] \in V
          /\ e.start[pair] = d.start[pair]
          /\ e.period[pair[2]] = d.period[pair[2]]
    BY <1>8 DEF DistOK
  <2>5. Counted(e, V \cup {v}, D)
    <3>1. \A pair \in D : pair[2] \in V \cup {v} =>
            e.start[pair] # NoInfo /\ e.start[pair].period < e.period[pair[2]]
      BY <2>1, <2>4 DEF Counted
    <3>2. \A pair, other \in D :
            pair # other /\ pair[2] = other[2] /\ pair[2] \in V \cup {v} =>
              e.start[pair].period # e.start[other].period
      BY <1>8, <2>1, <2>4 DEF Counted
    <3> QED BY <2>2, <2>3, <3>1, <3>2 DEF Counted
  <2> QED BY <1>8, <1>9, <2>5 DEF Safe, RefFaults
<1>10. CASE d.fault # "none"
  BY <1>8, <1>10 DEF Safe
<1> QED BY <1>9, <1>10

\* A validator that is removed takes its history along.
LEMMA RemoveRecordsSafe ==
    ASSUME NEW d, DistOK(d), NEW V \in SUBSET Validators,
           NEW D \in SUBSET Pairs, NEW v \in V, \A pair \in D : pair[2] # v,
           Safe(d, V, D), NEW e, e = RemoveRecords(d, v)
    PROVE  Safe(e, V \ {v}, D)
<1> DEFINE coins == d.comm[v] \div Unit
           sent == SendCoins(d, v, coins)
           dust == d.outst[v] - coins * Unit
           none == [p \in {} |-> 0]
<1>1. CASE d.comm[v] > d.outst[v]
  <2>1. e = Fault(d, "negative coins")
    BY <1>1, Zenon DEF RemoveRecords
  <2>2. "negative coins" \in Faults \ RefFaults
    BY DEF Faults, RefFaults
  <2> QED BY <2>1, <2>2, OtherFault
<1>2. CASE ~ (d.comm[v] > d.outst[v]) /\ coins > d.funds
  <2>1. e = Fault(d, "unfunded")
    BY <1>2, Zenon DEF RemoveRecords
  <2>2. "unfunded" \in Faults \ RefFaults
    BY DEF Faults, RefFaults
  <2> QED BY <2>1, <2>2, OtherFault
<1>3. CASE ~ (d.comm[v] > d.outst[v]) /\ ~ (coins > d.funds)
  <2>1. e = [sent EXCEPT !.pool = @ + dust, !.hist[v] = none,
                         !.outst[v] = 0, !.comm[v] = 0, !.rew[v] = 0]
    BY <1>3, Zenon DEF RemoveRecords
  <2> HIDE DEF coins, dust
  <2>2. DOMAIN none = {}
    OBVIOUS
  <2> HIDE DEF none
  <2>3. /\ e.start = d.start /\ e.period = d.period /\ e.fault = d.fault
        /\ e.hist = [d.hist EXCEPT ![v] = none]
    BY <2>1 DEF DistOK, SendCoins
  <2>4. e.hist[v] = none /\ \A w \in Validators : w # v => e.hist[w] = d.hist[w]
    BY <2>3 DEF DistOK
  <2>5. CASE d.fault # "none"
    BY <2>3, <2>5 DEF Safe
  <2>6. CASE d.fault = "none"
    <3>1. Counted(d, V, D)
      BY <2>6 DEF Safe
    <3>2. ASSUME NEW w \in Validators, NEW q \in Nat
          PROVE  Refs(e, w, q) = (IF Starts(e, D, w, q) THEN 1 ELSE 0)
                                   + (IF w \in V \ {v} /\ q = e.period[w] - 1
                                      THEN 1 ELSE 0)
      <4>1. CASE w = v
        <5>1. ~ Starts(e, D, w, q)
          BY <4>1 DEF Starts
        <5>2. Refs(e, w, q) = 0
          BY <2>2, <2>4, <4>1 DEF Refs, Historical
        <5> QED BY <4>1, <5>1, <5>2
      <4>2. CASE w # v
        <5>1. Refs(e, w, q) = Refs(d, w, q)
          BY <2>4, <4>2 DEF Refs, Historical
        <5>2. Starts(e, D, w, q) <=> Starts(d, D, w, q)
          BY <2>3 DEF Starts
        <5> QED BY <2>3, <3>1, <4>2, <5>1, <5>2 DEF Counted
      <4> QED BY <4>1, <4>2
    <3>3. \A w \in Validators : \A q \in DOMAIN e.hist[w] : Refs(e, w, q) # 0
      BY <2>2, <2>4, <3>1 DEF Counted, Refs, Historical
    <3>4. Counted(e, V \ {v}, D)
      BY <2>3, <3>1, <3>2, <3>3 DEF Counted
    <3> QED BY <2>3, <2>6, <3>4 DEF Safe, RefFaults
  <2> QED BY <2>5, <2>6
<1> QED BY <1>1, <1>2, <1>3

\* The hooks around a change of pair's shares, from s to t.
LEMMA DelegationHooksSafe ==
    ASSUME NEW d, DistOK(d), NEW s, StakOK(s), NEW t, StakOK(t),
           NEW V \in SUBSET Validators, NEW pair \in Pairs, pair[2] \in V,
           NEW h \in Nat, Safe(d, V, Delegations(s)),
           \A other \in Pairs : other # pair => t.shares[other] = s.shares[other],
           NEW e, e = DelegationHooks(d, s, t, pair, h)
    PROVE  Safe(e, V, Delegations(t))
<1> DEFINE before == IF s.shares[pair] > 0
                     THEN SettleDelegation(d, s, pair, h)
                     ELSE IncrementValidatorPeriod(d, s, pair[2])
           D == Delegations(s)
           E == D \ {pair}
<1>1. /\ D \in SUBSET Pairs /\ E \in SUBSET Pairs
      /\ pair \in Pairs \ E /\ pair[2] \in Validators
      /\ pair \in D <=> s.shares[pair] > 0
  BY DEF Delegations, Pairs
<1>2. Delegations(t) = IF t.shares[pair] > 0 THEN E \cup {pair} ELSE E
  BY DEF Delegations
<1> HIDE DEF D
<1>3. /\ DistOK(before) /\ Safe(before, V, E)
      /\ before.fault = "none" => Fresh(before, E, pair[2])
  <2>1. CASE s.shares[pair] > 0
    <3>1. before = SettleDelegation(d, s, pair, h) /\ pair \in D
      BY <1>1, <2>1
    <3> HIDE DEF before
    <3>2. Safe(d, V, D)
      BY DEF D
    <3> QED BY <1>1, <3>1, <3>2, SettleDelegationType, SettleDelegationSafe
  <2>2. CASE ~ (s.shares[pair] > 0)
    <3>1. before = IncrementValidatorPeriod(d, s, pair[2]) /\ D = E
      BY <1>1, <2>2
    <3> HIDE DEF before
    <3>2. Safe(d, V, E)
      BY <3>1 DEF D
    <3> QED BY <1>1, <3>1, <3>2, IncrementValidatorPeriodType, IncrementValidatorPeriodSafe
  <2> QED BY <2>1, <2>2
<1>4. e = IF t.shares[pair] > 0 THEN InitializeDelegation(before, t, pair, h) ELSE before
  BY Zenon DEF DelegationHooks
<1> HIDE DEF before, E
<1>5. CASE t.shares[pair] > 0
  <2>1. e = InitializeDelegation(before, t, pair, h) /\ Delegations(t) = E \cup {pair}
    BY <1>2, <1>4, <1>5
  <2>2. Safe(e, V, E \cup {pair})
    BY <1>1, <1>3, <2>1, InitializeDelegationSafe
  <2> QED BY <2>1, <2>2
<1>6. CASE ~ (t.shares[pair] > 0)
  <2>1. e = before /\ Delegations(t) = E
    BY <1>2, <1>4, <1>6
  <2> QED BY <1>3, <2>1
<1> QED BY <1>5, <1>6

\* ... and those around an unbonding, which may remove the validator.
LEMMA UnbondHooksSafe ==
    ASSUME NEW d, DistOK(d), NEW s, StakOK(s), NEW t, StakOK(t),
           NEW pair \in Pairs, pair[2] \in s.vals,
           NEW h \in Nat, Safe(d, s.vals, Delegations(s)),
           \A other \in Pairs : other # pair => t.shares[other] = s.shares[other],
           pair[2] \in t.vals => t.vals = s.vals,
           pair[2] \notin t.vals =>
             /\ t.vals = s.vals \ {pair[2]}
             /\ \A other \in Delegations(t) : other[2] # pair[2],
           NEW e, e = UnbondHooks(d, s, t, pair, h)
    PROVE  Safe(e, t.vals, Delegations(t))
<1> DEFINE modified == DelegationHooks(d, s, t, pair, h)
<1>1. s.vals \in SUBSET Validators /\ Delegations(t) \in SUBSET Pairs
  BY DEF StakOK, Delegations
<1>2. DistOK(modified) /\ Safe(modified, s.vals, Delegations(t))
  BY <1>1, DelegationHooksType, DelegationHooksSafe
<1>3. e = IF pair[2] \in t.vals THEN modified ELSE RemoveRecords(modified, pair[2])
  BY Zenon DEF UnbondHooks
<1> HIDE DEF modified
<1>4. CASE pair[2] \in t.vals
  BY <1>2, <1>3, <1>4
<1>5. CASE pair[2] \notin t.vals
  <2>1. e = RemoveRecords(modified, pair[2])
    BY <1>3, <1>5
  <2> QED BY <1>1, <1>2, <1>5, <2>1, RemoveRecordsSafe
<1> QED BY <1>4, <1>5

-----------------------------------------------------------------------------
(***************************************************************************)
(* What the operators of Distribution do to the books of coins, for any    *)
(* set V of validators and D of delegations whose history is in force:     *)
(* what a validator has outstanding covers its commission, the rewards of  *)
(* its open period and what each of its delegations may claim, so that no  *)
(* withdrawal asks for more than there is.                                 *)
(*                                                                         *)
(* Sums of a function over a finite set, the operator SumFunctionOnSet of  *)
(* module Functions: it does not matter in which order the fold takes the  *)
(* elements, so an element can be split off, changed or added.  Each proof *)
(* looks at a smallest subset for which the claim would fail.              *)
(***************************************************************************)
LEMMA SmallestSubset ==
    ASSUME NEW S, IsFiniteSet(S), NEW Bad \in SUBSET SUBSET S, Bad # {}
    PROVE  \E T \in Bad : \A U \in Bad : U \subseteq T => U = T
<1>1. Bad \subseteq FiniteSubsetsOf(S)
  BY FS_Subset DEF FiniteSubsetsOf
<1>2. \E T \in Bad : \A U \in Bad : ~ (<<U, T>> \in StrictSubsetOrdering(S))
  BY <1>1, FS_StrictSubsetOrderingWellFounded, WFMin
<1>3. PICK T \in Bad : \A U \in Bad : ~ (<<U, T>> \in StrictSubsetOrdering(S))
  BY <1>2
<1>4. \A U \in Bad : U \subseteq T => U = T
  BY <1>3 DEF StrictSubsetOrdering
<1> QED BY <1>4

\* The fold keeps a table of the sums over all the subsets of the set.
Chosen(s) == CHOOSE x \in s : TRUE
IsTable(F, S, g) ==
    g = [s \in SUBSET S |-> IF s = {} THEN 0 ELSE F[Chosen(s)] + g[s \ {Chosen(s)}]]
Table(F, S) == CHOOSE g : IsTable(F, S, g)

LEMMA SumByTable ==
    ASSUME NEW F, NEW S
    PROVE  SumFunctionOnSet(F, S) = Table(F, S)[S]
  BY Zenon DEF SumFunctionOnSet, FoldFunctionOnSet, MapThenFoldSet, Table, IsTable, Chosen

LEMMA ChosenIn == \A s : s # {} => Chosen(s) \in s
  BY DEF Chosen

LEMMA TableAt ==
    ASSUME NEW F, NEW S, NEW g, IsTable(F, S, g), NEW s \in SUBSET S
    PROVE  /\ s = {} => g[s] = 0
           /\ s # {} => g[s] = F[Chosen(s)] + g[s \ {Chosen(s)}]
<1>1. g[s] = IF s = {} THEN 0 ELSE F[Chosen(s)] + g[s \ {Chosen(s)}]
  BY Zenon DEF IsTable
<1> QED BY <1>1

LEMMA TablesAgree ==
    ASSUME NEW F, NEW S, NEW T \in SUBSET S, IsFiniteSet(S),
           NEW g, IsTable(F, S, g), NEW h, IsTable(F, T, h)
    PROVE  g[T] = h[T]
<1> DEFINE Bad == {U \in SUBSET T : g[U] # h[U]}
<1> SUFFICES ASSUME Bad # {} PROVE FALSE
  OBVIOUS
<1>1. PICK U \in Bad : \A V \in Bad : V \subseteq U => V = U
  <2>1. IsFiniteSet(T) /\ Bad \in SUBSET SUBSET T
    BY FS_Subset
  <2> HIDE DEF Bad
  <2> QED BY <2>1, SmallestSubset
<1>2. U \in SUBSET T /\ U \in SUBSET S /\ g[U] # h[U]
  OBVIOUS
<1>3. U # {}
  BY <1>2, TableAt
<1>4. g[U \ {Chosen(U)}] = h[U \ {Chosen(U)}]
  BY <1>1, <1>3, ChosenIn
<1>5. g[U] = F[Chosen(U)] + g[U \ {Chosen(U)}]
  BY <1>2, <1>3, TableAt
<1>6. h[U] = F[Chosen(U)] + h[U \ {Chosen(U)}]
  BY <1>2, <1>3, TableAt
<1> QED BY <1>2, <1>4, <1>5, <1>6

\* Every finite set has a table: one is put together from those of its subsets.
LEMMA TableExists ==
    ASSUME NEW F, NEW S, IsFiniteSet(S)
    PROVE  IsTable(F, S, Table(F, S))
<1> DEFINE Bad == {T \in SUBSET S : ~ IsTable(F, T, Table(F, T))}
<1> SUFFICES ASSUME Bad # {} PROVE FALSE
  OBVIOUS
<1>1. PICK T \in Bad : \A U \in Bad : U \subseteq T => U = T
  <2>1. Bad \in SUBSET SUBSET S
    OBVIOUS
  <2> HIDE DEF Bad
  <2> QED BY <2>1, SmallestSubset
<1>2. IsFiniteSet(T) /\ ~ IsTable(F, T, Table(F, T))
  BY FS_Subset
<1>3. \A U \in SUBSET T : U # T => IsTable(F, U, Table(F, U)) /\ IsFiniteSet(U)
  BY <1>1, <1>2, FS_Subset
<1> DEFINE sum(U) == Table(F, U)[U]
           step(U) == IF U = {} THEN 0 ELSE F[Chosen(U)] + sum(U \ {Chosen(U)})
           g == [U \in SUBSET T |-> step(U)]
<1>4. \A U \in SUBSET T : U # T => sum(U) = step(U)
  <2> SUFFICES ASSUME NEW U \in SUBSET T, U # T PROVE sum(U) = step(U)
    OBVIOUS
  <2>1. IsTable(F, U, Table(F, U)) /\ IsFiniteSet(U) /\ U \in SUBSET U
    BY <1>3
  <2>2. CASE U = {}
    BY <2>1, <2>2, TableAt
  <2>3. CASE U # {}
    <3> DEFINE W == U \ {Chosen(U)}
    <3>1. W \in SUBSET U /\ W # T /\ W \in SUBSET T
      BY <2>3, ChosenIn
    <3>2. Table(F, U)[W] = sum(W)
      BY <1>3, <2>1, <3>1, TablesAgree
    <3>3. sum(U) = F[Chosen(U)] + Table(F, U)[W]
      BY <2>1, <2>3, TableAt
    <3> QED BY <2>3, <3>2, <3>3
  <2> QED BY <2>2, <2>3
<1>5. \A U \in SUBSET T : U # {} => g[U \ {Chosen(U)}] = sum(U \ {Chosen(U)})
  <2> SUFFICES ASSUME NEW U \in SUBSET T, U # {}
               PROVE  g[U \ {Chosen(U)}] = sum(U \ {Chosen(U)})
    OBVIOUS
  <2> DEFINE W == U \ {Chosen(U)}
  <2>1. W \in SUBSET T /\ W # T
    BY ChosenIn
  <2>2. g[W] = step(W)
    BY <2>1
  <2> QED BY <1>4, <2>1, <2>2
<1>6. g = [s \in SUBSET T |-> IF s = {} THEN 0 ELSE F[Chosen(s)] + g[s \ {Chosen(s)}]]
  <2> HIDE DEF sum
  <2>1. \A s \in SUBSET T :
            step(s) = IF s = {} THEN 0 ELSE F[Chosen(s)] + g[s \ {Chosen(s)}]
    BY <1>5
  <2> QED BY <2>1
<1>7. IsTable(F, T, g)
  BY <1>6 DEF IsTable
<1> HIDE DEF g
<1>8. IsTable(F, T, Table(F, T))
  BY <1>7, Zenon DEF Table
<1> QED BY <1>2, <1>8

\* So the sum of a set is an element's value and the sum of the others, ...
LEMMA SumOfNone ==
    ASSUME NEW F
    PROVE  SumFunctionOnSet(F, {}) = 0
<1>1. IsTable(F, {}, Table(F, {}))
  BY TableExists, FS_EmptySet
<1> QED BY <1>1, TableAt, SumByTable

LEMMA SumOfChosen ==
    ASSUME NEW F, NEW S, IsFiniteSet(S), S # {}
    PROVE  SumFunctionOnSet(F, S) = F[Chosen(S)] + SumFunctionOnSet(F, S \ {Chosen(S)})
<1> DEFINE W == S \ {Chosen(S)}
<1>1. W \in SUBSET S /\ IsFiniteSet(W)
  BY FS_Subset
<1>2. IsTable(F, S, Table(F, S)) /\ IsTable(F, W, Table(F, W))
  BY <1>1, TableExists
<1>3. Table(F, S)[W] = Table(F, W)[W]
  BY <1>1, <1>2, TablesAgree
<1>4. Table(F, S)[S] = F[Chosen(S)] + Table(F, S)[W]
  BY <1>2, TableAt
<1> QED BY <1>3, <1>4, SumByTable

LEMMA SumType ==
    ASSUME NEW F, NEW S, IsFiniteSet(S), \A x \in S : F[x] \in Int
    PROVE  SumFunctionOnSet(F, S) \in Int
<1> DEFINE Bad == {T \in SUBSET S : SumFunctionOnSet(F, T) \notin Int}
<1> SUFFICES ASSUME Bad # {} PROVE FALSE
  OBVIOUS
<1>1. PICK T \in Bad : \A U \in Bad : U \subseteq T => U = T
  <2>1. Bad \in SUBSET SUBSET S
    OBVIOUS
  <2> HIDE DEF Bad
  <2> QED BY <2>1, SmallestSubset
<1>2. T \in SUBSET S /\ IsFiniteSet(T) /\ T # {}
  <2>1. T \in SUBSET S /\ IsFiniteSet(T)
    BY FS_Subset
  <2>2. T # {}
    BY SumOfNone
  <2> QED BY <2>1, <2>2
<1>3. SumFunctionOnSet(F, T \ {Chosen(T)}) \in Int
  BY <1>1, <1>2, ChosenIn
<1>4. F[Chosen(T)] \in Int
  BY <1>2, ChosenIn
<1> QED BY <1>2, <1>3, <1>4, SumOfChosen

\* ... whichever element that is.
LEMMA SumSplit ==
    ASSUME NEW F, NEW S, IsFiniteSet(S), \A x \in S : F[x] \in Int, NEW e \in S
    PROVE  SumFunctionOnSet(F, S) = F[e] + SumFunctionOnSet(F, S \ {e})
<1> DEFINE sum(T) == SumFunctionOnSet(F, T)
           Bad == {T \in SUBSET S : \E y \in T : sum(T) # F[y] + sum(T \ {y})}
<1> SUFFICES ASSUME Bad # {} PROVE FALSE
  OBVIOUS
<1>1. PICK T \in Bad : \A U \in Bad : U \subseteq T => U = T
  <2>1. Bad \in SUBSET SUBSET S
    OBVIOUS
  <2> HIDE DEF Bad
  <2> QED BY <2>1, SmallestSubset
<1>2. PICK y \in T : sum(T) # F[y] + sum(T \ {y})
  OBVIOUS
<1> DEFINE x == Chosen(T)
           rest == (T \ {x}) \ {y}
<1>3. T \in SUBSET S /\ IsFiniteSet(T) /\ x \in T
  BY FS_Subset, ChosenIn
<1>4. F[x] \in Int /\ F[y] \in Int /\ sum(rest) \in Int
  <2>1. IsFiniteSet(rest) /\ rest \subseteq S
    BY <1>3, FS_Subset
  <2> QED BY <1>3, <2>1, SumType
<1>5. sum(T) = F[x] + sum(T \ {x})
  BY <1>3, SumOfChosen
<1>6. x # y
  BY <1>2, <1>5
<1>7. sum(T \ {x}) = F[y] + sum(rest)
  <2>1. T \ {x} \in SUBSET S /\ T \ {x} \notin Bad /\ y \in T \ {x}
    BY <1>1, <1>3, <1>6
  <2> HIDE DEF sum
  <2> QED BY <2>1
<1>8. sum(T \ {y}) = F[x] + sum(rest)
  <2>1. T \ {y} \in SUBSET S /\ T \ {y} \notin Bad /\ x \in T \ {y}
    BY <1>1, <1>3, <1>6
  <2>2. rest = (T \ {y}) \ {x}
    OBVIOUS
  <2> HIDE DEF sum, rest
  <2> QED BY <2>1, <2>2
<1> HIDE DEF sum, rest, x
<1> QED BY <1>2, <1>4, <1>5, <1>7, <1>8

\* The sum depends on the values on the set only, ...
LEMMA SumSame ==
    ASSUME NEW F, NEW G, NEW S, IsFiniteSet(S), \A x \in S : F[x] = G[x]
    PROVE  SumFunctionOnSet(F, S) = SumFunctionOnSet(G, S)
<1> DEFINE Bad == {T \in SUBSET S : SumFunctionOnSet(F, T) # SumFunctionOnSet(G, T)}
<1> SUFFICES ASSUME Bad # {} PROVE FALSE
  OBVIOUS
<1>1. PICK T \in Bad : \A U \in Bad : U \subseteq T => U = T
  <2>1. Bad \in SUBSET SUBSET S
    OBVIOUS
  <2> HIDE DEF Bad
  <2> QED BY <2>1, SmallestSubset
<1>2. T \in SUBSET S /\ IsFiniteSet(T) /\ T # {}
  <2>1. T \in SUBSET S /\ IsFiniteSet(T)
    BY FS_Subset
  <2>2. T # {}
    BY SumOfNone
  <2> QED BY <2>1, <2>2
<1>3. SumFunctionOnSet(F, T \ {Chosen(T)}) = SumFunctionOnSet(G, T \ {Chosen(T)})
  BY <1>1, <1>2, ChosenIn
<1>4. F[Chosen(T)] = G[Chosen(T)]
  BY <1>2, ChosenIn
<1> QED BY <1>2, <1>3, <1>4, SumOfChosen

\* ... changes with one of them by as much as it does, ...
LEMMA SumChanged ==
    ASSUME NEW F, NEW G, NEW S, IsFiniteSet(S), NEW e \in S,
           \A x \in S : F[x] \in Int /\ G[x] \in Int,
           \A x \in S \ {e} : F[x] = G[x]
    PROVE  SumFunctionOnSet(G, S) = SumFunctionOnSet(F, S) - F[e] + G[e]
<1> DEFINE f == SumFunctionOnSet(F, S \ {e})
           g == SumFunctionOnSet(G, S \ {e})
<1>1. IsFiniteSet(S \ {e}) /\ f \in Int
  BY FS_Subset, SumType
<1>2. f = g
  BY <1>1, SumSame
<1>3. SumFunctionOnSet(F, S) = F[e] + f
  BY SumSplit
<1>4. SumFunctionOnSet(G, S) = G[e] + g
  BY SumSplit
<1> HIDE DEF f, g
<1> QED BY <1>1, <1>2, <1>3, <1>4

\* ... is that of the sums where the function is one, and grows with it.
LEMMA SumAdded ==
    ASSUME NEW F, NEW G, NEW H, NEW S, IsFiniteSet(S),
           \A x \in S : F[x] \in Int /\ G[x] \in Int /\ H[x] = F[x] + G[x]
    PROVE  SumFunctionOnSet(H, S) = SumFunctionOnSet(F, S) + SumFunctionOnSet(G, S)
<1> DEFINE sum(K, T) == SumFunctionOnSet(K, T)
           Bad == {T \in SUBSET S : sum(H, T) # sum(F, T) + sum(G, T)}
<1> SUFFICES ASSUME Bad # {} PROVE FALSE
  OBVIOUS
<1>1. PICK T \in Bad : \A U \in Bad : U \subseteq T => U = T
  <2>1. Bad \in SUBSET SUBSET S
    OBVIOUS
  <2> HIDE DEF Bad
  <2> QED BY <2>1, SmallestSubset
<1>2. T \in SUBSET S /\ IsFiniteSet(T) /\ T # {}
  <2>1. T \in SUBSET S /\ IsFiniteSet(T)
    BY FS_Subset
  <2>2. T # {}
    <3>1. sum(H, {}) = 0 /\ sum(F, {}) = 0 /\ sum(G, {}) = 0
      BY SumOfNone
    <3> HIDE DEF sum
    <3>2. sum(H, {}) = sum(F, {}) + sum(G, {})
      BY <3>1
    <3>3. sum(H, T) # sum(F, T) + sum(G, T)
      OBVIOUS
    <3> QED BY <3>2, <3>3, Zenon
  <2> QED BY <2>1, <2>2
<1> DEFINE W == T \ {Chosen(T)}
<1>3. /\ sum(H, T) = H[Chosen(T)] + sum(H, W)
      /\ sum(F, T) = F[Chosen(T)] + sum(F, W)
      /\ sum(G, T) = G[Chosen(T)] + sum(G, W)
  BY <1>2, SumOfChosen
<1>4. W \in SUBSET S /\ IsFiniteSet(W) /\ Chosen(T) \in S /\ W # T
  BY <1>2, FS_Subset, ChosenIn
<1>5. sum(F, W) \in Int /\ sum(G, W) \in Int
  BY <1>4, SumType
<1> HIDE DEF sum
<1>6. sum(H, W) = sum(F, W) + sum(G, W)
  BY <1>1, <1>4
<1> QED BY <1>3, <1>4, <1>5, <1>6

LEMMA SumNatural ==
    ASSUME NEW F, NEW S, IsFiniteSet(S), \A x \in S : F[x] \in Nat
    PROVE  SumFunctionOnSet(F, S) \in Nat
<1> DEFINE Bad == {T \in SUBSET S : SumFunctionOnSet(F, T) \notin Nat}
<1> SUFFICES ASSUME Bad # {} PROVE FALSE
  OBVIOUS
<1>1. PICK T \in Bad : \A U \in Bad : U \subseteq T => U = T
  <2>1. Bad \in SUBSET SUBSET S
    OBVIOUS
  <2> HIDE DEF Bad
  <2> QED BY <2>1, SmallestSubset
<1>2. T \in SUBSET S /\ IsFiniteSet(T) /\ T # {}
  <2>1. T \in SUBSET S /\ IsFiniteSet(T)
    BY FS_Subset
  <2>2. T # {}
    BY SumOfNone
  <2> QED BY <2>1, <2>2
<1>3. SumFunctionOnSet(F, T \ {Chosen(T)}) \in Nat
  BY <1>1, <1>2, ChosenIn
<1>4. F[Chosen(T)] \in Nat
  BY <1>2, ChosenIn
<1> QED BY <1>2, <1>3, <1>4, SumOfChosen

LEMMA SumBounded ==
    ASSUME NEW F, NEW G, NEW S, IsFiniteSet(S),
           \A x \in S : F[x] \in Int /\ G[x] \in Int /\ F[x] <= G[x]
    PROVE  SumFunctionOnSet(F, S) <= SumFunctionOnSet(G, S)
<1> DEFINE H == [x \in S |-> G[x] - F[x]]
           f == SumFunctionOnSet(F, S)
           g == SumFunctionOnSet(G, S)
           h == SumFunctionOnSet(H, S)
<1>1. \A x \in S : H[x] \in Nat /\ H[x] \in Int /\ G[x] = F[x] + H[x]
  OBVIOUS
<1> HIDE DEF H
<1>2. g = f + h
  BY <1>1, SumAdded
<1>3. h \in Nat /\ f \in Int
  BY <1>1, SumNatural, SumType
<1> HIDE DEF f, g, h
<1>4. f <= g
  BY <1>2, <1>3
<1> QED BY <1>4 DEF f, g

\* No value exceeds the sum of naturals.
LEMMA SumAtLeast ==
    ASSUME NEW F, NEW S, IsFiniteSet(S), \A x \in S : F[x] \in Nat, NEW e \in S
    PROVE  F[e] <= SumFunctionOnSet(F, S)
<1> DEFINE rest == SumFunctionOnSet(F, S \ {e})
<1>1. rest \in Nat
  <2>1. IsFiniteSet(S \ {e})
    BY FS_Subset
  <2> QED BY <2>1, SumNatural
<1>2. SumFunctionOnSet(F, S) = F[e] + rest
  BY SumSplit
<1> HIDE DEF rest
<1> QED BY <1>1, <1>2

LEMMA SumOfZeros ==
    ASSUME NEW F, NEW S, IsFiniteSet(S), \A x \in S : F[x] = 0
    PROVE  SumFunctionOnSet(F, S) = 0
<1> DEFINE f == SumFunctionOnSet(F, S)
<1>1. f = f + f
  BY SumAdded
<1>2. f \in Int
  BY SumType
<1> HIDE DEF f
<1>3. f = 0
  BY <1>1, <1>2
<1> QED BY <1>3 DEF f

LEMMA SumScaled ==
    ASSUME NEW F, NEW G, NEW S, IsFiniteSet(S), NEW k \in Int,
           \A x \in S : F[x] \in Int /\ G[x] = k * F[x]
    PROVE  SumFunctionOnSet(G, S) = k * SumFunctionOnSet(F, S)
<1> DEFINE sum(K, T) == SumFunctionOnSet(K, T)
           Bad == {T \in SUBSET S : sum(G, T) # k * sum(F, T)}
<1> SUFFICES ASSUME Bad # {} PROVE FALSE
  OBVIOUS
<1>1. PICK T \in Bad : \A U \in Bad : U \subseteq T => U = T
  <2>1. Bad \in SUBSET SUBSET S
    OBVIOUS
  <2> HIDE DEF Bad
  <2> QED BY <2>1, SmallestSubset
<1>2. T \in SUBSET S /\ IsFiniteSet(T) /\ sum(G, T) # k * sum(F, T)
  BY FS_Subset
<1>3. T # {}
  <2>1. sum(G, {}) = 0 /\ sum(F, {}) = 0
    BY SumOfNone
  <2> HIDE DEF sum
  <2>2. k * 0 = 0
    OBVIOUS
  <2>3. sum(G, {}) = k * sum(F, {})
    BY <2>1, <2>2, Zenon
  <2> QED BY <1>2, <2>3
<1> DEFINE W == T \ {Chosen(T)}
<1>4. /\ sum(G, T) = G[Chosen(T)] + sum(G, W)
      /\ sum(F, T) = F[Chosen(T)] + sum(F, W)
  BY <1>2, <1>3, SumOfChosen
<1>5. W \in SUBSET S /\ IsFiniteSet(W) /\ Chosen(T) \in S /\ W # T
  BY <1>2, <1>3, FS_Subset, ChosenIn
<1>6. sum(F, W) \in Int
  BY <1>5, SumType
<1> HIDE DEF sum
<1>7. sum(G, W) = k * sum(F, W)
  BY <1>1, <1>5
<1>8. \A x, y \in Int : k * x + k * y = k * (x + y)
  OBVIOUS
<1>9. G[Chosen(T)] = k * F[Chosen(T)] /\ F[Chosen(T)] \in Int
  BY <1>5
<1>10. sum(G, T) = k * (F[Chosen(T)] + sum(F, W))
  <2>1. k * F[Chosen(T)] + k * sum(F, W) = k * (F[Chosen(T)] + sum(F, W))
    BY <1>6, <1>8, <1>9
  <2> QED BY <1>4, <1>7, <1>9, <2>1, Zenon
<1> QED BY <1>2, <1>4, <1>10, Zenon

-----------------------------------------------------------------------------
(***************************************************************************)
(* The books of coins.                                                     *)
(***************************************************************************)

Ratio(d, v, p) == Historical(d, v, p).ratio

\* The last closed period of v, to which the open one refers.
Closed(d, v) == d.period[v] - 1

\* What a delegation has earned in closed periods, ...
Claim(d, pair) ==
    d.start[pair].stake * (Ratio(d, pair[2], Closed(d, pair[2]))
                             - Ratio(d, pair[2], d.start[pair].period))

\* ... what a token earns in the open one, and the two together.
Growth(d, s, v) == IF s.tokens[v] = 0 THEN 0 ELSE d.rew[v] \div s.tokens[v]
Earned(d, s, pair) == Claim(d, pair) + d.start[pair].stake * Growth(d, s, pair[2])

\* The claims of all the delegations of D to v, by delegator.
Claims(d, D, v) == [a \in Accounts |-> IF <<a, v>> \in D THEN Claim(d, <<a, v>>) ELSE 0]
Claimed(d, D, v) == SumFunctionOnSet(Claims(d, D, v), Accounts)

\* The shares of a validator are backed by its tokens (the operator of an
\* in-place testnet has tokens that nobody has delegated).
Shares(s, v) == [a \in Accounts |-> s.shares[<<a, v>>]]
Backed(s) == \A v \in Validators : SumFunctionOnSet(Shares(s, v), Accounts) <= s.tokens[v]

\* At height h the delegations to v may be settled, one after the other.
SolventAt(d, s, D, h, v) ==
    /\ \A pair \in D : pair[2] = v =>
         /\ d.start[pair].stake = s.shares[pair]
         /\ d.start[pair].height <= h
         /\ Ratio(d, v, d.start[pair].period) <= Ratio(d, v, Closed(d, v))
         /\ d.start[pair].height = h => d.rew[v] = 0 /\ Claim(d, pair) = 0
    /\ d.comm[v] + d.rew[v] + Claimed(d, D, v) <= d.outst[v]

Sound(d, s, V, D, h) ==
    /\ d.fault = "none"
    /\ Counted(d, V, D)
    /\ \A pair \in D : pair[2] \in V
    /\ \A v \in V : SolventAt(d, s, D, h, v)

\* The module account covers what is outstanding and the community pool.
Held(d) == SumFunctionOnSet(d.outst, Validators)
PaidOut(d) == SumFunctionOnSet(d.paid, Accounts)
Funded(d) == d.funds * Unit = Held(d) + d.pool

\* From d to e outstanding rewards are paid in whole coins or donated.
Settles(d, e) ==
    /\ Held(e) <= Held(d)
    /\ e.pool >= d.pool
    /\ PaidOut(e) >= PaidOut(d)
    /\ e.funds = d.funds - (PaidOut(e) - PaidOut(d))
    /\ Held(e) + e.pool = Held(d) + d.pool - (PaidOut(e) - PaidOut(d)) * Unit

\* From d to e nothing changes but the books of v and the delegations to it.
OnlyAt(d, e, v) ==
    /\ \A w \in Validators \ {v} :
         /\ e.hist[w] = d.hist[w] /\ e.period[w] = d.period[w]
         /\ e.outst[w] = d.outst[w] /\ e.comm[w] = d.comm[w] /\ e.rew[w] = d.rew[w]
    /\ \A pair \in Pairs : pair[2] # v => e.start[pair] = d.start[pair]

-----------------------------------------------------------------------------
\* Arithmetic the provers need in this form.
LEMMA Distributes ==
    /\ \A k, x, y \in Int : k * (x + y) = k * x + k * y
    /\ \A k, x, y \in Int : k * (x - y) = k * x - k * y
    /\ \A k, x \in Nat : k * x \in Nat
    /\ \A k, x \in Int : k * x \in Int
    /\ \A k, x \in Int : k * x = x * k
  OBVIOUS

\* A factor does not turn an order around.
LEMMA Multiplied ==
    ASSUME NEW k \in Nat, NEW x \in Int, NEW y \in Int, x <= y
    PROVE  k * x <= k * y
<1>1. y - x \in Nat
  OBVIOUS
<1>2. k * (y - x) \in Nat /\ k * (y - x) = k * y - k * x
  BY <1>1, Distributes
<1>3. k * x \in Int /\ k * y \in Int
  OBVIOUS
<1> QED BY <1>2, <1>3

LEMMA WholeAndRest ==
    ASSUME NEW a \in Nat
    PROVE  a = (a \div Unit) * Unit + (a % Unit)
  BY UnitAssumption

\* A quotient times its divisor does not exceed the dividend.
LEMMA Quotient ==
    ASSUME NEW a \in Nat, NEW b \in Nat \ {0}
    PROVE  (a \div b) * b <= a
  OBVIOUS

LEMMA FiniteAddresses ==
    /\ IsFiniteSet(Accounts) /\ IsFiniteSet(Validators)
    /\ Validators \subseteq Accounts
  BY StakingAssumption, AddressAssumption, FS_Subset

-----------------------------------------------------------------------------
\* Ratios survive the counting of references.

LEMMA RatioType ==
    ASSUME NEW d, DistOK(d), NEW v \in Validators, NEW p \in Nat
    PROVE  Ratio(d, v, p) \in Nat
  BY HistoricalType DEF Ratio, HistoricalRewards

LEMMA SetHistoricalRatio ==
    ASSUME NEW d, DistOK(d), NEW v \in Validators, NEW p, NEW ratio, NEW n,
           NEW e, e = SetHistorical(d, v, p, ratio, n)
    PROVE  /\ \A w \in Validators : w # v => e.hist[w] = d.hist[w]
           /\ Ratio(e, v, p) = ratio
           /\ \A q : q # p => Ratio(e, v, q) = Ratio(d, v, q)
<1> DEFINE h == [q \in DOMAIN d.hist[v] \cup {p} |->
                   IF q = p THEN [ratio |-> ratio, refs |-> n] ELSE d.hist[v][q]]
<1>1. e = [d EXCEPT !.hist[v] = h]
  BY Zenon DEF SetHistorical
<1>2. /\ DOMAIN h = DOMAIN d.hist[v] \cup {p} /\ h[p].ratio = ratio
      /\ \A q \in DOMAIN d.hist[v] : q # p => h[q] = d.hist[v][q]
  OBVIOUS
<1> HIDE DEF h
<1>3. e.hist[v] = h /\ \A w \in Validators : w # v => e.hist[w] = d.hist[w]
  BY <1>1 DEF DistOK
<1> QED BY <1>2, <1>3 DEF Ratio, Historical

LEMMA DeleteHistoricalRatio ==
    ASSUME NEW d, DistOK(d), NEW v \in Validators, NEW p,
           NEW e, e = DeleteHistorical(d, v, p)
    PROVE  /\ \A w \in Validators : w # v => e.hist[w] = d.hist[w]
           /\ \A q : q # p => Ratio(e, v, q) = Ratio(d, v, q)
<1> DEFINE h == [q \in DOMAIN d.hist[v] \ {p} |-> d.hist[v][q]]
<1>1. e = [d EXCEPT !.hist[v] = h]
  BY Zenon DEF DeleteHistorical
<1>2. /\ DOMAIN h = DOMAIN d.hist[v] \ {p}
      /\ \A q \in DOMAIN d.hist[v] : q # p => h[q] = d.hist[v][q]
  OBVIOUS
<1> HIDE DEF h
<1>3. e.hist[v] = h /\ \A w \in Validators : w # v => e.hist[w] = d.hist[w]
  BY <1>1 DEF DistOK
<1> QED BY <1>2, <1>3 DEF Ratio, Historical

LEMMA DecrementRatio ==
    ASSUME NEW d, DistOK(d), NEW v \in Validators, NEW p \in Nat, Refs(d, v, p) # 0,
           NEW e, e = DecrementReferenceCount(d, v, p)
    PROVE  /\ \A w \in Validators : w # v => e.hist[w] = d.hist[w]
           /\ \A q : q # p => Ratio(e, v, q) = Ratio(d, v, q)
           /\ Refs(d, v, p) # 1 => Ratio(e, v, p) = Ratio(d, v, p)
<1> DEFINE old == Historical(d, v, p)
           r == old.ratio
           n == old.refs - 1
<1>1. CASE old.refs = 1
  <2>1. e = DeleteHistorical(d, v, p)
    BY <1>1, Zenon DEF DecrementReferenceCount, Refs
  <2> QED BY <1>1, <2>1, DeleteHistoricalRatio DEF Refs
<1>2. CASE old.refs # 1
  <2>1. e = SetHistorical(d, v, p, r, n)
    BY <1>2, Zenon DEF DecrementReferenceCount, Refs
  <2>2. r = Ratio(d, v, p)
    BY DEF Ratio
  <2> HIDE DEF old, r, n
  <2> QED BY <2>1, <2>2, SetHistoricalRatio
<1> QED BY <1>1, <1>2

LEMMA IncrementRatio ==
    ASSUME NEW d, DistOK(d), NEW v \in Validators, NEW p \in Nat, Refs(d, v, p) <= 2,
           NEW e, e = IncrementReferenceCount(d, v, p)
    PROVE  /\ \A w \in Validators : w # v => e.hist[w] = d.hist[w]
           /\ \A q : Ratio(e, v, q) = Ratio(d, v, q)
<1> DEFINE old == Historical(d, v, p)
           r == old.ratio
           n == old.refs + 1
<1>1. ~ (old.refs > 2)
  BY HistoricalType DEF HistoricalRewards, Refs
<1>2. e = SetHistorical(d, v, p, r, n)
  BY <1>1, Zenon DEF IncrementReferenceCount
<1>3. r = Ratio(d, v, p)
  BY DEF Ratio
<1> HIDE DEF old, r, n
<1> QED BY <1>2, <1>3, SetHistoricalRatio

-----------------------------------------------------------------------------
\* What is outstanding and what has been paid, in all.

LEMMA BooksTotal ==
    ASSUME NEW d, DistOK(d)
    PROVE  /\ Held(d) \in Nat /\ PaidOut(d) \in Nat
           /\ d.pool \in Nat /\ d.funds \in Nat
           /\ \A v \in Validators : d.outst[v] \in Nat /\ d.outst[v] <= Held(d)
<1>1. /\ \A v \in Validators : d.outst[v] \in Nat
      /\ \A a \in Accounts : d.paid[a] \in Nat
      /\ d.pool \in Nat /\ d.funds \in Nat
  BY TypeBooks DEF Books
<1> QED BY <1>1, FiniteAddresses, SumNatural, SumAtLeast DEF Held, PaidOut

LEMMA SettlesMove ==
    ASSUME NEW d, DistOK(d), NEW e, DistOK(e), NEW v \in Validators, NEW a \in Accounts,
           NEW x \in Nat, NEW y \in Nat, NEW c \in Nat, x = y + c * Unit,
           e.outst = [d.outst EXCEPT ![v] = @ - x], e.pool = d.pool + y,
           e.funds = d.funds - c, e.paid = [d.paid EXCEPT ![a] = @ + c]
    PROVE  Settles(d, e)
<1>1. /\ d.outst \in [Validators -> Nat] /\ e.outst \in [Validators -> Nat]
      /\ d.paid \in [Accounts -> Nat] /\ e.paid \in [Accounts -> Nat]
  BY TypeBooks DEF Books
<1>2. Held(e) = Held(d) - x
  <2> DEFINE F == d.outst
             G == e.outst
  <2>1. Held(e) = Held(d) - F[v] + G[v]
    <3>1. \A w \in Validators : F[w] \in Int /\ G[w] \in Int
      BY <1>1
    <3>2. \A w \in Validators \ {v} : F[w] = G[w]
      BY <1>1
    <3>3. Held(e) = SumFunctionOnSet(G, Validators) /\ Held(d) = SumFunctionOnSet(F, Validators)
      BY DEF Held
    <3> HIDE DEF F, G
    <3>4. SumFunctionOnSet(G, Validators) = SumFunctionOnSet(F, Validators) - F[v] + G[v]
      BY <3>1, <3>2, FiniteAddresses, SumChanged
    <3> QED BY <3>3, <3>4
  <2>2. e.outst[v] = d.outst[v] - x
    BY <1>1
  <2> QED BY <1>1, <2>1, <2>2, BooksTotal
<1>3. PaidOut(e) = PaidOut(d) + c
  <2> DEFINE F == d.paid
             G == e.paid
  <2>1. PaidOut(e) = PaidOut(d) - F[a] + G[a]
    <3>1. \A b \in Accounts : F[b] \in Int /\ G[b] \in Int
      BY <1>1
    <3>2. \A b \in Accounts \ {a} : F[b] = G[b]
      BY <1>1
    <3>3. PaidOut(e) = SumFunctionOnSet(G, Accounts) /\ PaidOut(d) = SumFunctionOnSet(F, Accounts)
      BY DEF PaidOut
    <3> HIDE DEF F, G
    <3>4. SumFunctionOnSet(G, Accounts) = SumFunctionOnSet(F, Accounts) - F[a] + G[a]
      BY <3>1, <3>2, FiniteAddresses, SumChanged
    <3> QED BY <3>3, <3>4
  <2>2. e.paid[a] = d.paid[a] + c
    BY <1>1
  <2> QED BY <1>1, <2>1, <2>2, BooksTotal
<1>4. /\ Held(d) \in Nat /\ PaidOut(d) \in Nat /\ d.pool \in Nat /\ d.funds \in Nat
      /\ c * Unit \in Nat
  BY BooksTotal, Distributes, UnitAssumption
<1>5. PaidOut(e) - PaidOut(d) = c
  BY <1>3, <1>4
<1>6. /\ Held(e) <= Held(d) /\ e.pool >= d.pool /\ PaidOut(e) >= PaidOut(d)
      /\ Held(e) + e.pool = Held(d) + d.pool - c * Unit
  BY <1>2, <1>3, <1>4
<1> QED BY <1>5, <1>6 DEF Settles

LEMMA SettlesNothing ==
    ASSUME NEW d, DistOK(d), NEW e, e.outst = d.outst, e.pool = d.pool,
           e.funds = d.funds, e.paid = d.paid
    PROVE  Settles(d, e)
<1>1. Held(e) = Held(d) /\ PaidOut(e) = PaidOut(d)
  BY DEF Held, PaidOut
<1>2. Held(d) \in Nat /\ PaidOut(d) \in Nat /\ d.pool \in Nat /\ d.funds \in Nat
  BY BooksTotal
<1> QED BY <1>1, <1>2, UnitAssumption DEF Settles

LEMMA SettlesTwice ==
    ASSUME NEW d, DistOK(d), NEW e, DistOK(e), NEW f, DistOK(f),
           Settles(d, e), Settles(e, f)
    PROVE  Settles(d, f)
<1> DEFINE x == PaidOut(e) - PaidOut(d)
           y == PaidOut(f) - PaidOut(e)
<1>1. /\ Held(d) \in Nat /\ Held(e) \in Nat /\ Held(f) \in Nat
      /\ PaidOut(d) \in Nat /\ PaidOut(e) \in Nat /\ PaidOut(f) \in Nat
      /\ d.pool \in Nat /\ e.pool \in Nat /\ f.pool \in Nat
      /\ d.funds \in Nat /\ e.funds \in Nat /\ f.funds \in Nat
  BY BooksTotal
<1>2. x \in Int /\ y \in Int /\ PaidOut(f) - PaidOut(d) = x + y
  BY <1>1
<1>3. (x + y) * Unit = x * Unit + y * Unit /\ x * Unit \in Int /\ y * Unit \in Int
  <2> HIDE DEF x, y
  <2> QED BY <1>2, UnitAssumption
<1>4. /\ e.funds = d.funds - x /\ f.funds = e.funds - y
      /\ Held(e) + e.pool = Held(d) + d.pool - x * Unit
      /\ Held(f) + f.pool = Held(e) + e.pool - y * Unit
  BY DEF Settles
<1>5. /\ Held(f) <= Held(d) /\ f.pool >= d.pool /\ PaidOut(f) >= PaidOut(d)
  BY <1>1 DEF Settles
<1> HIDE DEF x, y
<1>6. /\ f.funds = d.funds - (x + y)
      /\ Held(f) + f.pool = Held(d) + d.pool - (x + y) * Unit
  <2> DEFINE xu == x * Unit
             yu == y * Unit
  <2>1. xu \in Int /\ yu \in Int /\ (x + y) * Unit = xu + yu
    BY <1>3
  <2>2. /\ Held(e) + e.pool = Held(d) + d.pool - xu
        /\ Held(f) + f.pool = Held(e) + e.pool - yu
    BY <1>4
  <2> HIDE DEF xu, yu
  <2>3. Held(f) + f.pool = Held(d) + d.pool - (xu + yu)
    BY <1>1, <2>1, <2>2
  <2>4. f.funds = d.funds - (x + y)
    BY <1>1, <1>2, <1>4
  <2> QED BY <2>1, <2>3, <2>4
<1> QED BY <1>2, <1>5, <1>6 DEF Settles

LEMMA SettlesFunded ==
    ASSUME NEW d, DistOK(d), NEW e, DistOK(e), Settles(d, e), Funded(d)
    PROVE  Funded(e)
<1> DEFINE x == PaidOut(e) - PaidOut(d)
<1>1. /\ Held(d) \in Nat /\ Held(e) \in Nat /\ d.pool \in Nat /\ e.pool \in Nat
      /\ d.funds \in Nat /\ e.funds \in Nat /\ x \in Int
  BY BooksTotal
<1>2. e.funds = d.funds - x /\ Held(e) + e.pool = Held(d) + d.pool - x * Unit
  BY DEF Settles
<1> HIDE DEF x
<1>3. /\ (d.funds - x) * Unit = d.funds * Unit - x * Unit
      /\ d.funds * Unit \in Int /\ x * Unit \in Int
  BY <1>1, UnitAssumption
<1> DEFINE xu == x * Unit
           du == d.funds * Unit
           eu == e.funds * Unit
<1>4. eu = du - xu /\ du \in Int /\ xu \in Int
  BY <1>2, <1>3
<1>5. du = Held(d) + d.pool /\ Held(e) + e.pool = Held(d) + d.pool - xu
  BY <1>2 DEF Funded
<1> HIDE DEF xu, du
<1>6. eu = Held(e) + e.pool
  BY <1>1, <1>4, <1>5
<1> QED BY <1>6 DEF Funded

\* No validator has more outstanding than the module account holds.
LEMMA FundsSuffice ==
    ASSUME NEW d, DistOK(d), Funded(d), NEW v \in Validators, NEW x \in Nat,
           x <= d.outst[v]
    PROVE  x \div Unit <= d.funds
<1>1. /\ Held(d) \in Nat /\ d.pool \in Nat /\ d.funds \in Nat
      /\ d.outst[v] \in Nat /\ d.outst[v] <= Held(d)
  BY BooksTotal
<1>2. x <= d.funds * Unit
  BY <1>1 DEF Funded
<1>3. \A u \in Nat \ {0}, f \in Nat : x <= f * u => x \div u <= f
  OBVIOUS
<1> QED BY <1>1, <1>2, <1>3, UnitAssumption

-----------------------------------------------------------------------------
\* What the delegations may claim.

\* The delegations of D to v have their starting info.
Started(d, D, v) == \A pair \in D : pair[2] = v => d.start[pair] # NoInfo

LEMMA ClaimType ==
    ASSUME NEW d, DistOK(d), NEW pair \in Pairs, d.start[pair] # NoInfo
    PROVE  /\ d.start[pair] \in StartingInfo
           /\ d.start[pair].stake \in Nat /\ d.start[pair].period \in Nat
           /\ d.start[pair].height \in Nat
           /\ pair[2] \in Validators /\ Closed(d, pair[2]) \in Nat
           /\ Ratio(d, pair[2], d.start[pair].period) \in Nat
           /\ Ratio(d, pair[2], Closed(d, pair[2])) \in Nat
           /\ Claim(d, pair) \in Int
           /\ Ratio(d, pair[2], d.start[pair].period)
                <= Ratio(d, pair[2], Closed(d, pair[2])) => Claim(d, pair) \in Nat
<1> DEFINE k == d.start[pair].stake
           x == Ratio(d, pair[2], Closed(d, pair[2]))
           y == Ratio(d, pair[2], d.start[pair].period)
<1>1. d.start[pair] \in StartingInfo /\ pair[2] \in Validators
  BY DEF DistOK, Pairs
<1>2. /\ k \in Nat /\ d.start[pair].period \in Nat /\ d.start[pair].height \in Nat
      /\ Closed(d, pair[2]) \in Nat
  BY <1>1 DEF StartingInfo, DistOK, Closed
<1>3. x \in Nat /\ y \in Nat
  BY <1>1, <1>2, RatioType
<1>4. Claim(d, pair) = k * (x - y)
  BY DEF Claim
<1> HIDE DEF k, x, y
<1>5. x - y \in Int /\ (y <= x => x - y \in Nat)
  BY <1>3
<1>6. Claim(d, pair) \in Int /\ (y <= x => Claim(d, pair) \in Nat)
  BY <1>2, <1>4, <1>5, Distributes
<1> QED BY <1>1, <1>2, <1>3, <1>6 DEF k, x, y

LEMMA PairOf ==
    ASSUME NEW pair \in Pairs
    PROVE  pair[1] \in Accounts /\ pair[2] \in Validators /\ <<pair[1], pair[2]>> = pair
  BY DEF Pairs

LEMMA ClaimsType ==
    ASSUME NEW d, DistOK(d), NEW D \in SUBSET Pairs, NEW v \in Validators,
           Started(d, D, v)
    PROVE  /\ \A a \in Accounts : Claims(d, D, v)[a] \in Int
           /\ Claimed(d, D, v) \in Int
<1>1. ASSUME NEW a \in Accounts PROVE Claims(d, D, v)[a] \in Int
  <2>1. CASE <<a, v>> \in D
    <3>1. <<a, v>> \in Pairs /\ d.start[<<a, v>>] # NoInfo
      BY <2>1 DEF Started
    <3> QED BY <2>1, <3>1, ClaimType DEF Claims
  <2>2. CASE <<a, v>> \notin D
    BY <2>2 DEF Claims
  <2> QED BY <2>1, <2>2
<1> QED BY <1>1, FiniteAddresses, SumType DEF Claimed

LEMMA SolventStarted ==
    ASSUME NEW d, DistOK(d), NEW s, NEW V, NEW D \in SUBSET Pairs, NEW h, Sound(d, s, V, D, h),
           NEW v \in V
    PROVE  Started(d, D, v)
  BY DEF Sound, Counted, Started

\* No delegation may claim more than all of them.
LEMMA ClaimCovered ==
    ASSUME NEW d, DistOK(d), NEW s, NEW D \in SUBSET Pairs, NEW h, NEW v \in Validators,
           Started(d, D, v), SolventAt(d, s, D, h, v)
    PROVE  /\ Claimed(d, D, v) \in Nat
           /\ \A pair \in D : pair[2] = v =>
                Claim(d, pair) \in Nat /\ Claim(d, pair) <= Claimed(d, D, v)
<1>1. ASSUME NEW pair \in D, pair[2] = v PROVE Claim(d, pair) \in Nat
  BY <1>1, ClaimType DEF SolventAt, Started
<1>2. ASSUME NEW a \in Accounts PROVE Claims(d, D, v)[a] \in Nat
  BY <1>1 DEF Claims
<1>3. Claimed(d, D, v) \in Nat
  BY <1>2, FiniteAddresses, SumNatural DEF Claimed
<1>4. ASSUME NEW pair \in D, pair[2] = v PROVE Claim(d, pair) <= Claimed(d, D, v)
  <2>1. pair[1] \in Accounts /\ <<pair[1], v>> = pair
    BY <1>4, PairOf
  <2>2. Claims(d, D, v)[pair[1]] = Claim(d, pair)
    BY <2>1 DEF Claims
  <2> QED BY <1>2, <2>1, <2>2, FiniteAddresses, SumAtLeast DEF Claimed
<1> QED BY <1>1, <1>3, <1>4

LEMMA ClaimedSame ==
    ASSUME NEW d, NEW D \in SUBSET Pairs, NEW v \in Validators, NEW e, NEW E \in SUBSET Pairs,
           \A a \in Accounts :
             (IF <<a, v>> \in E THEN Claim(e, <<a, v>>) ELSE 0)
               = IF <<a, v>> \in D THEN Claim(d, <<a, v>>) ELSE 0
    PROVE  Claimed(e, E, v) = Claimed(d, D, v)
<1> DEFINE F == Claims(e, E, v)
           G == Claims(d, D, v)
<1>1. \A a \in Accounts : F[a] = G[a]
  BY DEF Claims
<1> HIDE DEF F, G
<1>2. SumFunctionOnSet(F, Accounts) = SumFunctionOnSet(G, Accounts)
  BY <1>1, FiniteAddresses, SumSame
<1> QED BY <1>2 DEF Claimed, F, G

\* A delegation that leaves takes its claim along.
LEMMA ClaimedLeave ==
    ASSUME NEW d, DistOK(d), NEW D \in SUBSET Pairs, NEW pair \in D, Started(d, D, pair[2])
    PROVE  Claimed(d, D \ {pair}, pair[2]) = Claimed(d, D, pair[2]) - Claim(d, pair)
<1> DEFINE v == pair[2]
           F == Claims(d, D, v)
           G == Claims(d, D \ {pair}, v)
<1>1. pair[1] \in Accounts /\ v \in Validators /\ <<pair[1], v>> = pair
  BY PairOf
<1>2. F[pair[1]] = Claim(d, pair) /\ G[pair[1]] = 0
  BY <1>1 DEF Claims
<1>3. \A a \in Accounts \ {pair[1]} : F[a] = G[a]
  BY <1>1 DEF Claims
<1>4. \A a \in Accounts : F[a] \in Int
  BY <1>1, ClaimsType
<1>5. \A a \in Accounts : G[a] \in Int
  BY <1>1, ClaimsType DEF Started
<1>6. SumFunctionOnSet(F, Accounts) \in Int /\ Claim(d, pair) \in Int
  BY <1>1, ClaimsType, ClaimType DEF Claimed, Started
<1> HIDE DEF F, G
<1>7. SumFunctionOnSet(G, Accounts) = SumFunctionOnSet(F, Accounts) - F[pair[1]] + G[pair[1]]
  BY <1>1, <1>3, <1>4, <1>5, FiniteAddresses, SumChanged
<1>8. SumFunctionOnSet(G, Accounts) = SumFunctionOnSet(F, Accounts) - Claim(d, pair)
  BY <1>2, <1>6, <1>7
<1> QED BY <1>8 DEF Claimed, F, G

\* From d to e every claim on v grows by k for each share.
Grows(d, s, e, D, v, k) ==
    \A pair \in D : pair[2] = v =>
      /\ d.start[pair].stake = s.shares[pair]
      /\ Claim(e, pair) = Claim(d, pair) + d.start[pair].stake * k

(***************************************************************************)
(* When the ratio of v grows by k, the claims grow by k times the stakes,  *)
(* which are the validator's tokens at most.                               *)
(***************************************************************************)
LEMMA ClaimedGrow ==
    ASSUME NEW d, DistOK(d), NEW s, StakOK(s), Backed(s), NEW D \in SUBSET Pairs,
           NEW v \in Validators, Started(d, D, v), NEW e, NEW k \in Nat,
           Grows(d, s, e, D, v, k)
    PROVE  /\ Claimed(e, D, v) \in Int
           /\ Claimed(e, D, v) <= Claimed(d, D, v) + k * s.tokens[v]
<1> DEFINE F == Claims(d, D, v)
           S == Shares(s, v)
           G == [a \in Accounts |-> k * S[a]]
           H == [a \in Accounts |-> F[a] + G[a]]
           E == Claims(e, D, v)
<1>1. \A a \in Accounts : F[a] \in Int
  BY ClaimsType
<1>2. \A a \in Accounts : S[a] \in Nat /\ S[a] \in Int
  <2> SUFFICES ASSUME NEW a \in Accounts PROVE S[a] \in Nat
    OBVIOUS
  <2>1. <<a, v>> \in Pairs /\ S[a] = s.shares[<<a, v>>]
    BY DEF Shares, Pairs
  <2>2. s.shares[<<a, v>>] \in Nat
    BY <2>1 DEF StakOK
  <2> QED BY <2>1, <2>2
<1>0. k \in Int
  OBVIOUS
<1>3. \A a \in Accounts : G[a] = k * S[a] /\ G[a] \in Nat
  BY <1>2, Distributes
<1>4. \A a \in Accounts : H[a] = F[a] + G[a] /\ H[a] \in Int
  BY <1>1, <1>3
<1>5. ASSUME NEW a \in Accounts PROVE E[a] \in Int /\ E[a] <= H[a]
  <2>1. CASE <<a, v>> \in D
    <3>1. /\ E[a] = Claim(e, <<a, v>>) /\ F[a] = Claim(d, <<a, v>>)
          /\ S[a] = s.shares[<<a, v>>]
      BY <2>1 DEF Claims, Shares
    <3>2. Claim(e, <<a, v>>) = Claim(d, <<a, v>>) + S[a] * k
      BY <2>1, <3>1 DEF Grows
    <3> HIDE DEF E, F, G, H, S
    <3>3. S[a] * k = G[a]
      <4>1. S[a] \in Int /\ k \in Int
        BY <1>0, <1>2, Zenon
      <4>2. G[a] = k * S[a]
        BY <1>3, Zenon
      <4>3. k * S[a] = S[a] * k
        BY <4>1, Distributes, Zenon
      <4> QED BY <4>2, <4>3, Zenon
    <3> QED BY <1>1, <1>3, <1>4, <3>1, <3>2, <3>3
  <2>2. CASE <<a, v>> \notin D
    <3>1. E[a] = 0 /\ F[a] = 0
      BY <2>2 DEF Claims
    <3> HIDE DEF E, F, G, H, S
    <3> QED BY <1>3, <1>4, <3>1
  <2> QED BY <2>1, <2>2
<1>6. Claimed(e, D, v) = SumFunctionOnSet(E, Accounts)
      /\ Claimed(d, D, v) = SumFunctionOnSet(F, Accounts)
      /\ SumFunctionOnSet(S, Accounts) <= s.tokens[v] /\ s.tokens[v] \in Nat
  BY DEF Claimed, Backed, StakOK
<1> HIDE DEF E, F, G, H, S
<1>7. SumFunctionOnSet(E, Accounts) \in Int
  BY <1>5, FiniteAddresses, SumType
<1>8. SumFunctionOnSet(E, Accounts) <= SumFunctionOnSet(H, Accounts)
  BY <1>4, <1>5, FiniteAddresses, SumBounded
<1>9. SumFunctionOnSet(H, Accounts)
        = SumFunctionOnSet(F, Accounts) + SumFunctionOnSet(G, Accounts)
  BY <1>1, <1>3, <1>4, FiniteAddresses, SumAdded
<1>10. SumFunctionOnSet(G, Accounts) = k * SumFunctionOnSet(S, Accounts)
  <2>1. \A a \in Accounts : S[a] \in Int /\ G[a] = k * S[a]
    BY <1>2, <1>3, Zenon
  <2>2. IsFiniteSet(Accounts)
    BY FiniteAddresses
  <2> HIDE DEF G, S
  <2> QED BY <1>0, <2>1, <2>2, SumScaled
<1>11. k * SumFunctionOnSet(S, Accounts) <= k * s.tokens[v]
  <2>1. SumFunctionOnSet(S, Accounts) \in Int
    BY <1>2, FiniteAddresses, SumType
  <2> QED BY <1>6, <2>1, Multiplied
<1>12. /\ SumFunctionOnSet(F, Accounts) \in Int
       /\ SumFunctionOnSet(G, Accounts) \in Int /\ k * s.tokens[v] \in Int
  <2>1. \A a \in Accounts : G[a] \in Int
    BY <1>3
  <2> QED BY <1>0, <1>1, <1>6, <2>1, FiniteAddresses, SumType, Distributes
<1> QED BY <1>6, <1>7, <1>8, <1>9, <1>10, <1>11, <1>12

-----------------------------------------------------------------------------
\* Closing a period.

\* What a validator without tokens leaves to the pool.
Stray(d, s, v) == IF s.tokens[v] = 0 THEN d.rew[v] ELSE 0

LEMMA GrowthType ==
    ASSUME NEW d, DistOK(d), NEW s, StakOK(s), NEW v \in Validators
    PROVE  /\ Growth(d, s, v) \in Nat /\ Stray(d, s, v) \in Nat
           /\ d.rew[v] \in Nat /\ d.comm[v] \in Nat /\ d.outst[v] \in Nat
           /\ s.tokens[v] \in Nat
           /\ Stray(d, s, v) + Growth(d, s, v) * s.tokens[v] <= d.rew[v]
           /\ d.rew[v] = 0 => Growth(d, s, v) = 0
<1>1. /\ d.rew[v] \in Nat /\ d.comm[v] \in Nat /\ d.outst[v] \in Nat
      /\ s.tokens[v] \in Nat
  BY DEF DistOK, StakOK
<1>2. CASE s.tokens[v] = 0
  BY <1>1, <1>2 DEF Growth, Stray
<1>3. CASE s.tokens[v] # 0
  <2>1. /\ d.rew[v] \div s.tokens[v] \in Nat
        /\ (d.rew[v] \div s.tokens[v]) * s.tokens[v] <= d.rew[v]
    BY <1>1, <1>3, DivMod, Quotient
  <2>2. \A b \in Nat \ {0} : 0 \div b = 0
    OBVIOUS
  <2>3. Growth(d, s, v) = d.rew[v] \div s.tokens[v] /\ Stray(d, s, v) = 0
    BY <1>3 DEF Growth, Stray
  <2>4. d.rew[v] = 0 => Growth(d, s, v) = 0
    BY <1>1, <1>3, <2>2, <2>3
  <2>5. Growth(d, s, v) * s.tokens[v] \in Nat
    BY <1>1, <2>1, <2>3, Distributes
  <2> QED BY <1>1, <2>1, <2>3, <2>4, <2>5
<1> QED BY <1>2, <1>3

\* From d to e the open period of v is closed, with delegations D to it: stray
\* is donated and the ratio grows by growth.
ClosesPeriod(d, e, D, v, stray, growth) ==
    /\ e.fault = "none"
    /\ e.start = d.start /\ e.comm = d.comm /\ e.funds = d.funds /\ e.paid = d.paid
    /\ e.period = [d.period EXCEPT ![v] = d.period[v] + 1]
    /\ e.rew = [d.rew EXCEPT ![v] = 0]
    /\ e.outst = [d.outst EXCEPT ![v] = @ - stray]
    /\ e.pool = d.pool + stray
    /\ \A w \in Validators : w # v => e.hist[w] = d.hist[w]
    /\ Ratio(e, v, d.period[v]) = Ratio(d, v, Closed(d, v)) + growth
    /\ \A pair \in D : pair[2] = v =>
         Ratio(e, v, d.start[pair].period) = Ratio(d, v, d.start[pair].period)

LEMMA IncrementBooks ==
    ASSUME NEW d, DistOK(d), NEW s, StakOK(s), NEW V \in SUBSET Validators,
           NEW D \in SUBSET Pairs, NEW v \in V, Counted(d, V, D), d.fault = "none",
           Stray(d, s, v) <= d.outst[v],
           NEW e, e = IncrementValidatorPeriod(d, s, v)
    PROVE  /\ Counted(e, V, D) /\ Fresh(e, D, v)
           /\ ClosesPeriod(d, e, D, v, Stray(d, s, v), Growth(d, s, v))
<1> DEFINE closing == d.period[v]
           before == closing - 1
           stray == Stray(d, s, v)
           ratio == Ratio(d, v, before) + Growth(d, s, v)
           donated == [d EXCEPT !.outst[v] = @ - stray, !.pool = @ + stray]
           released == DecrementReferenceCount(donated, v, before)
           closed == SetHistorical(released, v, closing, ratio, 1)
           last == [closed EXCEPT !.rew[v] = 0, !.period[v] = closing + 1]
<1>1. /\ v \in Validators /\ closing \in Nat \ {0} /\ before \in Nat
      /\ before # closing /\ stray \in Nat /\ stray <= d.outst[v]
      /\ Growth(d, s, v) \in Nat /\ d.outst[v] \in Nat
  <2>1. v \in Validators /\ closing \in Nat \ {0}
    BY DEF DistOK
  <2> QED BY <2>1, GrowthType
<1>2. ratio \in Nat
  <2>1. Ratio(d, v, before) \in Nat
    BY <1>1, RatioType
  <2> QED BY <1>1, <2>1
<1>3. e = last
  <2>1. ~ (stray > d.outst[v])
    BY <1>1
  <2>2. e = IF stray > d.outst[v] THEN Fault(d, "negative coins") ELSE last
    BY Zenon DEF IncrementValidatorPeriod, Stray, Growth, Ratio
  <2> QED BY <2>1, <2>2, Zenon
<1>4. DistOK(donated)
  <2> HIDE DEF stray
  <2> QED BY <1>1, DonateType
<1>5. /\ donated.start = d.start /\ donated.period = d.period
      /\ donated.fault = d.fault /\ donated.hist = d.hist
      /\ donated.comm = d.comm /\ donated.rew = d.rew
      /\ donated.funds = d.funds /\ donated.paid = d.paid
      /\ donated.outst = [d.outst EXCEPT ![v] = @ - stray]
      /\ donated.pool = d.pool + stray
  <2> HIDE DEF stray
  <2> QED BY DEF DistOK
<1> HIDE DEF donated
<1>6. Refs(donated, v, before) = Refs(d, v, before)
      /\ \A q : Ratio(donated, v, q) = Ratio(d, v, q)
  BY <1>5 DEF Refs, Ratio, Historical
<1>7. Refs(d, v, before) = (IF Starts(d, D, v, before) THEN 1 ELSE 0) + 1
  BY <1>1 DEF Counted
<1>8. /\ DistOK(released) /\ released.fault = "none"
      /\ \A w \in Validators : w # v => released.hist[w] = d.hist[w]
      /\ \A q : q # before => Ratio(released, v, q) = Ratio(d, v, q)
      /\ Starts(d, D, v, before) => Ratio(released, v, before) = Ratio(d, v, before)
  <2>1. DistOK(released)
    BY <1>1, <1>4, DecrementReferenceCountType
  <2>2. Refs(donated, v, before) # 0
    BY <1>6, <1>7
  <2>3. released.fault = donated.fault
    BY <1>1, <1>4, <2>2, DecrementEffect DEF Recounts
  <2>4. /\ \A w \in Validators : w # v => released.hist[w] = donated.hist[w]
        /\ \A q : q # before => Ratio(released, v, q) = Ratio(donated, v, q)
        /\ Refs(donated, v, before) # 1 =>
             Ratio(released, v, before) = Ratio(donated, v, before)
    BY <1>1, <1>4, <2>2, DecrementRatio
  <2>5. Starts(d, D, v, before) => Refs(donated, v, before) # 1
    BY <1>6, <1>7
  <2> HIDE DEF released, before
  <2> QED BY <1>5, <1>6, <2>1, <2>3, <2>4, <2>5
<1>9. /\ released.outst = donated.outst /\ released.comm = donated.comm
      /\ released.rew = donated.rew /\ released.period = donated.period
      /\ released.start = donated.start /\ released.pool = donated.pool
      /\ released.funds = donated.funds /\ released.paid = donated.paid
  BY <1>1, <1>4, CountsKeepBooks
<1> HIDE DEF released, ratio
<1>10. /\ DistOK(closed)
       /\ \A w \in Validators : w # v => closed.hist[w] = released.hist[w]
       /\ Ratio(closed, v, closing) = ratio
       /\ \A q : q # closing => Ratio(closed, v, q) = Ratio(released, v, q)
  <2>1. 1 \in Nat /\ closing \in Nat
    BY <1>1
  <2>2. DistOK(closed)
    BY <1>1, <1>2, <1>8, <2>1, SetHistoricalType
  <2> HIDE DEF closing
  <2> QED BY <1>1, <1>8, <2>2, SetHistoricalRatio
<1>11. /\ closed.outst = released.outst /\ closed.comm = released.comm
       /\ closed.rew = released.rew /\ closed.period = released.period
       /\ closed.start = released.start /\ closed.pool = released.pool
       /\ closed.funds = released.funds /\ closed.paid = released.paid
       /\ closed.fault = released.fault
  BY <1>8 DEF SetHistorical, DistOK
<1> HIDE DEF closed
<1>12. /\ e.start = closed.start /\ e.comm = closed.comm /\ e.funds = closed.funds
       /\ e.paid = closed.paid /\ e.outst = closed.outst /\ e.pool = closed.pool
       /\ e.fault = closed.fault /\ e.hist = closed.hist
       /\ e.period = [closed.period EXCEPT ![v] = closing + 1]
       /\ e.rew = [closed.rew EXCEPT ![v] = 0]
  BY <1>3, <1>10 DEF DistOK
<1>13. \A q : Ratio(e, v, q) = Ratio(closed, v, q)
  BY <1>12 DEF Ratio, Historical
<1>14. e.fault = "none" /\ Counted(e, V, D) /\ Fresh(e, D, v)
  <2>1. Safe(d, V, D)
    BY DEF Safe, RefFaults
  <2>2. e.fault = "none"
    BY <1>8, <1>11, <1>12
  <2>3. Safe(e, V, D) /\ Fresh(e, D, v)
    BY <2>1, <2>2, IncrementValidatorPeriodSafe
  <2> QED BY <2>2, <2>3 DEF Safe
<1>15. ASSUME NEW pair \in D, pair[2] = v
       PROVE  Ratio(e, v, d.start[pair].period) = Ratio(d, v, d.start[pair].period)
  <2> DEFINE p == d.start[pair].period
  <2>1. p # closing
    <3>1. p < closing /\ d.start[pair] # NoInfo
      BY <1>15 DEF Counted
    <3>2. p \in Nat
      BY <3>1, ClaimType
    <3> QED BY <1>1, <3>1, <3>2
  <2>2. p = before => Starts(d, D, v, before)
    BY <1>15 DEF Starts
  <2> HIDE DEF p, before
  <2>3. Ratio(released, v, p) = Ratio(d, v, p)
    BY <1>8, <2>2
  <2> QED BY <1>10, <1>13, <2>1, <2>3 DEF p
<1>16. Ratio(e, v, closing) = Ratio(d, v, Closed(d, v)) + Growth(d, s, v)
  BY <1>10, <1>13 DEF ratio, Closed
<1> HIDE DEF stray
<1>17. /\ e.start = d.start /\ e.comm = d.comm
       /\ e.funds = d.funds /\ e.paid = d.paid
       /\ e.period = [d.period EXCEPT ![v] = closing + 1]
       /\ e.rew = [d.rew EXCEPT ![v] = 0]
       /\ e.outst = [d.outst EXCEPT ![v] = @ - stray]
       /\ e.pool = d.pool + stray
       /\ \A w \in Validators : w # v => e.hist[w] = d.hist[w]
  BY <1>5, <1>8, <1>9, <1>10, <1>11, <1>12
<1> QED BY <1>14, <1>15, <1>16, <1>17 DEF ClosesPeriod, stray

-----------------------------------------------------------------------------
\* The other validators are not concerned.

LEMMA ElsewhereSame ==
    ASSUME NEW d, NEW e, NEW v, OnlyAt(d, e, v), NEW pair \in Pairs, pair[2] # v
    PROVE  /\ e.start[pair] = d.start[pair] /\ Claim(e, pair) = Claim(d, pair)
           /\ e.rew[pair[2]] = d.rew[pair[2]]
           /\ \A q : Ratio(e, pair[2], q) = Ratio(d, pair[2], q)
           /\ Closed(e, pair[2]) = Closed(d, pair[2])
<1>1. pair[2] \in Validators \ {v}
  BY PairOf
<1>2. /\ e.start[pair] = d.start[pair] /\ e.rew[pair[2]] = d.rew[pair[2]]
      /\ e.hist[pair[2]] = d.hist[pair[2]] /\ e.period[pair[2]] = d.period[pair[2]]
  BY <1>1 DEF OnlyAt
<1> QED BY <1>2 DEF Claim, Ratio, Historical, Closed

LEMMA SolventElsewhere ==
    ASSUME NEW d, NEW s, NEW D \in SUBSET Pairs, NEW h, NEW e, NEW t, NEW E \in SUBSET Pairs,
           NEW v, NEW w \in Validators \ {v}, OnlyAt(d, e, v),
           \A pair \in Pairs : pair[2] = w =>
             (pair \in E <=> pair \in D) /\ t.shares[pair] = s.shares[pair],
           SolventAt(d, s, D, h, w)
    PROVE  SolventAt(e, t, E, h, w)
<1>1. /\ e.outst[w] = d.outst[w] /\ e.comm[w] = d.comm[w] /\ e.rew[w] = d.rew[w]
      /\ e.hist[w] = d.hist[w] /\ e.period[w] = d.period[w]
  BY DEF OnlyAt
<1>2. \A q : Ratio(e, w, q) = Ratio(d, w, q)
  BY <1>1 DEF Ratio, Historical
<1>3. \A pair \in Pairs : pair[2] = w =>
        e.start[pair] = d.start[pair] /\ Claim(e, pair) = Claim(d, pair)
  BY ElsewhereSame
<1>4. Claimed(e, E, w) = Claimed(d, D, w)
  <2>1. \A a \in Accounts : <<a, w>> \in Pairs /\ <<a, w>>[2] = w
    BY DEF Pairs
  <2>2. \A a \in Accounts :
          (IF <<a, w>> \in E THEN Claim(e, <<a, w>>) ELSE 0)
            = IF <<a, w>> \in D THEN Claim(d, <<a, w>>) ELSE 0
    BY <1>3, <2>1
  <2> QED BY <2>2, ClaimedSame
<1>5. Closed(e, w) = Closed(d, w)
  BY <1>1 DEF Closed
<1>6. ASSUME NEW pair \in E, pair[2] = w
      PROVE  /\ e.start[pair].stake = t.shares[pair]
             /\ e.start[pair].height <= h
             /\ Ratio(e, w, e.start[pair].period) <= Ratio(e, w, Closed(e, w))
             /\ e.start[pair].height = h => e.rew[w] = 0 /\ Claim(e, pair) = 0
  <2>1. /\ pair \in D /\ e.start[pair] = d.start[pair] /\ Claim(e, pair) = Claim(d, pair)
        /\ t.shares[pair] = s.shares[pair]
    BY <1>3, <1>6
  <2>2. /\ d.start[pair].stake = s.shares[pair]
        /\ d.start[pair].height <= h
        /\ Ratio(d, w, d.start[pair].period) <= Ratio(d, w, Closed(d, w))
        /\ d.start[pair].height = h => d.rew[w] = 0 /\ Claim(d, pair) = 0
    BY <1>6, <2>1 DEF SolventAt
  <2> QED BY <1>1, <1>2, <1>5, <2>1, <2>2
<1>7. e.comm[w] + e.rew[w] + Claimed(e, E, w) <= e.outst[w]
  BY <1>1, <1>4 DEF SolventAt
<1> QED BY <1>6, <1>7 DEF SolventAt

LEMMA OnlyAtTwice ==
    ASSUME NEW d, NEW e, NEW f, NEW v, OnlyAt(d, e, v), OnlyAt(e, f, v)
    PROVE  OnlyAt(d, f, v)
  BY DEF OnlyAt

\* From d to e the open period of v is closed, and everything stays due.
Advanced(d, s, e, V, D, v, h) ==
    /\ DistOK(e) /\ Sound(e, s, V, D, h) /\ Fresh(e, D, v)
    /\ OnlyAt(d, e, v) /\ Settles(d, e)
    /\ e.start = d.start /\ e.paid = d.paid /\ e.comm = d.comm
    /\ e.rew[v] = 0 /\ Closed(e, v) = d.period[v]
    /\ \A pair \in D : Earned(e, s, pair) = Earned(d, s, pair)

(***************************************************************************)
(* Closing the period of v keeps the books sound: each claim grows by what *)
(* its tokens earned, all of them by the rewards of the period at most.    *)
(***************************************************************************)
LEMMA IncrementSound ==
    ASSUME NEW d, DistOK(d), NEW s, StakOK(s), Backed(s), NEW V \in SUBSET Validators,
           NEW D \in SUBSET Pairs, NEW v \in V, NEW h \in Nat, Sound(d, s, V, D, h),
           NEW e, e = IncrementValidatorPeriod(d, s, v)
    PROVE  Advanced(d, s, e, V, D, v, h)
<1> DEFINE k == Growth(d, s, v)
           stray == Stray(d, s, v)
<1>1. /\ d.fault = "none" /\ Counted(d, V, D) /\ v \in Validators /\ Started(d, D, v)
      /\ SolventAt(d, s, D, h, v)
  BY SolventStarted DEF Sound
<1>2. /\ k \in Nat /\ stray \in Nat
      /\ d.rew[v] \in Nat /\ d.comm[v] \in Nat /\ d.outst[v] \in Nat
      /\ s.tokens[v] \in Nat /\ stray + k * s.tokens[v] <= d.rew[v]
      /\ d.rew[v] = 0 => k = 0
  BY <1>1, GrowthType
<1>3. /\ Claimed(d, D, v) \in Nat
      /\ d.comm[v] + d.rew[v] + Claimed(d, D, v) <= d.outst[v]
  <2>1. Claimed(d, D, v) \in Nat
    BY <1>1, ClaimCovered
  <2> QED BY <1>1, <2>1 DEF SolventAt
<1> HIDE DEF k, stray
<1>4. stray <= d.outst[v]
  <2>1. k * s.tokens[v] \in Nat
    BY <1>2, Distributes
  <2> QED BY <1>2, <1>3, <2>1
<1>0. Counted(e, V, D) /\ Fresh(e, D, v) /\ ClosesPeriod(d, e, D, v, stray, k)
  <2>1. Stray(d, s, v) <= d.outst[v]
    BY <1>4 DEF stray
  <2>2. /\ Counted(e, V, D) /\ Fresh(e, D, v)
        /\ ClosesPeriod(d, e, D, v, Stray(d, s, v), Growth(d, s, v))
    BY <1>1, <2>1, IncrementBooks
  <2> QED BY <2>2 DEF k, stray
<1>5. /\ e.fault = "none" /\ e.start = d.start /\ e.comm = d.comm
      /\ e.funds = d.funds /\ e.paid = d.paid
      /\ e.period = [d.period EXCEPT ![v] = d.period[v] + 1]
      /\ e.rew = [d.rew EXCEPT ![v] = 0]
      /\ e.outst = [d.outst EXCEPT ![v] = @ - stray]
      /\ e.pool = d.pool + stray
      /\ \A w \in Validators : w # v => e.hist[w] = d.hist[w]
      /\ Ratio(e, v, d.period[v]) = Ratio(d, v, Closed(d, v)) + k
      /\ \A pair \in D : pair[2] = v =>
           Ratio(e, v, d.start[pair].period) = Ratio(d, v, d.start[pair].period)
  BY <1>0 DEF ClosesPeriod
<1>6. /\ e.period[v] = d.period[v] + 1 /\ e.rew[v] = 0
      /\ e.outst[v] = d.outst[v] - stray /\ d.period[v] \in Nat
  BY <1>1, <1>5 DEF DistOK
<1>7. Closed(e, v) = d.period[v]
  BY <1>6 DEF Closed
<1>8. OnlyAt(d, e, v)
  BY <1>5 DEF OnlyAt, DistOK
<1>9. DistOK(e)
  BY <1>1, IncrementValidatorPeriodType
<1>10. Settles(d, e)
  <2>1. stray = stray + 0 * Unit /\ 0 \in Nat
    BY <1>2, UnitAssumption
  <2>2. v \in Accounts
    BY <1>1, FiniteAddresses
  <2>3. e.funds = d.funds - 0 /\ e.paid = [d.paid EXCEPT ![v] = @ + 0]
    <3>1. d.funds \in Nat /\ d.paid \in [Accounts -> Nat]
      BY TypeBooks DEF Books
    <3>2. [d.paid EXCEPT ![v] = @ + 0] = d.paid
      BY <2>2, <3>1
    <3> QED BY <1>5, <3>1, <3>2
  <2> QED BY <1>1, <1>2, <1>5, <1>9, <2>1, <2>2, <2>3, SettlesMove
<1>11. ASSUME NEW pair \in D, pair[2] = v
       PROVE  /\ Claim(e, pair) = Claim(d, pair) + d.start[pair].stake * k
              /\ Ratio(e, v, e.start[pair].period) <= Ratio(e, v, Closed(e, v))
  <2> DEFINE st == d.start[pair].stake
             x == Ratio(d, v, Closed(d, v))
             y == Ratio(d, v, d.start[pair].period)
  <2>1. st \in Nat /\ x \in Nat /\ y \in Nat /\ y <= x
    BY <1>1, <1>11, ClaimType DEF Started, SolventAt
  <2>2. Claim(d, pair) = st * (x - y)
    BY <1>11 DEF Claim
  <2>3. /\ Ratio(e, v, Closed(e, v)) = x + k
        /\ Ratio(e, v, e.start[pair].period) = y
    BY <1>5, <1>7, <1>11
  <2>4. Claim(e, pair) = st * ((x + k) - y)
    <3>1. e.start[pair].stake = st
      BY <1>5
    <3>2. Claim(e, pair) = e.start[pair].stake *
            (Ratio(e, v, Closed(e, v)) - Ratio(e, v, e.start[pair].period))
      BY <1>11, Zenon DEF Claim
    <3> HIDE DEF st, x, y
    <3> QED BY <2>3, <3>1, <3>2, Zenon
  <2> HIDE DEF st, x, y
  <2>5. (x + k) - y = (x - y) + k /\ x - y \in Int /\ k \in Int /\ y <= x + k /\ st \in Int
    BY <1>2, <2>1
  <2>6. Claim(e, pair) = st * (x - y) + st * k
    <3>1. st * ((x - y) + k) = st * (x - y) + st * k
      BY <2>5, Distributes, Zenon
    <3> QED BY <2>4, <2>5, <3>1, Zenon
  <2>7. Claim(e, pair) = Claim(d, pair) + st * k
    BY <2>2, <2>6, Zenon
  <2> QED BY <2>3, <2>5, <2>7 DEF st
<1>12. SolventAt(e, s, D, h, v)
  <2>1. /\ Claimed(e, D, v) \in Int
        /\ Claimed(e, D, v) <= Claimed(d, D, v) + k * s.tokens[v]
    <3>1. \A pair \in D : pair[2] = v => d.start[pair].stake = s.shares[pair]
      BY <1>1 DEF SolventAt
    <3>2. Grows(d, s, e, D, v, k)
      BY <1>11, <3>1, Zenon DEF Grows
    <3>3. k \in Nat /\ v \in Validators /\ Started(d, D, v)
      BY <1>1, <1>2
    <3> QED BY <3>2, <3>3, ClaimedGrow
  <2>2. e.comm[v] + e.rew[v] + Claimed(e, D, v) <= e.outst[v]
    <3> DEFINE kt == k * s.tokens[v]
               c == Claimed(d, D, v)
               f == Claimed(e, D, v)
    <3>1. kt \in Nat /\ stray + kt <= d.rew[v] /\ f \in Int /\ f <= c + kt /\ c \in Nat
      BY <1>2, <1>3, <2>1, Distributes
    <3>2. d.comm[v] + d.rew[v] + c <= d.outst[v] /\ e.comm[v] = d.comm[v]
      BY <1>3, <1>5
    <3> HIDE DEF kt, c, f
    <3>3. e.comm[v] + e.rew[v] + f <= e.outst[v]
      BY <1>2, <1>6, <3>1, <3>2
    <3> QED BY <3>3 DEF f
  <2>3. ASSUME NEW pair \in D, pair[2] = v
        PROVE  /\ e.start[pair].stake = s.shares[pair]
               /\ e.start[pair].height <= h
               /\ e.start[pair].height = h => e.rew[v] = 0 /\ Claim(e, pair) = 0
    <3>1. /\ d.start[pair].stake = s.shares[pair]
          /\ d.start[pair].height <= h
          /\ d.start[pair].height = h => d.rew[v] = 0 /\ Claim(d, pair) = 0
      BY <1>1, <2>3 DEF SolventAt
    <3>2. d.start[pair].stake \in Nat
      BY <1>1, <2>3, ClaimType DEF Started
    <3>3. d.start[pair].height = h => Claim(e, pair) = 0
      <4>1. k = 0 => d.start[pair].stake * k = 0
        BY <3>2
      <4>2. Claim(e, pair) = Claim(d, pair) + d.start[pair].stake * k
        BY <1>11, <2>3, Zenon
      <4>3. d.start[pair].height = h => Claim(d, pair) = 0 /\ k = 0
        BY <1>2, <3>1, Zenon
      <4>4. 0 + 0 = 0
        OBVIOUS
      <4> QED BY <4>1, <4>2, <4>3, <4>4, Zenon
    <3> QED BY <1>5, <1>6, <3>1, <3>3
  <2> QED BY <1>11, <2>2, <2>3 DEF SolventAt
<1>13. Sound(e, s, V, D, h)
  <2>1. ASSUME NEW w \in V PROVE SolventAt(e, s, D, h, w)
    <3>1. CASE w = v
      BY <1>12, <3>1
    <3>2. CASE w # v
      <4>1. w \in Validators \ {v} /\ SolventAt(d, s, D, h, w)
        BY <3>2 DEF Sound
      <4> QED BY <1>8, <4>1, SolventElsewhere
    <3> QED BY <3>1, <3>2
  <2>2. \A pair \in D : pair[2] \in V
    BY DEF Sound
  <2> QED BY <1>0, <1>5, <2>1, <2>2 DEF Sound
<1>14. ASSUME NEW pair \in D PROVE Earned(e, s, pair) = Earned(d, s, pair)
  <2>1. CASE pair[2] = v
    <3> DEFINE st == d.start[pair].stake
    <3>1. Growth(e, s, v) = 0
      BY <1>1, <1>6, <1>9, GrowthType
    <3>2. st \in Nat /\ Claim(d, pair) \in Int /\ pair \in Pairs
      BY <1>1, <2>1, ClaimType DEF Started
    <3>3. Earned(e, s, pair) = Claim(e, pair) + st * 0
      BY <1>5, <2>1, <3>1 DEF Earned
    <3>4. Earned(d, s, pair) = Claim(d, pair) + st * k
      BY <2>1 DEF Earned, k
    <3>5. Claim(e, pair) = Claim(d, pair) + st * k
      BY <1>11, <2>1
    <3> HIDE DEF st
    <3>6. st * k \in Int /\ st * 0 = 0
      BY <1>2, <3>2, Distributes
    <3> QED BY <3>2, <3>3, <3>4, <3>5, <3>6
  <2>2. CASE pair[2] # v
    <3>1. pair \in Pairs
      OBVIOUS
    <3> QED BY <1>8, <2>2, <3>1, ElsewhereSame DEF Earned, Growth
  <2> QED BY <2>1, <2>2
<1> QED BY <1>0, <1>5, <1>6, <1>7, <1>8, <1>9, <1>10, <1>13, <1>14 DEF Advanced

-----------------------------------------------------------------------------
(***************************************************************************)
(* From c, where its validator's period has just been closed, to e: due    *)
(* is paid to a delegator, and its delegation drops out of the history.    *)
(***************************************************************************)
PaysOff(c, e, pair, due) ==
    /\ e.fault = "none"
    /\ e.comm = c.comm /\ e.rew = c.rew /\ e.period = c.period
    /\ e.start = [c.start EXCEPT ![pair] = NoInfo]
    /\ e.outst = [c.outst EXCEPT ![pair[2]] = @ - due]
    /\ e.pool = c.pool + (due % Unit)
    /\ e.funds = c.funds - (due \div Unit)
    /\ e.paid = [c.paid EXCEPT ![pair[1]] = @ + (due \div Unit)]
    /\ \A w \in Validators : w # pair[2] => e.hist[w] = c.hist[w]
    /\ \A q : q # c.start[pair].period => Ratio(e, pair[2], q) = Ratio(c, pair[2], q)

\* None of the checks of a withdrawal fails, and what is due is the claim.
LEMMA SettleChecks ==
    ASSUME NEW d, DistOK(d), NEW s, StakOK(s), Backed(s), NEW V \in SUBSET Validators,
           NEW D \in SUBSET Pairs, NEW pair \in D, NEW h \in Nat,
           Sound(d, s, V, D, h), Funded(d),
           NEW c, c = IncrementValidatorPeriod(d, s, pair[2])
    PROVE  /\ d.start[pair] # NoInfo /\ c.start[pair] = d.start[pair]
           /\ ~ (c.start[pair].height # h /\ CalculationPanics(c, s, pair, d.period[pair[2]]))
           /\ CalculateDelegationRewards(c, pair, d.period[pair[2]], h) = Claim(c, pair)
           /\ Claim(c, pair) \in Nat /\ Claim(c, pair) <= c.outst[pair[2]]
           /\ Claim(c, pair) \div Unit <= c.funds
<1> DEFINE v == pair[2]
<1>1. v \in V /\ v \in Validators /\ pair \in Pairs
  BY DEF Sound
<1>2. /\ DistOK(c) /\ Sound(c, s, V, D, h) /\ Settles(d, c) /\ c.start = d.start
      /\ c.rew[v] = 0 /\ Closed(c, v) = d.period[v]
  <2>1. v \in V /\ c = IncrementValidatorPeriod(d, s, v)
    BY <1>1
  <2> HIDE DEF v
  <2>2. Advanced(d, s, c, V, D, v, h)
    BY <2>1, IncrementSound
  <2> QED BY <2>2 DEF Advanced
<1>3. SolventAt(c, s, D, h, v) /\ Started(c, D, v) /\ c.start[pair] # NoInfo
  <2>1. SolventAt(c, s, D, h, v)
    BY <1>1, <1>2 DEF Sound
  <2>2. Started(c, D, v)
    BY <1>1, <1>2, SolventStarted
  <2> QED BY <2>1, <2>2 DEF Started
<1> DEFINE info == c.start[pair]
           x == Ratio(c, v, Closed(c, v))
           y == Ratio(c, v, info.period)
<1>4. /\ info.stake = s.shares[pair] /\ y <= x
      /\ info.height = h => Claim(c, pair) = 0
  BY <1>3 DEF SolventAt
<1>5. /\ Claim(c, pair) \in Nat /\ Claim(c, pair) <= Claimed(c, D, v)
      /\ Claimed(c, D, v) \in Nat
  BY <1>1, <1>2, <1>3, ClaimCovered
<1>6. Claim(c, pair) <= c.outst[v]
  <2>1. c.comm[v] + c.rew[v] + Claimed(c, D, v) <= c.outst[v]
    BY <1>3 DEF SolventAt
  <2>2. c.comm[v] \in Nat /\ c.rew[v] \in Nat /\ c.outst[v] \in Nat
    BY <1>1, <1>2 DEF DistOK
  <2> QED BY <1>5, <2>1, <2>2
<1>7. Claim(c, pair) \div Unit <= c.funds
  <2>1. Funded(c)
    BY <1>2, SettlesFunded
  <2> QED BY <1>1, <1>2, <1>5, <1>6, <2>1, FundsSuffice
<1>8. /\ info \in StartingInfo /\ info.stake \in Nat /\ info.period \in Nat
      /\ x \in Nat /\ y \in Nat
  BY <1>1, <1>2, <1>3, ClaimType
<1>9. ~ CalculationPanics(c, s, pair, d.period[v])
  <2>1. info.period < c.period[v] /\ c.period[v] \in Nat
    BY <1>1, <1>2, <1>3 DEF Sound, Counted, DistOK
  <2>2. ~ (info.period > d.period[v])
    BY <1>2, <1>8, <2>1 DEF Closed
  <2>3. ~ (info.stake > s.shares[pair])
    BY <1>4, <1>8
  <2>4. ~ (Historical(c, v, d.period[v]).ratio < Historical(c, v, info.period).ratio)
    <3>1. ~ (x < y)
      BY <1>4, <1>8
    <3> QED BY <1>2, <3>1 DEF Ratio
  <2> QED BY <2>2, <2>3, <2>4 DEF CalculationPanics
<1>10. CalculateDelegationRewards(c, pair, d.period[v], h) = Claim(c, pair)
  BY <1>2, <1>4 DEF CalculateDelegationRewards, Claim, Ratio
<1> QED BY <1>2, <1>3, <1>5, <1>6, <1>7, <1>9, <1>10

LEMMA SettleBooks ==
    ASSUME NEW d, DistOK(d), NEW s, StakOK(s), Backed(s), NEW V \in SUBSET Validators,
           NEW D \in SUBSET Pairs, NEW pair \in D, NEW h \in Nat,
           Sound(d, s, V, D, h), Funded(d),
           NEW c, c = IncrementValidatorPeriod(d, s, pair[2]),
           NEW e, e = SettleDelegation(d, s, pair, h)
    PROVE  PaysOff(c, e, pair, Claim(c, pair))
<1> DEFINE v == pair[2]
           ending == d.period[v]
           raw == CalculateDelegationRewards(c, pair, ending, h)
           due == IF raw <= c.outst[v] THEN raw ELSE c.outst[v]
           coins == due \div Unit
           sent == SendCoins(c, pair[1], coins)
           settled == [sent EXCEPT !.outst[v] = @ - due, !.pool = @ + (due % Unit)]
           p == d.start[pair].period
           released == DecrementReferenceCount(settled, v, p)
<1>1. e = IF d.start[pair] = NoInfo
          THEN Fault(d, "no info")
          ELSE IF c.start[pair].height # h /\ CalculationPanics(c, s, pair, ending)
          THEN Fault(c, "calculation")
          ELSE IF coins > c.funds
          THEN Fault(c, "unfunded")
          ELSE [released EXCEPT !.start[pair] = NoInfo]
  <2> DEFINE body(x) ==
        LET r == CalculateDelegationRewards(x, pair, ending, h)
            y == IF r <= x.outst[v] THEN r ELSE x.outst[v]
            n == y \div Unit
            z == SendCoins(x, pair[1], n)
            t == [z EXCEPT !.outst[v] = @ - y, !.pool = @ + (y % Unit)]
            u == DecrementReferenceCount(t, v, p)
        IN  IF d.start[pair] = NoInfo
            THEN Fault(d, "no info")
            ELSE IF x.start[pair].height # h /\ CalculationPanics(x, s, pair, ending)
            THEN Fault(x, "calculation")
            ELSE IF n > x.funds
            THEN Fault(x, "unfunded")
            ELSE [u EXCEPT !.start[pair] = NoInfo]
  <2>1. SettleDelegation(d, s, pair, h) = body(IncrementValidatorPeriod(d, s, v))
    BY Zenon DEF SettleDelegation
  <2>2. body(IncrementValidatorPeriod(d, s, v)) = body(c)
    <3> HIDE DEF body
    <3> QED OBVIOUS
  <2>3. e = body(c)
    <3> HIDE DEF body
    <3> QED BY <2>1, <2>2
  <2> QED BY <2>3, Zenon
<1>2. /\ d.start[pair] # NoInfo /\ c.start[pair] = d.start[pair]
      /\ ~ (c.start[pair].height # h /\ CalculationPanics(c, s, pair, ending))
      /\ raw = Claim(c, pair)
      /\ Claim(c, pair) \in Nat /\ Claim(c, pair) <= c.outst[v]
      /\ Claim(c, pair) \div Unit <= c.funds
  BY SettleChecks
<1>3. /\ v \in V /\ v \in Validators /\ pair \in Pairs /\ pair[1] \in Accounts
  BY PairOf DEF Sound
<1>4. /\ DistOK(c) /\ Sound(c, s, V, D, h) /\ Fresh(c, D, v)
      /\ c.fault = "none" /\ Counted(c, V, D)
  <2>1. v \in V /\ c = IncrementValidatorPeriod(d, s, v)
    BY <1>3
  <2> HIDE DEF v
  <2>2. Advanced(d, s, c, V, D, v, h)
    BY <2>1, IncrementSound
  <2> QED BY <2>2 DEF Advanced, Sound
<1>5. due = Claim(c, pair) /\ due \in Nat /\ due <= c.outst[v]
      /\ coins \in Nat /\ due % Unit \in Nat /\ ~ (coins > c.funds) /\ coins <= c.funds
  <2>1. due = Claim(c, pair)
    BY <1>2
  <2>2. due \div Unit \in Nat /\ due % Unit \in Nat
    BY <1>2, <2>1, DivMod, UnitAssumption
  <2>3. c.funds \in Nat
    BY <1>4 DEF DistOK
  <2> HIDE DEF due
  <2> QED BY <1>2, <2>1, <2>2, <2>3
<1>6. e = [released EXCEPT !.start[pair] = NoInfo]
  <2> HIDE DEF coins, released, ending
  <2> QED BY <1>1, <1>2, <1>5
<1> HIDE DEF due, raw
<1>7. DistOK(sent) /\ sent = [c EXCEPT !.funds = @ - coins, !.paid[pair[1]] = @ + coins]
  BY <1>3, <1>4, <1>5, SendCoinsType, Zenon DEF SendCoins
<1> HIDE DEF coins
<1>8. /\ sent.funds = c.funds - coins /\ sent.paid = [c.paid EXCEPT ![pair[1]] = @ + coins]
      /\ sent.outst = c.outst /\ sent.comm = c.comm /\ sent.rew = c.rew
      /\ sent.period = c.period /\ sent.start = c.start /\ sent.pool = c.pool
      /\ sent.hist = c.hist /\ sent.fault = c.fault
  BY <1>4, <1>7 DEF DistOK
<1> HIDE DEF sent
<1>9. DistOK(settled)
  BY <1>3, <1>5, <1>7, <1>8, DonateType
<1>10. /\ settled.funds = sent.funds /\ settled.paid = sent.paid
       /\ settled.outst = [c.outst EXCEPT ![v] = @ - due]
       /\ settled.pool = c.pool + (due % Unit)
       /\ settled.comm = c.comm /\ settled.rew = c.rew
       /\ settled.period = c.period /\ settled.start = c.start
       /\ settled.hist = c.hist /\ settled.fault = c.fault
  BY <1>7, <1>8 DEF DistOK
<1> HIDE DEF settled
<1>11. p \in Nat /\ Refs(settled, v, p) # 0
  <2>1. p \in Nat
    BY <1>2, <1>3, ClaimType
  <2>2. Refs(settled, v, p) = Refs(c, v, p)
    BY <1>10 DEF Refs, Historical
  <2>3. Starts(c, D, v, p)
    BY <1>2 DEF Starts
  <2>4. Refs(c, v, p) = 1 + (IF v \in V /\ p = c.period[v] - 1 THEN 1 ELSE 0)
    BY <1>3, <1>4, <2>1, <2>3 DEF Counted
  <2> HIDE DEF v, p
  <2> QED BY <2>1, <2>2, <2>4
<1>12. /\ released.outst = settled.outst /\ released.comm = settled.comm
       /\ released.rew = settled.rew /\ released.period = settled.period
       /\ released.start = settled.start /\ released.pool = settled.pool
       /\ released.funds = settled.funds /\ released.paid = settled.paid
  BY <1>3, <1>9, <1>11, CountsKeepBooks
<1>13. /\ DistOK(released) /\ released.fault = settled.fault
       /\ \A w \in Validators : w # v => released.hist[w] = settled.hist[w]
       /\ \A q : q # p => Ratio(released, v, q) = Ratio(settled, v, q)
  <2>1. DistOK(released)
    BY <1>3, <1>9, <1>11, DecrementReferenceCountType
  <2>2. released.fault = settled.fault
    BY <1>3, <1>9, <1>11, DecrementEffect DEF Recounts
  <2> HIDE DEF v, p
  <2>3. released = DecrementReferenceCount(settled, v, p)
    OBVIOUS
  <2> HIDE DEF released
  <2> QED BY <1>3, <1>9, <1>11, <2>1, <2>2, <2>3, DecrementRatio
<1> HIDE DEF released
<1>14. /\ e.start = [c.start EXCEPT ![pair] = NoInfo]
       /\ e.outst = released.outst /\ e.comm = released.comm /\ e.rew = released.rew
       /\ e.period = released.period /\ e.pool = released.pool
       /\ e.funds = released.funds /\ e.paid = released.paid
       /\ e.fault = released.fault /\ e.hist = released.hist
  <2>1. /\ e.start = [released.start EXCEPT ![pair] = NoInfo]
        /\ e.outst = released.outst /\ e.comm = released.comm /\ e.rew = released.rew
        /\ e.period = released.period /\ e.pool = released.pool
        /\ e.funds = released.funds /\ e.paid = released.paid
        /\ e.fault = released.fault /\ e.hist = released.hist
    <3>1. DistOK(released)
      BY <1>13
    <3> QED BY <1>6, <3>1 DEF DistOK
  <2>2. released.start = c.start
    BY <1>10, <1>12
  <2> QED BY <2>1, <2>2
<1>15. \A q : q # p => Ratio(e, v, q) = Ratio(c, v, q)
  BY <1>10, <1>13, <1>14 DEF Ratio, Historical
<1>16. /\ e.funds = c.funds - (due \div Unit)
       /\ e.paid = [c.paid EXCEPT ![pair[1]] = @ + (due \div Unit)]
  BY <1>8, <1>10, <1>12, <1>14 DEF coins
<1>17. /\ e.fault = "none" /\ e.comm = c.comm /\ e.rew = c.rew /\ e.period = c.period
       /\ e.outst = [c.outst EXCEPT ![v] = @ - due] /\ e.pool = c.pool + (due % Unit)
       /\ \A w \in Validators : w # v => e.hist[w] = c.hist[w]
  BY <1>4, <1>10, <1>12, <1>13, <1>14
<1>18. p = c.start[pair].period /\ due = Claim(c, pair)
  BY <1>2, <1>5
<1> HIDE DEF p
<1> QED BY <1>14, <1>15, <1>16, <1>17, <1>18 DEF PaysOff

(***************************************************************************)
(* From d to e the delegation pair is settled: what is due to it has been  *)
(* paid, and only to it; the books of the others are sound without it.     *)
(***************************************************************************)
Settled(d, s, e, V, D, pair, h) ==
    /\ DistOK(e) /\ Sound(e, s, V, D \ {pair}, h) /\ Fresh(e, D \ {pair}, pair[2])
    /\ OnlyAt(d, e, pair[2]) /\ Settles(d, e)
    /\ e.rew[pair[2]] = 0 /\ e.comm = d.comm
    /\ e.start = [d.start EXCEPT ![pair] = NoInfo]
    /\ e.paid = [d.paid EXCEPT ![pair[1]] = @ + (Earned(d, s, pair) \div Unit)]
    /\ \A other \in D \ {pair} : Earned(e, s, other) = Earned(d, s, other)

LEMMA SettleSound ==
    ASSUME NEW d, DistOK(d), NEW s, StakOK(s), Backed(s), NEW V \in SUBSET Validators,
           NEW D \in SUBSET Pairs, NEW pair \in D, NEW h \in Nat,
           Sound(d, s, V, D, h), Funded(d),
           NEW e, e = SettleDelegation(d, s, pair, h)
    PROVE  Settled(d, s, e, V, D, pair, h)
<1> DEFINE v == pair[2]
           c == IncrementValidatorPeriod(d, s, v)
           due == Claim(c, pair)
           p == c.start[pair].period
           E == D \ {pair}
<1>1. v \in V /\ v \in Validators /\ pair \in Pairs /\ pair[1] \in Accounts /\ E \in SUBSET Pairs
  BY PairOf DEF Sound
<1>2. c = IncrementValidatorPeriod(d, s, v)
  OBVIOUS
<1>3. PaysOff(c, e, pair, due) /\ due \in Nat /\ due <= c.outst[v]
  BY SettleChecks, SettleBooks
<1> HIDE DEF c
<1>4. /\ DistOK(c) /\ Sound(c, s, V, D, h) /\ Fresh(c, D, v)
      /\ OnlyAt(d, c, v) /\ Settles(d, c)
      /\ c.start = d.start /\ c.paid = d.paid /\ c.comm = d.comm /\ c.rew[v] = 0
      /\ \A other \in D : Earned(c, s, other) = Earned(d, s, other)
  <2>1. v \in V
    BY <1>1
  <2> HIDE DEF v
  <2>2. Advanced(d, s, c, V, D, v, h)
    BY <1>2, <2>1, IncrementSound
  <2> QED BY <2>2 DEF Advanced
<1> HIDE DEF due
<1>5. /\ e.fault = "none" /\ e.comm = c.comm /\ e.rew = c.rew /\ e.period = c.period
      /\ e.start = [c.start EXCEPT ![pair] = NoInfo]
      /\ e.outst = [c.outst EXCEPT ![v] = @ - due]
      /\ e.pool = c.pool + (due % Unit)
      /\ e.funds = c.funds - (due \div Unit)
      /\ e.paid = [c.paid EXCEPT ![pair[1]] = @ + (due \div Unit)]
      /\ \A w \in Validators : w # v => e.hist[w] = c.hist[w]
      /\ \A q : q # p => Ratio(e, v, q) = Ratio(c, v, q)
  BY <1>3 DEF PaysOff
<1>6. /\ SolventAt(c, s, D, h, v) /\ Started(c, D, v) /\ Counted(c, V, D)
  <2>1. Started(c, D, v)
    BY <1>1, <1>4, SolventStarted
  <2> QED BY <1>1, <1>4, <2>1 DEF Sound
<1>7. DistOK(e) /\ Counted(e, V, E) /\ Fresh(e, E, v)
  <2>1. DistOK(e)
    BY <1>1, SettleDelegationType
  <2>2. Safe(d, V, D)
    BY DEF Sound, Safe, RefFaults
  <2>3. Safe(e, V, E) /\ (e.fault = "none" => Fresh(e, E, v))
    BY <1>1, <2>2, SettleDelegationSafe
  <2> QED BY <1>5, <2>1, <2>3 DEF Safe
<1>8. OnlyAt(c, e, v)
  <2>1. c.outst \in [Validators -> Nat] /\ c.start \in [Pairs -> StartingInfo \cup {NoInfo}]
    BY <1>4 DEF DistOK
  <2>2. \A w \in Validators \ {v} : e.outst[w] = c.outst[w]
    BY <1>5, <2>1
  <2>3. \A other \in Pairs : other[2] # v => e.start[other] = c.start[other]
    BY <1>1, <1>5, <2>1
  <2> QED BY <1>5, <2>2, <2>3 DEF OnlyAt
<1>9. Closed(e, v) = Closed(c, v) /\ Closed(c, v) # p
      /\ e.rew[v] = 0 /\ e.comm[v] = c.comm[v] /\ e.outst[v] = c.outst[v] - due
  BY <1>1, <1>4, <1>5 DEF Closed, Fresh, DistOK
<1>10. ASSUME NEW other \in E
       PROVE  /\ other \in D /\ other \in Pairs /\ e.start[other] = c.start[other]
              /\ other[2] = v => /\ Ratio(e, v, e.start[other].period) = Ratio(c, v, c.start[other].period)
                                 /\ Claim(e, other) = Claim(c, other)
  <2>1. other \in D /\ other \in Pairs /\ other # pair
    OBVIOUS
  <2>2. e.start[other] = c.start[other]
    BY <1>4, <1>5, <2>1 DEF DistOK
  <2>3. CASE other[2] = v
    <3>1. c.start[other].period # p
      BY <1>1, <1>6, <2>1, <2>3 DEF Counted
    <3>2. Ratio(e, v, c.start[other].period) = Ratio(c, v, c.start[other].period)
      BY <1>5, <3>1
    <3>3. Ratio(e, v, Closed(e, v)) = Ratio(c, v, Closed(c, v))
      BY <1>5, <1>9
    <3> HIDE DEF v
    <3> QED BY <2>1, <2>2, <2>3, <3>2, <3>3 DEF Claim
  <2> QED BY <2>1, <2>2, <2>3
<1>11. Claimed(e, E, v) = Claimed(c, D, v) - due
  <2>1. \A a \in Accounts :
          (IF <<a, v>> \in E THEN Claim(e, <<a, v>>) ELSE 0)
            = IF <<a, v>> \in E THEN Claim(c, <<a, v>>) ELSE 0
    BY <1>10
  <2>2. Claimed(e, E, v) = Claimed(c, E, v)
    BY <1>1, <2>1, ClaimedSame
  <2>3. Claimed(c, E, v) = Claimed(c, D, v) - due
    BY <1>4, <1>6, ClaimedLeave DEF due
  <2> QED BY <2>2, <2>3
<1>12. SolventAt(e, s, E, h, v)
  <2>1. e.comm[v] + e.rew[v] + Claimed(e, E, v) <= e.outst[v]
    <3>1. Claimed(c, D, v) \in Nat
      BY <1>1, <1>4, <1>6, ClaimCovered
    <3>2. c.comm[v] + c.rew[v] + Claimed(c, D, v) <= c.outst[v]
      BY <1>6 DEF SolventAt
    <3>3. c.comm[v] \in Nat /\ c.outst[v] \in Nat
      BY <1>1, <1>4 DEF DistOK
    <3> QED BY <1>3, <1>4, <1>9, <1>11, <3>1, <3>2, <3>3
  <2>2. ASSUME NEW other \in E, other[2] = v
        PROVE  /\ e.start[other].stake = s.shares[other]
               /\ e.start[other].height <= h
               /\ Ratio(e, v, e.start[other].period) <= Ratio(e, v, Closed(e, v))
               /\ e.start[other].height = h => e.rew[v] = 0 /\ Claim(e, other) = 0
    <3>1. /\ c.start[other].stake = s.shares[other]
          /\ c.start[other].height <= h
          /\ Ratio(c, v, c.start[other].period) <= Ratio(c, v, Closed(c, v))
          /\ c.start[other].height = h => Claim(c, other) = 0
      BY <1>6, <2>2 DEF SolventAt
    <3>2. Ratio(e, v, Closed(e, v)) = Ratio(c, v, Closed(c, v))
      BY <1>5, <1>9
    <3> QED BY <1>9, <1>10, <2>2, <3>1, <3>2
  <2> HIDE DEF E, v
  <2> QED BY <2>1, <2>2 DEF SolventAt
<1>13. Sound(e, s, V, E, h)
  <2>1. ASSUME NEW w \in V PROVE SolventAt(e, s, E, h, w)
    <3>1. CASE w = v
      BY <1>12, <3>1
    <3>2. CASE w # v
      <4>1. w \in Validators \ {v} /\ SolventAt(c, s, D, h, w)
        BY <1>4, <3>2 DEF Sound
      <4>2. \A other \in Pairs : other[2] = w =>
              (other \in E <=> other \in D) /\ s.shares[other] = s.shares[other]
        BY <3>2
      <4> HIDE DEF E, v
      <4> QED BY <1>1, <1>8, <4>1, <4>2, SolventElsewhere
    <3> QED BY <3>1, <3>2
  <2>2. \A other \in E : other[2] \in V
    BY DEF Sound
  <2> QED BY <1>5, <1>7, <2>1, <2>2 DEF Sound
<1>14. Settles(d, e)
  <2> DEFINE y == due % Unit
             k == due \div Unit
  <2>1. due = y + k * Unit /\ y \in Nat /\ k \in Nat
    <3>1. due = k * Unit + y /\ y \in Nat /\ k \in Nat
      BY <1>3, WholeAndRest, DivMod, UnitAssumption
    <3>2. k * Unit \in Nat
      BY <3>1, UnitAssumption, Distributes
    <3> HIDE DEF y, k
    <3> QED BY <3>1, <3>2
  <2>2. e.pool = c.pool + y /\ e.funds = c.funds - k
        /\ e.paid = [c.paid EXCEPT ![pair[1]] = @ + k]
        /\ e.outst = [c.outst EXCEPT ![v] = @ - due]
    BY <1>5
  <2>3. /\ DistOK(c) /\ DistOK(e) /\ v \in Validators /\ pair[1] \in Accounts
        /\ due \in Nat
    BY <1>1, <1>3, <1>4, <1>7
  <2> DEFINE a == pair[1]
  <2> HIDE DEF y, k, v, a
  <2>4. a \in Accounts /\ e.paid = [c.paid EXCEPT ![a] = @ + k]
    BY <2>2, <2>3 DEF a
  <2>5. Settles(c, e)
    BY <2>1, <2>2, <2>3, <2>4, SettlesMove
  <2> QED BY <1>4, <1>7, <2>5, SettlesTwice
<1>15. Earned(d, s, pair) = due
  <2>1. Growth(c, s, v) = 0
    BY <1>1, <1>4, GrowthType
  <2>2. c.start[pair].stake \in Nat
    BY <1>1, <1>4, <1>6, ClaimType DEF Started
  <2>3. Earned(c, s, pair) = due + c.start[pair].stake * 0
    BY <2>1 DEF Earned, due
  <2>4. Earned(c, s, pair) = Earned(d, s, pair)
    BY <1>4
  <2> QED BY <1>3, <2>2, <2>3, <2>4
<1>16. ASSUME NEW other \in E PROVE Earned(e, s, other) = Earned(d, s, other)
  <2>1. Earned(c, s, other) = Earned(d, s, other) /\ other \in Pairs /\ other[2] \in Validators
    BY <1>1, <1>4, PairOf
  <2>2. Claim(e, other) = Claim(c, other) /\ e.start[other] = c.start[other]
    <3>1. CASE other[2] = v
      BY <1>10, <3>1
    <3>2. CASE other[2] # v
      <4> HIDE DEF v
      <4> QED BY <1>8, <2>1, <3>2, ElsewhereSame
    <3> QED BY <3>1, <3>2
  <2>3. Growth(e, s, other[2]) = Growth(c, s, other[2])
    BY <1>5 DEF Growth
  <2> QED BY <2>1, <2>2, <2>3 DEF Earned
<1>17. OnlyAt(d, e, v)
  BY <1>4, <1>8, OnlyAtTwice
<1>18. e.start = [d.start EXCEPT ![pair] = NoInfo] /\ e.comm = d.comm
       /\ e.paid = [d.paid EXCEPT ![pair[1]] = @ + (Earned(d, s, pair) \div Unit)]
  BY <1>4, <1>5, <1>15
<1> QED BY <1>7, <1>9, <1>13, <1>14, <1>16, <1>17, <1>18 DEF Settled

-----------------------------------------------------------------------------
(***************************************************************************)
(* From d to e the delegation pair starts in the period closed last: it    *)
(* has nothing to claim yet, and nobody is paid.                           *)
(***************************************************************************)
Begun(d, t, e, V, D, pair, h) ==
    /\ DistOK(e) /\ Sound(e, t, V, D \cup {pair}, h)
    /\ OnlyAt(d, e, pair[2]) /\ Settles(d, e)
    /\ e.outst = d.outst /\ e.comm = d.comm /\ e.rew = d.rew /\ e.paid = d.paid
    /\ e.pool = d.pool /\ e.funds = d.funds /\ e.period = d.period
    /\ e.start = [d.start EXCEPT ![pair] =
                    [period |-> Closed(d, pair[2]), stake |-> t.shares[pair], height |-> h]]
    /\ \A other \in D : Earned(e, t, other) = Earned(d, t, other)
    /\ Earned(e, t, pair) = 0

LEMMA StartSound ==
    ASSUME NEW d, DistOK(d), NEW t, StakOK(t), NEW V \in SUBSET Validators,
           NEW D \in SUBSET Pairs, NEW pair \in Pairs \ D, pair[2] \in V, NEW h \in Nat,
           Sound(d, t, V, D, h), Fresh(d, D, pair[2]), d.rew[pair[2]] = 0,
           NEW e, e = InitializeDelegation(d, t, pair, h)
    PROVE  Begun(d, t, e, V, D, pair, h)
<1> DEFINE v == pair[2]
           p == Closed(d, v)
           counted == IncrementReferenceCount(d, v, p)
           info == [period |-> p, stake |-> t.shares[pair], height |-> h]
           E == D \cup {pair}
<1>1. /\ v \in Validators /\ p \in Nat /\ d.fault = "none" /\ Counted(d, V, D)
      /\ E \in SUBSET Pairs /\ t.shares[pair] \in Nat
  BY DEF Sound, Closed, DistOK, StakOK
<1>2. e = [counted EXCEPT !.start[pair] = info]
  BY Zenon DEF InitializeDelegation, Closed
<1>3. Refs(d, v, p) = 1
  <2>1. ~ Starts(d, D, v, p)
    BY DEF Fresh, Starts, Closed
  <2> QED BY <1>1, <2>1 DEF Counted, Closed
<1>4. /\ DistOK(counted) /\ counted.fault = "none"
      /\ counted.start = d.start /\ counted.period = d.period
      /\ \A w \in Validators : w # v => counted.hist[w] = d.hist[w]
      /\ \A q : Ratio(counted, v, q) = Ratio(d, v, q)
  <2>1. DistOK(counted)
    BY <1>1, IncrementReferenceCountType
  <2>2. counted.fault = "none" /\ counted.start = d.start /\ counted.period = d.period
    BY <1>1, <1>3, IncrementEffect DEF Recounts
  <2>3. counted = IncrementReferenceCount(d, v, p)
    OBVIOUS
  <2> HIDE DEF v, p, counted
  <2>4. Refs(d, v, p) <= 2
    BY <1>3
  <2> QED BY <1>1, <2>1, <2>2, <2>3, <2>4, IncrementRatio
<1>5. /\ counted.outst = d.outst /\ counted.comm = d.comm /\ counted.rew = d.rew
      /\ counted.pool = d.pool /\ counted.funds = d.funds /\ counted.paid = d.paid
  BY <1>1, CountsKeepBooks
<1> HIDE DEF counted
<1>6. DistOK(e)
  BY InitializeDelegationType
<1>7. /\ e.outst = d.outst /\ e.comm = d.comm /\ e.rew = d.rew
      /\ e.pool = d.pool /\ e.funds = d.funds /\ e.paid = d.paid
      /\ e.period = d.period /\ e.fault = "none" /\ e.hist = counted.hist
      /\ e.start = [d.start EXCEPT ![pair] = info]
  <2>1. /\ e.outst = counted.outst /\ e.comm = counted.comm /\ e.rew = counted.rew
        /\ e.pool = counted.pool /\ e.funds = counted.funds /\ e.paid = counted.paid
        /\ e.period = counted.period /\ e.fault = counted.fault /\ e.hist = counted.hist
        /\ e.start = [counted.start EXCEPT ![pair] = info]
    <3> HIDE DEF info
    <3> QED BY <1>2, <1>4 DEF DistOK
  <2> QED BY <1>4, <1>5, <2>1
<1>8. /\ e.start[pair].stake = t.shares[pair] /\ e.start[pair].height = h
      /\ e.start[pair].period = p
      /\ \A other \in D : e.start[other] = d.start[other]
  BY <1>7 DEF DistOK
<1> HIDE DEF info
<1>9. /\ \A w \in Validators : w # v => e.hist[w] = d.hist[w]
      /\ \A q : Ratio(e, v, q) = Ratio(d, v, q)
      /\ Closed(e, v) = p
  BY <1>4, <1>7 DEF Ratio, Historical, Closed
<1>10. Counted(e, V, E)
  <2>1. Safe(d, V, D)
    BY <1>1 DEF Safe, RefFaults
  <2>2. Safe(e, V, E)
    BY <2>1, InitializeDelegationSafe
  <2> QED BY <1>7, <2>2 DEF Safe
<1>11. OnlyAt(d, e, v)
  BY <1>7, <1>9 DEF OnlyAt, DistOK
<1>12. Settles(d, e)
  BY <1>7, SettlesNothing
<1>13. ASSUME NEW other \in D, other[2] = v
       PROVE  Claim(e, other) = Claim(d, other)
  <2> HIDE DEF p
  <2> QED BY <1>8, <1>9, <1>13 DEF Claim, p
<1>14. Claim(e, pair) = 0
  <2> DEFINE x == Ratio(e, v, p)
  <2>1. Claim(e, pair) = t.shares[pair] * (x - x)
    BY <1>8, <1>9 DEF Claim
  <2>2. x \in Nat
    BY <1>1, <1>6, RatioType
  <2> HIDE DEF x
  <2>3. x - x = 0
    BY <2>2
  <2>4. t.shares[pair] * 0 = 0
    BY <1>1
  <2> QED BY <2>1, <2>3, <2>4, Zenon
<1>15. Claimed(e, E, v) = Claimed(d, D, v)
  <2>1. ASSUME NEW a \in Accounts
        PROVE  (IF <<a, v>> \in E THEN Claim(e, <<a, v>>) ELSE 0)
                 = IF <<a, v>> \in D THEN Claim(d, <<a, v>>) ELSE 0
    <3>1. CASE <<a, v>> \in D
      BY <1>13, <3>1
    <3>2. CASE <<a, v>> = pair
      BY <1>14, <3>2
    <3>3. CASE <<a, v>> \notin E
      BY <3>3
    <3> QED BY <3>1, <3>2, <3>3
  <2> HIDE DEF E, v
  <2> QED BY <1>1, <2>1, ClaimedSame
<1>16. SolventAt(e, t, E, h, v)
  <2>1. SolventAt(d, t, D, h, v)
    BY DEF Sound
  <2>2. e.comm[v] + e.rew[v] + Claimed(e, E, v) <= e.outst[v]
    BY <1>7, <1>15, <2>1 DEF SolventAt
  <2>3. ASSUME NEW other \in E, other[2] = v
        PROVE  /\ e.start[other].stake = t.shares[other]
               /\ e.start[other].height <= h
               /\ Ratio(e, v, e.start[other].period) <= Ratio(e, v, Closed(e, v))
               /\ e.start[other].height = h => e.rew[v] = 0 /\ Claim(e, other) = 0
    <3>1. CASE other = pair
      <4>1. Ratio(e, v, p) \in Nat
        BY <1>1, <1>6, RatioType
      <4>2. Ratio(e, v, e.start[pair].period) <= Ratio(e, v, Closed(e, v))
        BY <1>8, <1>9, <4>1
      <4> QED BY <1>7, <1>8, <1>14, <3>1, <4>2
    <3>2. CASE other \in D
      <4>1. /\ d.start[other].stake = t.shares[other]
            /\ d.start[other].height <= h
            /\ Ratio(d, v, d.start[other].period) <= Ratio(d, v, Closed(d, v))
            /\ d.start[other].height = h => d.rew[v] = 0 /\ Claim(d, other) = 0
        BY <2>1, <2>3, <3>2 DEF SolventAt
      <4> QED BY <1>7, <1>8, <1>9, <1>13, <2>3, <3>2, <4>1
    <3> QED BY <3>1, <3>2
  <2> HIDE DEF E, v
  <2> QED BY <2>2, <2>3 DEF SolventAt
<1>17. Sound(e, t, V, E, h)
  <2>1. ASSUME NEW w \in V PROVE SolventAt(e, t, E, h, w)
    <3>1. CASE w = v
      BY <1>16, <3>1
    <3>2. CASE w # v
      <4>1. w \in Validators \ {v} /\ SolventAt(d, t, D, h, w)
        BY <3>2 DEF Sound
      <4>2. \A other \in Pairs : other[2] = w =>
              (other \in E <=> other \in D) /\ t.shares[other] = t.shares[other]
        BY <3>2
      <4> HIDE DEF E, v
      <4> QED BY <1>1, <1>11, <4>1, <4>2, SolventElsewhere
    <3> QED BY <3>1, <3>2
  <2>2. \A other \in E : other[2] \in V
    BY DEF Sound
  <2> QED BY <1>7, <1>10, <2>1, <2>2 DEF Sound
<1>18. ASSUME NEW other \in D PROVE Earned(e, t, other) = Earned(d, t, other)
  <2>1. Growth(e, t, other[2]) = Growth(d, t, other[2]) /\ e.start[other] = d.start[other]
    BY <1>7, <1>8 DEF Growth
  <2>2. Claim(e, other) = Claim(d, other)
    <3>1. CASE other[2] = v
      BY <1>13, <3>1
    <3>2. CASE other[2] # v
      <4>1. other \in Pairs
        OBVIOUS
      <4> HIDE DEF v
      <4> QED BY <1>11, <3>2, <4>1, ElsewhereSame
    <3> QED BY <3>1, <3>2
  <2> QED BY <2>1, <2>2 DEF Earned
<1>19. Earned(e, t, pair) = 0
  <2>1. Growth(e, t, v) = 0
    BY <1>1, <1>6, <1>7, GrowthType
  <2>2. Earned(e, t, pair) = 0 + t.shares[pair] * 0
    BY <1>8, <1>14, <2>1 DEF Earned
  <2> QED BY <1>1, <2>2
<1> QED BY <1>6, <1>7, <1>11, <1>12, <1>17, <1>18, <1>19 DEF Begun, info

\* A withdrawal settles the delegation and starts it again.
Withdrawn(d, s, e, V, D, pair, h) ==
    /\ DistOK(e) /\ Sound(e, s, V, D, h)
    /\ OnlyAt(d, e, pair[2]) /\ Settles(d, e) /\ e.comm = d.comm
    /\ e.paid = [d.paid EXCEPT ![pair[1]] = @ + (Earned(d, s, pair) \div Unit)]
    /\ \A other \in Pairs \ {pair} : e.start[other] = d.start[other]
    /\ \A other \in D \ {pair} : Earned(e, s, other) = Earned(d, s, other)
    /\ Earned(e, s, pair) = 0

LEMMA WithdrawSound ==
    ASSUME NEW d, DistOK(d), NEW s, StakOK(s), Backed(s), NEW V \in SUBSET Validators,
           NEW D \in SUBSET Pairs, NEW pair \in D, NEW h \in Nat,
           Sound(d, s, V, D, h), Funded(d),
           NEW e, e = WithdrawDelegationRewards(d, s, pair, h)
    PROVE  Withdrawn(d, s, e, V, D, pair, h)
<1> DEFINE f == SettleDelegation(d, s, pair, h)
           E == D \ {pair}
<1>1. Settled(d, s, f, V, D, pair, h)
  BY SettleSound
<1>2. d.start[pair] # NoInfo /\ pair[2] \in V
  BY DEF Sound, Counted
<1>3. e = InitializeDelegation(f, s, pair, h)
  BY <1>2 DEF WithdrawDelegationRewards
<1> HIDE DEF f
<1>4. /\ DistOK(f) /\ Sound(f, s, V, E, h) /\ Fresh(f, E, pair[2])
      /\ f.rew[pair[2]] = 0 /\ OnlyAt(d, f, pair[2]) /\ Settles(d, f) /\ f.comm = d.comm
      /\ f.start = [d.start EXCEPT ![pair] = NoInfo]
      /\ f.paid = [d.paid EXCEPT ![pair[1]] = @ + (Earned(d, s, pair) \div Unit)]
      /\ \A other \in E : Earned(f, s, other) = Earned(d, s, other)
  BY <1>1 DEF Settled
<1>5. E \in SUBSET Pairs /\ pair \in Pairs \ E /\ E \cup {pair} = D
  OBVIOUS
<1> HIDE DEF E
<1>6. Begun(f, s, e, V, E, pair, h)
  BY <1>2, <1>3, <1>4, <1>5, StartSound
<1>7. /\ DistOK(e) /\ Sound(e, s, V, D, h) /\ OnlyAt(f, e, pair[2]) /\ Settles(f, e)
      /\ e.comm = f.comm /\ e.paid = f.paid
      /\ e.start = [f.start EXCEPT ![pair] =
                      [period |-> Closed(f, pair[2]), stake |-> s.shares[pair], height |-> h]]
      /\ \A other \in E : Earned(e, s, other) = Earned(f, s, other)
      /\ Earned(e, s, pair) = 0
  BY <1>5, <1>6 DEF Begun
<1>8. OnlyAt(d, e, pair[2]) /\ Settles(d, e)
  BY <1>4, <1>7, OnlyAtTwice, SettlesTwice
<1>9. \A other \in Pairs \ {pair} : e.start[other] = d.start[other]
  <2>1. \A other \in Pairs \ {pair} : f.start[other] = d.start[other]
    BY <1>4 DEF DistOK
  <2>2. \A other \in Pairs \ {pair} : e.start[other] = f.start[other]
    BY <1>4, <1>7 DEF DistOK
  <2> QED BY <2>1, <2>2
<1>10. \A other \in D \ {pair} : Earned(e, s, other) = Earned(d, s, other)
  BY <1>4, <1>7 DEF E
<1> QED BY <1>4, <1>7, <1>8, <1>9, <1>10 DEF Withdrawn

-----------------------------------------------------------------------------
\* The other operations.

\* The history, and with it what is due, is left alone.
SameHistory(d, e) ==
    /\ e.hist = d.hist /\ e.start = d.start /\ e.period = d.period /\ e.fault = d.fault

LEMMA HistorySame ==
    ASSUME NEW d, NEW e, SameHistory(d, e)
    PROVE  /\ \A pair : Claim(e, pair) = Claim(d, pair)
           /\ \A v, p : Ratio(e, v, p) = Ratio(d, v, p)
           /\ \A v : Closed(e, v) = Closed(d, v)
           /\ \A D, v : Claimed(e, D, v) = Claimed(d, D, v)
           /\ \A V, D : Counted(d, V, D) => Counted(e, V, D)
<1>1. \A v, p : Ratio(e, v, p) = Ratio(d, v, p)
  BY DEF SameHistory, Ratio, Historical
<1>2. \A v : Closed(e, v) = Closed(d, v)
  BY DEF SameHistory, Closed
<1>3. \A pair : Claim(e, pair) = Claim(d, pair)
  BY <1>1, <1>2 DEF SameHistory, Claim
<1>4. \A D, v : Claimed(e, D, v) = Claimed(d, D, v)
  BY <1>3 DEF Claimed, Claims
<1>5. ASSUME NEW V, NEW D, Counted(d, V, D) PROVE Counted(e, V, D)
  BY <1>5 DEF SameHistory, Counted, Refs, Historical, Starts
<1> QED BY <1>1, <1>2, <1>3, <1>4, <1>5

LEMMA DuesSame ==
    ASSUME NEW d, NEW s, NEW e, SameHistory(d, e), e.rew = d.rew
    PROVE  \A pair : Earned(e, s, pair) = Earned(d, s, pair)
<1>1. \A pair : Claim(e, pair) = Claim(d, pair)
  BY HistorySame
<1> QED BY <1>1 DEF SameHistory, Earned, Growth

\* The books of v change under the same history, and still cover the claims.
LEMMA SoundBooks ==
    ASSUME NEW d, NEW s, NEW V, NEW D, NEW h, Sound(d, s, V, D, h),
           NEW e, SameHistory(d, e),
           \A v \in V : /\ d.rew[v] = 0 => e.rew[v] = 0
                        /\ e.comm[v] + e.rew[v] + Claimed(d, D, v) <= e.outst[v]
    PROVE  Sound(e, s, V, D, h)
<1>1. /\ \A pair : Claim(e, pair) = Claim(d, pair)
      /\ \A v, p : Ratio(e, v, p) = Ratio(d, v, p)
      /\ \A v : Closed(e, v) = Closed(d, v)
      /\ \A v : Claimed(e, D, v) = Claimed(d, D, v)
  BY HistorySame
<1>2. e.fault = "none" /\ Counted(e, V, D) /\ \A pair \in D : pair[2] \in V
  BY HistorySame DEF Sound, SameHistory
<1>3. ASSUME NEW v \in V PROVE SolventAt(e, s, D, h, v)
  <2>1. SolventAt(d, s, D, h, v)
    BY DEF Sound
  <2>2. e.start = d.start
    BY DEF SameHistory
  <2> QED BY <1>1, <2>1, <2>2 DEF SolventAt
<1> QED BY <1>2, <1>3 DEF Sound

\* From d to e the whole coins of the commission of v have been paid.
Commissioned(d, s, e, V, D, v, h) ==
    /\ DistOK(e) /\ Sound(e, s, V, D, h) /\ Settles(d, e)
    /\ OnlyAt(d, e, v) /\ e.start = d.start
    /\ e.comm = [d.comm EXCEPT ![v] = @ % Unit]
    /\ e.paid = [d.paid EXCEPT ![v] = @ + (d.comm[v] \div Unit)]
    /\ \A pair : Earned(e, s, pair) = Earned(d, s, pair)

LEMMA CommissionSound ==
    ASSUME NEW d, DistOK(d), NEW s, NEW V \in SUBSET Validators,
           NEW D \in SUBSET Pairs, NEW v \in V, NEW h, Sound(d, s, V, D, h), Funded(d),
           NEW e, e = WithdrawValidatorCommission(d, v)
    PROVE  Commissioned(d, s, e, V, D, v, h)
<1> DEFINE coins == d.comm[v] \div Unit
           rest == d.comm[v] % Unit
           x == coins * Unit
<1>1. /\ v \in Validators /\ v \in Accounts /\ d.comm[v] \in Nat /\ d.rew[v] \in Nat
      /\ d.outst[v] \in Nat /\ d.funds \in Nat /\ d.pool \in Nat
      /\ d.comm \in [Validators -> Nat] /\ d.paid \in [Accounts -> Nat]
      /\ d.outst \in [Validators -> Nat]
  BY FiniteAddresses DEF DistOK
<1>2. /\ coins \in Nat /\ rest \in Nat /\ x \in Nat /\ d.comm[v] = x + rest
  BY <1>1, DivMod, UnitAssumption, WholeAndRest, Distributes
<1>3. SolventAt(d, s, D, h, v) /\ Claimed(d, D, v) \in Nat
  <2>1. SolventAt(d, s, D, h, v) /\ Started(d, D, v)
    BY SolventStarted DEF Sound
  <2> QED BY <1>1, <2>1, ClaimCovered
<1>4. d.comm[v] + d.rew[v] + Claimed(d, D, v) <= d.outst[v]
  BY <1>3 DEF SolventAt
<1>5. coins <= d.funds /\ x <= d.outst[v]
  <2>1. d.comm[v] <= d.outst[v]
    BY <1>1, <1>3, <1>4
  <2>2. coins <= d.funds
    BY <1>1, <2>1, FundsSuffice
  <2> HIDE DEF x, rest, coins
  <2> QED BY <1>1, <1>2, <2>1, <2>2
<1> DEFINE sent == SendCoins(d, v, coins)
           f == [sent EXCEPT !.comm[v] = rest, !.outst[v] = @ - x]
<1>6. CASE d.comm[v] = 0
  <2>1. e = d
    BY <1>6 DEF WithdrawValidatorCommission
  <2>2. \A u \in Nat \ {0} : 0 \div u = 0 /\ 0 % u = 0
    OBVIOUS
  <2>3. coins = 0 /\ rest = 0
    BY <1>6, <2>2, UnitAssumption
  <2>4. d.comm = [d.comm EXCEPT ![v] = rest] /\ d.paid = [d.paid EXCEPT ![v] = @ + coins]
    BY <1>1, <1>6, <2>3
  <2>5. OnlyAt(d, e, v)
    BY <2>1 DEF OnlyAt
  <2>6. Settles(d, e)
    BY <2>1, SettlesNothing
  <2> QED BY <2>1, <2>4, <2>5, <2>6 DEF Commissioned
<1>7. CASE d.comm[v] # 0
  <2>1. e = f
    <3>1. e = IF d.comm[v] = 0 THEN d
              ELSE IF x > d.outst[v] \/ coins > d.funds THEN Fault(d, "negative coins")
              ELSE f
      BY Zenon DEF WithdrawValidatorCommission
    <3>2. ~ (x > d.outst[v] \/ coins > d.funds)
      <4> HIDE DEF x, coins
      <4> QED BY <1>1, <1>2, <1>5
    <3> QED BY <1>7, <3>1, <3>2, Zenon
  <2> HIDE DEF coins, rest, x
  <2>2. sent = [d EXCEPT !.funds = @ - coins, !.paid[v] = @ + coins]
    BY Zenon DEF SendCoins
  <2>3. DistOK(sent)
    BY <1>1, <1>2, <1>5, SendCoinsType
  <2> HIDE DEF sent
  <2>4. /\ e.hist = d.hist /\ e.start = d.start /\ e.period = d.period
        /\ e.fault = d.fault /\ e.rew = d.rew /\ e.pool = d.pool
        /\ e.comm = [d.comm EXCEPT ![v] = rest]
        /\ e.outst = [d.outst EXCEPT ![v] = @ - x]
        /\ e.funds = d.funds - coins
        /\ e.paid = [d.paid EXCEPT ![v] = @ + coins]
    BY <2>1, <2>2, <2>3 DEF DistOK
  <2>5. DistOK(e)
    BY <1>1, WithdrawValidatorCommissionType
  <2>6. Settles(d, e)
    <3> DEFINE y == 0
    <3>1. x = y + coins * Unit /\ y \in Nat
      BY <1>2 DEF x
    <3>2. e.pool = d.pool + y
      BY <1>1, <2>4
    <3>3. /\ v \in Validators /\ v \in Accounts /\ x \in Nat /\ coins \in Nat
          /\ e.outst = [d.outst EXCEPT ![v] = @ - x]
          /\ e.funds = d.funds - coins
          /\ e.paid = [d.paid EXCEPT ![v] = @ + coins]
      BY <1>1, <1>2, <2>4
    <3> HIDE DEF y
    <3> QED BY <2>5, <3>1, <3>2, <3>3, SettlesMove
  <2>7. SameHistory(d, e)
    BY <2>4 DEF SameHistory
  <2>8. ASSUME NEW w \in V
        PROVE  /\ d.rew[w] = 0 => e.rew[w] = 0
               /\ e.comm[w] + e.rew[w] + Claimed(d, D, w) <= e.outst[w]
    <3>1. CASE w = v
      <4>1. e.comm[v] = rest /\ e.outst[v] = d.outst[v] - x /\ e.rew[v] = d.rew[v]
        BY <1>1, <2>4
      <4> QED BY <1>1, <1>2, <1>3, <1>4, <3>1, <4>1
    <3>2. CASE w # v
      <4>1. e.comm[w] = d.comm[w] /\ e.outst[w] = d.outst[w] /\ e.rew[w] = d.rew[w]
        BY <1>1, <2>4, <3>2
      <4> QED BY <4>1 DEF Sound, SolventAt
    <3> QED BY <3>1, <3>2
  <2>9. Sound(e, s, V, D, h)
    BY <2>7, <2>8, SoundBooks
  <2>10. \A pair : Earned(e, s, pair) = Earned(d, s, pair)
    BY <2>4, <2>7, DuesSame
  <2>11. OnlyAt(d, e, v)
    BY <1>1, <2>4 DEF OnlyAt
  <2> QED BY <2>4, <2>5, <2>6, <2>9, <2>10, <2>11 DEF coins, rest, Commissioned
<1> QED BY <1>6, <1>7

\* A validator nobody delegates to has no claims on it.
LEMMA NothingClaimed ==
    ASSUME NEW d, NEW D, NEW v, \A pair \in D : pair[2] # v
    PROVE  Claimed(d, D, v) = 0
<1>1. \A a \in Accounts : Claims(d, D, v)[a] = 0
  BY DEF Claims
<1> QED BY <1>1, FiniteAddresses, SumOfZeros DEF Claimed

\* From d to e the new validator v has started with empty books; what was
\* outstanding under its address has been donated.
Created(d, s, e, V, D, v, h) ==
    /\ DistOK(e) /\ Sound(e, s, V \cup {v}, D, h) /\ Settles(d, e)
    /\ OnlyAt(d, e, v) /\ e.start = d.start /\ e.paid = d.paid
    /\ e.outst[v] = 0 /\ e.comm[v] = 0 /\ e.rew[v] = 0
    /\ \A p : Ratio(d, v, p) = 0 => Ratio(e, v, p) = 0

LEMMA CreateSound ==
    ASSUME NEW d, DistOK(d), NEW s, NEW V \in SUBSET Validators,
           NEW D \in SUBSET Pairs, NEW v \in Validators \ V,
           \A pair \in D : pair[2] # v, NEW h, Sound(d, s, V, D, h),
           NEW e, e = InitializeValidator([d EXCEPT !.pool = @ + d.outst[v]], v)
    PROVE  Created(d, s, e, V, D, v, h)
<1> DEFINE f == [d EXCEPT !.pool = @ + d.outst[v]]
           g == SetHistorical(f, v, 0, 0, 1)
           x == d.outst[v]
           W == V \cup {v}
<1>1. /\ x \in Nat /\ d.pool \in Nat /\ d.funds \in Nat /\ v \in Accounts
      /\ W \in SUBSET Validators
      /\ d.outst \in [Validators -> Nat] /\ d.paid \in [Accounts -> Nat]
  BY FiniteAddresses DEF DistOK
<1>2. DistOK(f)
  <2>1. x <= d.outst[v] /\ 0 <= d.outst[v] /\ 0 \in Nat
    BY <1>1
  <2>2. DistOK([d EXCEPT !.outst[v] = @ - 0, !.pool = @ + x])
    BY <1>1, <2>1, DonateType
  <2>3. [d EXCEPT !.outst[v] = @ - 0, !.pool = @ + x] = f
    <3>1. [d.outst EXCEPT ![v] = @ - 0] = d.outst
      BY <1>1
    <3> QED BY <3>1 DEF DistOK
  <2> QED BY <2>2, <2>3
<1>3. /\ f.start = d.start /\ f.period = d.period /\ f.hist = d.hist /\ f.fault = d.fault
      /\ f.outst = d.outst /\ f.comm = d.comm /\ f.rew = d.rew /\ f.funds = d.funds
      /\ f.paid = d.paid /\ f.pool = d.pool + x
  BY DEF DistOK
<1>4. e = [[g EXCEPT !.rew[v] = 0, !.period[v] = 1] EXCEPT !.comm[v] = 0, !.outst[v] = 0]
  BY Zenon DEF InitializeValidator
<1> HIDE DEF f
<1>5. /\ DistOK(g)
      /\ \A w \in Validators : w # v => g.hist[w] = f.hist[w]
  <2>1. 0 \in Nat /\ 1 \in Nat
    OBVIOUS
  <2> QED BY <1>2, <2>1, SetHistoricalType, SetHistoricalRatio
<1>6. /\ g.start = f.start /\ g.period = f.period /\ g.fault = f.fault
      /\ g.outst = f.outst /\ g.comm = f.comm /\ g.rew = f.rew /\ g.funds = f.funds
      /\ g.paid = f.paid /\ g.pool = f.pool
  BY <1>2 DEF SetHistorical, DistOK
<1> HIDE DEF g
<1>7. /\ e.start = g.start /\ e.fault = g.fault /\ e.hist = g.hist
      /\ e.funds = g.funds /\ e.paid = g.paid /\ e.pool = g.pool
      /\ e.period = [g.period EXCEPT ![v] = 1] /\ e.rew = [g.rew EXCEPT ![v] = 0]
      /\ e.outst = [g.outst EXCEPT ![v] = 0] /\ e.comm = [g.comm EXCEPT ![v] = 0]
  BY <1>4, <1>5 DEF DistOK
<1>8. /\ e.start = d.start /\ e.fault = d.fault /\ e.funds = d.funds /\ e.paid = d.paid
      /\ e.pool = d.pool + x /\ e.outst = [d.outst EXCEPT ![v] = 0]
      /\ e.comm = [d.comm EXCEPT ![v] = 0] /\ e.rew = [d.rew EXCEPT ![v] = 0]
      /\ \A w \in Validators \ {v} : e.hist[w] = d.hist[w] /\ e.period[w] = d.period[w]
  <2>1. \A w \in Validators \ {v} : e.hist[w] = d.hist[w]
    <3> SUFFICES ASSUME NEW w \in Validators \ {v} PROVE e.hist[w] = d.hist[w]
      OBVIOUS
    <3>1. e.hist[w] = g.hist[w] /\ g.hist[w] = f.hist[w]
      BY <1>5, <1>7
    <3> QED BY <1>3, <3>1
  <2>2. \A w \in Validators \ {v} : e.period[w] = d.period[w]
    <3>1. d.period \in [Validators -> Nat \ {0}]
      BY DEF DistOK
    <3> QED BY <1>3, <1>6, <1>7, <3>1
  <2> QED BY <1>3, <1>6, <1>7, <2>1, <2>2
<1>9. DistOK(e)
  BY <1>2, InitializeValidatorType DEF f
<1>10. Settles(d, e)
  <2> DEFINE k == 0
             y == x
  <2>1. x = y + k * Unit /\ k \in Nat /\ y \in Nat
    BY <1>1, UnitAssumption
  <2>2. e.outst = [d.outst EXCEPT ![v] = @ - x]
    <3>1. d.outst[v] - x = 0
      BY <1>1
    <3> QED BY <1>8, <3>1
  <2>3. e.funds = d.funds - k /\ e.pool = d.pool + y
        /\ e.paid = [d.paid EXCEPT ![v] = @ + k]
    BY <1>1, <1>8
  <2>4. x \in Nat /\ v \in Accounts
    BY <1>1, AddressAssumption
  <2> HIDE DEF k, y, x
  <2> QED BY <1>9, <2>1, <2>2, <2>3, <2>4, SettlesMove
<1>11. OnlyAt(d, e, v)
  BY <1>8 DEF OnlyAt, DistOK
<1>12. Counted(e, W, D) /\ e.fault = "none"
  <2>1. Safe(d, V, D) /\ e.fault = "none"
    BY <1>8 DEF Sound, Safe, RefFaults
  <2>2. Safe(f, V, D)
    BY <1>3, <2>1, SameCounts
  <2>3. e = InitializeValidator(f, v)
    BY DEF f
  <2>4. Safe(e, W, D)
    BY <1>2, <2>2, <2>3, InitializeValidatorSafe
  <2> QED BY <2>1, <2>4 DEF Safe
<1>13. ASSUME NEW w \in W PROVE SolventAt(e, s, D, h, w)
  <2>1. CASE w = v
    <3>1. e.comm[v] = 0 /\ e.rew[v] = 0 /\ e.outst[v] = 0
      BY <1>8 DEF DistOK
    <3>2. Claimed(e, D, v) = 0
      BY NothingClaimed
    <3> QED BY <2>1, <3>1, <3>2 DEF SolventAt
  <2>2. CASE w # v
    <3>1. w \in Validators \ {v} /\ SolventAt(d, s, D, h, w)
      BY <2>2 DEF Sound
    <3> QED BY <1>11, <3>1, SolventElsewhere
  <2> QED BY <2>1, <2>2
<1>14. Sound(e, s, W, D, h)
  BY <1>12, <1>13 DEF Sound
<1>15. \A p : Ratio(d, v, p) = 0 => Ratio(e, v, p) = 0
  <2>1. /\ Ratio(g, v, 0) = 0
        /\ \A p : p # 0 => Ratio(g, v, p) = Ratio(f, v, p)
    BY <1>2, SetHistoricalRatio DEF g
  <2>2. \A p : Ratio(e, v, p) = Ratio(g, v, p) /\ Ratio(f, v, p) = Ratio(d, v, p)
    BY <1>3, <1>7, Zenon DEF Ratio, Historical
  <2> QED BY <2>1, <2>2
<1>16. e.outst[v] = 0 /\ e.comm[v] = 0 /\ e.rew[v] = 0
  BY <1>8 DEF DistOK
<1> QED BY <1>8, <1>9, <1>10, <1>11, <1>14, <1>15, <1>16 DEF Created

\* A validator that is removed leaves nothing behind.
Removed(d, s, e, V, D, v, h) ==
    /\ DistOK(e) /\ Sound(e, s, V \ {v}, D, h) /\ Settles(d, e)
    /\ OnlyAt(d, e, v)
    /\ e.outst[v] = 0 /\ e.comm[v] = 0 /\ e.rew[v] = 0

LEMMA RemoveSound ==
    ASSUME NEW d, DistOK(d), NEW s, NEW V \in SUBSET Validators,
           NEW D \in SUBSET Pairs, NEW v \in V,
           \A pair \in D : pair[2] # v, NEW h, Sound(d, s, V, D, h), Funded(d),
           NEW e, e = RemoveRecords(d, v)
    PROVE  Removed(d, s, e, V, D, v, h)
<1> DEFINE coins == d.comm[v] \div Unit
           x == d.outst[v]
           dust == x - coins * Unit
           sent == SendCoins(d, v, coins)
           none == [p \in {} |-> 0]
           W == V \ {v}
           f == [sent EXCEPT !.pool = @ + dust, !.hist[v] = none,
                             !.outst[v] = 0, !.comm[v] = 0, !.rew[v] = 0]
<1>1. /\ v \in Validators /\ v \in Accounts /\ d.comm[v] \in Nat /\ d.rew[v] \in Nat
      /\ x \in Nat /\ d.funds \in Nat /\ d.pool \in Nat
      /\ d.outst \in [Validators -> Nat] /\ d.paid \in [Accounts -> Nat]
  BY FiniteAddresses DEF DistOK
<1>2. d.comm[v] <= x
  <2>1. d.comm[v] + d.rew[v] + Claimed(d, D, v) <= d.outst[v]
    BY DEF Sound, SolventAt
  <2>2. Claimed(d, D, v) = 0
    BY NothingClaimed
  <2> QED BY <1>1, <2>1, <2>2
<1>3. coins \in Nat /\ coins * Unit \in Nat /\ coins * Unit <= d.comm[v]
  BY <1>1, WholeCoins
<1>4. dust \in Nat /\ x = dust + coins * Unit /\ coins <= d.funds
  <2>1. coins <= d.funds
    BY <1>1, <1>2, FundsSuffice
  <2> HIDE DEF coins, x
  <2>2. \A m \in Nat : m <= x => x - m \in Nat /\ x = (x - m) + m
    BY <1>1
  <2>3. coins * Unit <= x
    BY <1>1, <1>2, <1>3
  <2> QED BY <1>3, <2>1, <2>2, <2>3
<1>5. e = f
  <2>1. e = IF d.comm[v] > d.outst[v] THEN Fault(d, "negative coins")
            ELSE IF coins > d.funds THEN Fault(d, "unfunded") ELSE f
    BY Zenon DEF RemoveRecords
  <2>2. ~ (d.comm[v] > d.outst[v]) /\ ~ (coins > d.funds)
    <3> HIDE DEF coins
    <3> QED BY <1>1, <1>2, <1>3, <1>4
  <2> QED BY <2>1, <2>2, Zenon
<1> HIDE DEF coins, dust, x, none
<1>6. sent = [d EXCEPT !.funds = @ - coins, !.paid[v] = @ + coins]
  BY Zenon DEF SendCoins
<1>7. DistOK(sent)
  BY <1>1, <1>3, <1>4, SendCoinsType
<1> HIDE DEF sent
<1>8. /\ e.start = d.start /\ e.period = d.period /\ e.fault = d.fault
      /\ e.hist = [d.hist EXCEPT ![v] = none] /\ e.pool = d.pool + dust
      /\ e.outst = [d.outst EXCEPT ![v] = 0] /\ e.comm = [d.comm EXCEPT ![v] = 0]
      /\ e.rew = [d.rew EXCEPT ![v] = 0] /\ e.funds = d.funds - coins
      /\ e.paid = [d.paid EXCEPT ![v] = @ + coins]
  BY <1>5, <1>6, <1>7 DEF DistOK
<1>9. DistOK(e)
  BY <1>1, RemoveRecordsType
<1>10. Settles(d, e)
  <2>1. e.outst = [d.outst EXCEPT ![v] = @ - x]
    <3>1. d.outst[v] - x = 0
      BY <1>1 DEF x
    <3> QED BY <1>8, <3>1
  <2>2. /\ v \in Validators /\ v \in Accounts /\ x \in Nat /\ dust \in Nat /\ coins \in Nat
        /\ x = dust + coins * Unit
        /\ e.pool = d.pool + dust /\ e.funds = d.funds - coins
        /\ e.paid = [d.paid EXCEPT ![v] = @ + coins]
    BY <1>1, <1>3, <1>4, <1>8
  <2> QED BY <1>9, <2>1, <2>2, SettlesMove
<1>11. OnlyAt(d, e, v)
  BY <1>8 DEF OnlyAt, DistOK
<1>12. Counted(e, W, D) /\ e.fault = "none"
  <2>1. Safe(d, V, D) /\ e.fault = "none"
    BY <1>8 DEF Sound, Safe, RefFaults
  <2>2. Safe(e, W, D)
    BY <2>1, RemoveRecordsSafe
  <2> QED BY <2>1, <2>2 DEF Safe
<1>13. ASSUME NEW w \in W PROVE SolventAt(e, s, D, h, w)
  <2>1. w \in Validators \ {v} /\ SolventAt(d, s, D, h, w)
    BY DEF Sound
  <2> QED BY <1>11, <2>1, SolventElsewhere
<1>14. Sound(e, s, W, D, h)
  BY <1>12, <1>13 DEF Sound
<1>15. e.outst[v] = 0 /\ e.comm[v] = 0 /\ e.rew[v] = 0
  BY <1>1, <1>8 DEF DistOK
<1> QED BY <1>9, <1>10, <1>11, <1>14, <1>15 DEF Removed

\* From d to e a fee has been divided into what is outstanding and the pool.
Allocated(d, s, e, V, D, share, fee, h) ==
    /\ DistOK(e) /\ Sound(e, s, V, D, h + 1) /\ Funded(e)
    /\ SameHistory(d, e) /\ e.paid = d.paid
    /\ \A v \in Validators : share[v] = 0 =>
         /\ e.outst[v] = d.outst[v] /\ e.rew[v] = d.rew[v]
         /\ d.comm[v] = 0 => e.comm[v] = 0
    /\ e.funds = d.funds + fee /\ Held(e) >= Held(d) /\ e.pool >= d.pool
    /\ Held(e) + e.pool = Held(d) + d.pool + fee * Unit

(***************************************************************************)
(* A block's fees come in with the next height, when every delegation has  *)
(* started before.                                                         *)
(***************************************************************************)
LEMMA AllocateSound ==
    ASSUME NEW d, DistOK(d), NEW s, NEW V \in SUBSET Validators,
           NEW D \in SUBSET Pairs, NEW h \in Nat, Sound(d, s, V, D, h), Funded(d),
           NEW share \in [Validators -> Nat], NEW fee \in Nat,
           NEW total \in 0..(fee * Unit), total = SumFunctionOnSet(share, Validators),
           NEW e, e = AllocateTokens(d, share, fee, total)
    PROVE  Allocated(d, s, e, V, D, share, fee, h)
<1> DEFINE cut(v) == share[v] \div CommissionDiv
<1>1. /\ DistOK(e) /\ fee * Unit \in Nat /\ total \in Nat /\ total <= fee * Unit
  <2>1. fee * Unit \in Nat
    BY Distributes, UnitAssumption
  <2>2. DistOK(e)
    BY AllocateTokensType
  <2> QED BY <2>1, <2>2
<1>2. /\ e.hist = d.hist /\ e.start = d.start /\ e.period = d.period
      /\ e.fault = d.fault /\ e.paid = d.paid /\ e.funds = d.funds + fee
      /\ e.pool = d.pool + (fee * Unit - total)
      /\ e.outst = [v \in Validators |-> d.outst[v] + share[v]]
      /\ e.comm = [v \in Validators |-> d.comm[v] + cut(v)]
      /\ e.rew = [v \in Validators |-> d.rew[v] + share[v] - cut(v)]
  BY DEF AllocateTokens, DistOK
<1>3. ASSUME NEW v \in Validators
      PROVE  /\ cut(v) \in Nat /\ cut(v) <= share[v] /\ share[v] \in Nat
             /\ d.outst[v] \in Nat /\ d.comm[v] \in Nat /\ d.rew[v] \in Nat
             /\ e.outst[v] = d.outst[v] + share[v]
             /\ e.comm[v] = d.comm[v] + cut(v)
             /\ e.rew[v] = d.rew[v] + share[v] - cut(v)
  <2>1. share[v] \in Nat
    OBVIOUS
  <2>2. cut(v) \in Nat /\ cut(v) <= share[v]
    BY <2>1, DivMod, UnitAssumption
  <2> HIDE DEF cut
  <2> QED BY <1>2, <2>1, <2>2 DEF DistOK
<1> HIDE DEF cut
<1>4. Held(e) = Held(d) + total
  <2> DEFINE F == d.outst
             H == e.outst
  <2>1. \A v \in Validators : F[v] \in Int /\ share[v] \in Int /\ H[v] = F[v] + share[v]
    <3> SUFFICES ASSUME NEW v \in Validators
                 PROVE  F[v] \in Int /\ share[v] \in Int /\ H[v] = F[v] + share[v]
      OBVIOUS
    <3>1. d.outst[v] \in Nat /\ share[v] \in Nat /\ e.outst[v] = d.outst[v] + share[v]
      BY <1>3, Zenon
    <3> QED BY <3>1
  <2>2. Held(e) = SumFunctionOnSet(H, Validators) /\ Held(d) = SumFunctionOnSet(F, Validators)
    BY DEF Held
  <2> HIDE DEF F, H
  <2> QED BY <2>1, <2>2, FiniteAddresses, SumAdded
<1>5. /\ Held(d) \in Nat /\ d.pool \in Nat /\ d.funds \in Nat
  BY BooksTotal
<1>6. /\ Held(e) >= Held(d) /\ e.pool >= d.pool
      /\ Held(e) + e.pool = Held(d) + d.pool + fee * Unit
  <2> DEFINE all == fee * Unit
  <2>1. all \in Nat /\ total \in Nat /\ total <= all /\ e.pool = d.pool + (all - total)
    BY <1>1, <1>2
  <2> HIDE DEF all
  <2>2. /\ Held(e) >= Held(d) /\ e.pool >= d.pool
        /\ Held(e) + e.pool = Held(d) + d.pool + all
    BY <1>4, <1>5, <2>1
  <2> QED BY <2>2 DEF all
<1>7. Funded(e)
  <2>1. (d.funds + fee) * Unit = d.funds * Unit + fee * Unit
    BY <1>5, UnitAssumption
  <2> DEFINE all == fee * Unit
             had == d.funds * Unit
             has == (d.funds + fee) * Unit
  <2>2. has = had + all /\ had = Held(d) + d.pool /\ e.funds * Unit = has
    BY <1>2, <2>1 DEF Funded
  <2>3. Held(e) + e.pool = Held(d) + d.pool + all
    BY <1>6
  <2> HIDE DEF all, had, has
  <2> QED BY <2>2, <2>3 DEF Funded
<1>8. SameHistory(d, e)
  BY <1>2 DEF SameHistory
<1>9. /\ \A pair : Claim(e, pair) = Claim(d, pair)
      /\ \A v, p : Ratio(e, v, p) = Ratio(d, v, p)
      /\ \A v : Closed(e, v) = Closed(d, v)
      /\ \A v : Claimed(e, D, v) = Claimed(d, D, v)
      /\ Counted(e, V, D)
  BY <1>8, HistorySame DEF Sound
<1>10. ASSUME NEW v \in V PROVE SolventAt(e, s, D, h + 1, v)
  <2>1. SolventAt(d, s, D, h, v) /\ Started(d, D, v) /\ v \in Validators
    BY SolventStarted DEF Sound
  <2>2. Claimed(d, D, v) \in Nat
    BY <2>1, ClaimCovered
  <2>3. e.comm[v] + e.rew[v] + Claimed(e, D, v) <= e.outst[v]
    <3>1. d.comm[v] + d.rew[v] + Claimed(d, D, v) <= d.outst[v]
      BY <2>1 DEF SolventAt
    <3> QED BY <1>3, <1>9, <2>1, <2>2, <3>1
  <2>4. ASSUME NEW pair \in D, pair[2] = v
        PROVE  /\ e.start[pair].stake = s.shares[pair]
               /\ e.start[pair].height <= h + 1
               /\ Ratio(e, v, e.start[pair].period) <= Ratio(e, v, Closed(e, v))
               /\ e.start[pair].height # h + 1
    <3>1. /\ d.start[pair].stake = s.shares[pair] /\ d.start[pair].height <= h
          /\ Ratio(d, v, d.start[pair].period) <= Ratio(d, v, Closed(d, v))
      BY <2>1, <2>4 DEF SolventAt
    <3>2. d.start[pair].height \in Nat
      BY <2>1, <2>4, ClaimType DEF Started
    <3>3. d.start[pair].height <= h + 1 /\ d.start[pair].height # h + 1
      BY <3>1, <3>2
    <3> QED BY <1>2, <1>9, <3>1, <3>3
  <2> QED BY <2>3, <2>4 DEF SolventAt
<1>11. Sound(e, s, V, D, h + 1)
  BY <1>2, <1>9, <1>10 DEF Sound
<1>12. ASSUME NEW v \in Validators, share[v] = 0
       PROVE  /\ e.outst[v] = d.outst[v] /\ e.rew[v] = d.rew[v]
              /\ d.comm[v] = 0 => e.comm[v] = 0
  BY <1>3, <1>12
<1> QED BY <1>1, <1>2, <1>6, <1>7, <1>8, <1>11, <1>12 DEF Allocated

-----------------------------------------------------------------------------
\* The hooks around a change of shares.

LEMMA SharesSame ==
    ASSUME NEW d, NEW s, NEW t, NEW V, NEW D, NEW h, Sound(d, s, V, D, h),
           \A pair \in D : t.shares[pair] = s.shares[pair]
    PROVE  Sound(d, t, V, D, h)
<1>1. \A v \in V : SolventAt(d, t, D, h, v)
  BY DEF Sound, SolventAt
<1> QED BY <1>1 DEF Sound

\* From d to e the hooks around a change of the shares of pair have been called.
Hooked(d, t, e, V, pair, h) ==
    /\ DistOK(e) /\ Sound(e, t, V, Delegations(t), h)
    /\ OnlyAt(d, e, pair[2]) /\ Settles(d, e)

LEMMA HooksSound ==
    ASSUME NEW d, DistOK(d), NEW s, StakOK(s), Backed(s), NEW t, StakOK(t),
           NEW V \in SUBSET Validators, NEW pair \in Pairs, pair[2] \in V, NEW h \in Nat,
           Sound(d, s, V, Delegations(s), h), Funded(d),
           \A other \in Pairs : other # pair => t.shares[other] = s.shares[other],
           NEW e, e = DelegationHooks(d, s, t, pair, h)
    PROVE  Hooked(d, t, e, V, pair, h)
<1> DEFINE D == Delegations(s)
           E == D \ {pair}
           before == IF s.shares[pair] > 0 THEN SettleDelegation(d, s, pair, h)
                     ELSE IncrementValidatorPeriod(d, s, pair[2])
<1>1. D \in SUBSET Pairs /\ E \in SUBSET Pairs /\ pair \in Pairs \ E
  BY DEF Delegations
<1>2. e = IF t.shares[pair] > 0 THEN InitializeDelegation(before, t, pair, h) ELSE before
  BY Zenon DEF DelegationHooks
<1>3. /\ DistOK(before) /\ Sound(before, s, V, E, h) /\ Fresh(before, E, pair[2])
      /\ OnlyAt(d, before, pair[2]) /\ Settles(d, before) /\ before.rew[pair[2]] = 0
  <2>1. CASE s.shares[pair] > 0
    <3>1. pair \in D /\ before = SettleDelegation(d, s, pair, h)
      BY <2>1 DEF Delegations
    <3> HIDE DEF before, D
    <3>2. Settled(d, s, before, V, D, pair, h)
      BY <1>1, <3>1, SettleSound DEF D
    <3> QED BY <3>2 DEF Settled
  <2>2. CASE ~ (s.shares[pair] > 0)
    <3>1. E = D /\ before = IncrementValidatorPeriod(d, s, pair[2])
      BY <2>2 DEF Delegations
    <3> HIDE DEF before, D, E
    <3>2. Advanced(d, s, before, V, D, pair[2], h)
      BY <1>1, <3>1, IncrementSound DEF D
    <3> QED BY <3>1, <3>2 DEF Advanced
  <2> QED BY <2>1, <2>2
<1> HIDE DEF before
<1>4. \A other \in E : t.shares[other] = s.shares[other]
  BY <1>1
<1>5. Sound(before, t, V, E, h)
  BY <1>3, <1>4, SharesSame
<1>6. Delegations(t) = IF t.shares[pair] > 0 THEN E \cup {pair} ELSE E
  BY DEF Delegations
<1> HIDE DEF E, D
<1>7. CASE t.shares[pair] > 0
  <2>1. e = InitializeDelegation(before, t, pair, h) /\ Delegations(t) = E \cup {pair}
    BY <1>2, <1>6, <1>7
  <2>2. Begun(before, t, e, V, E, pair, h)
    BY <1>1, <1>3, <1>5, <2>1, StartSound
  <2>3. DistOK(e) /\ Sound(e, t, V, Delegations(t), h)
        /\ OnlyAt(before, e, pair[2]) /\ Settles(before, e)
    BY <2>1, <2>2 DEF Begun
  <2> QED BY <1>3, <2>3, OnlyAtTwice, SettlesTwice DEF Hooked
<1>8. CASE ~ (t.shares[pair] > 0)
  <2>1. e = before /\ Delegations(t) = E
    BY <1>2, <1>6, <1>8
  <2> QED BY <1>3, <1>5, <2>1 DEF Hooked
<1> QED BY <1>7, <1>8

\* ... and those of a message that may remove the validator as well; V may hold
\* validators that were gone before.
LEMMA UnbondSound ==
    ASSUME NEW d, DistOK(d), NEW s, StakOK(s), Backed(s), NEW t, StakOK(t),
           NEW V \in SUBSET Validators, NEW pair \in Pairs, pair[2] \in V, NEW h \in Nat,
           Sound(d, s, V, Delegations(s), h), Funded(d),
           \A other \in Pairs : other # pair => t.shares[other] = s.shares[other],
           pair[2] \notin t.vals => \A other \in Delegations(t) : other[2] # pair[2],
           NEW e, e = UnbondHooks(d, s, t, pair, h)
    PROVE  /\ pair[2] \in t.vals => Hooked(d, t, e, V, pair, h)
           /\ pair[2] \notin t.vals =>
                /\ Hooked(d, t, e, V \ {pair[2]}, pair, h)
                /\ e.outst[pair[2]] = 0 /\ e.comm[pair[2]] = 0 /\ e.rew[pair[2]] = 0
<1> DEFINE f == DelegationHooks(d, s, t, pair, h)
           v == pair[2]
           D == Delegations(t)
<1>1. D \in SUBSET Pairs
  BY DEF Delegations
<1>2. Hooked(d, t, f, V, pair, h)
  BY HooksSound
<1>3. e = IF v \in t.vals THEN f ELSE RemoveRecords(f, v)
  BY Zenon DEF UnbondHooks
<1> HIDE DEF f
<1>4. /\ DistOK(f) /\ Sound(f, t, V, D, h)
      /\ OnlyAt(d, f, v) /\ Settles(d, f)
  BY <1>2 DEF Hooked
<1>5. CASE v \in t.vals
  BY <1>2, <1>3, <1>5
<1>6. CASE v \notin t.vals
  <2>1. e = RemoveRecords(f, v) /\ v \in V /\ \A other \in D : other[2] # v
    BY <1>3, <1>6
  <2>2. Funded(f)
    BY <1>4, SettlesFunded
  <2> HIDE DEF v, D
  <2>3. Removed(f, t, e, V, D, v, h)
    BY <1>1, <1>4, <2>1, <2>2, RemoveSound
  <2>4. /\ DistOK(e) /\ Sound(e, t, V \ {v}, D, h) /\ Settles(f, e)
        /\ OnlyAt(f, e, v) /\ e.outst[v] = 0 /\ e.comm[v] = 0 /\ e.rew[v] = 0
    BY <2>3 DEF Removed
  <2>5. OnlyAt(d, e, v) /\ Settles(d, e)
    BY <1>4, <2>4, OnlyAtTwice, SettlesTwice
  <2> QED BY <1>6, <2>4, <2>5 DEF Hooked, v, D
<1> QED BY <1>5, <1>6
=============================================================================
