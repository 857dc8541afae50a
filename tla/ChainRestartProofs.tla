-------------------------- MODULE ChainRestartProofs --------------------------
(***************************************************************************)
(* A chain started from what export.go returned runs as the old one did:   *)
(* InitChain accepts the genesis, the invariants of the old chain hold in  *)
(* the new one from its first block on, and every message pays what is due *)
(* on the delegations it settles.                                          *)
(***************************************************************************)
EXTENDS ChainRestart, ExportProofs

-----------------------------------------------------------------------------
\* Somebody has a seat: an election among validators of which one has power
\* seats the one that outranks the others.

Powerful(s) == {v \in s.index : Power(s, v) > 0}
Above(s, v) == {w \in s.index : Outranks(s, w, v)}

LEMMA OutranksOrder ==
    ASSUME NEW s, StakOK(s)
    PROVE  /\ \A v \in s.index : ~ Outranks(s, v, v)
           /\ \A u, v, w \in s.index :
                Outranks(s, u, v) /\ Outranks(s, v, w) => Outranks(s, u, w)
           /\ \A v, w \in s.index : Outranks(s, v, w) /\ Power(s, w) > 0 => Power(s, v) > 0
<1>1. \A v \in s.index : Power(s, v) \in Nat /\ v \in Nat
  BY PowerType, AddressAssumption DEF StakOK
<1> QED BY <1>1 DEF Outranks

LEMMA TopRanked ==
    ASSUME NEW s, StakOK(s), Powerful(s) # {}
    PROVE  \E v \in Powerful(s) : Above(s, v) = {}
<1> DEFINE P == Powerful(s)
           Closure(U) == \A u \in U : Above(s, u) \subseteq U
           Bad == {U \in SUBSET P : U # {} /\ Closure(U)}
<1>1. s.index \subseteq Validators /\ P \subseteq s.index /\ IsFiniteSet(P)
  <2>1. s.index \subseteq Validators /\ P \subseteq Validators /\ P \subseteq s.index
    BY DEF StakOK, Powerful
  <2> QED BY <2>1, FiniteAddresses, FS_Subset
<1>2. \A u \in P : Above(s, u) \subseteq P
  BY OutranksOrder DEF Powerful, Above
<1>3. P \in Bad
  BY <1>2
<1>4. PICK U \in Bad : \A W \in Bad : W \subseteq U => W = U
  <2>1. Bad \in SUBSET SUBSET P /\ Bad # {}
    BY <1>3
  <2> HIDE DEF Bad, P
  <2> QED BY <1>1, <2>1, SmallestSubset
<1>5. PICK u \in U : TRUE
  BY <1>4
<1>6. u \in P /\ Above(s, u) \subseteq U /\ Above(s, u) \subseteq P
  BY <1>2, <1>4, <1>5
<1>7. Closure(Above(s, u))
  BY <1>1, <1>6, OutranksOrder DEF Above
<1>8. u \notin Above(s, u)
  BY <1>1, <1>6, OutranksOrder DEF Above
<1>9. Above(s, u) = {}
  BY <1>4, <1>5, <1>6, <1>7, <1>8
<1> QED BY <1>6, <1>9

LEMMA SomebodyElected ==
    ASSUME NEW s, StakOK(s), Powerful(s) # {}
    PROVE  Electees(s) # {}
<1>1. PICK v \in Powerful(s) : Above(s, v) = {}
  BY TopRanked
<1>2. Cardinality(Above(s, v)) < MaxValidators
  BY <1>1, FS_EmptySet, StakingAssumption
<1>3. v \in Considered(s)
  BY <1>1, <1>2 DEF Considered, Above, Powerful
<1> QED BY <1>1, <1>3 DEF Electees, Powerful

\* The last set is not empty.
Seated(s) == \E v \in Validators : s.last[v] > 0

LEMMA SeatedInit == ASSUME Init PROVE Seated(stak)
<1>1. StakOK(CreatedStak) /\ stak = ApplyValidatorSetUpdates(CreatedStak, 1)
  BY GenesisType DEF Init, ChainInit
<1>2. PICK v \in GenesisValidators : GenesisStake[v] >= PowerReduction
  BY GenesisAssumption DEF GenesisValidators
<1>3. v \in CreatedStak.index /\ v \in Validators /\ GenesisStake[v] \in Nat
      /\ CreatedStak.tokens[v] = GenesisStake[v]
  BY ChainAssumption DEF CreatedStak, GenesisValidators
<1>4. Power(CreatedStak, v) > 0
  <2>1. \A n \in Nat, k \in Nat \ {0} : n >= k => n \div k > 0
    OBVIOUS
  <2> QED BY <1>2, <1>3, <2>1, StakingAssumption DEF Power
<1>5. PICK w : w \in Electees(CreatedStak)
  BY <1>1, <1>3, <1>4, SomebodyElected DEF Powerful
<1>6. w \in Validators /\ Power(CreatedStak, w) > 0
  BY <1>1, <1>5, ElecteesIn DEF Electees
<1>7. stak.last[w] = Power(CreatedStak, w)
  BY <1>1, <1>5, <1>6, SetUpdatesFields
<1> QED BY <1>6, <1>7 DEF Seated

-----------------------------------------------------------------------------
\* What a message pays.

(***************************************************************************)
(* From d to e the hooks around a change of the shares of pair, from s to  *)
(* t, have been called: what was due on it is paid, and it starts again,   *)
(* if it is still there, with another stake.                               *)
(***************************************************************************)
HooksPaid(d, s, t, e, pair) ==
    /\ e.comm = d.comm
    /\ e.paid = IF pair \in Delegations(s)
                THEN [d.paid EXCEPT ![pair[1]] = @ + (Earned(d, s, pair) \div Unit)]
                ELSE d.paid
    /\ \A other \in Pairs \ {pair} : e.start[other] = d.start[other]
    /\ pair \in Delegations(s) /\ t.shares[pair] # s.shares[pair]
         => e.start[pair] # d.start[pair]

LEMMA HooksPay ==
    ASSUME NEW d, DistOK(d), NEW s, StakOK(s), Backed(s), NEW t, StakOK(t),
           NEW V \in SUBSET Validators, NEW pair \in Pairs, pair[2] \in V, NEW h \in Nat,
           Sound(d, s, V, Delegations(s), h), Funded(d),
           \A other \in Pairs : other # pair => t.shares[other] = s.shares[other],
           NEW e, e = DelegationHooks(d, s, t, pair, h)
    PROVE  HooksPaid(d, s, t, e, pair)
<1> DEFINE D == Delegations(s)
           E == D \ {pair}
           before == IF s.shares[pair] > 0 THEN SettleDelegation(d, s, pair, h)
                     ELSE IncrementValidatorPeriod(d, s, pair[2])
<1>1. D \in SUBSET Pairs /\ E \in SUBSET Pairs /\ pair \in Pairs \ E
  BY DEF Delegations
<1>2. e = IF t.shares[pair] > 0 THEN InitializeDelegation(before, t, pair, h) ELSE before
  BY Zenon DEF DelegationHooks
<1>3. d.start \in [Pairs -> StartingInfo \cup {NoInfo}]
  BY DEF DistOK
<1>4. pair \in D => d.start[pair] # NoInfo /\ d.start[pair].stake = s.shares[pair]
  BY DEF Sound, Counted, SolventAt
<1>5. /\ DistOK(before) /\ Sound(before, s, V, E, h) /\ Fresh(before, E, pair[2])
      /\ before.rew[pair[2]] = 0 /\ before.comm = d.comm
      /\ before.start = IF pair \in D THEN [d.start EXCEPT ![pair] = NoInfo] ELSE d.start
      /\ before.paid = IF pair \in D
                       THEN [d.paid EXCEPT ![pair[1]] = @ + (Earned(d, s, pair) \div Unit)]
                       ELSE d.paid
  <2>1. CASE s.shares[pair] > 0
    <3>1. pair \in D /\ before = SettleDelegation(d, s, pair, h)
      BY <2>1 DEF Delegations
    <3> HIDE DEF before, D
    <3>2. Settled(d, s, before, V, D, pair, h)
      BY <1>1, <3>1, SettleSound DEF D
    <3> QED BY <3>1, <3>2 DEF Settled
  <2>2. CASE ~ (s.shares[pair] > 0)
    <3>1. E = D /\ pair \notin D /\ before = IncrementValidatorPeriod(d, s, pair[2])
      BY <2>2 DEF Delegations
    <3> HIDE DEF before, D, E
    <3>2. Advanced(d, s, before, V, D, pair[2], h)
      BY <1>1, <3>1, IncrementSound DEF D
    <3> QED BY <3>1, <3>2 DEF Advanced
  <2> QED BY <2>1, <2>2
<1> HIDE DEF before
<1>6. \A other \in Pairs \ {pair} : before.start[other] = d.start[other]
  BY <1>3, <1>5
<1>7. pair \in D => before.start[pair] = NoInfo
  BY <1>3, <1>5
<1>8. Sound(before, t, V, E, h)
  <2>1. \A other \in E : t.shares[other] = s.shares[other]
    BY <1>1
  <2> HIDE DEF E
  <2> QED BY <1>5, <2>1, SharesSame
<1> HIDE DEF E, D
<1>9. CASE t.shares[pair] > 0
  <2>1. e = InitializeDelegation(before, t, pair, h)
    BY <1>2, <1>9
  <2>2. Begun(before, t, e, V, E, pair, h)
    BY <1>1, <1>5, <1>8, <2>1, StartSound
  <2>3. /\ e.comm = before.comm /\ e.paid = before.paid
        /\ e.start = [before.start EXCEPT ![pair] =
              [period |-> Closed(before, pair[2]), stake |-> t.shares[pair], height |-> h]]
    BY <2>2 DEF Begun
  <2>4. before.start \in [Pairs -> StartingInfo \cup {NoInfo}]
    BY <1>5 DEF DistOK
  <2>5. \A other \in Pairs \ {pair} : e.start[other] = before.start[other]
    BY <2>3, <2>4
  <2>6. e.start[pair].stake = t.shares[pair]
    BY <2>3, <2>4
  <2> QED BY <1>4, <1>5, <1>6, <2>3, <2>5, <2>6 DEF HooksPaid, D
<1>10. CASE ~ (t.shares[pair] > 0)
  <2>1. e = before
    BY <1>2, <1>10
  <2> QED BY <1>4, <1>5, <1>6, <1>7, <2>1 DEF HooksPaid, D
<1> QED BY <1>9, <1>10

\* A validator without commission is removed without a payment.
LEMMA RemovalUnpaid ==
    ASSUME NEW d, DistOK(d), NEW v \in Validators, d.comm[v] = 0,
           NEW e, e = RemoveRecords(d, v)
    PROVE  /\ e.paid = d.paid /\ e.start = d.start
           /\ \A w \in Validators : d.comm[w] = 0 => e.comm[w] = 0
<1> DEFINE coins == d.comm[v] \div Unit
           sent == SendCoins(d, v, coins)
           f == [sent EXCEPT !.pool = @ + (d.outst[v] - coins * Unit),
                             !.hist[v] = [p \in {} |-> 0],
                             !.outst[v] = 0, !.comm[v] = 0, !.rew[v] = 0]
<1>1. e = IF d.comm[v] > d.outst[v] THEN Fault(d, "negative coins")
          ELSE IF coins > d.funds THEN Fault(d, "unfunded") ELSE f
  BY Zenon DEF RemoveRecords
<1>2. coins = 0
  BY UnitAssumption
<1> HIDE DEF coins
<1>3. /\ d.paid \in [Accounts -> Nat] /\ v \in Accounts
      /\ d.comm \in [Validators -> Nat]
  BY AddressAssumption DEF DistOK
<1>4. /\ sent.paid = [d.paid EXCEPT ![v] = @ + coins]
      /\ sent.start = d.start /\ sent.comm = d.comm
  BY DEF SendCoins, DistOK
<1>5. sent.paid = d.paid
  BY <1>2, <1>3, <1>4
<1>6. f.paid = sent.paid /\ f.start = sent.start /\ f.comm = [sent.comm EXCEPT ![v] = 0]
  BY DEF SendCoins, DistOK
<1> HIDE DEF f, sent
<1>7. \A why : Fault(d, why).paid = d.paid /\ Fault(d, why).start = d.start
               /\ Fault(d, why).comm = d.comm
  BY DEF Fault, DistOK
<1>8. \A w \in Validators : d.comm[w] = 0 => f.comm[w] = 0
  BY <1>3, <1>4, <1>6
<1>9. e = Fault(d, "negative coins") \/ e = Fault(d, "unfunded") \/ e = f
  BY <1>1, Zenon
<1>10. CASE e = f
  <2>1. f.paid = d.paid /\ f.start = d.start
    BY <1>4, <1>5, <1>6, Zenon
  <2> QED BY <1>8, <1>10, <2>1
<1>11. CASE \E why : e = Fault(d, why)
  BY <1>7, <1>11, Zenon
<1> QED BY <1>9, <1>10, <1>11

\* Nobody votes for a validator that never had a seat: it has no commission.
SeatlessUnpaid(d, s) == \A v \in Validators : s.status[v] = "unbonded" => d.comm[v] = 0

\* From d to e amount has been undelegated from pair, and what was due on it
\* paid, with or without the validator's removal.
Undelegated(d, s, t, e, pair) ==
    /\ \A v \in Validators : d.comm[v] = 0 => e.comm[v] = 0
    /\ e.paid = IF pair \in Delegations(s)
                THEN [d.paid EXCEPT ![pair[1]] = @ + (Earned(d, s, pair) \div Unit)]
                ELSE d.paid
    /\ \A other \in Pairs \ {pair} : e.start[other] = d.start[other]
    /\ pair \in Delegations(s) /\ t.shares[pair] # s.shares[pair]
         => e.start[pair] # d.start[pair]

LEMMA UnbondPay ==
    ASSUME ChainSound, SeatlessUnpaid(dist, stak), NEW pair \in Pairs,
           NEW amount \in Amounts, Removable(stak, pair, amount),
           NEW t, t = RemoveShares(stak, pair, amount),
           NEW e, e = UnbondHooks(dist, stak, t, pair, height)
    PROVE  Undelegated(dist, stak, t, e, pair)
<1> DEFINE f == DelegationHooks(dist, stak, t, pair, height)
<1>1. /\ DistOK(dist) /\ StakOK(stak) /\ Backed(stak) /\ height \in Nat
      /\ Sound(dist, stak, stak.vals, Delegations(stak), height)
      /\ Funded(dist) /\ stak.vals \in SUBSET Validators
      /\ pair[2] \in stak.vals /\ pair[2] \in Validators /\ amount \in Nat
  BY ChainAssumption DEF ChainSound, Removable
<1>2. StakOK(t)
  BY <1>1, RemoveSharesType
<1>3. \A other \in Pairs : other # pair => t.shares[other] = stak.shares[other]
  BY <1>1, SharesChanged
<1>4. DistOK(f) /\ HooksPaid(dist, stak, t, f, pair)
  BY <1>1, <1>2, <1>3, HooksPay, DelegationHooksType
<1>5. e = IF pair[2] \in t.vals THEN f ELSE RemoveRecords(f, pair[2])
  BY Zenon DEF UnbondHooks
<1> HIDE DEF f
<1>6. CASE pair[2] \in t.vals
  BY <1>4, <1>5, <1>6 DEF HooksPaid, Undelegated
<1>7. CASE pair[2] \notin t.vals
  <2>1. stak.status[pair[2]] = "unbonded"
    BY <1>1, <1>7, SeatsUntouched
  <2>2. f.comm[pair[2]] = 0
    BY <1>1, <1>4, <2>1 DEF SeatlessUnpaid, HooksPaid
  <2>3. /\ e.paid = f.paid /\ e.start = f.start
        /\ \A v \in Validators : f.comm[v] = 0 => e.comm[v] = 0
    BY <1>1, <1>4, <1>5, <1>7, <2>2, RemovalUnpaid
  <2> QED BY <1>4, <2>3 DEF HooksPaid, Undelegated
<1> QED BY <1>6, <1>7

\* The delegations a step settles, and that it pays what is due on them.
Restarted == {pair \in Delegations(stak) : dist'.start[pair] # dist.start[pair]}

PaysDues ==
    \A pair \in Restarted :
        dist'.paid[pair[1]] - dist.paid[pair[1]] = DuesTo(dist, stak, pair[1], Restarted)

\* What a message may rely on.
MessageSound ==
    /\ ChainSound
    /\ SeatlessUnpaid(dist, stak)

LEMMA DelegationsPayable ==
    ASSUME ChainSound
    PROVE  /\ Payable(dist, stak, Delegations(stak))
           /\ \A pair \in Delegations(stak) : dist.start[pair].stake = stak.shares[pair]
           /\ \A a \in Accounts : dist.paid[a] \in Nat
<1>1. /\ DistOK(dist) /\ StakOK(stak) /\ Delegations(stak) \in SUBSET Pairs
      /\ Sound(dist, stak, stak.vals, Delegations(stak), height)
  BY DEF ChainSound
<1>2. \A pair \in Delegations(stak) :
        dist.start[pair] # NoInfo /\ dist.start[pair].stake = stak.shares[pair]
  BY <1>1 DEF Sound, Counted, SolventAt
<1>3. \A pair \in Delegations(stak) : Earned(dist, stak, pair) \in Int
  BY <1>1, <1>2, EarnedType
<1>4. \A a \in Accounts : dist.paid[a] \in Nat
  BY <1>1 DEF DistOK
<1> QED BY <1>1, <1>2, <1>3, <1>4 DEF Payable

LEMMA DuesOfOne ==
    ASSUME NEW d, NEW s, NEW pair, Payable(d, s, {pair})
    PROVE  DuesTo(d, s, pair[1], {pair}) = Dues(d, s)[pair]
<1>1. DuesTo(d, s, pair[1], {pair})
        = Dues(d, s)[pair] + DuesTo(d, s, pair[1], {pair} \ {pair})
  BY DuesToOne
<1>2. DuesTo(d, s, pair[1], {pair} \ {pair}) = 0
  <2>1. {pair} \ {pair} = {}
    OBVIOUS
  <2> QED BY <2>1, DuesToNone
<1>3. Dues(d, s)[pair] \in Int
  BY WholeDue DEF Payable, Dues
<1> QED BY <1>1, <1>2, <1>3

LEMMA DuesOfTwo ==
    ASSUME NEW d, NEW s, NEW one, NEW two, one # two, one[1] = two[1],
           Payable(d, s, {one, two})
    PROVE  DuesTo(d, s, one[1], {one, two}) = Dues(d, s)[one] + Dues(d, s)[two]
<1> DEFINE D == {one, two}
<1>1. one \in D /\ D \ {one} = {two} /\ Payable(d, s, D) /\ Payable(d, s, {two})
  BY DEF Payable
<1> HIDE DEF D
<1>2. DuesTo(d, s, one[1], D) = Dues(d, s)[one] + DuesTo(d, s, one[1], D \ {one})
  BY <1>1, DuesToOne
<1>3. DuesTo(d, s, two[1], {two}) = Dues(d, s)[two]
  BY <1>1, DuesOfOne
<1> QED BY <1>1, <1>2, <1>3 DEF D

\* A message that settles one delegation at most.
LEMMA PaysOne ==
    ASSUME ChainSound, NEW pair \in Pairs,
           \A other \in Pairs \ {pair} : dist'.start[other] = dist.start[other],
           pair \in Delegations(stak) =>
             dist'.paid = [dist.paid EXCEPT ![pair[1]] = @ + (Earned(dist, stak, pair) \div Unit)]
    PROVE  PaysDues
<1> SUFFICES ASSUME NEW one \in Restarted
             PROVE  dist'.paid[one[1]] - dist.paid[one[1]]
                      = DuesTo(dist, stak, one[1], Restarted)
  BY DEF PaysDues
<1>1. Restarted = {pair} /\ one = pair /\ pair \in Delegations(stak)
  BY DEF Restarted, Delegations
<1>2. Payable(dist, stak, {pair}) /\ dist.paid[pair[1]] \in Int /\ Earned(dist, stak, pair) \in Int
  BY <1>1, DelegationsPayable, PairOf DEF Payable
<1>3. DuesTo(dist, stak, pair[1], {pair}) = Dues(dist, stak)[pair]
  BY <1>2, DuesOfOne
<1>4. dist'.paid[pair[1]] = dist.paid[pair[1]] + (Earned(dist, stak, pair) \div Unit)
  <2>1. dist.paid \in [Accounts -> Nat] /\ pair[1] \in Accounts
    BY PairOf DEF ChainSound, DistOK
  <2> QED BY <1>1, <2>1
<1>5. Earned(dist, stak, pair) \div Unit \in Int
  BY <1>2, WholeDue
<1> QED BY <1>1, <1>2, <1>3, <1>4, <1>5 DEF Dues

\* A redelegation settles the source, and the target if there is a delegation
\* to it already.
LEMMA PaysTwo ==
    ASSUME ChainSound, NEW one \in Delegations(stak), NEW two \in Pairs \ {one},
           one[1] = two[1],
           \A other \in Pairs \ {one, two} : dist'.start[other] = dist.start[other],
           dist'.start[one] # dist.start[one],
           two \in Delegations(stak) => dist'.start[two] # dist.start[two],
           dist'.paid = IF two \in Delegations(stak)
                        THEN [dist.paid EXCEPT ![one[1]] =
                                @ + (Earned(dist, stak, one) \div Unit)
                                  + (Earned(dist, stak, two) \div Unit)]
                        ELSE [dist.paid EXCEPT ![one[1]] =
                                @ + (Earned(dist, stak, one) \div Unit)]
    PROVE  PaysDues
<1> DEFINE a == one[1]
           x == Earned(dist, stak, one) \div Unit
           y == Earned(dist, stak, two) \div Unit
<1>1. /\ one \in Pairs /\ a \in Accounts /\ dist.paid[a] \in Int
      /\ dist.paid \in [Accounts -> Nat]
      /\ Payable(dist, stak, Delegations(stak))
  BY DelegationsPayable, PairOf DEF Delegations, ChainSound, DistOK
<1>2. x \in Int /\ x = Dues(dist, stak)[one]
  BY <1>1, WholeDue DEF Payable, Dues
<1>3. y = Dues(dist, stak)[two] /\ (two \in Delegations(stak) => y \in Int)
  BY <1>1, WholeDue DEF Payable, Dues
<1> HIDE DEF x, y
<1>4. SUFFICES ASSUME NEW pair \in Restarted
               PROVE  dist'.paid[a] - dist.paid[a] = DuesTo(dist, stak, a, Restarted)
                      /\ pair[1] = a
  BY DEF PaysDues
<1>5. pair[1] = a
  BY DEF Restarted, Delegations
<1>6. CASE two \in Delegations(stak)
  <2>1. Restarted = {one, two}
    BY <1>6 DEF Restarted, Delegations
  <2>2. Payable(dist, stak, {one, two}) /\ one # two /\ one[1] = two[1]
    BY <1>1, <1>6 DEF Payable
  <2>3. DuesTo(dist, stak, a, {one, two}) = Dues(dist, stak)[one] + Dues(dist, stak)[two]
    BY ONLY <2>2, DuesOfTwo DEF a
  <2>4. y \in Int
    BY <1>3, <1>6
  <2>5. DuesTo(dist, stak, a, Restarted) = x + y
    BY <1>2, <1>3, <2>1, <2>3
  <2>6. dist'.paid[a] = dist.paid[a] + x + y
    BY <1>1, <1>6 DEF x, y
  <2> QED BY <1>1, <1>2, <1>5, <2>4, <2>5, <2>6
<1>7. CASE two \notin Delegations(stak)
  <2>1. Restarted = {one}
    BY <1>7 DEF Restarted, Delegations
  <2>2. Payable(dist, stak, {one})
    BY <1>1 DEF Payable
  <2>3. DuesTo(dist, stak, a, {one}) = x
    BY <1>2, <2>2, DuesOfOne
  <2>4. DuesTo(dist, stak, a, Restarted) = x
    BY <2>1, <2>3
  <2>5. dist'.paid[a] = dist.paid[a] + x
    BY <1>1, <1>7 DEF x
  <2> QED BY <1>1, <1>2, <1>5, <2>4, <2>5
<1> QED BY <1>6, <1>7

\* What every message does: it pays what is due on the delegations it settles,
\* gives no commission to a validator without a seat, and leaves the last set.
MessagePays ==
    /\ PaysDues
    /\ SeatlessUnpaid(dist', stak')
    /\ stak'.last = stak.last

LEMMA SeatlessStays ==
    ASSUME NEW d, NEW s, NEW e, NEW t, SeatlessUnpaid(d, s), t.status = s.status,
           \A v \in Validators : d.comm[v] = 0 => e.comm[v] = 0
    PROVE  SeatlessUnpaid(e, t)
  BY DEF SeatlessUnpaid

LEMMA DelegatePays ==
    ASSUME MessageSound, NEW pair \in Pairs, NEW amount \in Amounts, MsgDelegate(pair, amount)
    PROVE  MessagePays
<1>1. /\ stak' = AddShares(stak, pair, amount) /\ pair[2] \in stak.vals
      /\ dist' = DelegationHooks(dist, stak, stak', pair, height)
  BY Zenon DEF MsgDelegate
<1>2. /\ DistOK(dist) /\ StakOK(stak) /\ Backed(stak) /\ height \in Nat
      /\ Sound(dist, stak, stak.vals, Delegations(stak), height)
      /\ Funded(dist) /\ stak.vals \in SUBSET Validators /\ amount \in Nat
  BY ChainAssumption DEF MessageSound, ChainSound
<1>3. StakOK(stak') /\ \A other \in Pairs : other # pair => stak'.shares[other] = stak.shares[other]
  BY <1>1, <1>2, AddSharesType, SharesChanged
<1>4. HooksPaid(dist, stak, stak', dist', pair)
  BY <1>1, <1>2, <1>3, HooksPay
<1>5. PaysDues
  BY <1>4, PaysOne DEF HooksPaid, MessageSound
<1>6. stak'.status = stak.status /\ stak'.last = stak.last
  BY <1>1, <1>2, SeatsUntouched
<1>7. SeatlessUnpaid(dist', stak')
  BY <1>4, <1>6, SeatlessStays DEF HooksPaid, MessageSound
<1> QED BY <1>5, <1>6, <1>7 DEF MessagePays

LEMMA UndelegatePays ==
    ASSUME MessageSound, NEW pair \in Pairs, NEW amount \in Amounts, MsgUndelegate(pair, amount)
    PROVE  MessagePays
<1> DEFINE t == RemoveShares(stak, pair, amount)
           e == UnbondHooks(dist, stak, t, pair, height)
<1>1. Removable(stak, pair, amount) /\ StakOK(stak) /\ amount \in Nat
  BY ChainAssumption DEF MsgUndelegate, MessageSound, ChainSound
<1>2. Undelegated(dist, stak, t, e, pair)
  BY <1>1, UnbondPay DEF MessageSound
<1>3. /\ stak'.shares = t.shares /\ stak'.vals = t.vals
      /\ stak'.status = t.status /\ stak'.last = t.last
  <2>1. StakOK(t)
    BY <1>1, RemoveSharesType
  <2> QED BY <2>1 DEF MsgUndelegate, StakOK
<1>4. dist' = UnbondHooks(dist, stak, stak', pair, height)
  BY Zenon DEF MsgUndelegate
<1>5. dist' = e
  <2> HIDE DEF t
  <2> QED BY <1>3, <1>4 DEF UnbondHooks, DelegationHooks, InitializeDelegation
<1>6. t.status = stak.status /\ t.last = stak.last
  BY <1>1, SeatsUntouched
<1> HIDE DEF t, e
<1>7. PaysDues
  BY <1>2, <1>5, PaysOne DEF Undelegated, MessageSound
<1>8. SeatlessUnpaid(dist', stak')
  BY <1>2, <1>3, <1>5, <1>6, SeatlessStays DEF Undelegated, MessageSound
<1> QED BY <1>3, <1>6, <1>7, <1>8 DEF MessagePays

LEMMA WithdrawRewardPays ==
    ASSUME MessageSound, NEW pair \in Pairs, MsgWithdrawDelegatorReward(pair)
    PROVE  MessagePays
<1>1. /\ stak' = stak /\ pair \in Delegations(stak)
      /\ dist' = WithdrawDelegationRewards(dist, stak, pair, height)
  BY DEF MsgWithdrawDelegatorReward, Delegations
<1>2. Withdrawn(dist, stak, dist', stak.vals, Delegations(stak), pair, height)
  BY <1>1, WithdrawSound DEF MessageSound, ChainSound
<1>3. PaysDues
  BY <1>2, PaysOne DEF Withdrawn, MessageSound
<1>4. SeatlessUnpaid(dist', stak')
  BY <1>1, <1>2, SeatlessStays DEF Withdrawn, MessageSound
<1> QED BY <1>1, <1>3, <1>4 DEF MessagePays

\* A step that settles no delegation.
LEMMA SettlesNone ==
    ASSUME \A pair \in Delegations(stak) : dist'.start[pair] = dist.start[pair]
    PROVE  PaysDues
  BY DEF PaysDues, Restarted

LEMMA WithdrawCommissionPays ==
    ASSUME MessageSound, NEW v \in Validators, MsgWithdrawValidatorCommission(v)
    PROVE  MessagePays
<1>1. /\ stak' = stak /\ dist.comm[v] > 0
      /\ dist' = WithdrawValidatorCommission(dist, v)
  BY DEF MsgWithdrawValidatorCommission
<1>2. /\ DistOK(dist) /\ Delegations(stak) \in SUBSET Pairs /\ stak.vals \in SUBSET Validators
      /\ Sound(dist, stak, stak.vals, Delegations(stak), height) /\ Funded(dist)
      /\ Unowed(dist, stak.vals)
  BY DEF MessageSound, ChainSound
<1>3. v \in stak.vals
  BY <1>1, <1>2 DEF Unowed
<1>4. Commissioned(dist, stak, dist', stak.vals, Delegations(stak), v, height)
  BY <1>1, <1>2, <1>3, CommissionSound
<1>5. PaysDues
  BY <1>4, SettlesNone DEF Commissioned
<1>6. \A w \in Validators : dist.comm[w] = 0 => dist'.comm[w] = 0
  <2>1. dist'.comm = [dist.comm EXCEPT ![v] = @ % Unit] /\ dist.comm \in [Validators -> Nat]
    BY <1>2, <1>4 DEF Commissioned, DistOK
  <2> QED BY <1>1, <2>1
<1>7. SeatlessUnpaid(dist', stak')
  BY <1>1, <1>6, SeatlessStays DEF MessageSound
<1> QED BY <1>1, <1>5, <1>7 DEF MessagePays

LEMMA CreatePays ==
    ASSUME MessageSound, NEW v \in Validators, NEW amount \in Amounts,
           MsgCreateValidator(v, amount)
    PROVE  MessagePays
<1> DEFINE pair == <<v, v>>
           created == CreateValidator(stak, v)
           hooked == InitializeValidator(dist, v)
           V == stak.vals \cup {v}
           D == Delegations(stak)
<1>1. /\ v \notin stak.vals /\ amount \in Nat
      /\ stak' = AddShares(created, pair, amount)
      /\ dist' = DelegationHooks(hooked, created, stak', pair, height)
  BY ChainAssumption, Zenon DEF MsgCreateValidator
<1>2. /\ DistOK(dist) /\ StakOK(stak) /\ Backed(stak) /\ height \in Nat
      /\ Sound(dist, stak, stak.vals, D, height) /\ D \in SUBSET Pairs
      /\ Funded(dist) /\ stak.vals \in SUBSET Validators
      /\ Unowed(dist, stak.vals) /\ Hosted(stak)
  BY DEF MessageSound, ChainSound
<1>3. pair \in Pairs /\ pair[2] = v
  BY AddressAssumption DEF Pairs
<1>4. /\ StakOK(created) /\ Backed(created)
      /\ created.shares = stak.shares /\ V \in SUBSET Validators
      /\ created.status = [stak.status EXCEPT ![v] = "unbonded"] /\ created.last = stak.last
  <2>1. \A one \in Delegations(stak) : one[2] # v
    BY <1>1, <1>2 DEF Hosted
  <2>2. StakOK(created) /\ Backed(created)
    BY <1>1, <1>2, <2>1, CreateValidatorType, CreateBacked
  <2> QED BY <1>2, <2>2 DEF CreateValidator, StakOK
<1>5. \A one \in D : one[2] # v
  BY <1>1, <1>2 DEF Hosted
<1>6. hooked = InitializeValidator([dist EXCEPT !.pool = @ + dist.outst[v]], v)
  <2>1. dist.outst[v] = 0 /\ dist.pool \in Nat
    BY <1>1, <1>2 DEF Unowed, DistOK
  <2>2. [dist EXCEPT !.pool = @ + dist.outst[v]] = dist
    BY <1>2, <2>1 DEF DistOK
  <2> QED BY <2>2, Zenon
<1> HIDE DEF created, hooked, pair, V, D
<1>7. Created(dist, stak, hooked, stak.vals, D, v, height)
  BY <1>1, <1>2, <1>5, <1>6, CreateSound
<1>8. /\ DistOK(hooked) /\ Sound(hooked, stak, V, D, height) /\ Settles(dist, hooked)
      /\ OnlyAt(dist, hooked, v) /\ hooked.start = dist.start /\ hooked.comm[v] = 0
  BY <1>7 DEF Created, V
<1>9. Delegations(created) = D
  BY <1>4 DEF Delegations, D
<1>10. Sound(hooked, created, V, Delegations(created), height) /\ Funded(hooked)
  <2>1. \A one \in D : created.shares[one] = stak.shares[one]
    BY <1>4
  <2>2. Sound(hooked, created, V, D, height)
    BY <1>8, <2>1, SharesSame
  <2> QED BY <1>2, <1>8, <1>9, <2>2, SettlesFunded
<1>11. v \in V
  BY DEF V
<1>12. /\ StakOK(stak')
       /\ \A other \in Pairs : other # pair => stak'.shares[other] = created.shares[other]
  BY <1>1, <1>3, <1>4, AddSharesType, SharesChanged
<1>13. HooksPaid(hooked, created, stak', dist', pair)
  BY <1>1, <1>2, <1>3, <1>4, <1>8, <1>10, <1>11, <1>12, HooksPay
<1>14. PaysDues
  <2>1. \A one \in D : one \in Pairs \ {pair}
    BY <1>2, <1>3, <1>5
  <2> QED BY <1>8, <1>13, <2>1, SettlesNone DEF HooksPaid, D
<1>15. stak'.status = created.status /\ stak'.last = stak.last
  BY <1>1, <1>3, <1>4, SeatsUntouched
<1>16. SeatlessUnpaid(hooked, created)
  <2> SUFFICES ASSUME NEW w \in Validators, created.status[w] = "unbonded"
               PROVE  hooked.comm[w] = 0
    BY DEF SeatlessUnpaid
  <2>1. CASE w = v
    BY <1>8, <2>1
  <2>2. CASE w # v
    <3>1. created.status[w] = stak.status[w]
      BY <1>2, <1>4, <2>2 DEF StakOK
    <3>2. dist.comm[w] = 0 /\ hooked.comm[w] = dist.comm[w]
      BY <1>8, <2>2, <3>1 DEF MessageSound, SeatlessUnpaid, OnlyAt
    <3> QED BY <3>2
  <2> QED BY <2>1, <2>2
<1>17. SeatlessUnpaid(dist', stak')
  BY <1>13, <1>15, <1>16, SeatlessStays DEF HooksPaid
<1> QED BY <1>14, <1>15, <1>17 DEF MessagePays

LEMMA RedelegatePays ==
    ASSUME MessageSound, NEW a \in Accounts, NEW from \in Validators, NEW to \in Validators,
           NEW amount \in Amounts, MsgBeginRedelegate(a, from, to, amount)
    PROVE  MessagePays
<1> DEFINE route == <<a, from, to>>
           one == <<a, from>>
           two == <<a, to>>
           removed == RemoveShares(stak, one, amount)
           created == IF stak.status[from] = "unbonding"
                      THEN stak.unbondHeight[from] ELSE height
           entry == [height |-> created, due |-> created, amount |-> amount]
           added == IF stak.status[from] = "unbonded" THEN {} ELSE {entry}
           left == UnbondHooks(dist, stak, removed, one, height)
           moved == AddShares(removed, two, amount)
<1>1. /\ amount \in Nat \ {0} /\ one \in Pairs /\ two \in Pairs
      /\ one[1] = a /\ two[1] = a /\ one[2] = from /\ two[2] = to
  BY ChainAssumption DEF Pairs
<1>2. /\ stak' = [moved EXCEPT !.red[route] = @ \cup added]
      /\ dist' = DelegationHooks(left, removed, moved, two, height)
      /\ from # to /\ to \in stak.vals
      /\ Removable(stak, one, amount)
  BY Zenon DEF MsgBeginRedelegate
<1>3. one # two
  BY <1>1, <1>2
<1> HIDE DEF one, two
<1>4. /\ DistOK(dist) /\ StakOK(stak) /\ Funded(dist) /\ height \in Nat
      /\ stak.vals \in SUBSET Validators
      /\ dist.paid \in [Accounts -> Nat] /\ dist.comm \in [Validators -> Nat]
  BY DEF MessageSound, ChainSound, DistOK
<1>5. Unbonded(removed, left, one) /\ Undelegated(dist, stak, removed, left, one)
  BY <1>1, <1>2, SolvencyUnbond, UnbondPay DEF MessageSound
<1>6. /\ \A other \in Pairs : other # one => removed.shares[other] = stak.shares[other]
      /\ removed.shares[one] = stak.shares[one] - amount
      /\ removed.status = stak.status /\ removed.last = stak.last
      /\ removed.tokens[to] = stak.tokens[to]
  <2>1. removed.shares[one] = stak.shares[one] - amount /\ removed.tokens[to] = stak.tokens[to]
    BY <1>1, <1>2, <1>4 DEF RemoveShares, RemoveAbandoned, SetTokens, Jail, StakOK
  <2> QED BY <1>1, <1>4, <2>1, SharesChanged, SeatsUntouched
<1>7. one \in Delegations(stak)
  BY <1>1, <1>2, <1>4 DEF Removable, Delegations, StakOK
<1>8. two \in Delegations(removed) <=> two \in Delegations(stak)
  BY <1>1, <1>3, <1>6 DEF Delegations
<1> HIDE DEF removed, left
<1>9. /\ StakOK(removed) /\ Backed(removed) /\ DistOK(left)
      /\ Sound(left, removed, removed.vals, Delegations(removed), height)
      /\ Funded(left) /\ removed.vals \in SUBSET Validators /\ two[2] \in removed.vals
  <2>1. /\ StakOK(removed) /\ Backed(removed) /\ DistOK(left)
        /\ Sound(left, removed, removed.vals, Delegations(removed), height)
        /\ Settles(dist, left) /\ removed.vals \subseteq stak.vals
        /\ stak.vals \ {from} \subseteq removed.vals
    BY <1>1, <1>5 DEF Unbonded
  <2> QED BY <1>1, <1>2, <1>4, <2>1, SettlesFunded
<1>10. /\ StakOK(moved) /\ moved.status = removed.status /\ moved.last = removed.last
       /\ \A other \in Pairs : other # two => moved.shares[other] = removed.shares[other]
       /\ moved.shares[two] = removed.shares[two] + amount
  <2>1. moved.shares[two] = removed.shares[two] + amount
    BY <1>1, <1>9 DEF AddShares, SetTokens, StakOK
  <2> QED BY <1>1, <1>9, <2>1, AddSharesType, SharesChanged, SeatsUntouched
<1> HIDE DEF moved, route, added
<1>11. HooksPaid(left, removed, moved, dist', two)
  BY <1>1, <1>2, <1>4, <1>9, <1>10, HooksPay
<1>12. Earned(left, removed, two) = Earned(dist, stak, two) /\ left.start[two] = dist.start[two]
  <2>1. OnlyAt(dist, left, from) /\ two[2] # from
    BY <1>1, <1>2, <1>5 DEF Unbonded
  <2>2. /\ left.start[two] = dist.start[two] /\ Claim(left, two) = Claim(dist, two)
        /\ left.rew[two[2]] = dist.rew[two[2]]
    BY <1>1, <2>1, ElsewhereSame
  <2> QED BY <1>1, <1>6, <2>2 DEF Earned, Growth
<1>13. PaysDues
  <2>1. \A other \in Pairs \ {one, two} : dist'.start[other] = dist.start[other]
    BY <1>5, <1>11 DEF HooksPaid, Undelegated
  <2>2. dist'.start[one] # dist.start[one]
    <3>1. removed.shares[one] # stak.shares[one]
      BY <1>1, <1>4, <1>6 DEF StakOK
    <3> QED BY <1>1, <1>3, <1>5, <1>7, <1>11, <3>1 DEF HooksPaid, Undelegated
  <2>3. two \in Delegations(stak) => dist'.start[two] # dist.start[two]
    <3>1. moved.shares[two] # removed.shares[two]
      BY <1>1, <1>9, <1>10 DEF StakOK
    <3> QED BY <1>8, <1>11, <1>12, <3>1 DEF HooksPaid
  <2>4. left.paid = [dist.paid EXCEPT ![one[1]] = @ + (Earned(dist, stak, one) \div Unit)]
    BY <1>5, <1>7 DEF Undelegated
  <2>5. dist'.paid = IF two \in Delegations(stak)
                     THEN [left.paid EXCEPT ![two[1]] = @ + (Earned(dist, stak, two) \div Unit)]
                     ELSE left.paid
    BY <1>8, <1>11, <1>12 DEF HooksPaid
  <2>6. dist'.paid = IF two \in Delegations(stak)
                     THEN [dist.paid EXCEPT ![one[1]] =
                             @ + (Earned(dist, stak, one) \div Unit)
                               + (Earned(dist, stak, two) \div Unit)]
                     ELSE [dist.paid EXCEPT ![one[1]] =
                             @ + (Earned(dist, stak, one) \div Unit)]
    BY <1>1, <1>4, <2>4, <2>5
  <2>7. ChainSound /\ two \in Pairs \ {one} /\ one[1] = two[1]
    BY <1>1, <1>3 DEF MessageSound
  <2> QED BY <1>7, <2>1, <2>2, <2>3, <2>6, <2>7, PaysTwo
<1>14. stak'.status = stak.status /\ stak'.last = stak.last
  BY <1>2, <1>6, <1>10 DEF StakOK
<1>15. SeatlessUnpaid(dist', stak')
  <2>1. \A v \in Validators : dist.comm[v] = 0 => dist'.comm[v] = 0
    BY <1>5, <1>11 DEF HooksPaid, Undelegated
  <2> QED BY <1>14, <2>1, SeatlessStays DEF MessageSound
<1> QED BY <1>13, <1>14, <1>15 DEF MessagePays

LEMMA MessageSoundFrom ==
    ASSUME SolvencyInv, SeatlessUnpaid(dist, stak), pc \in {"idle", "block"}
    PROVE  MessageSound
  BY ChainSoundFrom DEF MessageSound

LEMMA MessagesPay ==
    ASSUME SolvencyInv, SeatlessUnpaid(dist, stak), ChainNext, ~ BeginBlock, ~ EndBlock
    PROVE  MessagePays
<1>1. ASSUME pc = "block" PROVE MessageSound
  BY <1>1, MessageSoundFrom
<1>2. CASE \E pair \in Pairs, amount \in Amounts :
             MsgDelegate(pair, amount) \/ MsgUndelegate(pair, amount)
  <2>1. PICK pair \in Pairs, amount \in Amounts :
          MsgDelegate(pair, amount) \/ MsgUndelegate(pair, amount)
    BY <1>2
  <2>2. pc = "block"
    BY <2>1 DEF MsgDelegate, MsgUndelegate, Deliver
  <2> QED BY <1>1, <2>1, <2>2, DelegatePays, UndelegatePays
<1>3. CASE \E a \in Accounts, from, to \in Validators, amount \in Amounts :
             MsgBeginRedelegate(a, from, to, amount)
  <2>1. PICK a \in Accounts, from \in Validators, to \in Validators, amount \in Amounts :
          MsgBeginRedelegate(a, from, to, amount)
    BY <1>3
  <2>2. pc = "block"
    BY <2>1 DEF MsgBeginRedelegate, Deliver
  <2> QED BY <1>1, <2>1, <2>2, RedelegatePays
<1>4. CASE \E v \in Validators, amount \in Amounts : MsgCreateValidator(v, amount)
  <2>1. PICK v \in Validators, amount \in Amounts : MsgCreateValidator(v, amount)
    BY <1>4
  <2>2. pc = "block"
    BY <2>1 DEF MsgCreateValidator, Deliver
  <2> QED BY <1>1, <2>1, <2>2, CreatePays
<1>5. CASE \E pair \in Pairs : MsgWithdrawDelegatorReward(pair)
  <2>1. pc = "block"
    BY <1>5 DEF MsgWithdrawDelegatorReward, Deliver
  <2> QED BY <1>1, <1>5, <2>1, WithdrawRewardPays
<1>6. CASE \E v \in Validators : MsgWithdrawValidatorCommission(v)
  <2>1. pc = "block"
    BY <1>6 DEF MsgWithdrawValidatorCommission, Deliver
  <2> QED BY <1>1, <1>6, <2>1, WithdrawCommissionPays
<1> QED BY <1>2, <1>3, <1>4, <1>5, <1>6 DEF ChainNext

-----------------------------------------------------------------------------
\* The other steps.

LEMMA SeatlessBegin ==
    ASSUME SolvencyInv, SeatlessUnpaid(dist, stak), BeginBlock
    PROVE  SeatlessUnpaid(dist', stak')
<1>1. MessageSound
  BY MessageSoundFrom DEF BeginBlock
<1>2. PICK share \in [Validators -> VoteShares \cup {0}] :
        /\ \A v \in Validators \ Voters : share[v] = 0
        /\ Total(share) \in 0..(Fee * Unit)
        /\ dist' = AllocateTokens(dist, share, Fee, Total(share))
  BY DEF BeginBlock
<1>3. share \in [Validators -> Nat] /\ Fee \in Nat
  <2>1. VoteShares \cup {0} \subseteq Nat /\ Fee \in Nat
    BY ChainAssumption
  <2>2. \A v \in Validators : share[v] \in Nat
    BY <2>1
  <2> QED BY <2>1, <2>2
<1> DEFINE total == Total(share)
<1>4. total = SumFunctionOnSet(share, Validators) /\ total \in 0..(Fee * Unit)
      /\ dist' = AllocateTokens(dist, share, Fee, total)
  BY <1>2 DEF Total
<1> HIDE DEF total
<1>5. Allocated(dist, stak, dist', stak.vals, Delegations(stak), share, Fee, height)
  BY <1>1, <1>3, <1>4, AllocateSound DEF MessageSound, ChainSound
<1>6. ASSUME NEW v \in Validators, stak'.status[v] = "unbonded"
      PROVE  dist'.comm[v] = 0
  <2>1. stak' = stak /\ v \notin Voters
    BY <1>6 DEF BeginBlock, Voters
  <2>2. share[v] = 0 /\ dist.comm[v] = 0
    BY <1>2, <1>6, <2>1 DEF SeatlessUnpaid
  <2> QED BY <1>5, <2>2 DEF Allocated
<1> QED BY <1>6 DEF SeatlessUnpaid

LEMMA SeatlessEnd ==
    ASSUME StakOK(stak), SeatlessUnpaid(dist, stak), EndBlock
    PROVE  SeatlessUnpaid(dist', stak')
<1>1. stak' = ApplyValidatorSetUpdates(stak, height) /\ dist' = dist
  BY DEF EndBlock
<1>2. \A v \in Validators : stak'.status[v] = "unbonded" => stak.status[v] = "unbonded"
  <2>1. \A v \in Validators :
          stak'.status[v] = IF v \in Electees(stak) THEN "bonded"
                            ELSE IF InLastSet(stak, v) THEN "unbonding" ELSE stak.status[v]
    BY <1>1, SetUpdatesFields
  <2> QED BY <2>1
<1> QED BY <1>1, <1>2 DEF SeatlessUnpaid

\* The export changes neither the last set nor a status.
LEMMA ExportKeepsSeats ==
    ASSUME SeatsInv, SeatsInv', ExportStep
    PROVE  stak'.status = stak.status /\ stak'.last = stak.last
<1>1. /\ pc \notin {"idle", "block"} /\ pc' \notin {"idle", "block"} /\ snap' = snap
  BY DEF ExportStep, ParseAllowList, GetAllDelegations, ClearHistory, StartDelegations,
         RestoreHeight, ResetRedelegations, ResetUnbondings, CloseIterator,
         ApplySetUpdates, CollectGenesis, WithdrawCommission, ReinitValidator,
         ResetValidator, WithdrawRewards, ReinitDelegation, Goto, exportVars
<1> QED BY <1>1 DEF SeatsInv, SeatsKept

\* A step of the export pays commission, or starts a validator without any.
LEMMA CommissionStays ==
    ASSUME SolvencyInv, SolvencyInv', ExportStep
    PROVE  \A v \in Validators : dist.comm[v] = 0 => dist'.comm[v] = 0
<1>1. CountInv' /\ DistOK(dist)
  BY DEF SolvencyInv, CountInv, TypeOK
<1>2. CASE dist' = dist
  BY <1>2
<1>3. CASE ClearHistory
  BY <1>1, <1>3 DEF ClearHistory, DistOK
<1>4. ASSUME NEW v \in Validators, WithdrawCommission(v)
      PROVE  \A w \in Validators : dist.comm[w] = 0 => dist'.comm[w] = 0
  <2>1. dist' = WithdrawValidatorCommission(dist, v)
    BY <1>4 DEF WithdrawCommission
  <2> DEFINE coins == dist.comm[v] \div Unit
             sent == SendCoins(dist, v, coins)
  <2>2. dist.comm \in [Validators -> Nat] /\ sent.comm = dist.comm
    BY <1>1 DEF DistOK, SendCoins
  <2>3. \A why : Fault(dist, why).comm = dist.comm
    BY <1>1 DEF Fault, DistOK
  <2>4. dist' = dist \/ dist' = Fault(dist, "negative coins")
        \/ dist' = [sent EXCEPT !.comm[v] = dist.comm[v] % Unit,
                                !.outst[v] = @ - coins * Unit]
    BY <2>1 DEF WithdrawValidatorCommission
  <2>5. dist.comm[v] = 0 => dist' = dist
    BY <2>1 DEF WithdrawValidatorCommission
  <2>6. [sent EXCEPT !.comm[v] = dist.comm[v] % Unit, !.outst[v] = @ - coins * Unit].comm
          = [sent.comm EXCEPT ![v] = dist.comm[v] % Unit]
    BY <1>1 DEF DistOK, SendCoins
  <2> HIDE DEF coins, sent
  <2> QED BY <2>2, <2>3, <2>4, <2>5, <2>6
<1>5. ASSUME NEW pair \in Pairs, WithdrawRewards(pair)
      PROVE  \A w \in Validators : dist.comm[w] = 0 => dist'.comm[w] = 0
  <2>1. pc = "rewards" /\ pair \in todoD
        /\ dist' = IF pair[2] \in stak.vals
                   THEN WithdrawDelegationRewards(dist, stak, pair, ctx) ELSE dist
    BY <1>5 DEF WithdrawRewards, NextD
  <2>2. ChainSound /\ ctx = height /\ pair \in Delegations(stak)
    BY <2>1, WholeSoundFrom DEF SolvencyInv, CountInv, LoopsSound
  <2>3. CASE pair[2] \in stak.vals
    <3>1. Withdrawn(dist, stak, dist', stak.vals, Delegations(stak), pair, height)
      BY <2>1, <2>2, <2>3, WithdrawSound DEF ChainSound
    <3> QED BY <3>1 DEF Withdrawn
  <2> QED BY <2>1, <2>3
<1>6. ASSUME NEW v \in Validators, ReinitValidator(v)
      PROVE  \A w \in Validators : dist.comm[w] = 0 => dist'.comm[w] = 0
  <2>1. Created(dist, stak, dist', stak.vals \ todoV, {}, v, 0)
    BY <1>1, <1>6, SolvencyValidator
  <2> QED BY <2>1 DEF Created, OnlyAt
<1>7. ASSUME NEW pair \in Pairs, ReinitDelegation(pair)
      PROVE  \A w \in Validators : dist.comm[w] = 0 => dist'.comm[w] = 0
  <2> DEFINE closed == IncrementValidatorPeriod(dist, stak, pair[2])
             D == Delegations(stak) \ todoD
  <2>1. /\ Advanced(dist, stak, closed, stak.vals, D, pair[2], 0)
        /\ Begun(closed, stak, dist', stak.vals, D, pair, 0)
    BY <1>1, <1>7, SolvencyDelegation
  <2> HIDE DEF closed, D
  <2> QED BY <2>1 DEF Advanced, Begun
<1>8. \/ dist' = dist \/ ClearHistory
      \/ \E v \in Validators : WithdrawCommission(v) \/ ReinitValidator(v)
      \/ \E pair \in Pairs : WithdrawRewards(pair) \/ ReinitDelegation(pair)
  BY DEF ExportStep, ParseAllowList, GetAllDelegations, StartDelegations,
         RestoreHeight, ResetRedelegations, ResetUnbondings, CloseIterator,
         ApplySetUpdates, CollectGenesis, ResetValidator
<1> QED BY <1>2, <1>3, <1>4, <1>5, <1>6, <1>7, <1>8

LEMMA SeatlessNext ==
    ASSUME SolvencyInv, SolvencyInv', SeatsInv, SeatsInv', SeatlessUnpaid(dist, stak), [Next]_vars
    PROVE  SeatlessUnpaid(dist', stak')
<1>1. CASE ChainNext
  <2>1. StakOK(stak)
    BY DEF SolvencyInv, CountInv, TypeOK
  <2> QED BY <1>1, <2>1, SeatlessBegin, SeatlessEnd, MessagesPay DEF MessagePays
<1>2. CASE ExportStep
  BY <1>2, ExportKeepsSeats, CommissionStays, SeatlessStays
<1>3. CASE UNCHANGED <<dist, stak>>
  BY <1>3
<1>4. \A zero, list : StartExport(zero, list) => UNCHANGED <<dist, stak>>
  BY DEF StartExport
<1> QED BY <1>1, <1>2, <1>3, <1>4 DEF Next, vars

LEMMA SeatedNext ==
    ASSUME SolvencyInv, SeatsInv, SeatsInv', SeatlessUnpaid(dist, stak), Seated(stak), [Next]_vars
    PROVE  Seated(stak')
<1>1. CASE ChainNext
  <2>1. BeginBlock => stak' = stak
    BY DEF BeginBlock
  <2>2. EndBlock => Seated(stak')
    BY DEF EndBlock, Seated
  <2> QED BY <1>1, <2>1, <2>2, MessagesPay DEF MessagePays, Seated
<1>2. CASE ExportStep
  BY <1>2, ExportKeepsSeats DEF Seated
<1>3. CASE UNCHANGED <<dist, stak>>
  BY <1>3
<1>4. \A zero, list : StartExport(zero, list) => UNCHANGED <<dist, stak>>
  BY DEF StartExport
<1> QED BY <1>1, <1>2, <1>3, <1>4 DEF Next, vars

-----------------------------------------------------------------------------
\* The new chain.

\* What started at height zero may be settled at any later height.
LEMMA DatelessSound ==
    ASSUME NEW d, NEW s, NEW V, NEW D, NEW h, Sound(d, s, V, D, h),
           \A pair \in D : d.start[pair].height = 0, NEW k \in Nat \ {0}
    PROVE  Sound(d, s, V, D, k)
<1>1. ASSUME NEW v \in V PROVE SolventAt(d, s, D, k, v)
  <2>1. SolventAt(d, s, D, h, v)
    BY DEF Sound
  <2>2. \A pair \in D : d.start[pair].height <= k /\ d.start[pair].height # k
    OBVIOUS
  <2> QED BY <2>1, <2>2 DEF SolventAt
<1> QED BY <1>1 DEF Sound

\* What InitChain finds: the books the export ended with, whole.
LEMMA ExportedBooks ==
    ASSUME SolvencyInv, pc = "done"
    PROVE  /\ DistOK(dist) /\ StakOK(stak) /\ height \in Nat \ {0}
           /\ Delegations(stak) \in SUBSET Pairs /\ stak.vals \in SUBSET Validators
           /\ Sound(dist, stak, stak.vals, Delegations(stak), height)
           /\ Funded(dist) /\ Backed(stak) /\ Hosted(stak)
           /\ Unowed(dist, stak.vals)
<1>1. /\ LiveValidators = stak.vals /\ LiveDelegations = Delegations(stak) /\ Now = height
  BY DEF LiveValidators, LiveDelegations, Now, SolvencyInv, ContextSound
<1>2. Unowed(dist, stak.vals)
  BY DEF SolvencyInv, Owing, Unowed
<1> QED BY <1>1, <1>2 DEF SolvencyInv, CountInv, TypeOK, ContextSound, StakOK, Delegations

\* ... and the books of the new chain's first block: at most a block's fees
\* have come in.
NewBooks ==
    /\ DistOK(dist') /\ height' \in Nat \ {0}
    /\ Sound(dist', stak, stak.vals, Delegations(stak), height')
    /\ Funded(dist') /\ Unowed(dist', stak.vals)
    /\ SeatlessUnpaid(dist', stak)
    /\ dist'.start = dist.start
    /\ dist' = dist \/ Accrues(dist, dist')

LEMMA ImportBooks ==
    ASSUME SolvencyInv, SeatsInv, FreshInv, SeatlessUnpaid(dist, stak), Import
    PROVE  NewBooks
<1> DEFINE V == stak.vals
           D == Delegations(stak)
<1>1. pc = "done"
  BY DEF Import
<1>2. /\ DistOK(dist) /\ height \in Nat \ {0} /\ V \in SUBSET Validators /\ D \in SUBSET Pairs
      /\ Sound(dist, stak, V, D, height) /\ Funded(dist) /\ Unowed(dist, V)
  BY <1>1, ExportedBooks
<1>3. genesis.height = IF forZero THEN 0 ELSE height + 1
  BY <1>1 DEF SeatsInv
<1>4. CASE forZero
  <2>1. dist' = dist /\ height' = 1
    BY <1>3, <1>4 DEF Import
  <2>2. \A pair \in D : dist.start[pair].height = 0
    BY <1>1, <1>4 DEF FreshInv, Rebuilt, LiveDelegations
  <2> HIDE DEF V, D
  <2>3. Sound(dist, stak, V, D, 1)
    BY <1>2, <2>2, DatelessSound
  <2> QED BY <1>2, <2>1, <2>3 DEF NewBooks, V, D
<1>5. CASE ~ forZero
  <2> DEFINE share == [v \in Validators |-> 0]
  <2>1. dist' = AllocateTokens(dist, share, Fee, 0) /\ height' = height + 1
    <3>1. genesis.height # 0
      BY <1>2, <1>3, <1>5
    <3> QED BY <1>3, <1>5, <3>1 DEF Import
  <2>2. share \in [Validators -> Nat] /\ \A v \in Validators : share[v] = 0
    OBVIOUS
  <2> HIDE DEF share, V, D
  <2>3. 0 = SumFunctionOnSet(share, Validators)
    BY <2>2, FiniteAddresses, SumOfZeros
  <2>4. Fee \in Nat /\ 0 \in 0..(Fee * Unit)
    BY ChainAssumption, UnitAssumption, Distributes
  <2>5. Allocated(dist, stak, dist', V, D, share, Fee, height)
    BY <1>2, <2>1, <2>2, <2>3, <2>4, AllocateSound
  <2>6. /\ DistOK(dist') /\ Sound(dist', stak, V, D, height + 1) /\ Funded(dist')
        /\ dist'.start = dist.start
        /\ \A v \in Validators :
             /\ dist'.outst[v] = dist.outst[v] /\ dist'.rew[v] = dist.rew[v]
             /\ dist.comm[v] = 0 => dist'.comm[v] = 0
        /\ Accrues(dist, dist')
    BY <2>2, <2>5 DEF Allocated, SameHistory, Accrues
  <2>7. Unowed(dist', V) /\ SeatlessUnpaid(dist', stak)
    BY <1>2, <2>6 DEF Unowed, SeatlessUnpaid
  <2> QED BY <1>2, <2>1, <2>6, <2>7 DEF NewBooks, V, D
<1> QED BY <1>4, <1>5

\* The power index is built anew, from those that are not jailed.
LEMMA ImportSeats ==
    ASSUME StakOK(stak), Electable(stak), Import
    PROVE  /\ stak' = [stak EXCEPT !.index = {v \in stak.vals : ~ stak.jailed[v]}]
           /\ StakOK(stak') /\ Electable(stak') /\ Unjailed(stak')
           /\ stak'.vals = stak.vals /\ stak'.shares = stak.shares
           /\ stak'.tokens = stak.tokens /\ stak'.status = stak.status
           /\ stak'.last = stak.last
           /\ Delegations(stak') = Delegations(stak)
<1>1. stak' = [stak EXCEPT !.index = {v \in stak.vals : ~ stak.jailed[v]}]
  BY DEF Import
<1>2. /\ stak'.index = {v \in stak.vals : ~ stak.jailed[v]} /\ stak'.jailed = stak.jailed
      /\ stak'.vals = stak.vals /\ stak'.shares = stak.shares
      /\ stak'.tokens = stak.tokens /\ stak'.status = stak.status
      /\ stak'.last = stak.last
  BY <1>1 DEF StakOK
<1>3. StakOK(stak')
  BY <1>1 DEF StakOK
<1>4. Electable(stak') /\ Unjailed(stak')
  BY <1>2 DEF Electable, Manned, Unjailed
<1> QED BY <1>1, <1>2, <1>3, <1>4 DEF Delegations

LEMMA ImportSound ==
    ASSUME SolvencyInv, SeatsInv, FreshInv, SeatlessUnpaid(dist, stak), Import
    PROVE  /\ SolvencyInv' /\ SeatsInv' /\ FreshInv' /\ SeatlessUnpaid(dist', stak')
           /\ NewBooks
<1>1. /\ pc = "done" /\ pc' = "block" /\ UNCHANGED <<msgs, exportVars>>
  BY DEF Import
<1>2. /\ NewBooks /\ StakOK(stak) /\ Backed(stak) /\ Hosted(stak) /\ Electable(stak)
  BY <1>1, ImportBooks, ExportedBooks DEF SeatsInv
<1>3. /\ StakOK(stak') /\ Electable(stak') /\ Unjailed(stak')
      /\ stak'.vals = stak.vals /\ stak'.shares = stak.shares
      /\ stak'.tokens = stak.tokens /\ stak'.status = stak.status
      /\ Delegations(stak') = Delegations(stak)
  BY <1>2, ImportSeats
<1>4. /\ (LiveValidators = stak.vals)' /\ (LiveDelegations = Delegations(stak))'
      /\ (Now = height)' /\ (Owing = stak.vals)'
  BY <1>1 DEF LiveValidators, LiveDelegations, Now, Owing, Rebuilt
<1>5. Sound(dist', stak', stak'.vals, Delegations(stak'), height')
  BY <1>2, <1>3, SharesSame DEF NewBooks
<1>6. TypeOK'
  <2>1. TypeOK
    BY DEF SolvencyInv, CountInv
  <2> QED BY <1>1, <1>2, <1>3, <2>1 DEF TypeOK, NewBooks, exportVars, PC
<1>7. CountInv'
  <2>1. Safe(dist', stak'.vals, Delegations(stak'))
    BY <1>5 DEF Safe, Sound, RefFaults
  <2>2. Hosted(stak')
    BY <1>2, <1>3 DEF Hosted
  <2> QED BY <1>1, <1>4, <1>6, <2>1, <2>2 DEF CountInv, LoopsSound
<1>8. SolvencyInv'
  <2>1. Sound(dist, stak, LiveValidators, LiveDelegations, Now)'
    BY <1>4, <1>5
  <2>2. Unowed(dist, Owing)' /\ Funded(dist')
    BY <1>2, <1>3, <1>4 DEF NewBooks
  <2>3. Backed(stak')
    BY <1>2, <1>3, BackedSame
  <2>4. ContextSound' /\ ~ Prepares'
    BY <1>1, <1>2 DEF ContextSound, Prepares, NewBooks
  <2> QED BY <1>7, <2>1, <2>2, <2>3, <2>4 DEF SolvencyInv
<1>9. SeatsInv'
  BY <1>1, <1>3, SeatsMessage
<1>10. FreshInv'
  <2>1. NoStray(dist', stak')
    BY <1>2, <1>3 DEF FreshInv, NoStray, NewBooks
  <2> QED BY <1>1, <2>1, FreshMessage
<1>11. SeatlessUnpaid(dist', stak')
  BY <1>2, <1>3 DEF SeatlessUnpaid, NewBooks
<1> QED BY <1>2, <1>8, <1>9, <1>10, <1>11

-----------------------------------------------------------------------------
(***************************************************************************)
(* The invariant of all the chains, one after the other.                   *)
(***************************************************************************)
RestartInv ==
    /\ SolvencyInv
    /\ SeatsInv
    /\ FreshInv
    /\ SeatlessUnpaid(dist, stak)
    /\ Seated(stak)

LEMMA RestartInvInit == RestartInit => RestartInv
<1> SUFFICES ASSUME Init PROVE RestartInv
  BY DEF RestartInit
<1>1. SeatlessUnpaid(dist, stak)
  BY DEF Init, ChainInit, GenesisDist, SeatlessUnpaid
<1> QED BY <1>1, SolvencyInit, SeatsInit, FreshInit, SeatedInit DEF RestartInv

\* A step takes the chain on, or starts a new one.
LEMMA RestartSteps ==
    ASSUME [RestartNext]_restartVars
    PROVE  [Next]_vars \/ Import
  BY DEF RestartNext, restartVars

LEMMA RestartInvNext == RestartInv /\ [RestartNext]_restartVars => RestartInv'
<1> SUFFICES ASSUME RestartInv, [RestartNext]_restartVars PROVE RestartInv'
  OBVIOUS
<1>1. SolvencyInv /\ SeatsInv /\ FreshInv /\ SeatlessUnpaid(dist, stak) /\ Seated(stak)
  BY DEF RestartInv
<1>2. CASE [Next]_vars
  <2>1. SolvencyInv'
    BY <1>1, <1>2, SolvencyNext
  <2>2. SeatsInv' /\ FreshInv'
    BY <1>1, <1>2, <2>1, SeatsNext, FreshNext
  <2>3. SeatlessUnpaid(dist', stak') /\ Seated(stak')
    BY <1>1, <1>2, <2>1, <2>2, SeatlessNext, SeatedNext
  <2> QED BY <2>1, <2>2, <2>3 DEF RestartInv
<1>3. CASE Import
  <2>1. SolvencyInv' /\ SeatsInv' /\ FreshInv' /\ SeatlessUnpaid(dist', stak')
    BY <1>1, <1>3, ImportSound
  <2>2. stak'.last = stak.last
    <3>1. StakOK(stak) /\ Electable(stak)
      BY <1>1 DEF SolvencyInv, CountInv, TypeOK, SeatsInv
    <3> QED BY <1>3, <3>1, ImportSeats
  <2> QED BY <1>1, <2>1, <2>2 DEF RestartInv, Seated
<1> QED BY <1>2, <1>3, RestartSteps

LEMMA RestartAlways == RestartSpec => []RestartInv
<1> QED BY RestartInvInit, RestartInvNext, PTL DEF RestartSpec

(***************************************************************************)
(* The accounting of a chain started from an export is as sound as that of *)
(* the chain before it, over any number of exports and restarts: the       *)
(* references are exact and no keeper panics.                              *)
(***************************************************************************)
THEOREM RestartsSound == RestartSpec => []RestartSound
<1>1. RestartInv => RestartSound
  BY CountInvExact DEF RestartInv, SolvencyInv, Sound, RestartSound
<1> QED BY <1>1, RestartAlways, PTL

(***************************************************************************)
(* No EndBlocker halts a chain, old or new, at a jailed or missing         *)
(* validator: messages never leave one in the power index, and InitChain   *)
(* builds the index without those the export jailed.                       *)
(***************************************************************************)
THEOREM EveryBlockCommits == RestartSpec => []BlocksCommit
<1>1. RestartInv => BlocksCommit
  <2> SUFFICES ASSUME RestartInv, pc = "block"
               PROVE  ~ MeetsJailed(stak) /\ ~ MeetsUnknown(stak)
    BY DEF BlocksCommit
  <2>1. StakOK(stak) /\ Manned(stak) /\ Unjailed(stak)
    BY DEF RestartInv, SolvencyInv, CountInv, TypeOK, SeatsInv, Electable
  <2> QED BY <2>1, NobodyUnknown, UnjailedMeetsNone
<1> QED BY <1>1, RestartAlways, PTL

\* Whole coins are what they are made of.
LEMMA CoinsOfUnits == \A f \in Nat : (f * Unit) \div Unit = f
<1> SUFFICES ASSUME NEW f \in Nat PROVE (f * Unit) \div Unit = f
  OBVIOUS
<1> QED BY UnitAssumption

(***************************************************************************)
(* InitChain accepts every genesis an export returns: the distribution     *)
(* account holds exactly the whole coins of what is owed, and the exported *)
(* set is not empty and carries the powers x/staking computes from the     *)
(* exported tokens.                                                        *)
(***************************************************************************)
THEOREM EveryExportAccepted == RestartSpec => []ImportAccepted
<1>1. RestartInv => ImportAccepted
  <2> SUFFICES ASSUME RestartInv, pc = "done" PROVE ~ Refused
    BY DEF ImportAccepted
  <2>1. SolvencyInv /\ SeatsInv /\ Seated(stak)
    BY DEF RestartInv
  <2>2. dist.funds = (TotalOutstanding + dist.pool) \div Unit
    <3>1. dist.funds \in Nat /\ dist.funds * Unit = TotalOutstanding + dist.pool
      BY <2>1, ExportedBooks, BooksTotal DEF Funded, Held, TotalOutstanding
    <3> QED BY <3>1, CoinsOfUnits
  <2>3. /\ genesis.validators = {v \in Validators : stak.last[v] > 0}
        /\ Electable(stak) /\ Elected(stak)
    BY <2>1 DEF SeatsInv, SeatsKept
  <2>4. genesis.validators # {}
    BY <2>1, <2>3 DEF Seated
  <2>5. ASSUME NEW v \in genesis.validators
        PROVE  v \in stak.vals /\ stak.last[v] = Power(stak, v)
    BY <2>3 DEF Electable, Manned, Elected
  <2> QED BY <2>2, <2>4, <2>5 DEF Refused
<1> QED BY <1>1, RestartAlways, PTL

-----------------------------------------------------------------------------
\* Due, as PaysWhatIsDue has it, is what is due on a delegation.
LEMMA DueIsEarned ==
    ASSUME DistOK(dist), StakOK(stak), NEW pair \in Pairs, dist.start[pair] # NoInfo
    PROVE  Due(pair) = Earned(dist, stak, pair)
<1> DEFINE v == pair[2]
           k == dist.start[pair].stake
           x == Ratio(dist, v, Closed(dist, v))
           y == Ratio(dist, v, dist.start[pair].period)
           open == Growth(dist, stak, v)
<1>1. k \in Nat /\ x \in Nat /\ y \in Nat /\ v \in Validators
  BY ClaimType
<1>2. open \in Nat
  BY <1>1, GrowthType
<1>3. Due(pair) = k * (x + open - y)
  BY Zenon DEF Due, Ratio, Closed, Growth
<1>4. Earned(dist, stak, pair) = k * (x - y) + k * open
  BY Zenon DEF Earned, Claim
<1> HIDE DEF v, k, x, y, open
<1>5. k * (x - y) + k * open = k * ((x - y) + open)
  BY <1>1, <1>2, Distributes
<1>6. (x - y) + open = x + open - y
  BY <1>1, <1>2
<1> QED BY <1>3, <1>4, <1>5, <1>6

\* A step out of a block that is not a message settles nothing.
LEMMA BlockStepPays ==
    ASSUME RestartInv, pc = "block", [RestartNext]_restartVars
    PROVE  PaysDues
<1>1. SolvencyInv /\ SeatlessUnpaid(dist, stak)
  BY DEF RestartInv
<1>2. CASE ChainNext /\ ~ BeginBlock /\ ~ EndBlock
  BY <1>1, <1>2, MessagesPay DEF MessagePays
<1>3. CASE dist' = dist
  BY <1>3, SettlesNone
<1>4. ~ BeginBlock /\ ~ ExportStep /\ ~ Import
  BY DEF BeginBlock, Import, ExportStep, ParseAllowList, GetAllDelegations, ClearHistory,
         StartDelegations, RestoreHeight, ResetRedelegations, ResetUnbondings, CloseIterator,
         ApplySetUpdates, CollectGenesis, WithdrawCommission, ReinitValidator,
         ResetValidator, WithdrawRewards, ReinitDelegation
<1>5. EndBlock => dist' = dist
  BY DEF EndBlock
<1>6. \A zero, list : ~ StartExport(zero, list)
  BY DEF StartExport
<1>7. UNCHANGED vars => dist' = dist
  BY DEF vars
<1> QED BY <1>2, <1>3, <1>4, <1>5, <1>6, <1>7, RestartSteps DEF Next

(***************************************************************************)
(* Whenever a message settles a delegation it pays the whole coins of all  *)
(* that is due on it, and its delegator exactly the sum of what is due on  *)
(* the delegations it settles: a redelegation settles two.  This holds in  *)
(* an old chain and in every one started from its exports.                 *)
(***************************************************************************)
THEOREM MessagesPayWhatIsDue == RestartSpec => PaysWhatIsDue
<1> DEFINE Pays ==
      \A pair \in Delegations(stak) :
         pc = "block" /\ dist'.start[pair] # dist.start[pair] =>
           dist'.paid[pair[1]] - dist.paid[pair[1]] =
             SumFunction([p \in {q \in Delegations(stak) : q[1] = pair[1]
                                       /\ dist'.start[q] # dist.start[q]} |->
                             Due(p) \div Unit])
<1>1. RestartInv /\ [RestartNext]_restartVars => Pays
  <2> SUFFICES ASSUME RestartInv, [RestartNext]_restartVars, pc = "block",
                      NEW pair \in Delegations(stak), dist'.start[pair] # dist.start[pair]
               PROVE  dist'.paid[pair[1]] - dist.paid[pair[1]] =
                        SumFunction([p \in {q \in Delegations(stak) : q[1] = pair[1]
                                              /\ dist'.start[q] # dist.start[q]} |->
                                        Due(p) \div Unit])
    OBVIOUS
  <2> DEFINE S == {q \in Delegations(stak) : q[1] = pair[1] /\ dist'.start[q] # dist.start[q]}
             f == [p \in S |-> Due(p) \div Unit]
             F == Dues(dist, stak)
  <2>1. ChainSound
    BY ChainSoundFrom DEF RestartInv
  <2>2. dist'.paid[pair[1]] - dist.paid[pair[1]] = DuesTo(dist, stak, pair[1], Restarted)
    BY BlockStepPays DEF PaysDues, Restarted
  <2>3. S = HeldBy(pair[1], Restarted) /\ S \in SUBSET Pairs
    BY DEF HeldBy, Restarted, Delegations
  <2>4. \A p \in S : f[p] = F[p]
    <3> SUFFICES ASSUME NEW p \in S PROVE f[p] = F[p]
      OBVIOUS
    <3>1. p \in Pairs /\ p \in Delegations(stak)
      BY DEF Delegations
    <3>2. dist.start[p] # NoInfo /\ DistOK(dist) /\ StakOK(stak)
      BY <2>1, <3>1 DEF ChainSound, Sound, Counted
    <3>3. Due(p) = Earned(dist, stak, p)
      BY <3>1, <3>2, DueIsEarned
    <3> QED BY <3>1, <3>3 DEF Dues
  <2>5. SumFunction(f) = SumFunctionOnSet(F, S)
    <3>1. SumFunction(f) = SumFunctionOnSet(f, S)
      BY DEF SumFunction
    <3>2. IsFiniteSet(S)
      BY <2>3, FinitePairs
    <3> HIDE DEF S, f, F
    <3> QED BY <2>4, <3>1, <3>2, SumSame
  <2>6. SumFunction(f) = DuesTo(dist, stak, pair[1], Restarted)
    BY <2>3, <2>5 DEF DuesTo
  <2> QED BY <2>2, <2>6
<1>2. RestartInv /\ [RestartNext]_restartVars => [Pays]_restartVars
  BY <1>1
<1> QED BY <1>2, RestartAlways, PTL DEF RestartSpec, PaysWhatIsDue

(***************************************************************************)
(* Old chains, exports, imports and new chains together implement the      *)
(* settlement of rewards: in total, no coin is lost or made on the way     *)
(* through a genesis file, and only accounts that are paid take any out.   *)
(***************************************************************************)
THEOREM RestartsSettle == RestartSpec => SettlesRewards
<1>1. RestartInit => Settlement!Init
  BY SettlementStarts DEF RestartInit
<1>2. RestartInv /\ [RestartNext]_restartVars => [Settlement!Next]_(Settlement!settlement)
  <2> SUFFICES ASSUME RestartInv, [RestartNext]_restartVars
               PROVE  [Settlement!Next]_(Settlement!settlement)
    OBVIOUS
  <2>1. CASE [Next]_vars
    BY <2>1, SolvencyNext, SettlementSteps DEF RestartInv
  <2>2. CASE Import
    BY <2>2, ImportSound, SettlementSteps DEF RestartInv, NewBooks, Keeps
  <2> QED BY <2>1, <2>2, RestartSteps
<1> QED BY <1>1, <1>2, RestartAlways, PTL DEF RestartSpec, SettlesRewards, Settlement!Spec
=============================================================================
