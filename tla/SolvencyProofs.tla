---------------------------- MODULE SolvencyProofs ----------------------------
(***************************************************************************)
(* ZeroHeightExport keeps the books of coins: in every reachable state the *)
(* module account covers what is outstanding and the community pool, and   *)
(* what a validator has outstanding covers its commission and every claim  *)
(* on it.  No check of the distribution keeper fails, and every step of    *)
(* the chain and of the export settles or accrues rewards.                 *)
(***************************************************************************)
EXTENDS ZeroHeightExportProofs

\* The height the hooks see.
Now == IF pc \in {"idle", "block"} THEN height ELSE ctx

\* Nothing is owed to validators outside V, nor for delegations to them.
Unowed(d, V) ==
    \A v \in Validators \ V : d.outst[v] = 0 /\ d.comm[v] = 0 /\ d.rew[v] = 0

\* prepForZeroHeightGenesis is under way.
Prepares ==
    pc \in {"allowList", "commission", "rewards", "validators", "delegations",
            "redelegations", "unbondings", "bondHeights", "apply"}

\* After the loop over the validators a zero-height export owes nobody.
Rebuilt ==
    /\ forZero
    /\ pc \in {"delegations", "redelegations", "unbondings", "bondHeights",
               "apply", "collect", "done"}

Owing == IF pc = "validators" THEN todoV ELSE IF Rebuilt THEN {} ELSE stak.vals

\* The context is at height zero while the history is rebuilt.
ContextSound ==
    /\ height \in Nat \ {0}
    /\ pc \notin {"idle", "block"} =>
         ctx = IF pc \in {"validators", "delegations"} THEN 0 ELSE height

SolvencyInv ==
    /\ CountInv
    /\ Sound(dist, stak, LiveValidators, LiveDelegations, Now)
    /\ Funded(dist)
    /\ Unowed(dist, Owing)
    /\ Backed(stak)
    /\ ContextSound
    /\ Prepares => forZero

\* From d to e a block's fees come in.
Accrues(d, e) ==
    /\ e.funds = d.funds + Fee /\ e.paid = d.paid
    /\ Held(e) >= Held(d) /\ e.pool >= d.pool
    /\ Held(e) + e.pool = Held(d) + d.pool + Fee * Unit

-----------------------------------------------------------------------------
\* The tokens of a validator go on backing its shares.

LEMMA SharesType ==
    ASSUME NEW s, StakOK(s), NEW v \in Validators
    PROVE  \A a \in Accounts : <<a, v>> \in Pairs /\ Shares(s, v)[a] = s.shares[<<a, v>>]
                                 /\ Shares(s, v)[a] \in Nat
<1>1. \A a \in Accounts : <<a, v>> \in Pairs /\ s.shares[<<a, v>>] \in Nat
  BY DEF Pairs, StakOK
<1> QED BY <1>1 DEF Shares

LEMMA BackedSame ==
    ASSUME NEW s, NEW t, t.shares = s.shares, t.tokens = s.tokens, Backed(s)
    PROVE  Backed(t)
  BY Zenon DEF Backed, Shares

LEMMA BackedMove ==
    ASSUME NEW s, StakOK(s), Backed(s), NEW t, StakOK(t), NEW pair \in Pairs, NEW n \in Int,
           t.shares = [s.shares EXCEPT ![pair] = s.shares[pair] + n],
           t.tokens = [s.tokens EXCEPT ![pair[2]] = s.tokens[pair[2]] + n]
    PROVE  Backed(t)
<1>1. /\ pair[1] \in Accounts /\ pair[2] \in Validators /\ <<pair[1], pair[2]>> = pair
      /\ s.shares \in [Pairs -> Nat] /\ s.tokens \in [Validators -> Nat]
      /\ IsFiniteSet(Accounts)
  BY PairOf, FiniteAddresses DEF StakOK
<1> SUFFICES ASSUME NEW v \in Validators
             PROVE  SumFunctionOnSet(Shares(t, v), Accounts) <= t.tokens[v]
  BY DEF Backed
<1> DEFINE F == Shares(s, v)
           G == Shares(t, v)
<1>2. /\ \A a \in Accounts : F[a] \in Int /\ G[a] \in Int
      /\ \A a \in Accounts : F[a] = s.shares[<<a, v>>] /\ G[a] = t.shares[<<a, v>>]
                               /\ <<a, v>> \in Pairs
  <2>1. \A a \in Accounts : <<a, v>> \in Pairs /\ F[a] = s.shares[<<a, v>>] /\ F[a] \in Nat
    BY SharesType
  <2> HIDE DEF F
  <2>2. \A a \in Accounts : <<a, v>> \in Pairs /\ G[a] = t.shares[<<a, v>>] /\ G[a] \in Nat
    BY SharesType
  <2> HIDE DEF G
  <2>3. \A x \in Nat : x \in Int
    OBVIOUS
  <2> QED BY <2>1, <2>2, <2>3, Zenon
<1>3. /\ SumFunctionOnSet(F, Accounts) <= s.tokens[v]
      /\ SumFunctionOnSet(F, Accounts) \in Int
  BY <1>1, <1>2, SumType DEF Backed
<1> HIDE DEF F, G
<1>4. CASE v = pair[2]
  <2>1. \A a \in Accounts \ {pair[1]} : F[a] = G[a]
    <3> SUFFICES ASSUME NEW a \in Accounts \ {pair[1]} PROVE F[a] = G[a]
      OBVIOUS
    <3>1. <<a, v>> # pair
      BY <1>1
    <3> QED BY <1>1, <1>2, <3>1
  <2>2. G[pair[1]] = F[pair[1]] + n
    BY <1>1, <1>2, <1>4
  <2>3. SumFunctionOnSet(G, Accounts)
          = SumFunctionOnSet(F, Accounts) - F[pair[1]] + G[pair[1]]
    BY <1>1, <1>2, <2>1, SumChanged
  <2>4. t.tokens[v] = s.tokens[v] + n
    BY <1>1, <1>4
  <2>5. s.tokens[v] \in Int /\ F[pair[1]] \in Int
    BY <1>1, <1>2
  <2> QED BY <1>3, <2>2, <2>3, <2>4, <2>5 DEF G
<1>5. CASE v # pair[2]
  <2>1. \A a \in Accounts : F[a] = G[a]
    <3> SUFFICES ASSUME NEW a \in Accounts PROVE F[a] = G[a]
      OBVIOUS
    <3>1. <<a, v>> # pair
      BY <1>1, <1>5
    <3> QED BY <1>1, <1>2, <3>1
  <2>2. SumFunctionOnSet(F, Accounts) = SumFunctionOnSet(G, Accounts)
    BY <1>1, <2>1, SumSame
  <2>3. t.tokens[v] = s.tokens[v]
    BY <1>1, <1>5
  <2> QED BY <1>3, <2>2, <2>3 DEF G
<1> QED BY <1>4, <1>5

LEMMA AddBacked ==
    ASSUME NEW s, StakOK(s), Backed(s), NEW pair \in Pairs, NEW amount \in Nat
    PROVE  Backed(AddShares(s, pair, amount))
<1> DEFINE t == AddShares(s, pair, amount)
<1>1. StakOK(t)
  BY AddSharesType
<1>2. /\ t.shares = [s.shares EXCEPT ![pair] = s.shares[pair] + amount]
      /\ t.tokens = [s.tokens EXCEPT ![pair[2]] = s.tokens[pair[2]] + amount]
  BY DEF AddShares, SetTokens, StakOK
<1> HIDE DEF t
<1>3. Backed(t)
  BY <1>1, <1>2, BackedMove
<1> QED BY <1>3 DEF t

LEMMA RemoveBacked ==
    ASSUME NEW s, StakOK(s), Backed(s), NEW pair \in Pairs, NEW amount \in Nat,
           Removable(s, pair, amount)
    PROVE  Backed(RemoveShares(s, pair, amount))
<1> DEFINE t == RemoveShares(s, pair, amount)
           v == pair[2]
           left == s.shares[pair] - amount
           leaves == pair[1] = v /\ ~ s.jailed[v] /\ left < MinSelfDelegation
           kept == IF leaves THEN Jail(s, v) ELSE s
           paid == [SetTokens(kept, v, s.tokens[v] - amount) EXCEPT !.shares[pair] = left]
<1>1. StakOK(t)
  BY RemoveSharesType
<1>2. t = RemoveAbandoned(paid, v)
  BY Zenon DEF RemoveShares
<1>3. kept.shares = s.shares /\ kept.tokens = s.tokens /\ StakOK(kept) /\ v \in Validators
  BY PairOf, JailType DEF Jail, StakOK
<1> HIDE DEF kept
<1>4. /\ paid.shares = [s.shares EXCEPT ![pair] = left]
      /\ paid.tokens = [s.tokens EXCEPT ![v] = s.tokens[v] - amount]
  BY <1>3 DEF SetTokens, StakOK
<1> HIDE DEF paid
<1>5. t.shares = paid.shares /\ t.tokens = paid.tokens
  BY <1>2 DEF RemoveAbandoned
<1>6. s.shares[pair] \in Nat /\ s.tokens[v] \in Nat
  BY <1>3 DEF StakOK
<1> DEFINE n == 0 - amount
<1>7. n \in Int /\ left = s.shares[pair] + n /\ s.tokens[v] - amount = s.tokens[v] + n
  BY <1>6
<1> HIDE DEF t, n
<1>8. Backed(t)
  BY <1>1, <1>4, <1>5, <1>7, BackedMove
<1> QED BY <1>8 DEF t

LEMMA UndelegatedShares ==
    ASSUME NEW s, StakOK(s), NEW v \in Validators, \A pair \in Delegations(s) : pair[2] # v
    PROVE  SumFunctionOnSet(Shares(s, v), Accounts) = 0
<1>1. \A a \in Accounts : Shares(s, v)[a] = 0
  <2> SUFFICES ASSUME NEW a \in Accounts PROVE Shares(s, v)[a] = 0
    OBVIOUS
  <2> DEFINE pair == <<a, v>>
  <2>1. /\ pair \in Pairs /\ Shares(s, v)[a] = s.shares[pair] /\ s.shares[pair] \in Nat
        /\ pair[2] = v
    BY SharesType
  <2> HIDE DEF pair
  <2>2. pair \notin Delegations(s)
    BY <2>1
  <2> QED BY <2>1, <2>2 DEF Delegations
<1> QED BY <1>1, FiniteAddresses, SumOfZeros

\* A validator without delegations needs no tokens.
LEMMA CreateBacked ==
    ASSUME NEW s, StakOK(s), Backed(s), NEW v \in Validators,
           \A pair \in Delegations(s) : pair[2] # v
    PROVE  Backed(CreateValidator(s, v))
<1> DEFINE t == CreateValidator(s, v)
<1>1. t.shares = s.shares /\ t.tokens = [s.tokens EXCEPT ![v] = 0]
  BY DEF CreateValidator, StakOK
<1> HIDE DEF t
<1>2. SumFunctionOnSet(Shares(s, v), Accounts) = 0
  BY UndelegatedShares
<1>3. \A w \in Validators : Shares(t, w) = Shares(s, w)
  BY <1>1 DEF Shares
<1>4. t.tokens[v] = 0 /\ \A w \in Validators \ {v} : t.tokens[w] = s.tokens[w]
  BY <1>1 DEF StakOK
<1>5. Backed(t)
  BY <1>2, <1>3, <1>4 DEF Backed
<1> QED BY <1>5 DEF t

-----------------------------------------------------------------------------
LEMMA SetUpdatesTokens ==
    ASSUME NEW s, StakOK(s), NEW h
    PROVE  ApplyValidatorSetUpdates(s, h).tokens = s.tokens
<1> DEFINE in == {v \in Considered(s) : Power(s, v) > 0}
           out == {v \in Validators \ in : InLastSet(s, v)}
           status == [v \in Validators |-> IF v \in in THEN "bonded"
                                           ELSE IF v \in out THEN "unbonding"
                                           ELSE s.status[v]]
           heights == [v \in Validators |-> IF v \in out THEN h ELSE s.unbondHeight[v]]
           last == [v \in Validators |-> IF v \in in THEN Power(s, v) ELSE 0]
<1>1. ApplyValidatorSetUpdates(s, h) =
        [s EXCEPT !.status = status, !.unbondHeight = heights, !.last = last]
  BY DEF ApplyValidatorSetUpdates, StakOK
<1> HIDE DEF status, heights, last
<1> QED BY <1>1 DEF StakOK

LEMMA GenesisBacked == Backed(CreatedStak)
<1> DEFINE s == CreatedStak
<1>1. StakOK(s) /\ IsFiniteSet(Accounts) /\ Validators \subseteq Accounts
  BY GenesisType, FiniteAddresses
<1>0. \A v \in Validators : s.tokens[v] \in Int
  BY <1>1 DEF StakOK
<1> SUFFICES ASSUME NEW v \in Validators
             PROVE  SumFunctionOnSet(Shares(s, v), Accounts) = s.tokens[v]
  <2>1. \A x, y \in Int : x = y => x <= y
    OBVIOUS
  <2> QED BY <1>0, <2>1 DEF Backed
<1> DEFINE F == Shares(s, v)
<1>2. \A a \in Accounts : F[a] = s.shares[<<a, v>>] /\ <<a, v>> \in Pairs /\ F[a] \in Nat
  <2> HIDE DEF s
  <2>1. \A a \in Accounts : <<a, v>> \in Pairs /\ F[a] = s.shares[<<a, v>>] /\ F[a] \in Nat
    BY <1>1, SharesType
  <2> QED BY <2>1
<1>3. \A a \in Accounts : s.shares[<<a, v>>] =
        IF a = v /\ v \in GenesisValidators THEN GenesisStake[v] ELSE 0
  <2> SUFFICES ASSUME NEW a \in Accounts
               PROVE  s.shares[<<a, v>>] =
                        IF a = v /\ v \in GenesisValidators THEN GenesisStake[v] ELSE 0
    OBVIOUS
  <2>1. <<a, v>> \in Pairs
    BY <1>2
  <2> QED BY <2>1 DEF CreatedStak
<1>4. s.tokens[v] = IF v \in GenesisValidators THEN GenesisStake[v] ELSE 0
  BY DEF CreatedStak
<1> HIDE DEF s, F
<1>5. F[v] = s.tokens[v] /\ \A a \in Accounts \ {v} : F[a] = 0
  BY <1>1, <1>2, <1>3, <1>4
<1>6. SumFunctionOnSet(F, Accounts) = F[v] + SumFunctionOnSet(F, Accounts \ {v})
  <2>1. \A a \in Accounts : F[a] \in Nat
    BY <1>2, Zenon
  <2>2. v \in Accounts /\ \A a \in Accounts : F[a] \in Int
    BY <1>1, <2>1
  <2> QED BY <1>1, <2>2, SumSplit
<1>7. SumFunctionOnSet(F, Accounts \ {v}) = 0
  <2>1. IsFiniteSet(Accounts \ {v})
    BY <1>1, FS_RemoveElement
  <2> QED BY <1>5, <2>1, SumOfZeros
<1>8. F[v] \in Nat
  BY <1>1, <1>2
<1> QED BY <1>5, <1>6, <1>7, <1>8 DEF F

LEMMA SolvencyInit == Init => SolvencyInv
<1> SUFFICES ASSUME Init PROVE SolvencyInv
  OBVIOUS
<1>1. CountInv /\ DistOK(dist) /\ StakOK(stak)
  BY CountInit DEF CountInv, TypeOK
<1>2. /\ pc = "idle" /\ height = 1 /\ dist = GenesisDist
      /\ stak = ApplyValidatorSetUpdates(CreatedStak, 1)
  BY DEF Init, ChainInit
<1>3. /\ stak.shares = CreatedStak.shares /\ stak.tokens = CreatedStak.tokens
      /\ stak.vals = GenesisValidators /\ GenesisValidators \subseteq Validators
  BY <1>2, GenesisType, SetUpdatesKeep, SetUpdatesTokens, ChainAssumption
     DEF CreatedStak, GenesisValidators
<1> DEFINE V == stak.vals
           D == Delegations(stak)
<1>4. LiveValidators = V /\ LiveDelegations = D /\ Now = 1 /\ Owing = V
  BY <1>2 DEF LiveValidators, LiveDelegations, Now, Owing, Rebuilt
<1>5. /\ \A v \in Validators : dist.outst[v] = 0 /\ dist.comm[v] = 0 /\ dist.rew[v] = 0
                                 /\ dist.period[v] = 2
      /\ dist.pool = 0 /\ dist.funds = 0 /\ dist.fault = "none"
  BY <1>2 DEF GenesisDist
<1>6. \A v \in Validators : \A p : Ratio(dist, v, p) = 0
  BY <1>2 DEF GenesisDist, Ratio, Historical
<1>7. \A pair \in D : /\ pair \in Pairs /\ pair[2] \in V /\ pair[2] \in Validators
                      /\ dist.start[pair].stake = stak.shares[pair]
                      /\ dist.start[pair].height = 1
  <2> SUFFICES ASSUME NEW pair \in Pairs, stak.shares[pair] > 0
               PROVE  /\ pair[2] \in V /\ pair[2] \in Validators
                      /\ dist.start[pair].stake = stak.shares[pair]
                      /\ dist.start[pair].height = 1
    BY DEF Delegations
  <2>1. /\ pair[1] = pair[2] /\ pair[2] \in GenesisValidators
        /\ stak.shares[pair] = GenesisStake[pair[2]]
    BY <1>3 DEF CreatedStak
  <2>2. dist.start[pair] = [period |-> 1, stake |-> GenesisStake[pair[2]], height |-> 1]
    BY <1>2, <2>1 DEF GenesisDist
  <2> QED BY <1>3, <2>1, <2>2
<1> HIDE DEF V, D
<1>8. \A pair \in D : Claim(dist, pair) = 0
  <2> SUFFICES ASSUME NEW pair \in D PROVE Claim(dist, pair) = 0
    OBVIOUS
  <2>1. stak.shares[pair] \in Nat
    BY <1>1, <1>7 DEF StakOK
  <2>2. Claim(dist, pair) = stak.shares[pair] * (0 - 0)
    BY <1>6, <1>7 DEF Claim
  <2> QED BY <2>1, <2>2
<1>9. \A v \in V : v \in Validators
  BY <1>3 DEF V
<1>10. \A v \in V : Claimed(dist, D, v) = 0
  <2> SUFFICES ASSUME NEW v \in V PROVE Claimed(dist, D, v) = 0
    OBVIOUS
  <2>1. \A a \in Accounts : Claims(dist, D, v)[a] = 0
    BY <1>8 DEF Claims
  <2> QED BY <2>1, FiniteAddresses, SumOfZeros DEF Claimed
<1>11. \A v \in V : SolventAt(dist, stak, D, 1, v)
  <2> SUFFICES ASSUME NEW v \in V PROVE SolventAt(dist, stak, D, 1, v)
    OBVIOUS
  <2>1. dist.comm[v] + dist.rew[v] + Claimed(dist, D, v) <= dist.outst[v]
    BY <1>5, <1>9, <1>10
  <2>2. \A pair \in D : pair[2] = v =>
         /\ dist.start[pair].stake = stak.shares[pair]
         /\ dist.start[pair].height <= 1
         /\ Ratio(dist, v, dist.start[pair].period) <= Ratio(dist, v, Closed(dist, v))
         /\ dist.start[pair].height = 1 => dist.rew[v] = 0 /\ Claim(dist, pair) = 0
    BY <1>5, <1>6, <1>7, <1>8, <1>9
  <2> QED BY <2>1, <2>2 DEF SolventAt
<1>12. Counted(dist, V, D)
  BY <1>1, <1>4, <1>5 DEF CountInv, Safe
<1>13. Sound(dist, stak, LiveValidators, LiveDelegations, Now)
  BY <1>4, <1>5, <1>7, <1>11, <1>12 DEF Sound
<1>14. Funded(dist)
  <2>1. Held(dist) = 0
    BY <1>5, FiniteAddresses, SumOfZeros DEF Held
  <2> QED BY <1>5, <2>1, UnitAssumption DEF Funded
<1>15. Unowed(dist, Owing)
  BY <1>5 DEF Unowed
<1>16. Backed(stak)
  BY <1>3, GenesisBacked, BackedSame
<1>17. ContextSound
  BY <1>2 DEF ContextSound
<1> QED BY <1>1, <1>2, <1>13, <1>14, <1>15, <1>16, <1>17 DEF SolvencyInv, Prepares

-----------------------------------------------------------------------------
(***************************************************************************)
(* The books between two operations, at height h.  G are validators that   *)
(* are gone although their records were left behind (an in-place testnet   *)
(* does that): the books go on covering what is owed to them, and to the   *)
(* delegations to them, as if they were still there.  No operation reaches *)
(* their records unless it creates them again; without testnet G is empty. *)
(***************************************************************************)
Ledger(d, s, G, h) ==
    /\ DistOK(d) /\ StakOK(s) /\ h \in Nat
    /\ G \in SUBSET (Validators \ s.vals)
    /\ Sound(d, s, s.vals \cup G, Delegations(s), h)
    /\ Funded(d)
    /\ Unowed(d, s.vals \cup G)
    /\ Backed(s)

\* From d to e rewards are accrued or settled.
Keeps(d, e) == Settles(d, e) \/ Accrues(d, e)

LEMMA SettlesSame ==
    ASSUME NEW d, DistOK(d)
    PROVE  Settles(d, d)
  BY SettlesNothing

LEMMA UnownedSettled ==
    ASSUME NEW d, NEW e, NEW V, NEW v, Unowed(d, V), OnlyAt(d, e, v), v \in V
    PROVE  Unowed(e, V)
  BY DEF Unowed, OnlyAt

LEMMA LedgerSets ==
    ASSUME NEW d, NEW s, NEW G, NEW h, Ledger(d, s, G, h)
    PROVE  /\ s.vals \cup G \in SUBSET Validators
           /\ Delegations(s) \in SUBSET Pairs
           /\ \A pair \in Delegations(s) : pair[2] \in s.vals \cup G
  BY DEF Ledger, StakOK, Delegations, Sound

\* What is outstanding covers what may be withdrawn, and nobody claims the rest.
LEMMA LedgerCovers ==
    ASSUME NEW d, NEW s, NEW G, NEW h, Ledger(d, s, G, h), NEW v \in Validators
    PROVE  d.comm[v] + d.rew[v] + Claimed(d, Delegations(s), v) <= d.outst[v]
<1>1. CASE v \in s.vals \cup G
  BY <1>1 DEF Ledger, Sound, SolventAt
<1>2. CASE v \notin s.vals \cup G
  <2>1. \A a \in Accounts : <<a, v>> \notin Delegations(s)
    BY <1>2, LedgerSets
  <2>2. Claimed(d, Delegations(s), v) = 0
    BY <2>1, FiniteAddresses, SumOfZeros DEF Claimed, Claims
  <2> QED BY <1>2, <2>2 DEF Ledger, Unowed
<1> QED BY <1>1, <1>2

\* What the books do not look at.
LEMMA LedgerSame ==
    ASSUME NEW d, NEW s, NEW G, NEW h, Ledger(d, s, G, h), NEW t, StakOK(t),
           t.shares = s.shares, t.vals = s.vals, t.tokens = s.tokens
    PROVE  Ledger(d, t, G, h)
<1>1. Delegations(t) = Delegations(s)
  BY DEF Delegations
<1>2. Sound(d, t, s.vals \cup G, Delegations(s), h)
  <2>1. \A pair \in Delegations(s) : t.shares[pair] = s.shares[pair]
    OBVIOUS
  <2> QED BY <2>1, SharesSame DEF Ledger
<1>3. Backed(t)
  BY BackedSame DEF Ledger
<1> QED BY <1>1, <1>2, <1>3 DEF Ledger

LEMMA LedgerDelegated ==
    ASSUME NEW d, NEW s, NEW G, NEW h, Ledger(d, s, G, h),
           NEW pair \in Pairs, pair[2] \in s.vals, NEW amount \in Nat,
           NEW t, t = AddShares(s, pair, amount),
           NEW e, e = DelegationHooks(d, s, t, pair, h)
    PROVE  Ledger(e, t, G, h) /\ Settles(d, e) /\ t.vals = s.vals
<1> DEFINE V == s.vals \cup G
<1>1. /\ DistOK(d) /\ StakOK(s) /\ h \in Nat /\ Backed(s) /\ Funded(d) /\ Unowed(d, V)
      /\ Sound(d, s, V, Delegations(s), h) /\ V \in SUBSET Validators /\ pair[2] \in V
  BY LedgerSets DEF Ledger
<1>2. StakOK(t) /\ Backed(t)
  BY <1>1, AddSharesType, AddBacked
<1>3. \A other \in Pairs : other # pair => t.shares[other] = s.shares[other]
  BY <1>1, SharesChanged
<1>4. t.vals = s.vals
  BY <1>1 DEF AddShares, SetTokens, StakOK
<1> HIDE DEF V
<1>5. Hooked(d, t, e, V, pair, h)
  BY <1>1, <1>2, <1>3, HooksSound
<1>6. /\ DistOK(e) /\ Sound(e, t, V, Delegations(t), h)
      /\ Settles(d, e) /\ OnlyAt(d, e, pair[2])
  BY <1>5 DEF Hooked
<1>7. Unowed(e, V) /\ Funded(e)
  BY <1>1, <1>6, UnownedSettled, SettlesFunded
<1> QED BY <1>1, <1>2, <1>4, <1>6, <1>7 DEF Ledger, V

LEMMA LedgerUnbonded ==
    ASSUME NEW d, NEW s, NEW G, NEW h, Ledger(d, s, G, h),
           NEW pair \in Pairs, NEW amount \in Nat, Removable(s, pair, amount),
           NEW t, t = RemoveShares(s, pair, amount),
           NEW e, e = UnbondHooks(d, s, t, pair, h)
    PROVE  /\ Ledger(e, t, G, h) /\ Settles(d, e) /\ OnlyAt(d, e, pair[2])
           /\ t.vals \subseteq s.vals /\ s.vals \ {pair[2]} \subseteq t.vals
<1> DEFINE V == s.vals \cup G
           W == t.vals \cup G
           v == pair[2]
<1>1. /\ DistOK(d) /\ StakOK(s) /\ h \in Nat /\ Backed(s) /\ Funded(d) /\ Unowed(d, V)
      /\ Sound(d, s, V, Delegations(s), h) /\ V \in SUBSET Validators /\ v \in V
      /\ v \in s.vals /\ G \in SUBSET (Validators \ s.vals)
  BY LedgerSets DEF Ledger, Removable
<1>2. StakOK(t) /\ Backed(t)
  BY <1>1, RemoveSharesType, RemoveBacked
<1>3. \A other \in Pairs : other # pair => t.shares[other] = s.shares[other]
  BY <1>1, SharesChanged
<1>4. /\ v \in t.vals => t.vals = s.vals
      /\ v \notin t.vals =>
           t.vals = s.vals \ {v} /\ \A other \in Delegations(t) : other[2] # v
  BY <1>1, RemoveVacates
<1>5. /\ v \in t.vals => W = V
      /\ v \notin t.vals => W = V \ {v}
  BY <1>1, <1>4
<1> HIDE DEF V, W
<1>6. /\ v \in t.vals => Hooked(d, t, e, V, pair, h)
      /\ v \notin t.vals =>
           Hooked(d, t, e, V \ {v}, pair, h) /\ e.outst[v] = 0 /\ e.comm[v] = 0 /\ e.rew[v] = 0
  BY <1>1, <1>2, <1>3, <1>4, UnbondSound
<1>7. Hooked(d, t, e, W, pair, h)
  BY <1>5, <1>6
<1>8. /\ DistOK(e) /\ Sound(e, t, W, Delegations(t), h)
      /\ Settles(d, e) /\ OnlyAt(d, e, v)
  BY <1>7 DEF Hooked
<1>9. Unowed(e, V) /\ Funded(e)
  BY <1>1, <1>8, UnownedSettled, SettlesFunded
<1>10. Unowed(e, W)
  BY <1>5, <1>6, <1>9 DEF Unowed
<1>11. G \in SUBSET (Validators \ t.vals)
  BY <1>1, <1>4
<1> QED BY <1>1, <1>2, <1>4, <1>8, <1>9, <1>10, <1>11 DEF Ledger, W

(***************************************************************************)
(* The hook for a new validator v starts its records from nothing.  The    *)
(* staking store t keeps the shares; H takes in the validators that t has  *)
(* lost.                                                                   *)
(***************************************************************************)
LEMMA LedgerCreated ==
    ASSUME NEW d, NEW s, NEW G, NEW h, Ledger(d, s, G, h),
           NEW v \in Validators \ (s.vals \cup G),
           NEW t, StakOK(t), Backed(t), t.shares = s.shares,
           NEW H \in SUBSET (Validators \ t.vals), t.vals \cup H = (s.vals \cup G) \cup {v},
           NEW e, e = InitializeValidator(d, v)
    PROVE  Ledger(e, t, H, h) /\ Settles(d, e)
<1> DEFINE V == s.vals \cup G
           D == Delegations(s)
<1>1. /\ DistOK(d) /\ h \in Nat /\ Funded(d) /\ Unowed(d, V)
      /\ Sound(d, s, V, D, h) /\ V \in SUBSET Validators /\ v \in Validators \ V
      /\ D \in SUBSET Pairs /\ \A pair \in D : pair[2] # v
  BY LedgerSets DEF Ledger
<1>2. e = InitializeValidator([d EXCEPT !.pool = @ + d.outst[v]], v)
  <2>1. d.outst[v] = 0 /\ d.pool \in Nat
    BY <1>1 DEF Unowed, DistOK
  <2>2. [d EXCEPT !.pool = @ + d.outst[v]] = d
    BY <1>1, <2>1 DEF DistOK
  <2> QED BY <2>2, Zenon
<1> DEFINE W == V \cup {v}
<1>3. t.vals \cup H = W /\ Delegations(t) = D
  BY DEF Delegations
<1> HIDE DEF V, D
<1>4. Created(d, s, e, V, D, v, h)
  BY <1>1, <1>2, CreateSound
<1>5. /\ DistOK(e) /\ Sound(e, s, W, D, h) /\ Settles(d, e) /\ OnlyAt(d, e, v)
  BY <1>4 DEF Created
<1>6. Sound(e, t, W, D, h)
  <2>1. \A pair \in D : t.shares[pair] = s.shares[pair]
    OBVIOUS
  <2> QED BY <1>5, <2>1, SharesSame
<1>7. Unowed(e, W) /\ Funded(e)
  <2>1. Unowed(d, W) /\ v \in W
    BY <1>1 DEF Unowed
  <2> HIDE DEF W
  <2> QED BY <1>1, <1>5, <2>1, UnownedSettled, SettlesFunded
<1> QED BY <1>1, <1>3, <1>5, <1>6, <1>7 DEF Ledger

LEMMA LedgerWithdrawn ==
    ASSUME NEW d, NEW s, NEW G, NEW h, Ledger(d, s, G, h), NEW pair \in Delegations(s),
           NEW e, e = WithdrawDelegationRewards(d, s, pair, h)
    PROVE  Ledger(e, s, G, h) /\ Settles(d, e)
<1> DEFINE V == s.vals \cup G
           D == Delegations(s)
<1>1. /\ DistOK(d) /\ StakOK(s) /\ h \in Nat /\ Backed(s) /\ Funded(d) /\ Unowed(d, V)
      /\ Sound(d, s, V, D, h) /\ V \in SUBSET Validators /\ D \in SUBSET Pairs
      /\ pair \in D /\ pair[2] \in V
  BY LedgerSets DEF Ledger
<1> HIDE DEF V, D
<1>2. Withdrawn(d, s, e, V, D, pair, h)
  BY <1>1, WithdrawSound
<1>3. /\ DistOK(e) /\ Sound(e, s, V, D, h) /\ Settles(d, e) /\ OnlyAt(d, e, pair[2])
  BY <1>2 DEF Withdrawn
<1>4. Unowed(e, V) /\ Funded(e)
  BY <1>1, <1>3, UnownedSettled, SettlesFunded
<1> QED BY <1>1, <1>3, <1>4 DEF Ledger, V, D

LEMMA LedgerCommission ==
    ASSUME NEW d, NEW s, NEW G, NEW h, Ledger(d, s, G, h), NEW v \in Validators,
           NEW e, e = WithdrawValidatorCommission(d, v)
    PROVE  Ledger(e, s, G, h) /\ Settles(d, e)
<1> DEFINE V == s.vals \cup G
           D == Delegations(s)
<1>1. /\ DistOK(d) /\ StakOK(s) /\ h \in Nat /\ Backed(s) /\ Funded(d) /\ Unowed(d, V)
      /\ Sound(d, s, V, D, h) /\ V \in SUBSET Validators /\ D \in SUBSET Pairs
  BY LedgerSets DEF Ledger
<1>2. CASE v \notin V
  <2>1. e = d
    BY <1>1, <1>2 DEF Unowed, WithdrawValidatorCommission
  <2> QED BY <1>1, <2>1, SettlesSame
<1>3. CASE v \in V
  <2> HIDE DEF V, D
  <2>1. Commissioned(d, s, e, V, D, v, h)
    BY <1>1, <1>3, CommissionSound
  <2>2. /\ DistOK(e) /\ Sound(e, s, V, D, h) /\ Settles(d, e) /\ OnlyAt(d, e, v)
    BY <2>1 DEF Commissioned
  <2>3. Unowed(e, V) /\ Funded(e)
    BY <1>1, <1>3, <2>2, UnownedSettled, SettlesFunded
  <2> QED BY <1>1, <2>2, <2>3 DEF Ledger, V, D
<1> QED BY <1>2, <1>3

\* A block pays the validators that exist.
LEMMA LedgerAllocated ==
    ASSUME NEW d, NEW s, NEW G, NEW h, Ledger(d, s, G, h),
           NEW share \in [Validators -> Nat], \A v \in Validators \ s.vals : share[v] = 0,
           NEW total, total = SumFunctionOnSet(share, Validators), total \in 0..(Fee * Unit),
           NEW e, e = AllocateTokens(d, share, Fee, total)
    PROVE  Ledger(e, s, G, h + 1) /\ Accrues(d, e)
<1> DEFINE V == s.vals \cup G
           D == Delegations(s)
<1>1. /\ DistOK(d) /\ StakOK(s) /\ h \in Nat /\ Backed(s) /\ Funded(d) /\ Unowed(d, V)
      /\ Sound(d, s, V, D, h) /\ V \in SUBSET Validators /\ D \in SUBSET Pairs
      /\ Fee \in Nat /\ \A v \in Validators \ V : share[v] = 0
  BY LedgerSets, ChainAssumption DEF Ledger
<1> HIDE DEF V, D
<1>2. Allocated(d, s, e, V, D, share, Fee, h)
  BY <1>1, AllocateSound
<1>3. /\ DistOK(e) /\ Sound(e, s, V, D, h + 1) /\ Funded(e)
      /\ \A v \in Validators : share[v] = 0 =>
           /\ e.outst[v] = d.outst[v] /\ e.rew[v] = d.rew[v]
           /\ d.comm[v] = 0 => e.comm[v] = 0
  BY <1>2 DEF Allocated
<1>4. Accrues(d, e)
  BY <1>2 DEF Allocated, Accrues
<1>5. Unowed(e, V)
  BY <1>1, <1>3 DEF Unowed
<1> QED BY <1>1, <1>3, <1>4, <1>5 DEF Ledger, V, D

-----------------------------------------------------------------------------
\* The steps of the chain.

\* The chain runs between a commit and the next, or within a block.
LEMMA ChainRuns ==
    ChainNext => /\ pc \in {"idle", "block"} /\ pc' \in {"idle", "block"}
                 /\ height' = height \/ height' = height + 1
<1>1. Deliver => pc = "block" /\ pc' = pc /\ height' = height
  BY DEF Deliver
<1>2. \A pair, amount : MsgDelegate(pair, amount) => Deliver
  BY DEF MsgDelegate
<1>3. \A pair, amount : MsgUndelegate(pair, amount) => Deliver
  BY Zenon DEF MsgUndelegate
<1>4. ASSUME NEW a, NEW from, NEW to, NEW amount, MsgBeginRedelegate(a, from, to, amount)
      PROVE  Deliver
  BY <1>4 DEF MsgBeginRedelegate
<1>5. \A v, amount : MsgCreateValidator(v, amount) => Deliver
  BY Zenon DEF MsgCreateValidator
<1>6. \A pair : MsgWithdrawDelegatorReward(pair) => Deliver
  BY DEF MsgWithdrawDelegatorReward
<1>7. \A v : MsgWithdrawValidatorCommission(v) => Deliver
  BY DEF MsgWithdrawValidatorCommission
<1>8. /\ BeginBlock => pc = "idle" /\ pc' = "block" /\ height' = height + 1
      /\ EndBlock => pc = "block" /\ pc' = "idle" /\ height' = height
  BY DEF BeginBlock, EndBlock
<1> QED BY <1>1, <1>2, <1>3, <1>4, <1>5, <1>6, <1>7, <1>8 DEF ChainNext

LEMMA LedgerBeginBlock ==
    ASSUME NEW G, Ledger(dist, stak, G, height), BeginBlock
    PROVE  Ledger(dist', stak', G, height') /\ Keeps(dist, dist')
<1>1. height' = height + 1 /\ stak' = stak
  BY DEF BeginBlock
<1>2. PICK share \in [Validators -> VoteShares \cup {0}] :
        /\ \A v \in Validators \ Voters : share[v] = 0
        /\ Total(share) \in 0..(Fee * Unit)
        /\ dist' = AllocateTokens(dist, share, Fee, Total(share))
  BY DEF BeginBlock
<1>3. share \in [Validators -> Nat]
  <2>1. VoteShares \cup {0} \subseteq Nat
    BY ChainAssumption
  <2>2. \A v \in Validators : share[v] \in Nat
    BY <2>1
  <2> QED BY <2>2
<1>4. \A v \in Validators \ stak.vals : share[v] = 0
  BY <1>2 DEF Voters
<1> DEFINE total == Total(share)
<1>5. /\ total = SumFunctionOnSet(share, Validators)
      /\ total \in 0..(Fee * Unit) /\ dist' = AllocateTokens(dist, share, Fee, total)
  BY <1>2 DEF Total
<1> HIDE DEF total
<1>6. Ledger(dist', stak, G, height + 1) /\ Accrues(dist, dist')
  BY <1>3, <1>4, <1>5, LedgerAllocated
<1> QED BY <1>1, <1>6 DEF Keeps

LEMMA LedgerEndBlock ==
    ASSUME NEW G, Ledger(dist, stak, G, height), EndBlock, StakOK(stak')
    PROVE  Ledger(dist', stak', G, height') /\ Keeps(dist, dist')
<1>1. height' = height /\ dist' = dist /\ stak' = ApplyValidatorSetUpdates(stak, height)
  BY DEF EndBlock
<1>2. stak'.shares = stak.shares /\ stak'.vals = stak.vals /\ stak'.tokens = stak.tokens
  BY <1>1, SetUpdatesKeep, SetUpdatesTokens DEF Ledger
<1>3. Ledger(dist, stak', G, height)
  BY <1>2, LedgerSame
<1>4. Settles(dist, dist)
  BY SettlesSame DEF Ledger
<1> QED BY <1>1, <1>3, <1>4 DEF Keeps

LEMMA LedgerDelegate ==
    ASSUME NEW G, Ledger(dist, stak, G, height),
           NEW pair \in Pairs, NEW amount \in Amounts, MsgDelegate(pair, amount)
    PROVE  Ledger(dist', stak', G, height') /\ Keeps(dist, dist')
<1>1. /\ height' = height /\ pair[2] \in stak.vals /\ amount \in Nat
      /\ stak' = AddShares(stak, pair, amount)
      /\ dist' = DelegationHooks(dist, stak, stak', pair, height)
  BY ChainAssumption DEF MsgDelegate, Deliver
<1> QED BY <1>1, LedgerDelegated DEF Keeps

LEMMA LedgerUndelegate ==
    ASSUME NEW G, Ledger(dist, stak, G, height), StakOK(stak'),
           NEW pair \in Pairs, NEW amount \in Amounts, MsgUndelegate(pair, amount)
    PROVE  Ledger(dist', stak', G, height') /\ Keeps(dist, dist')
<1> DEFINE t == RemoveShares(stak, pair, amount)
           e == UnbondHooks(dist, stak, t, pair, height)
<1>1. height' = height /\ Removable(stak, pair, amount) /\ amount \in Nat
  BY ChainAssumption DEF MsgUndelegate, Deliver
<1>2. StakOK(t)
  BY <1>1, RemoveSharesType DEF Ledger
<1>3. stak'.shares = t.shares /\ stak'.vals = t.vals /\ stak'.tokens = t.tokens
  BY <1>2 DEF MsgUndelegate, StakOK
<1>4. dist' = UnbondHooks(dist, stak, stak', pair, height)
  BY Zenon DEF MsgUndelegate
<1>5. dist' = e
  <2> HIDE DEF t
  <2> QED BY <1>3, <1>4 DEF UnbondHooks, DelegationHooks, InitializeDelegation
<1> HIDE DEF e
<1>6. Ledger(e, t, G, height) /\ Settles(dist, e)
  BY <1>1, LedgerUnbonded DEF e
<1> HIDE DEF t
<1>7. Ledger(dist', stak', G, height)
  BY <1>3, <1>5, <1>6, LedgerSame
<1> QED BY <1>1, <1>5, <1>6, <1>7 DEF Keeps

LEMMA LedgerRedelegate ==
    ASSUME NEW G, Ledger(dist, stak, G, height), StakOK(stak'),
           NEW a \in Accounts, NEW from \in Validators, NEW to \in Validators,
           NEW amount \in Amounts, MsgBeginRedelegate(a, from, to, amount)
    PROVE  Ledger(dist', stak', G, height') /\ Keeps(dist, dist')
<1> DEFINE route == <<a, from, to>>
           one == <<a, from>>
           two == <<a, to>>
           removed == RemoveShares(stak, one, amount)
           created == IF stak.status[from] = "unbonding"
                      THEN stak.unbondHeight[from] ELSE height
           entry == [height |-> created, due |-> created, amount |-> amount]
           added == IF stak.status[from] = "unbonded" THEN {} ELSE {entry}
           left == UnbondHooks(dist, stak, removed, one, height)
           moved == AddShares(removed, two, amount)
<1>1. /\ amount \in Nat /\ one \in Pairs /\ two \in Pairs
      /\ one[2] = from /\ two[2] = to
  BY ChainAssumption DEF Pairs
<1>2. /\ stak' = [moved EXCEPT !.red[route] = @ \cup added]
      /\ dist' = DelegationHooks(left, removed, moved, two, height)
      /\ Deliver /\ from # to /\ to \in stak.vals
      /\ Removable(stak, one, amount)
  BY Zenon DEF MsgBeginRedelegate
<1>3. height' = height
  BY <1>2 DEF Deliver
<1> HIDE DEF one, two
<1>4. /\ Ledger(left, removed, G, height) /\ Settles(dist, left)
      /\ stak.vals \ {one[2]} \subseteq removed.vals
  BY <1>1, <1>2, LedgerUnbonded
<1>5. two[2] \in removed.vals
  BY <1>1, <1>2, <1>4
<1>6. StakOK(moved)
  <2> HIDE DEF removed
  <2> QED BY <1>1, <1>4, AddSharesType DEF Ledger
<1>7. stak'.shares = moved.shares /\ stak'.vals = moved.vals /\ stak'.tokens = moved.tokens
  <2> HIDE DEF moved
  <2> QED BY <1>2, <1>6 DEF StakOK
<1> HIDE DEF removed, left
<1>8. Ledger(dist', moved, G, height) /\ Settles(left, dist')
  BY <1>1, <1>2, <1>4, <1>5, LedgerDelegated
<1> HIDE DEF moved
<1>9. Ledger(dist', stak', G, height)
  BY <1>7, <1>8, LedgerSame
<1>10. Settles(dist, dist')
  BY <1>4, <1>8, SettlesTwice DEF Ledger
<1> QED BY <1>3, <1>9, <1>10 DEF Keeps

\* The new validator has left nothing behind: it is not one of G.
LEMMA LedgerCreateValidator ==
    ASSUME NEW G, Ledger(dist, stak, G, height),
           NEW v \in Validators, NEW amount \in Amounts, MsgCreateValidator(v, amount),
           v \notin G
    PROVE  Ledger(dist', stak', G, height') /\ Keeps(dist, dist')
<1> DEFINE pair == <<v, v>>
           created == CreateValidator(stak, v)
           hooked == InitializeValidator(dist, v)
<1>1. /\ height' = height /\ v \notin stak.vals /\ amount \in Nat
      /\ stak' = AddShares(created, pair, amount)
      /\ dist' = DelegationHooks(hooked, created, stak', pair, height)
  BY ChainAssumption, Zenon DEF MsgCreateValidator, Deliver
<1>2. pair \in Pairs /\ pair[2] = v
  BY AddressAssumption DEF Pairs
<1>3. StakOK(stak) /\ Backed(stak) /\ G \in SUBSET (Validators \ stak.vals)
  BY DEF Ledger
<1>4. \A other \in Delegations(stak) : other[2] # v
  BY <1>1, LedgerSets
<1>5. /\ StakOK(created) /\ Backed(created)
      /\ created.vals = stak.vals \cup {v} /\ created.shares = stak.shares
  <2>1. StakOK(created) /\ Backed(created)
    BY <1>3, <1>4, CreateValidatorType, CreateBacked
  <2> QED BY <1>3, <2>1 DEF CreateValidator, StakOK
<1> HIDE DEF created, hooked, pair
<1>6. /\ created.vals \cup G = (stak.vals \cup G) \cup {v} /\ v \in created.vals
      /\ G \in SUBSET (Validators \ created.vals)
  BY <1>1, <1>3, <1>5
<1>7. Ledger(hooked, created, G, height) /\ Settles(dist, hooked)
  BY <1>1, <1>5, <1>6, LedgerCreated DEF hooked
<1>8. Ledger(dist', stak', G, height) /\ Settles(hooked, dist')
  BY <1>1, <1>2, <1>6, <1>7, LedgerDelegated
<1>9. Settles(dist, dist')
  BY <1>7, <1>8, SettlesTwice DEF Ledger
<1> QED BY <1>1, <1>8, <1>9 DEF Keeps

LEMMA LedgerWithdrawReward ==
    ASSUME NEW G, Ledger(dist, stak, G, height),
           NEW pair \in Pairs, MsgWithdrawDelegatorReward(pair)
    PROVE  Ledger(dist', stak', G, height') /\ Keeps(dist, dist')
<1>1. /\ height' = height /\ pair \in Delegations(stak) /\ stak' = stak
      /\ dist' = WithdrawDelegationRewards(dist, stak, pair, height)
  BY DEF MsgWithdrawDelegatorReward, Deliver, Delegations
<1> QED BY <1>1, LedgerWithdrawn DEF Keeps

LEMMA LedgerWithdrawCommission ==
    ASSUME NEW G, Ledger(dist, stak, G, height),
           NEW v \in Validators, MsgWithdrawValidatorCommission(v)
    PROVE  Ledger(dist', stak', G, height') /\ Keeps(dist, dist')
<1>1. /\ height' = height /\ stak' = stak
      /\ dist' = WithdrawValidatorCommission(dist, v)
  BY DEF MsgWithdrawValidatorCommission, Deliver
<1> QED BY <1>1, LedgerCommission DEF Keeps

\* Every block and message keeps the books, over any records left behind, as
\* long as none of their validators is created again.
LEMMA LedgerChain ==
    ASSUME NEW G, Ledger(dist, stak, G, height), StakOK(stak'), ChainNext,
           (stak'.vals \ stak.vals) \cap G = {}
    PROVE  Ledger(dist', stak', G, height') /\ Keeps(dist, dist')
<1>1. ASSUME NEW v \in Validators, NEW amount \in Amounts, MsgCreateValidator(v, amount)
      PROVE  v \notin G
  <2>1. v \notin stak.vals /\ stak' = AddShares(CreateValidator(stak, v), <<v, v>>, amount)
    BY <1>1, Zenon DEF MsgCreateValidator
  <2>2. StakOK(stak)
    BY DEF Ledger
  <2>3. StakOK(CreateValidator(stak, v))
    BY <2>1, <2>2, CreateValidatorType
  <2>4. v \in CreateValidator(stak, v).vals
    BY <2>2 DEF CreateValidator, StakOK
  <2>5. v \in stak'.vals
    BY <2>1, <2>3, <2>4 DEF AddShares, SetTokens, StakOK
  <2> QED BY <2>1, <2>5
<1> QED BY <1>1, LedgerBeginBlock, LedgerEndBlock, LedgerDelegate, LedgerUndelegate,
           LedgerRedelegate, LedgerCreateValidator, LedgerWithdrawReward,
           LedgerWithdrawCommission DEF ChainNext

-----------------------------------------------------------------------------
\* What a step of the chain may rely on.
ChainSound ==
    /\ DistOK(dist) /\ StakOK(stak) /\ height \in Nat
    /\ Sound(dist, stak, stak.vals, Delegations(stak), height)
    /\ Funded(dist) /\ Unowed(dist, stak.vals) /\ Backed(stak) /\ Hosted(stak)
    /\ Delegations(stak) \in SUBSET Pairs /\ stak.vals \in SUBSET Validators
    /\ ContextSound

LEMMA ChainSoundFrom == SolvencyInv /\ pc \in {"idle", "block"} => ChainSound
<1> SUFFICES ASSUME SolvencyInv, pc \in {"idle", "block"} PROVE ChainSound
  OBVIOUS
<1>1. LiveValidators = stak.vals /\ LiveDelegations = Delegations(stak)
      /\ Now = height /\ Owing = stak.vals
  BY DEF LiveValidators, LiveDelegations, Now, Owing, Rebuilt
<1>2. DistOK(dist) /\ StakOK(stak) /\ height \in Nat /\ Hosted(stak)
  BY DEF SolvencyInv, CountInv, TypeOK
<1>3. Delegations(stak) \in SUBSET Pairs /\ stak.vals \in SUBSET Validators
  BY <1>2 DEF Delegations, StakOK
<1>4. Sound(dist, stak, stak.vals, Delegations(stak), height) /\ Unowed(dist, stak.vals)
  BY <1>1 DEF SolvencyInv
<1> QED BY <1>2, <1>3, <1>4 DEF SolvencyInv, ChainSound

\* Without a testnet no validator is gone with records left behind.
LEMMA LedgerFrom == ChainSound => Ledger(dist, stak, {}, height)
<1>1. stak.vals \cup {} = stak.vals /\ {} \in SUBSET (Validators \ stak.vals)
  OBVIOUS
<1> QED BY <1>1 DEF ChainSound, Ledger

LEMMA SolvencyChain ==
    ASSUME SolvencyInv, ChainNext, UNCHANGED exportVars, CountInv'
    PROVE  SolvencyInv' /\ Keeps(dist, dist')
<1>1. /\ pc \in {"idle", "block"} /\ pc' \in {"idle", "block"}
      /\ height' = height \/ height' = height + 1
  BY ChainRuns
<1>2. ChainSound
  BY <1>1, ChainSoundFrom
<1>3. StakOK(stak')
  BY DEF CountInv, TypeOK
<1>4. Ledger(dist', stak', {}, height') /\ Keeps(dist, dist')
  BY <1>2, <1>3, LedgerFrom, LedgerChain
<1>5. stak'.vals \cup {} = stak'.vals
  OBVIOUS
<1>6. /\ Sound(dist', stak', stak'.vals, Delegations(stak'), height')
      /\ Funded(dist') /\ Unowed(dist', stak'.vals) /\ Backed(stak')
  BY <1>4, <1>5 DEF Ledger
<1>7. /\ (LiveValidators = stak.vals)' /\ (LiveDelegations = Delegations(stak))'
      /\ (Now = height)' /\ (Owing = stak.vals)'
  BY <1>1 DEF LiveValidators, LiveDelegations, Now, Owing, Rebuilt
<1>8. Sound(dist, stak, LiveValidators, LiveDelegations, Now)' /\ Unowed(dist, Owing)'
  BY <1>6, <1>7
<1>9. ContextSound'
  BY <1>1, <1>2 DEF ChainSound, ContextSound
<1> QED BY <1>1, <1>4, <1>6, <1>8, <1>9 DEF SolvencyInv, Prepares

\* What undelegating leaves behind: the books when t is the staking store then.
Unbonded(t, e, pair) ==
    /\ StakOK(t) /\ Backed(t) /\ Hosted(t)
    /\ t.vals \subseteq stak.vals /\ stak.vals \ {pair[2]} \subseteq t.vals
    /\ DistOK(e) /\ Sound(e, t, t.vals, Delegations(t), height)
    /\ Settles(dist, e) /\ Unowed(e, t.vals) /\ OnlyAt(dist, e, pair[2])

LEMMA SolvencyUnbond ==
    ASSUME ChainSound, NEW pair \in Pairs, NEW amount \in Amounts,
           Removable(stak, pair, amount), NEW t, t = RemoveShares(stak, pair, amount),
           NEW e, e = UnbondHooks(dist, stak, t, pair, height)
    PROVE  Unbonded(t, e, pair)
<1>1. amount \in Nat /\ StakOK(stak) /\ Hosted(stak)
  BY ChainAssumption DEF ChainSound
<1>2. Hosted(t)
  BY <1>1, RemoveKeepsHosted
<1>3. /\ Ledger(e, t, {}, height) /\ Settles(dist, e) /\ OnlyAt(dist, e, pair[2])
      /\ t.vals \subseteq stak.vals /\ stak.vals \ {pair[2]} \subseteq t.vals
  BY <1>1, LedgerFrom, LedgerUnbonded
<1>4. t.vals \cup {} = t.vals
  OBVIOUS
<1> QED BY <1>2, <1>3, <1>4 DEF Ledger, Unbonded

-----------------------------------------------------------------------------
\* The steps of the export.

LEMMA SolvencyStart ==
    ASSUME SolvencyInv, NEW zero \in BOOLEAN, NEW list, StartExport(zero, list), CountInv'
    PROVE  SolvencyInv' /\ Keeps(dist, dist')
<1>1. /\ pc = "idle" /\ ctx' = height
      /\ height' = height /\ dist' = dist /\ stak' = stak /\ forZero' = zero
      /\ pc' = IF zero THEN "allowList" ELSE "collect"
  BY DEF StartExport
<1>2. ChainSound
  BY <1>1, ChainSoundFrom
<1>3. /\ (LiveValidators = stak.vals)' /\ (LiveDelegations = Delegations(stak))'
      /\ Now' = height /\ (Owing = stak.vals)'
  BY <1>1 DEF LiveValidators, LiveDelegations, Now, Owing, Rebuilt
<1>4. Sound(dist, stak, LiveValidators, LiveDelegations, Now)'
  BY <1>1, <1>2, <1>3 DEF ChainSound
<1>5. Unowed(dist, Owing)' /\ Funded(dist)' /\ Backed(stak)'
  BY <1>1, <1>2, <1>3 DEF ChainSound
<1>6. ContextSound' /\ (Prepares' => forZero')
  BY <1>1, <1>2 DEF ChainSound, ContextSound, Prepares
<1>7. Keeps(dist, dist')
  BY <1>1, <1>2, SettlesSame DEF ChainSound, Keeps
<1> QED BY <1>4, <1>5, <1>6, <1>7 DEF SolvencyInv

\* Where the history is whole, the books are as they are between two blocks.
LEMMA WholeSoundFrom ==
    SolvencyInv /\ pc \notin {"validators", "delegations"}
      => ChainSound /\ (pc \notin {"idle", "block"} => ctx = height)
<1> SUFFICES ASSUME SolvencyInv, pc \notin {"validators", "delegations"}
             PROVE  ChainSound /\ (pc \notin {"idle", "block"} => ctx = height)
  OBVIOUS
<1>1. pc \notin {"idle", "block"} => ctx = height
  BY DEF SolvencyInv, ContextSound
<1>2. LiveValidators = stak.vals /\ LiveDelegations = Delegations(stak) /\ Now = height
  BY <1>1 DEF LiveValidators, LiveDelegations, Now
<1>3. DistOK(dist) /\ StakOK(stak) /\ height \in Nat /\ Hosted(stak)
  BY DEF SolvencyInv, CountInv, TypeOK
<1>4. Delegations(stak) \in SUBSET Pairs /\ stak.vals \in SUBSET Validators
  BY <1>3 DEF Delegations, StakOK
<1>5. Unowed(dist, stak.vals)
  BY DEF SolvencyInv, Owing, Unowed
<1>6. Sound(dist, stak, stak.vals, Delegations(stak), height)
  BY <1>2 DEF SolvencyInv
<1> QED BY <1>1, <1>3, <1>4, <1>5, <1>6 DEF SolvencyInv, ChainSound

\* What a step of the export has to keep while the history is whole.
LEMMA SolvencyWhole ==
    ASSUME SolvencyInv, CountInv',
           pc \notin {"idle", "block", "validators", "delegations"},
           pc' \notin {"idle", "block", "validators", "delegations"},
           Rebuilt' => Rebuilt, Prepares' => Prepares,
           UNCHANGED <<forZero, ctx, height>>,
           stak'.shares = stak.shares, stak'.vals = stak.vals, stak'.tokens = stak.tokens,
           Sound(dist', stak, stak.vals, Delegations(stak), height),
           Settles(dist, dist'), Unowed(dist', Owing)
    PROVE  SolvencyInv' /\ Keeps(dist, dist')
<1>1. ChainSound /\ ctx = height
  BY WholeSoundFrom
<1>2. Delegations(stak') = Delegations(stak)
  BY DEF Delegations
<1>3. /\ (LiveValidators = stak.vals)' /\ (LiveDelegations = Delegations(stak))'
      /\ Now' = height
  BY <1>1 DEF LiveValidators, LiveDelegations, Now
<1>4. Sound(dist', stak', stak.vals, Delegations(stak), height)
  <2>1. \A pair \in Delegations(stak) : stak'.shares[pair] = stak.shares[pair]
    OBVIOUS
  <2> QED BY <2>1, SharesSame
<1>5. Sound(dist, stak, LiveValidators, LiveDelegations, Now)'
  BY <1>2, <1>3, <1>4
<1>6. Unowed(dist, Owing)'
  <2>1. (Owing' = {} /\ Owing = {}) \/ Owing' = stak.vals
    BY DEF Owing
  <2>2. Unowed(dist', stak.vals)
    BY DEF Owing, Unowed
  <2> QED BY <2>1, <2>2
<1>7. Funded(dist')
  <2>1. DistOK(dist) /\ DistOK(dist') /\ Funded(dist)
    BY DEF SolvencyInv, CountInv, TypeOK
  <2> QED BY <2>1, SettlesFunded
<1>8. Backed(stak')
  BY BackedSame DEF SolvencyInv
<1>9. ContextSound'
  BY <1>1 DEF ContextSound, ChainSound
<1> QED BY <1>5, <1>6, <1>7, <1>8, <1>9 DEF SolvencyInv, Keeps

\* ... most of all when it leaves the books alone.
LEMMA SolvencyQuiet ==
    ASSUME SolvencyInv, CountInv', dist' = dist,
           pc \notin {"idle", "block", "validators", "delegations"},
           pc' \notin {"idle", "block", "validators", "delegations"},
           Rebuilt' => Rebuilt, Prepares' => Prepares,
           UNCHANGED <<forZero, ctx, height>>,
           stak'.shares = stak.shares, stak'.vals = stak.vals, stak'.tokens = stak.tokens
    PROVE  SolvencyInv' /\ Keeps(dist, dist')
<1>1. ChainSound
  BY WholeSoundFrom
<1>2. Sound(dist', stak, stak.vals, Delegations(stak), height)
  BY <1>1 DEF ChainSound
<1>3. Settles(dist, dist')
  BY <1>1, SettlesSame DEF ChainSound
<1>4. Unowed(dist', Owing)
  BY DEF SolvencyInv
<1> QED BY <1>2, <1>3, <1>4, SolvencyWhole

LEMMA SolvencyCommission ==
    ASSUME SolvencyInv, CountInv', NEW v \in Validators, WithdrawCommission(v)
    PROVE  SolvencyInv' /\ Keeps(dist, dist')
<1> DEFINE D == Delegations(stak)
<1>1. /\ pc = "commission" /\ pc' \in {"commission", "panicked"}
      /\ UNCHANGED <<stak, forZero, ctx, height>>
      /\ dist' = WithdrawValidatorCommission(dist, v)
  BY DEF WithdrawCommission, Goto
<1>2. ChainSound /\ Owing = stak.vals /\ ~ Rebuilt' /\ Prepares
  BY <1>1, WholeSoundFrom DEF Owing, Rebuilt, Prepares
<1>3. /\ DistOK(dist) /\ height \in Nat
      /\ Sound(dist, stak, stak.vals, D, height) /\ D \in SUBSET Pairs
      /\ Funded(dist) /\ stak.vals \in SUBSET Validators /\ Unowed(dist, stak.vals)
  BY <1>2 DEF ChainSound
<1> HIDE DEF D
<1>4. CASE v \in stak.vals
  <2>1. Commissioned(dist, stak, dist', stak.vals, D, v, height)
    BY <1>1, <1>3, <1>4, CommissionSound
  <2>2. /\ Sound(dist', stak, stak.vals, D, height) /\ Settles(dist, dist')
        /\ OnlyAt(dist, dist', v)
    BY <2>1 DEF Commissioned
  <2>3. Unowed(dist', stak.vals)
    BY <1>3, <1>4, <2>2, UnownedSettled
  <2> QED BY <1>1, <1>2, <2>2, <2>3, SolvencyWhole DEF D
<1>5. CASE v \notin stak.vals
  <2>1. dist' = dist
    BY <1>1, <1>3, <1>5 DEF Unowed, WithdrawValidatorCommission
  <2> QED BY <1>1, <1>2, <2>1, SolvencyQuiet
<1> QED BY <1>4, <1>5

LEMMA SolvencyRewards ==
    ASSUME SolvencyInv, CountInv', NEW pair \in Pairs, WithdrawRewards(pair)
    PROVE  SolvencyInv' /\ Keeps(dist, dist')
<1> DEFINE D == Delegations(stak)
<1>1. /\ pc = "rewards" /\ pc' \in {"rewards", "panicked"} /\ pair \in todoD
      /\ UNCHANGED <<stak, forZero, ctx, height>>
      /\ pair[2] \in stak.vals => dist' = WithdrawDelegationRewards(dist, stak, pair, ctx)
  BY DEF WithdrawRewards, Goto, NextD
<1>2. ChainSound /\ Owing = stak.vals /\ ~ Rebuilt' /\ Prepares /\ ctx = height
  BY <1>1, WholeSoundFrom DEF Owing, Rebuilt, Prepares
<1>3. /\ DistOK(dist) /\ StakOK(stak) /\ Backed(stak) /\ height \in Nat
      /\ Sound(dist, stak, stak.vals, D, height) /\ D \in SUBSET Pairs
      /\ Funded(dist) /\ stak.vals \in SUBSET Validators /\ Unowed(dist, stak.vals)
  BY <1>2 DEF ChainSound
<1>4. pair \in D /\ pair[2] \in stak.vals
  BY <1>1, <1>2 DEF SolvencyInv, CountInv, LoopsSound, ChainSound, Hosted
<1> HIDE DEF D
<1>5. Withdrawn(dist, stak, dist', stak.vals, D, pair, height)
  BY <1>1, <1>2, <1>3, <1>4, WithdrawSound
<1>6. /\ Sound(dist', stak, stak.vals, D, height) /\ Settles(dist, dist')
      /\ OnlyAt(dist, dist', pair[2])
  BY <1>5 DEF Withdrawn
<1>7. Unowed(dist', stak.vals)
  BY <1>3, <1>4, <1>6, UnownedSettled
<1> QED BY <1>1, <1>2, <1>6, <1>7, SolvencyWhole DEF D

LEMMA SolvencyClear ==
    ASSUME SolvencyInv, CountInv', ClearHistory
    PROVE  SolvencyInv' /\ Keeps(dist, dist')
<1>1. /\ pc = "rewards" /\ pc' = "validators" /\ todoV' = stak.vals /\ ctx' = 0
      /\ UNCHANGED <<stak, forZero, height>>
      /\ dist' = [dist EXCEPT !.hist = [v \in Validators |-> [p \in {} |-> 0]]]
  BY DEF ClearHistory
<1>2. ChainSound
  BY <1>1, WholeSoundFrom
<1>3. /\ dist'.outst = dist.outst /\ dist'.pool = dist.pool /\ dist'.funds = dist.funds
      /\ dist'.paid = dist.paid /\ dist'.comm = dist.comm /\ dist'.rew = dist.rew
      /\ dist'.fault = dist.fault
  BY <1>1, <1>2 DEF ChainSound, DistOK
<1>4. (LiveValidators = {})' /\ (LiveDelegations = {})' /\ Now' = 0 /\ Owing' = stak.vals
  BY <1>1 DEF LiveValidators, LiveDelegations, Now, Owing
<1>5. Sound(dist, stak, LiveValidators, LiveDelegations, Now)'
  <2>1. dist'.fault = "none"
    BY <1>2, <1>3 DEF ChainSound, Sound
  <2>2. Counted(dist', {}, {})
    BY <1>4, <2>1 DEF CountInv, Safe
  <2> QED BY <1>4, <2>1, <2>2 DEF Sound
<1>6. Settles(dist, dist')
  BY <1>2, <1>3, SettlesNothing DEF ChainSound
<1>7. Funded(dist') /\ Unowed(dist, Owing)'
  BY <1>2, <1>3, <1>4 DEF ChainSound, Funded, Held, Unowed
<1>8. ContextSound' /\ Backed(stak') /\ (Prepares' => forZero')
  BY <1>1, <1>2 DEF ChainSound, ContextSound, SolvencyInv, Prepares
<1> QED BY <1>5, <1>6, <1>7, <1>8 DEF SolvencyInv, Keeps

\* While the history is rebuilt.
LEMMA RebuildFrom ==
    ASSUME SolvencyInv, pc \in {"validators", "delegations"}
    PROVE  /\ DistOK(dist) /\ StakOK(stak) /\ Backed(stak) /\ Funded(dist) /\ Hosted(stak)
           /\ Delegations(stak) \in SUBSET Pairs /\ stak.vals \in SUBSET Validators
           /\ ctx = 0 /\ forZero /\ LoopsSound /\ height \in Nat \ {0}
           /\ todoV \subseteq Validators /\ todoD \subseteq Pairs
           /\ pc = "validators" =>
                /\ Sound(dist, stak, stak.vals \ todoV, {}, 0)
                /\ Unowed(dist, todoV)
           /\ pc = "delegations" =>
                /\ Sound(dist, stak, stak.vals, Delegations(stak) \ todoD, 0)
                /\ Unowed(dist, {})
<1>1. /\ DistOK(dist) /\ StakOK(stak) /\ Backed(stak) /\ Funded(dist) /\ Hosted(stak)
      /\ LoopsSound /\ todoV \subseteq Validators /\ todoD \subseteq Pairs
  BY DEF SolvencyInv, CountInv, TypeOK
<1>2. Delegations(stak) \in SUBSET Pairs /\ stak.vals \in SUBSET Validators
  BY <1>1 DEF Delegations, StakOK
<1>3. ctx = 0 /\ forZero /\ height \in Nat \ {0} /\ Now = 0
  BY DEF SolvencyInv, ContextSound, Prepares, Now
<1>4. ASSUME pc = "validators"
      PROVE  Sound(dist, stak, stak.vals \ todoV, {}, 0) /\ Unowed(dist, todoV)
  <2>1. LiveValidators = stak.vals \ todoV /\ LiveDelegations = {} /\ Owing = todoV
    BY <1>4 DEF LiveValidators, LiveDelegations, Owing
  <2> QED BY <1>3, <2>1 DEF SolvencyInv
<1>5. ASSUME pc = "delegations"
      PROVE  Sound(dist, stak, stak.vals, Delegations(stak) \ todoD, 0) /\ Unowed(dist, {})
  <2>1. /\ LiveValidators = stak.vals /\ LiveDelegations = Delegations(stak) \ todoD
        /\ Owing = {}
    BY <1>1, <1>3, <1>5
       DEF LiveValidators, LiveDelegations, Owing, Rebuilt, LoopsSound, Delegations
  <2> QED BY <1>3, <2>1 DEF SolvencyInv
<1> QED BY <1>1, <1>2, <1>3, <1>4, <1>5

LEMMA SolvencyValidator ==
    ASSUME SolvencyInv, CountInv', NEW v \in Validators, ReinitValidator(v)
    PROVE  /\ pc' = "validators" /\ SolvencyInv' /\ Keeps(dist, dist')
           /\ Created(dist, stak, dist', stak.vals \ todoV, {}, v, 0)
<1> DEFINE V == stak.vals \ todoV
<1>1. /\ pc = "validators" /\ v \in todoV /\ todoV' = todoV \ {v}
      /\ UNCHANGED <<stak, snap, forZero, ctx, height>>
      /\ dist' = InitializeValidator([dist EXCEPT !.pool = @ + dist.outst[v]], v)
      /\ pc' = IF dist'.fault = "none" THEN "validators" ELSE "panicked"
  BY DEF ReinitValidator, Goto, NextV
<1>2. /\ DistOK(dist) /\ Backed(stak) /\ Funded(dist)
      /\ Sound(dist, stak, V, {}, 0) /\ V \in SUBSET Validators /\ todoV \subseteq stak.vals
      /\ Unowed(dist, todoV) /\ v \in Validators \ V /\ ctx = 0 /\ forZero
      /\ height \in Nat \ {0}
  BY <1>1, RebuildFrom DEF LoopsSound
<1>3. V \cup {v} = stak.vals \ todoV'
  BY <1>1, <1>2
<1> HIDE DEF V
<1>4. Created(dist, stak, dist', V, {}, v, 0)
  <2>1. {} \in SUBSET Pairs /\ \A pair \in {} : pair[2] # v
    OBVIOUS
  <2> QED BY <1>1, <1>2, <2>1, CreateSound
<1>5. /\ DistOK(dist') /\ Sound(dist', stak, V \cup {v}, {}, 0) /\ Settles(dist, dist')
      /\ OnlyAt(dist, dist', v)
      /\ dist'.outst[v] = 0 /\ dist'.comm[v] = 0 /\ dist'.rew[v] = 0
  BY <1>4 DEF Created
<1>6. pc' = "validators"
  BY <1>1, <1>5 DEF Sound
<1>7. /\ (LiveValidators = stak.vals \ todoV)' /\ (LiveDelegations = {})'
      /\ Now' = 0 /\ (Owing = todoV)'
  BY <1>1, <1>2, <1>6 DEF LiveValidators, LiveDelegations, Now, Owing
<1>8. Sound(dist, stak, LiveValidators, LiveDelegations, Now)'
  BY <1>1, <1>3, <1>5, <1>7
<1>9. Unowed(dist, Owing)'
  BY <1>1, <1>2, <1>5, <1>7 DEF Unowed, OnlyAt
<1>10. Funded(dist')
  BY <1>2, <1>5, SettlesFunded
<1>11. ContextSound' /\ Backed(stak') /\ (Prepares' => forZero')
  BY <1>1, <1>2, <1>6 DEF ContextSound
<1> QED BY <1>4, <1>5, <1>6, <1>8, <1>9, <1>10, <1>11 DEF SolvencyInv, Keeps, V

LEMMA SolvencyDelegations ==
    ASSUME SolvencyInv, CountInv', StartDelegations
    PROVE  SolvencyInv' /\ Keeps(dist, dist')
<1>1. /\ pc = "validators" /\ pc' = "delegations" /\ todoV = {}
      /\ todoD' = Delegations(snap.stak)
      /\ UNCHANGED <<dist, stak, snap, forZero, ctx, height>>
  BY DEF StartDelegations
<1>2. /\ DistOK(dist) /\ Backed(stak) /\ Funded(dist) /\ ctx = 0 /\ forZero
      /\ Sound(dist, stak, stak.vals, {}, 0) /\ Unowed(dist, {})
      /\ height \in Nat \ {0}
  BY <1>1, RebuildFrom
<1>3. (LiveValidators = stak.vals)' /\ (LiveDelegations = {})' /\ Now' = 0 /\ Owing' = {}
  BY <1>1, <1>2 DEF LiveValidators, LiveDelegations, Now, Owing, Rebuilt
<1>4. Sound(dist, stak, LiveValidators, LiveDelegations, Now)' /\ Unowed(dist, Owing)'
  BY <1>1, <1>2, <1>3
<1>5. ContextSound' /\ Backed(stak') /\ (Prepares' => forZero') /\ Funded(dist')
  BY <1>1, <1>2 DEF ContextSound
<1>6. Keeps(dist, dist')
  BY <1>1, <1>2, SettlesSame DEF Keeps
<1> QED BY <1>4, <1>5, <1>6 DEF SolvencyInv

\* Nothing is owed to anybody, and that stays so.
LEMMA UnowedForever ==
    ASSUME NEW d, DistOK(d), NEW e, DistOK(e), Unowed(d, {}), Settles(d, e),
           e.comm = d.comm, NEW v, OnlyAt(d, e, v), v \in Validators => e.rew[v] = 0
    PROVE  Unowed(e, {})
<1>1. Held(d) = 0
  BY FiniteAddresses, SumOfZeros DEF Held, Unowed
<1>2. Held(e) \in Nat /\ Held(e) <= 0
  BY <1>1, BooksTotal DEF Settles
<1>3. \A w \in Validators : e.outst[w] \in Nat /\ e.outst[w] <= Held(e)
  BY BooksTotal
<1>4. \A w \in Validators : e.outst[w] = 0
  <2> SUFFICES ASSUME NEW w \in Validators PROVE e.outst[w] = 0
    OBVIOUS
  <2>1. e.outst[w] \in Nat /\ e.outst[w] <= Held(e)
    BY <1>3
  <2> QED BY <1>2, <2>1
<1>5. \A w \in Validators : e.rew[w] = 0
  BY DEF OnlyAt, Unowed
<1> QED BY <1>4, <1>5 DEF Unowed

LEMMA SolvencyDelegation ==
    ASSUME SolvencyInv, CountInv', NEW pair \in Pairs, ReinitDelegation(pair),
           NEW closed, closed = IncrementValidatorPeriod(dist, stak, pair[2])
    PROVE  /\ pc' = "delegations" /\ SolvencyInv' /\ Keeps(dist, dist')
           /\ Advanced(dist, stak, closed, stak.vals, Delegations(stak) \ todoD, pair[2], 0)
           /\ Begun(closed, stak, dist', stak.vals, Delegations(stak) \ todoD, pair, 0)
<1> DEFINE D == Delegations(stak) \ todoD
<1>1. /\ pc = "delegations" /\ pair \in todoD /\ todoD' = todoD \ {pair}
      /\ UNCHANGED <<stak, snap, forZero, ctx, height>>
      /\ pair[2] \in stak.vals =>
           /\ dist' = InitializeDelegation(closed, stak, pair, ctx)
           /\ pc' = IF dist'.fault = "none" THEN "delegations" ELSE "panicked"
  BY DEF ReinitDelegation, Goto, NextD
<1>2. /\ DistOK(dist) /\ StakOK(stak) /\ Backed(stak) /\ Funded(dist) /\ ctx = 0 /\ forZero
      /\ Sound(dist, stak, stak.vals, D, 0) /\ Unowed(dist, {})
      /\ height \in Nat \ {0} /\ D \in SUBSET Pairs /\ stak.vals \in SUBSET Validators
      /\ todoD \subseteq Delegations(stak) /\ Hosted(stak)
  BY <1>1, RebuildFrom DEF LoopsSound
<1>3. /\ pair[2] \in stak.vals /\ pair \in Pairs \ D
      /\ D \cup {pair} = Delegations(stak) \ todoD'
  BY <1>1, <1>2 DEF Hosted
<1> HIDE DEF D
<1>4. Advanced(dist, stak, closed, stak.vals, D, pair[2], 0)
  BY <1>2, <1>3, IncrementSound
<1>5. /\ DistOK(closed) /\ Sound(closed, stak, stak.vals, D, 0) /\ Fresh(closed, D, pair[2])
      /\ OnlyAt(dist, closed, pair[2]) /\ Settles(dist, closed)
      /\ closed.comm = dist.comm /\ closed.rew[pair[2]] = 0
  BY <1>4 DEF Advanced
<1>6. Begun(closed, stak, dist', stak.vals, D, pair, 0)
  <2>1. dist' = InitializeDelegation(closed, stak, pair, 0)
    BY <1>1, <1>2, <1>3
  <2> QED BY <1>2, <1>3, <1>5, <2>1, StartSound
<1>7. /\ DistOK(dist') /\ Sound(dist', stak, stak.vals, D \cup {pair}, 0)
      /\ OnlyAt(closed, dist', pair[2]) /\ Settles(closed, dist')
      /\ dist'.comm = closed.comm /\ dist'.rew = closed.rew
  BY <1>6 DEF Begun
<1>8. Settles(dist, dist') /\ OnlyAt(dist, dist', pair[2])
  BY <1>2, <1>5, <1>7, SettlesTwice, OnlyAtTwice
<1>9. Unowed(dist', {})
  <2>1. dist'.comm = dist.comm /\ dist'.rew[pair[2]] = 0
    BY <1>5, <1>7
  <2> QED BY <1>2, <1>7, <1>8, <2>1, UnowedForever
<1>10. pc' = "delegations"
  BY <1>1, <1>3, <1>7 DEF Sound
<1>11. /\ (LiveValidators = stak.vals)' /\ (LiveDelegations = Delegations(stak) \ todoD)'
       /\ Now' = 0 /\ Owing' = {}
  <2>1. snap.stak.shares = stak.shares
    BY <1>1 DEF SolvencyInv, CountInv, LoopsSound
  <2> QED BY <1>1, <1>2, <1>10, <2>1
          DEF LiveValidators, LiveDelegations, Now, Owing, Rebuilt, Delegations
<1>12. Sound(dist, stak, LiveValidators, LiveDelegations, Now)' /\ Unowed(dist, Owing)'
  BY <1>1, <1>3, <1>7, <1>9, <1>11
<1>13. Funded(dist')
  BY <1>2, <1>7, <1>8, SettlesFunded
<1>14. ContextSound' /\ Backed(stak') /\ (Prepares' => forZero')
  BY <1>1, <1>2, <1>10 DEF ContextSound
<1> QED BY <1>4, <1>6, <1>8, <1>10, <1>12, <1>13, <1>14 DEF SolvencyInv, Keeps, D

\* What started at height zero may be settled at any later height.
LEMMA LaterSound ==
    ASSUME NEW d, DistOK(d), NEW s, NEW V \in SUBSET Validators, NEW D \in SUBSET Pairs,
           Sound(d, s, V, D, 0), NEW h \in Nat \ {0}
    PROVE  Sound(d, s, V, D, h)
<1>1. ASSUME NEW v \in V PROVE SolventAt(d, s, D, h, v)
  <2>1. SolventAt(d, s, D, 0, v) /\ Started(d, D, v)
    BY SolventStarted DEF Sound
  <2>2. ASSUME NEW pair \in D, pair[2] = v
        PROVE  d.start[pair].height <= h /\ d.start[pair].height # h
    <3>1. d.start[pair].height <= 0
      BY <2>1, <2>2 DEF SolventAt
    <3>2. d.start[pair].height \in Nat
      BY <2>1, <2>2, ClaimType DEF Started
    <3> QED BY <3>1, <3>2
  <2> QED BY <2>1, <2>2 DEF SolventAt
<1> QED BY <1>1 DEF Sound

LEMMA SolvencyRestore ==
    ASSUME SolvencyInv, CountInv', RestoreHeight
    PROVE  SolvencyInv' /\ Keeps(dist, dist')
<1> DEFINE D == Delegations(stak)
<1>1. /\ pc = "delegations" /\ pc' = "redelegations" /\ todoD = {} /\ ctx' = height
      /\ UNCHANGED <<dist, stak, snap, forZero, height>>
  BY DEF RestoreHeight
<1>2. /\ DistOK(dist) /\ Backed(stak) /\ Funded(dist) /\ forZero
      /\ Sound(dist, stak, stak.vals, D, 0) /\ Unowed(dist, {})
      /\ height \in Nat \ {0} /\ D \in SUBSET Pairs /\ stak.vals \in SUBSET Validators
  BY <1>1, RebuildFrom
<1>3. /\ (LiveValidators = stak.vals)' /\ (LiveDelegations = Delegations(stak))'
      /\ Now' = height /\ Owing' = {}
  BY <1>1, <1>2 DEF LiveValidators, LiveDelegations, Now, Owing, Rebuilt
<1> HIDE DEF D
<1>4. Sound(dist, stak, stak.vals, D, height)
  BY <1>2, LaterSound
<1>5. Sound(dist, stak, LiveValidators, LiveDelegations, Now)' /\ Unowed(dist, Owing)'
  BY <1>1, <1>2, <1>3, <1>4 DEF D
<1>6. ContextSound' /\ Backed(stak') /\ (Prepares' => forZero') /\ Funded(dist')
  BY <1>1, <1>2 DEF ContextSound
<1>7. Keeps(dist, dist')
  BY <1>1, <1>2, SettlesSame DEF Keeps
<1> QED BY <1>5, <1>6, <1>7 DEF SolvencyInv
\* The steps that touch no reward.
LEMMA SolvencyCommitted ==
    ASSUME SolvencyInv, CountInv', dist' = dist, UNCHANGED <<stak, forZero, ctx, height>>,
           \/ pc = "allowList" /\ pc' \in {"panicked", "commission"}
           \/ pc = "commission" /\ pc' = "rewards"
           \/ pc = "bondHeights" /\ pc' \in {"apply", "collect"}
           \/ pc = "collect" /\ pc' = "done"
    PROVE  SolvencyInv' /\ Keeps(dist, dist')
<1>1. /\ pc \notin {"idle", "block", "validators", "delegations"}
      /\ pc' \notin {"idle", "block", "validators", "delegations"}
  OBVIOUS
<1>2. Prepares' => Prepares
  BY DEF Prepares
<1>3. Rebuilt' => Rebuilt
  BY DEF Rebuilt
<1> QED BY <1>1, <1>2, <1>3, SolvencyQuiet

LEMMA SolvencyForget ==
    ASSUME SolvencyInv, CountInv',
           ResetRedelegations \/ ResetUnbondings \/ ApplySetUpdates
             \/ \E v \in Validators : ResetValidator(v)
    PROVE  SolvencyInv' /\ Keeps(dist, dist')
<1>1. StakOK(stak) /\ ctx \in Nat
  BY DEF SolvencyInv, CountInv, TypeOK
<1>2. /\ dist' = dist /\ UNCHANGED <<forZero, ctx, height>>
      /\ pc \in {"redelegations", "unbondings", "bondHeights", "apply"}
      /\ pc' \in {"unbondings", "bondHeights", "collect", "panicked"}
      /\ pc' = "panicked" => pc = "apply"
      /\ pc' = "collect" => pc = "apply"
  BY DEF ResetRedelegations, ResetUnbondings, ApplySetUpdates, ResetValidator,
         exportVars
<1>3. stak'.shares = stak.shares /\ stak'.vals = stak.vals /\ stak'.tokens = stak.tokens
  <2>1. CASE ResetRedelegations \/ ResetUnbondings \/ \E v \in Validators : ResetValidator(v)
    BY <1>1, <2>1 DEF ResetRedelegations, ResetUnbondings, ResetValidator, StakOK
  <2>2. CASE ApplySetUpdates
    BY <1>1, <2>2, SetUpdatesKeep, SetUpdatesTokens DEF ApplySetUpdates
  <2> QED BY <2>1, <2>2
<1>4. (Prepares' => Prepares) /\ (Rebuilt' => Rebuilt)
  BY <1>2 DEF Prepares, Rebuilt
<1> QED BY <1>2, <1>3, <1>4, SolvencyQuiet

LEMMA SolvencyExport ==
    ASSUME SolvencyInv, ExportStep, CountInv'
    PROVE  SolvencyInv' /\ Keeps(dist, dist')
<1>1. CASE ParseAllowList \/ GetAllDelegations \/ CloseIterator \/ CollectGenesis
  BY <1>1, SolvencyCommitted
     DEF ParseAllowList, GetAllDelegations, CloseIterator, CollectGenesis, exportVars
<1>2. ASSUME NEW pair \in Pairs, ReinitDelegation(pair)
      PROVE  SolvencyInv' /\ Keeps(dist, dist')
  BY <1>2, SolvencyDelegation
<1> QED BY <1>1, <1>2, SolvencyForget, SolvencyCommission, SolvencyRewards, SolvencyClear,
           SolvencyValidator, SolvencyDelegations, SolvencyRestore DEF ExportStep

LEMMA SolvencyNext ==
    ASSUME SolvencyInv, [Next]_vars
    PROVE  SolvencyInv' /\ (Keeps(dist, dist') \/ dist' = dist)
<1>1. CountInv'
  BY CountNext DEF SolvencyInv
<1>2. CASE UNCHANGED vars
  <2>1. /\ UNCHANGED <<pc, height, dist, stak, forZero, ctx, todoV, todoD, snap>>
    BY <1>2 DEF vars
  <2>2. /\ LiveValidators' = LiveValidators /\ LiveDelegations' = LiveDelegations
        /\ Now' = Now /\ Owing' = Owing /\ Prepares' = Prepares
        /\ ContextSound' = ContextSound
    BY <2>1 DEF LiveValidators, LiveDelegations, Now, Owing, Rebuilt, Prepares, ContextSound
  <2> QED BY <1>1, <2>1, <2>2 DEF SolvencyInv
<1>3. CASE StartExport(FALSE, {})
  BY <1>1, <1>3, SolvencyStart
<1>4. CASE \E list \in AllowLists : StartExport(TRUE, list)
  BY <1>1, <1>4, SolvencyStart
<1>5. CASE ChainNext /\ UNCHANGED exportVars
  BY <1>1, <1>5, SolvencyChain
<1>6. CASE ExportStep
  BY <1>1, <1>6, SolvencyExport
<1> QED BY <1>2, <1>3, <1>4, <1>5, <1>6 DEF Next

LEMMA SolventAlways == Spec => []SolvencyInv
<1>1. Init => SolvencyInv
  BY SolvencyInit
<1>2. SolvencyInv /\ [Next]_vars => SolvencyInv'
  BY SolvencyNext
<1> QED BY <1>1, <1>2, PTL DEF Spec

-----------------------------------------------------------------------------
(***************************************************************************)
(* In every reachable state the coins of the module account are exactly    *)
(* what is outstanding to the validators and in the community pool: for    *)
(* every set of accounts and validators, every fee, commission rate, unit, *)
(* bound and allow list.                                                   *)
(***************************************************************************)
THEOREM AccountCovers == Spec => []FundsCovered
<1>1. Spec => []SolvencyInv
  BY SolventAlways
<1>2. SolvencyInv => FundsCovered
  BY DEF SolvencyInv, Funded, FundsCovered, Settlement!Covered, TotalOutstanding, Held
<1> QED BY <1>1, <1>2, PTL

(***************************************************************************)
(* No "should never" check of the distribution keeper fails, of the        *)
(* calculation of a stake, of the reference counts or of a transfer:       *)
(* neither in a block nor in the loops of the export.                      *)
(***************************************************************************)
THEOREM NoFault == Spec => [](dist.fault = "none")
<1>1. Spec => []SolvencyInv
  BY SolventAlways
<1>2. SolvencyInv => dist.fault = "none"
  BY DEF SolvencyInv, Sound
<1> QED BY <1>1, <1>2, PTL

(***************************************************************************)
(* Between two blocks, and wherever the export has the history whole, what *)
(* a validator has outstanding covers its commission, the rewards of the   *)
(* open period and every delegator's claim on the closed ones: settling    *)
(* them in any order never needs more than there is.                       *)
(***************************************************************************)
THEOREM ClaimsCovered ==
    Spec => [](\A v \in LiveValidators :
                   dist.comm[v] + dist.rew[v] + Claimed(dist, LiveDelegations, v)
                     <= dist.outst[v])
<1>1. Spec => []SolvencyInv
  BY SolventAlways
<1>2. SolvencyInv => \A v \in LiveValidators :
                   dist.comm[v] + dist.rew[v] + Claimed(dist, LiveDelegations, v)
                     <= dist.outst[v]
  BY DEF SolvencyInv, Sound, SolventAt
<1> QED BY <1>1, <1>2, PTL

\* A genesis owes nothing and has paid nothing.
LEMMA SettlementStarts == Init => Settlement!Init
<1> SUFFICES ASSUME Init PROVE Settlement!Init
  OBVIOUS
<1>1. /\ \A v \in Validators : dist.outst[v] = 0
      /\ \A a \in Accounts : dist.paid[a] = 0
      /\ dist.pool = 0 /\ dist.funds = 0
  BY DEF Init, ChainInit, GenesisDist
<1>2. TotalOutstanding = 0 /\ TotalPaid = 0
  BY <1>1, FiniteAddresses, SumOfZeros DEF TotalOutstanding, TotalPaid
<1> QED BY <1>1, <1>2 DEF Settlement!Init

\* What a step does to the books, it does to their totals.
LEMMA SettlementSteps ==
    ASSUME Keeps(dist, dist') \/ dist' = dist
    PROVE  [Settlement!Next]_(Settlement!settlement)
<1>1. /\ TotalOutstanding = Held(dist) /\ TotalOutstanding' = Held(dist')
      /\ TotalPaid = PaidOut(dist) /\ TotalPaid' = PaidOut(dist')
  BY DEF TotalOutstanding, TotalPaid, Held, PaidOut
<1>2. CASE Settles(dist, dist')
  BY <1>1, <1>2 DEF Settles, Settlement!Next, Settlement!Settle
<1>3. CASE Accrues(dist, dist')
  <2>1. TotalPaid' = TotalPaid
    BY <1>1, <1>3 DEF Accrues, PaidOut
  <2> QED BY <1>1, <1>3, <2>1 DEF Accrues, Settlement!Next, Settlement!Accrue
<1>4. CASE dist' = dist
  BY <1>1, <1>4 DEF Settlement!settlement
<1> QED BY <1>2, <1>3, <1>4 DEF Keeps

(***************************************************************************)
(* The chain and the export implement the settlement of rewards            *)
(* (RewardSettlement): each of their steps takes in the fees of a block,   *)
(* pays whole coins out of what is outstanding and donates the rest, or    *)
(* leaves the books alone: in total, nothing is lost and nothing made.     *)
(***************************************************************************)
THEOREM ImplementsSettlement == Spec => SettlesRewards
<1>1. SolvencyInv /\ [Next]_vars => [Settlement!Next]_(Settlement!settlement)
  BY SolvencyNext, SettlementSteps
<1>2. Spec => []SolvencyInv
  BY SolventAlways
<1> QED BY <1>1, <1>2, SettlementStarts, PTL DEF Spec, SettlesRewards, Settlement!Spec
=============================================================================
