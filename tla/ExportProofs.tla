----------------------------- MODULE ExportProofs -----------------------------
(***************************************************************************)
(* What prepForZeroHeightGenesis of export.go makes of the committed state *)
(* it starts from: which panics are left, who is jailed, which set the new *)
(* chain starts with, that no height and no reward of the old one survives *)
(* and that everybody was paid.                                            *)
(***************************************************************************)
EXTENDS SolvencyProofs

\* The power index and the last set hold existing validators only, and those
\* in the last set are bonded.
Manned(s) ==
    /\ s.index \subseteq s.vals
    /\ \A v \in Validators : s.last[v] > 0 => v \in s.vals /\ s.status[v] = "bonded"

\* ... and nobody else is.
Electable(s) ==
    /\ Manned(s)
    /\ \A v \in Validators : s.status[v] = "bonded" => s.last[v] > 0

\* Every way the chain has of jailing takes the validator off the index.
Unjailed(s) == \A v \in s.index : ~ s.jailed[v]

Electees(s) == {v \in Considered(s) : Power(s, v) > 0}

\* The last set is the one an election would give.
Elected(s) ==
    \A v \in Validators : s.last[v] = IF v \in Electees(s) THEN Power(s, v) ELSE 0

\* The validators the loop over the bond heights has passed.
Passed ==
    IF pc = "bondHeights" THEN stak.vals \ todoV
    ELSE IF pc = "apply" \/ (forZero /\ pc \in {"collect", "done"}) THEN stak.vals
    ELSE {}

Unlisted(v) == allow # {} /\ ~ Allowed(v)

\* The export leaves the seats as they were, and jails those it has passed.
SeatsKept ==
    LET s == snap.stak
    IN  /\ stak.vals = s.vals /\ stak.index = s.index /\ stak.tokens = s.tokens
        /\ stak.last = s.last /\ stak.status = s.status
        /\ Elected(stak) /\ Unjailed(s)

JailedSoFar ==
    \A v \in Validators :
        stak.jailed[v] <=> snap.stak.jailed[v] \/ (v \in Passed /\ Unlisted(v))

PanicJustified ==
    \/ \E e \in allow : e.spelling = "malformed"
    \/ allow # {} /\ MeetsJailed(stak) /\ ~ MeetsJailed(snap.stak)

SeatsInv ==
    /\ Electable(stak)
    /\ pc \in {"idle", "block"} => Unjailed(stak)
    /\ pc = "idle" => Elected(stak)
    /\ pc \notin {"idle", "block"} => SeatsKept
    /\ pc \notin {"idle", "block", "panicked"} => JailedSoFar
    /\ pc = "bondHeights" => todoV \subseteq stak.vals
    /\ pc = "panicked" => PanicJustified
    /\ pc \in {"collect", "done"} /\ (forZero => ~ CloseMayFail) => ~ MeetsJailed(stak)
    /\ pc = "done" =>
         genesis = [height |-> IF forZero THEN 0 ELSE height + 1,
                    validators |-> {v \in Validators : stak.last[v] > 0}]

-----------------------------------------------------------------------------
\* What the operators of Staking do to the index, the set and the jail.

LEMMA MannedSame ==
    ASSUME NEW s, NEW t, t.vals = s.vals, t.index = s.index, t.last = s.last,
           t.status = s.status, Manned(s)
    PROVE  Manned(t)
  BY DEF Manned

LEMMA ElectableSame ==
    ASSUME NEW s, NEW t, t.vals = s.vals, t.index = s.index, t.last = s.last,
           t.status = s.status, Electable(s)
    PROVE  Electable(t)
  BY MannedSame DEF Electable

LEMMA UnjailedSame ==
    ASSUME NEW s, NEW t, t.index = s.index, t.jailed = s.jailed, Unjailed(s)
    PROVE  Unjailed(t)
  BY DEF Unjailed

LEMMA ConsideredSame ==
    ASSUME NEW s, NEW t, t.index = s.index, t.tokens = s.tokens
    PROVE  /\ Considered(t) = Considered(s) /\ Electees(t) = Electees(s)
           /\ \A v : Power(t, v) = Power(s, v)
<1>1. \A v : Power(t, v) = Power(s, v)
  BY Zenon DEF Power
<1>2. ASSUME NEW v, NEW w PROVE Outranks(t, v, w) <=> Outranks(s, v, w)
  <2>1. Power(t, v) = Power(s, v) /\ Power(t, w) = Power(s, w)
    BY <1>1
  <2> QED BY <2>1 DEF Outranks
<1>3. ASSUME NEW v PROVE v \in Considered(t) <=> v \in Considered(s)
  <2> DEFINE above(r) == {w \in r.index : Outranks(r, w, v)}
  <2>1. above(t) = above(s)
    BY <1>2
  <2>2. /\ v \in Considered(t) <=> /\ v \in t.index /\ Cardinality(above(t)) < MaxValidators
                                   /\ \A w \in above(t) : Power(t, w) > 0
        /\ v \in Considered(s) <=> /\ v \in s.index /\ Cardinality(above(s)) < MaxValidators
                                   /\ \A w \in above(s) : Power(s, w) > 0
    BY Zenon DEF Considered
  <2> HIDE DEF above
  <2> QED BY <1>1, <2>1, <2>2
<1>4. Considered(t) = Considered(s)
  <2>1. \A v : v \in Considered(t) <=> v \in Considered(s)
    BY <1>3
  <2>2. Considered(t) \subseteq t.index /\ Considered(s) \subseteq s.index
    BY DEF Considered
  <2> QED BY <2>1, <2>2
<1>5. Electees(t) = Electees(s)
  BY <1>1, <1>4 DEF Electees
<1> QED BY <1>1, <1>4, <1>5

LEMMA ElectedSame ==
    ASSUME NEW s, NEW t, t.index = s.index, t.tokens = s.tokens, t.last = s.last, Elected(s)
    PROVE  Elected(t)
  BY ConsideredSame DEF Elected

LEMMA PowerType ==
    ASSUME NEW s, StakOK(s), NEW v \in Validators
    PROVE  Power(s, v) \in Nat
<1>1. s.tokens[v] \in Nat
  BY DEF StakOK
<1> QED BY <1>1, StakingAssumption DEF Power

LEMMA ElecteesIn ==
    ASSUME NEW s, StakOK(s)
    PROVE  /\ Considered(s) \subseteq s.index /\ Electees(s) \subseteq s.index
           /\ Considered(s) \subseteq Validators /\ Electees(s) \subseteq Validators
  BY DEF Electees, Considered, StakOK

\* The SDK's panic on an unknown validator cannot happen.
LEMMA NobodyUnknown ==
    ASSUME NEW s, StakOK(s), Manned(s)
    PROVE  ~ MeetsUnknown(s)
  BY ElecteesIn DEF MeetsUnknown, Manned

LEMMA UnjailedMeetsNone ==
    ASSUME NEW s, StakOK(s), Unjailed(s)
    PROVE  ~ MeetsJailed(s)
  BY ElecteesIn DEF MeetsJailed, Unjailed

LEMMA SetUpdatesFields ==
    ASSUME NEW s, StakOK(s), NEW h, NEW t, t = ApplyValidatorSetUpdates(s, h)
    PROVE  /\ t.vals = s.vals /\ t.index = s.index /\ t.tokens = s.tokens
           /\ t.jailed = s.jailed /\ t.shares = s.shares /\ t.ubd = s.ubd /\ t.red = s.red
           /\ \A v \in Validators :
                /\ t.last[v] = IF v \in Electees(s) THEN Power(s, v) ELSE 0
                /\ t.status[v] = IF v \in Electees(s) THEN "bonded"
                                 ELSE IF InLastSet(s, v) THEN "unbonding" ELSE s.status[v]
                /\ t.unbondHeight[v] = IF v \notin Electees(s) /\ InLastSet(s, v)
                                       THEN h ELSE s.unbondHeight[v]
<1> DEFINE in == {v \in Considered(s) : Power(s, v) > 0}
           out == {v \in Validators \ in : InLastSet(s, v)}
           status == [v \in Validators |-> IF v \in in THEN "bonded"
                                           ELSE IF v \in out THEN "unbonding"
                                           ELSE s.status[v]]
           heights == [v \in Validators |-> IF v \in out THEN h ELSE s.unbondHeight[v]]
           last == [v \in Validators |-> IF v \in in THEN Power(s, v) ELSE 0]
<1>1. t = [s EXCEPT !.status = status, !.unbondHeight = heights, !.last = last]
  BY DEF ApplyValidatorSetUpdates, StakOK
<1>2. /\ \A v \in Validators : last[v] = IF v \in Electees(s) THEN Power(s, v) ELSE 0
      /\ \A v \in Validators : status[v] = IF v \in Electees(s) THEN "bonded"
                                 ELSE IF InLastSet(s, v) THEN "unbonding" ELSE s.status[v]
      /\ \A v \in Validators : heights[v] = IF v \notin Electees(s) /\ InLastSet(s, v)
                                       THEN h ELSE s.unbondHeight[v]
  BY DEF Electees
<1> HIDE DEF status, heights, last
<1>3. /\ t.vals = s.vals /\ t.index = s.index /\ t.tokens = s.tokens
      /\ t.jailed = s.jailed /\ t.shares = s.shares /\ t.ubd = s.ubd /\ t.red = s.red
      /\ t.status = status /\ t.unbondHeight = heights /\ t.last = last
  BY <1>1 DEF StakOK
<1> QED BY <1>2, <1>3

\* An election makes the set the one an election gives.
LEMMA ElectionSeats ==
    ASSUME NEW s, StakOK(s), Manned(s), NEW h, NEW t, t = ApplyValidatorSetUpdates(s, h)
    PROVE  /\ Manned(t) /\ Elected(t)
           /\ Electable(s) => Electable(t)
<1>1. /\ t.vals = s.vals /\ t.index = s.index /\ t.tokens = s.tokens
      /\ \A v \in Validators :
           /\ t.last[v] = IF v \in Electees(s) THEN Power(s, v) ELSE 0
           /\ t.status[v] = IF v \in Electees(s) THEN "bonded"
                            ELSE IF InLastSet(s, v) THEN "unbonding" ELSE s.status[v]
  BY SetUpdatesFields
<1>2. Electees(t) = Electees(s) /\ \A v : Power(t, v) = Power(s, v)
  BY <1>1, ConsideredSame
<1>3. Elected(t)
  BY <1>1, <1>2 DEF Elected
<1>4. \A v \in Validators : t.last[v] > 0 <=> v \in Electees(s)
  <2> SUFFICES ASSUME NEW v \in Validators PROVE t.last[v] > 0 <=> v \in Electees(s)
    OBVIOUS
  <2>1. v \in Electees(s) => Power(s, v) > 0
    BY DEF Electees
  <2>2. t.last[v] = IF v \in Electees(s) THEN Power(s, v) ELSE 0
    BY <1>1
  <2> QED BY <2>1, <2>2
<1>5. Manned(t)
  BY <1>1, <1>4, ElecteesIn DEF Manned
<1>6. Electable(s) => Electable(t)
  BY <1>1, <1>4, <1>5 DEF Electable, InLastSet
<1> QED BY <1>3, <1>5, <1>6

\* A second election changes nothing.
LEMMA ElectionAgain ==
    ASSUME NEW s, StakOK(s), Electable(s), Elected(s), NEW h,
           NEW t, t = ApplyValidatorSetUpdates(s, h)
    PROVE  /\ \A v \in Validators : /\ t.last[v] = s.last[v] /\ t.status[v] = s.status[v]
                                    /\ t.unbondHeight[v] = s.unbondHeight[v]
<1> SUFFICES ASSUME NEW v \in Validators
             PROVE  /\ t.last[v] = s.last[v] /\ t.status[v] = s.status[v]
                    /\ t.unbondHeight[v] = s.unbondHeight[v]
  OBVIOUS
<1>1. /\ t.last[v] = IF v \in Electees(s) THEN Power(s, v) ELSE 0
      /\ t.status[v] = IF v \in Electees(s) THEN "bonded"
                       ELSE IF InLastSet(s, v) THEN "unbonding" ELSE s.status[v]
      /\ t.unbondHeight[v] = IF v \notin Electees(s) /\ InLastSet(s, v)
                             THEN h ELSE s.unbondHeight[v]
  BY SetUpdatesFields
<1>2. /\ s.last[v] = IF v \in Electees(s) THEN Power(s, v) ELSE 0
      /\ s.status[v] = "bonded" <=> s.last[v] > 0
  BY DEF Elected, Electable, Manned
<1>3. v \in Electees(s) => s.last[v] > 0
  BY <1>2 DEF Electees
<1> QED BY <1>1, <1>2, <1>3 DEF InLastSet
\* A change of its tokens enters an existing validator in the index only if
\* it is not jailed.
LEMMA TokensSeat ==
    ASSUME NEW s, StakOK(s), Manned(s), Unjailed(s), NEW v \in s.vals, NEW n,
           NEW t, t = SetTokens(s, v, n)
    PROVE  Manned(t) /\ Unjailed(t)
<1>1. /\ t.vals = s.vals /\ t.last = s.last /\ t.status = s.status /\ t.jailed = s.jailed
      /\ t.index = IF s.jailed[v] THEN s.index \ {v} ELSE s.index \cup {v}
  BY DEF SetTokens, StakOK
<1>2. Manned(t)
  BY <1>1 DEF Manned
<1>3. Unjailed(t)
  BY <1>1 DEF Unjailed
<1> QED BY <1>2, <1>3

LEMMA AddSeats ==
    ASSUME NEW s, StakOK(s), Manned(s), Unjailed(s), NEW pair \in Pairs,
           pair[2] \in s.vals, NEW amount, NEW t, t = AddShares(s, pair, amount)
    PROVE  Manned(t) /\ Unjailed(t)
<1> DEFINE n == s.tokens[pair[2]] + amount
           u == SetTokens(s, pair[2], n)
<1>1. /\ t.vals = u.vals /\ t.index = u.index /\ t.last = u.last
      /\ t.status = u.status /\ t.jailed = u.jailed
  BY DEF AddShares, SetTokens, StakOK
<1> HIDE DEF n
<1>2. Manned(u) /\ Unjailed(u)
  BY TokensSeat
<1> HIDE DEF u
<1> QED BY <1>1, <1>2, MannedSame, UnjailedSame

LEMMA JailSeats ==
    ASSUME NEW s, StakOK(s), Manned(s), Unjailed(s), NEW v \in Validators,
           NEW t, t = Jail(s, v)
    PROVE  Manned(t) /\ Unjailed(t)
<1>1. /\ t.vals = s.vals /\ t.last = s.last /\ t.status = s.status
      /\ t.index = s.index \ {v} /\ \A w \in Validators \ {v} : t.jailed[w] = s.jailed[w]
      /\ s.index \subseteq Validators
  BY DEF Jail, StakOK
<1> QED BY <1>1 DEF Manned, Unjailed

LEMMA AbandonedSeats ==
    ASSUME NEW s, StakOK(s), Manned(s), Unjailed(s), NEW v \in Validators,
           NEW t, t = RemoveAbandoned(s, v)
    PROVE  Manned(t) /\ Unjailed(t)
<1>1. CASE ~ Abandoned(s, v)
  BY <1>1 DEF RemoveAbandoned
<1>2. CASE Abandoned(s, v)
  <2>1. /\ t.vals = s.vals \ {v} /\ t.index = s.index \ {v}
        /\ t.last = s.last /\ t.status = s.status /\ t.jailed = s.jailed
    BY <1>2 DEF RemoveAbandoned, StakOK
  <2>2. ~ (s.last[v] > 0)
    <3>1. s.status[v] # "bonded"
      BY <1>2 DEF Abandoned
    <3> QED BY <3>1 DEF Manned
  <2>3. Unjailed(t)
    BY <2>1 DEF Unjailed
  <2> QED BY <2>1, <2>2, <2>3 DEF Manned
<1> QED BY <1>1, <1>2

LEMMA RemoveSeats ==
    ASSUME NEW s, StakOK(s), Manned(s), Unjailed(s), NEW pair \in Pairs,
           NEW amount \in Nat, Removable(s, pair, amount),
           NEW t, t = RemoveShares(s, pair, amount)
    PROVE  Manned(t) /\ Unjailed(t)
<1> DEFINE v == pair[2]
           left == s.shares[pair] - amount
           leaves == pair[1] = v /\ ~ s.jailed[v] /\ left < MinSelfDelegation
           kept == IF leaves THEN Jail(s, v) ELSE s
           n == s.tokens[v] - amount
           moved == SetTokens(kept, v, n)
           paid == [moved EXCEPT !.shares[pair] = left]
<1>1. t = RemoveAbandoned(paid, v)
  BY DEF RemoveShares
<1>2. v \in Validators /\ v \in s.vals /\ left \in Nat /\ n \in Nat
  BY PairOf DEF Removable, StakOK
<1> HIDE DEF left, n
<1>3. StakOK(kept) /\ Manned(kept) /\ Unjailed(kept) /\ kept.vals = s.vals
  <2>1. StakOK(Jail(s, v)) /\ Jail(s, v).vals = s.vals
    BY <1>2, JailType DEF Jail, StakOK
  <2>2. Manned(Jail(s, v)) /\ Unjailed(Jail(s, v))
    BY <1>2, JailSeats
  <2> QED BY <2>1, <2>2
<1> HIDE DEF kept
<1>4. StakOK(moved)
  BY <1>2, <1>3, SetTokensType
<1>5. Manned(moved) /\ Unjailed(moved)
  BY <1>2, <1>3, TokensSeat
<1> HIDE DEF moved
<1>6. /\ paid.vals = moved.vals /\ paid.index = moved.index /\ paid.last = moved.last
      /\ paid.status = moved.status /\ paid.jailed = moved.jailed
  BY <1>4 DEF StakOK
<1>7. StakOK(paid)
  BY <1>2, <1>4 DEF StakOK
<1> HIDE DEF paid
<1>8. Manned(paid) /\ Unjailed(paid)
  BY <1>5, <1>6, MannedSame, UnjailedSame
<1> QED BY <1>1, <1>2, <1>7, <1>8, AbandonedSeats

LEMMA CreateSeats ==
    ASSUME NEW s, StakOK(s), Manned(s), Unjailed(s), NEW v \in Validators \ s.vals,
           NEW t, t = CreateValidator(s, v)
    PROVE  Manned(t) /\ Unjailed(t) /\ t.vals = s.vals \cup {v}
<1>1. /\ t.vals = s.vals \cup {v} /\ t.index = s.index \cup {v} /\ t.last = s.last
      /\ t.status[v] = "unbonded" /\ ~ t.jailed[v]
      /\ \A w \in Validators \ {v} : t.status[w] = s.status[w] /\ t.jailed[w] = s.jailed[w]
      /\ s.index \subseteq Validators
  BY DEF CreateValidator, StakOK
<1>2. Manned(t)
  BY <1>1 DEF Manned
<1>3. Unjailed(t)
  BY <1>1 DEF Unjailed
<1> QED BY <1>1, <1>2, <1>3

\* Messages change neither the last set nor, but for a new validator, a status;
\* a validator is removed that never had a seat.
LEMMA SeatsUntouched ==
    ASSUME NEW s, StakOK(s), NEW pair \in Pairs, NEW amount \in Nat
    PROVE  /\ AddShares(s, pair, amount).status = s.status
           /\ AddShares(s, pair, amount).last = s.last
           /\ RemoveShares(s, pair, amount).status = s.status
           /\ RemoveShares(s, pair, amount).last = s.last
           /\ RemoveShares(s, pair, amount).vals \in {s.vals, s.vals \ {pair[2]}}
           /\ pair[2] \in s.vals /\ pair[2] \notin RemoveShares(s, pair, amount).vals
                => s.status[pair[2]] = "unbonded"
  BY DEF AddShares, RemoveShares, RemoveAbandoned, Abandoned, SetTokens, Jail, StakOK

\* What every message does to the seats.
SeatsManned ==
    /\ pc = "block" /\ pc' = "block"
    /\ Manned(stak') /\ Unjailed(stak')
    /\ stak'.last = stak.last
    /\ \A v \in Validators : stak'.status[v] = "bonded" => stak.status[v] = "bonded"

LEMMA MessagesMan ==
    ASSUME StakOK(stak), Manned(stak), pc \in {"idle", "block"} => Unjailed(stak),
           ChainNext, ~ BeginBlock, ~ EndBlock
    PROVE  SeatsManned
<1>1. ASSUME NEW pair \in Pairs, NEW amount \in Amounts, MsgDelegate(pair, amount)
      PROVE  SeatsManned
  <2>1. /\ pc = "block" /\ pc' = "block" /\ pair[2] \in stak.vals
        /\ stak' = AddShares(stak, pair, amount)
    BY <1>1 DEF MsgDelegate, Deliver
  <2>2. Manned(stak') /\ Unjailed(stak')
    BY <2>1, AddSeats
  <2>3. stak'.last = stak.last /\ stak'.status = stak.status
    BY <2>1, ChainAssumption, SeatsUntouched
  <2> QED BY <2>1, <2>2, <2>3 DEF SeatsManned
<1>2. ASSUME NEW pair \in Pairs, NEW amount \in Amounts, MsgUndelegate(pair, amount)
      PROVE  SeatsManned
  <2> DEFINE t == RemoveShares(stak, pair, amount)
  <2>1. PICK entries : /\ pc = "block" /\ pc' = "block" /\ Removable(stak, pair, amount)
                       /\ stak' = [t EXCEPT !.ubd[pair] = entries]
    BY <1>2 DEF MsgUndelegate, Deliver
  <2>2. amount \in Nat
    BY ChainAssumption
  <2>3. StakOK(t)
    BY <2>1, <2>2, RemoveSharesType
  <2>4. Manned(t) /\ Unjailed(t)
    BY <2>1, <2>2, RemoveSeats
  <2>t. t.last = stak.last /\ t.status = stak.status
    BY <2>2, SeatsUntouched
  <2> HIDE DEF t
  <2>5. /\ stak'.vals = t.vals /\ stak'.index = t.index /\ stak'.last = t.last
        /\ stak'.status = t.status /\ stak'.jailed = t.jailed
    BY <2>1, <2>3 DEF StakOK
  <2>6. Manned(stak') /\ Unjailed(stak')
    BY <2>4, <2>5, MannedSame, UnjailedSame
  <2>7. stak'.last = stak.last /\ stak'.status = stak.status
    BY <2>t, <2>5
  <2> QED BY <2>1, <2>6, <2>7 DEF SeatsManned
<1>3. ASSUME NEW a \in Accounts, NEW from \in Validators, NEW to \in Validators,
             NEW amount \in Amounts, MsgBeginRedelegate(a, from, to, amount)
      PROVE  SeatsManned
  <2> DEFINE u == RemoveShares(stak, <<a, from>>, amount)
             t == AddShares(u, <<a, to>>, amount)
             route == <<a, from, to>>
  <2>1. PICK added : /\ pc = "block" /\ pc' = "block" /\ Removable(stak, <<a, from>>, amount)
                     /\ from # to /\ to \in stak.vals
                     /\ stak' = [t EXCEPT !.red[route] = @ \cup added]
    BY <1>3 DEF MsgBeginRedelegate, Deliver
  <2>2. amount \in Nat /\ <<a, from>> \in Pairs /\ <<a, to>> \in Pairs
    BY ChainAssumption DEF Pairs
  <2>3. StakOK(u)
    BY <2>1, <2>2, RemoveSharesType
  <2>4. Manned(u) /\ Unjailed(u)
    BY <2>1, <2>2, RemoveSeats
  <2>5. to \in u.vals
    <3>1. to \in u.vals \/ from = to
      <4> DEFINE pair == <<a, from>>
      <4>1. pair \in Pairs /\ pair[2] = from /\ Removable(stak, pair, amount)
            /\ u = RemoveShares(stak, pair, amount)
        BY <2>1, <2>2
      <4> HIDE DEF pair, u
      <4>2. u.vals = stak.vals \/ u.vals = stak.vals \ {from}
        BY <2>2, <4>1, SeatsUntouched
      <4> QED BY <2>1, <4>2
    <3> QED BY <2>1, <3>1
  <2>u. u.last = stak.last /\ u.status = stak.status
    BY <2>2, SeatsUntouched
  <2> HIDE DEF u
  <2>6. StakOK(t)
    BY <2>2, <2>3, AddSharesType
  <2>7. Manned(t) /\ Unjailed(t)
    BY <2>2, <2>3, <2>4, <2>5, AddSeats
  <2>t. t.last = u.last /\ t.status = u.status
    BY <2>2, <2>3, SeatsUntouched
  <2> HIDE DEF t
  <2>8. /\ stak'.vals = t.vals /\ stak'.index = t.index /\ stak'.last = t.last
        /\ stak'.status = t.status /\ stak'.jailed = t.jailed
    BY <2>1, <2>6 DEF StakOK
  <2>9. Manned(stak') /\ Unjailed(stak')
    BY <2>7, <2>8, MannedSame, UnjailedSame
  <2> QED BY <2>1, <2>u, <2>t, <2>8, <2>9 DEF SeatsManned
<1>4. ASSUME NEW v \in Validators, NEW amount \in Amounts, MsgCreateValidator(v, amount)
      PROVE  SeatsManned
  <2> DEFINE u == CreateValidator(stak, v)
  <2>1. /\ pc = "block" /\ pc' = "block" /\ v \notin stak.vals
        /\ stak' = AddShares(u, <<v, v>>, amount)
    BY <1>4 DEF MsgCreateValidator, Deliver
  <2>2. <<v, v>> \in Pairs
    BY AddressAssumption DEF Pairs
  <2>3. StakOK(u)
    BY CreateValidatorType
  <2>4. Manned(u) /\ Unjailed(u) /\ v \in u.vals
    BY <2>1, CreateSeats
  <2>u. /\ u.last = stak.last
        /\ \A w \in Validators : u.status[w] = IF w = v THEN "unbonded" ELSE stak.status[w]
    BY DEF CreateValidator, StakOK
  <2> HIDE DEF u
  <2>5. Manned(stak') /\ Unjailed(stak')
    BY <2>1, <2>2, <2>3, <2>4, AddSeats
  <2>6. stak'.last = u.last /\ stak'.status = u.status
    BY <2>1, <2>2, <2>3, ChainAssumption, SeatsUntouched
  <2> QED BY <2>1, <2>u, <2>5, <2>6 DEF SeatsManned
<1>5. ASSUME NEW pair \in Pairs, MsgWithdrawDelegatorReward(pair)
      PROVE  SeatsManned
  BY <1>5 DEF SeatsManned, MsgWithdrawDelegatorReward, Deliver
<1>6. ASSUME NEW v \in Validators, MsgWithdrawValidatorCommission(v)
      PROVE  SeatsManned
  BY <1>6 DEF SeatsManned, MsgWithdrawValidatorCommission, Deliver
<1> QED BY <1>1, <1>2, <1>3, <1>4, <1>5, <1>6 DEF ChainNext

-----------------------------------------------------------------------------
LEMMA SeatsInit == Init => SeatsInv
<1> SUFFICES ASSUME Init PROVE SeatsInv
  OBVIOUS
<1>1. pc = "idle" /\ stak = ApplyValidatorSetUpdates(CreatedStak, 1)
  BY DEF Init, ChainInit
<1> DEFINE s == CreatedStak
<1>2. /\ s.index = s.vals /\ \A v \in Validators : s.last[v] = 0 /\ s.status[v] = "unbonded"
                                                   /\ ~ s.jailed[v]
      /\ s.index \subseteq Validators
  BY GenesisType, ChainAssumption DEF CreatedStak, GenesisValidators
<1>3. StakOK(s)
  BY GenesisType
<1> HIDE DEF s
<1>4. Electable(s) /\ Manned(s) /\ Unjailed(s)
  BY <1>2 DEF Electable, Manned, Unjailed
<1>5. Electable(stak) /\ Elected(stak) /\ stak.index = s.index /\ stak.jailed = s.jailed
  BY <1>1, <1>3, <1>4, ElectionSeats, SetUpdatesFields DEF s
<1>6. Unjailed(stak)
  BY <1>4, <1>5, UnjailedSame
<1> QED BY <1>1, <1>5, <1>6 DEF SeatsInv

\* In a block only the seats' owners change.
LEMMA SeatsMessage ==
    ASSUME pc' = "block", Electable(stak'), Unjailed(stak')
    PROVE  SeatsInv'
  BY DEF SeatsInv

LEMMA SeatsChain ==
    ASSUME SeatsInv, StakOK(stak), ChainNext
    PROVE  SeatsInv'
<1>1. Electable(stak) /\ (pc \in {"idle", "block"} => Unjailed(stak))
  BY DEF SeatsInv
<1>2. CASE BeginBlock
  BY <1>1, <1>2, SeatsMessage DEF BeginBlock
<1>3. CASE EndBlock
  <2>1. pc = "block" /\ pc' = "idle" /\ stak' = ApplyValidatorSetUpdates(stak, height)
    BY <1>3 DEF EndBlock
  <2>2. /\ Electable(stak') /\ Elected(stak')
        /\ stak'.index = stak.index /\ stak'.jailed = stak.jailed
    BY <1>1, <2>1, ElectionSeats, SetUpdatesFields DEF Electable
  <2>3. Unjailed(stak')
    BY <1>1, <2>1, <2>2, UnjailedSame
  <2> QED BY <2>1, <2>2, <2>3 DEF SeatsInv
<1>4. CASE ~ BeginBlock /\ ~ EndBlock
  <2>1. SeatsManned
    BY <1>1, <1>4, MessagesMan DEF Electable
  <2>2. Electable(stak')
    BY <1>1, <2>1 DEF SeatsManned, Electable
  <2> QED BY <2>1, <2>2, SeatsMessage DEF SeatsManned
<1> QED BY <1>2, <1>3, <1>4

LEMMA SeatsStart ==
    ASSUME SeatsInv, StakOK(stak), NEW zero \in BOOLEAN, NEW list, StartExport(zero, list)
    PROVE  SeatsInv'
<1>1. /\ pc = "idle" /\ stak' = stak /\ snap' = [dist |-> dist, stak |-> stak]
      /\ forZero' = zero /\ pc' = IF zero THEN "allowList" ELSE "collect"
  BY DEF StartExport
<1>2. Electable(stak) /\ Unjailed(stak) /\ Elected(stak)
  BY <1>1 DEF SeatsInv
<1>3. Electable(stak)' /\ SeatsKept'
  BY <1>1, <1>2 DEF SeatsKept
<1>4. JailedSoFar'
  <2>1. Passed' = {}
    BY <1>1 DEF Passed
  <2> QED BY <1>1, <2>1 DEF JailedSoFar
<1>5. ~ MeetsJailed(stak')
  BY <1>1, <1>2, UnjailedMeetsNone
<1> QED BY <1>1, <1>3, <1>4, <1>5 DEF SeatsInv

\* A step of the export that leaves x/staking alone.
LEMMA SeatsStay ==
    ASSUME SeatsInv, UNCHANGED <<stak, snap, allow>>,
           pc \notin {"idle", "block", "panicked"},
           pc' \notin {"idle", "block", "bondHeights", "panicked", "done"}, Passed' = Passed,
           pc' = "collect" /\ (forZero' => ~ CloseMayFail) => ~ MeetsJailed(stak)
    PROVE  SeatsInv'
<1>1. Electable(stak)' /\ SeatsKept'
  BY DEF SeatsInv, SeatsKept
<1>2. JailedSoFar'
  BY DEF SeatsInv, JailedSoFar, Unlisted, Allowed
<1> QED BY <1>1, <1>2 DEF SeatsInv

\* No hook panics.
LEMMA NeverPanics ==
    ASSUME SolvencyInv', NEW label, Goto(label)
    PROVE  pc' = label
  BY DEF SolvencyInv, Sound, Goto

LEMMA SeatsVisit ==
    ASSUME SeatsInv, SolvencyInv, SolvencyInv',
           \/ \E v \in Validators : WithdrawCommission(v) \/ ReinitValidator(v)
           \/ \E pair \in Pairs : WithdrawRewards(pair) \/ ReinitDelegation(pair)
    PROVE  SeatsInv'
<1>1. CASE \E v \in Validators : WithdrawCommission(v)
  <2>1. pc = "commission" /\ pc' = "commission" /\ UNCHANGED <<stak, snap, allow>>
    BY <1>1, NeverPanics DEF WithdrawCommission
  <2> QED BY <2>1, SeatsStay DEF Passed
<1>2. CASE \E v \in Validators : ReinitValidator(v)
  <2>1. pc = "validators" /\ pc' = "validators" /\ UNCHANGED <<stak, snap, allow>>
    BY <1>2, NeverPanics DEF ReinitValidator
  <2> QED BY <2>1, SeatsStay DEF Passed
<1>3. CASE \E pair \in Pairs : WithdrawRewards(pair)
  <2>1. pc = "rewards" /\ pc' = "rewards" /\ UNCHANGED <<stak, snap, allow>>
    BY <1>3, NeverPanics DEF WithdrawRewards
  <2> QED BY <2>1, SeatsStay DEF Passed
<1>4. CASE \E pair \in Pairs : ReinitDelegation(pair)
  <2>1. pc = "delegations" /\ pc' = "delegations" /\ UNCHANGED <<stak, snap, allow>>
    <3>1. CountInv' /\ SolvencyInv
      BY DEF SolvencyInv
    <3>2. PICK pair \in Pairs : ReinitDelegation(pair)
      BY <1>4
    <3>3. pc' = "delegations"
      BY <3>1, <3>2, SolvencyDelegation
    <3> QED BY <3>2, <3>3 DEF ReinitDelegation
  <2> QED BY <2>1, SeatsStay DEF Passed
<1> QED BY <1>1, <1>2, <1>3, <1>4

LEMMA SeatsBetween ==
    ASSUME SeatsInv, SolvencyInv,
           ParseAllowList \/ GetAllDelegations \/ ClearHistory \/ StartDelegations
             \/ RestoreHeight \/ CloseIterator
    PROVE  SeatsInv'
<1>1. CASE ParseAllowList
  <2>1. /\ pc = "allowList" /\ UNCHANGED <<stak, snap, allow>>
        /\ \/ pc' = "panicked" /\ \E e \in allow : e.spelling = "malformed"
           \/ pc' = "commission"
    BY <1>1 DEF ParseAllowList
  <2>2. CASE pc' = "panicked"
    <3>1. PanicJustified'
      BY <2>1, <2>2 DEF PanicJustified
    <3>2. Electable(stak)' /\ SeatsKept'
      BY <2>1 DEF SeatsInv, SeatsKept
    <3> QED BY <2>2, <3>1, <3>2 DEF SeatsInv
  <2>3. CASE pc' = "commission"
    BY <2>1, <2>3, SeatsStay DEF Passed
  <2> QED BY <2>1, <2>2, <2>3
<1>2. CASE GetAllDelegations \/ ClearHistory \/ StartDelegations \/ RestoreHeight
  <2>1. /\ pc \in {"commission", "rewards", "validators", "delegations"}
        /\ pc' \in {"rewards", "validators", "delegations", "redelegations"}
        /\ UNCHANGED <<stak, snap, allow>>
    BY <1>2 DEF GetAllDelegations, ClearHistory, StartDelegations, RestoreHeight
  <2> QED BY <2>1, SeatsStay DEF Passed
<1>3. CASE CloseIterator
  <2>1. /\ pc = "bondHeights" /\ todoV = {} /\ UNCHANGED <<stak, snap, allow, forZero>>
        /\ pc' = "apply" \/ (CloseMayFail /\ pc' = "collect")
    BY <1>3 DEF CloseIterator, exportVars
  <2>2. forZero
    BY <2>1 DEF SolvencyInv, Prepares
  <2>3. Passed = stak.vals /\ Passed' = stak.vals
    BY <2>1, <2>2 DEF Passed
  <2> QED BY <2>1, <2>2, <2>3, SeatsStay
<1> QED BY <1>1, <1>2, <1>3

LEMMA SeatsForget ==
    ASSUME SeatsInv, StakOK(stak), ResetRedelegations \/ ResetUnbondings
    PROVE  SeatsInv'
<1>1. /\ pc \in {"redelegations", "unbondings"} /\ pc' \in {"unbondings", "bondHeights"}
      /\ pc' = "bondHeights" => todoV' = stak.vals
      /\ UNCHANGED <<snap, allow>>
      /\ stak'.vals = stak.vals /\ stak'.index = stak.index /\ stak'.tokens = stak.tokens
      /\ stak'.last = stak.last /\ stak'.status = stak.status /\ stak'.jailed = stak.jailed
  BY DEF ResetRedelegations, ResetUnbondings, StakOK
<1>2. Electable(stak')
  BY <1>1, ElectableSame DEF SeatsInv
<1>3. SeatsKept'
  <2>1. SeatsKept
    BY <1>1 DEF SeatsInv
  <2>2. Elected(stak')
    BY <1>1, <2>1, ElectedSame DEF SeatsKept
  <2> QED BY <1>1, <2>1, <2>2 DEF SeatsKept
<1>4. JailedSoFar'
  <2>1. Passed = {} /\ Passed' = {}
    BY <1>1 DEF Passed
  <2> QED BY <1>1, <2>1 DEF SeatsInv, JailedSoFar
<1> QED BY <1>1, <1>2, <1>3, <1>4 DEF SeatsInv

LEMMA SeatsJail ==
    ASSUME SeatsInv, StakOK(stak), NEW v \in Validators, ResetValidator(v)
    PROVE  SeatsInv'
<1>1. /\ pc = "bondHeights" /\ pc' = "bondHeights" /\ v \in todoV /\ todoV' = todoV \ {v}
      /\ todoV \subseteq stak.vals
      /\ UNCHANGED <<snap, allow>>
      /\ stak'.vals = stak.vals /\ stak'.index = stak.index /\ stak'.tokens = stak.tokens
      /\ stak'.last = stak.last /\ stak'.status = stak.status
      /\ stak'.jailed = [stak.jailed EXCEPT ![v] = @ \/ Unlisted(v)]
  BY DEF ResetValidator, LastV, Unlisted, StakOK, SeatsInv
<1>2. Electable(stak')
  BY <1>1, ElectableSame DEF SeatsInv
<1>3. SeatsKept'
  <2>1. SeatsKept
    BY <1>1 DEF SeatsInv
  <2>2. Elected(stak')
    BY <1>1, <2>1, ElectedSame DEF SeatsKept
  <2> QED BY <1>1, <2>1, <2>2 DEF SeatsKept
<1>4. JailedSoFar'
  <2>1. JailedSoFar /\ Passed = stak.vals \ todoV /\ Passed' = stak.vals \ todoV'
    BY <1>1 DEF SeatsInv, Passed
  <2>2. \A w : Unlisted(w)' <=> Unlisted(w)
    BY <1>1 DEF Unlisted, Allowed
  <2> SUFFICES ASSUME NEW w \in Validators
               PROVE  stak'.jailed[w] <=> snap.stak.jailed[w] \/ (w \in Passed' /\ Unlisted(w))
    BY <1>1, <2>2 DEF JailedSoFar
  <2>3. stak.jailed[w] <=> snap.stak.jailed[w] \/ (w \in Passed /\ Unlisted(w))
    BY <2>1 DEF JailedSoFar
  <2>4. stak.jailed \in [Validators -> BOOLEAN]
    BY DEF StakOK
  <2>5. CASE w = v
    <3>1. stak'.jailed[w] = (stak.jailed[w] \/ Unlisted(w))
      BY <1>1, <2>4, <2>5
    <3>2. w \in Passed'
      BY <1>1, <2>1, <2>5
    <3> QED BY <2>3, <3>1, <3>2
  <2>6. CASE w # v
    <3>1. stak'.jailed[w] = stak.jailed[w]
      BY <1>1, <2>4, <2>6
    <3>2. w \in Passed' <=> w \in Passed
      BY <1>1, <2>1, <2>6
    <3> QED BY <2>3, <3>1, <3>2
  <2> QED BY <2>5, <2>6
<1> QED BY <1>1, <1>2, <1>3, <1>4 DEF SeatsInv

\* An election among the same validators as before meets nobody new, unless
\* the list has jailed one of them.
LEMMA SeatsApply ==
    ASSUME SeatsInv, SolvencyInv, StakOK(stak), StakOK(snap.stak), StakOK(stak'),
           ApplySetUpdates
    PROVE  SeatsInv'
<1>1. /\ pc = "apply" /\ UNCHANGED <<snap, allow, forZero>>
      /\ Electable(stak) /\ SeatsKept /\ JailedSoFar /\ Passed = stak.vals
  BY DEF ApplySetUpdates, SeatsInv, Passed, exportVars
<1>2. ~ MeetsUnknown(stak)
  BY <1>1, NobodyUnknown DEF Electable
<1>3. CASE MeetsJailed(stak)
  <2>1. pc' = "panicked" /\ stak' = stak
    BY <1>3 DEF ApplySetUpdates
  <2>2. Considered(stak) = Considered(snap.stak) /\ ~ MeetsJailed(snap.stak)
    BY <1>1, ConsideredSame, UnjailedMeetsNone DEF SeatsKept
  <2>3. allow # {}
    <3>1. PICK v \in Considered(stak) : stak.jailed[v]
      BY <1>3 DEF MeetsJailed
    <3>2. ~ snap.stak.jailed[v]
      BY <2>2 DEF MeetsJailed
    <3>3. v \in Validators
      BY ElecteesIn
    <3> QED BY <1>1, <3>1, <3>2, <3>3 DEF JailedSoFar, Unlisted
  <2>4. PanicJustified'
    BY <1>1, <1>3, <2>1, <2>2, <2>3 DEF PanicJustified
  <2> QED BY <1>1, <2>1, <2>4 DEF SeatsInv, SeatsKept
<1>4. CASE ~ MeetsJailed(stak)
  <2>1. pc' = "collect" /\ stak' = ApplyValidatorSetUpdates(stak, ctx)
    BY <1>2, <1>4 DEF ApplySetUpdates
  <2>2. /\ stak'.vals = stak.vals /\ stak'.index = stak.index /\ stak'.tokens = stak.tokens
        /\ stak'.jailed = stak.jailed
    BY <2>1, SetUpdatesFields
  <2>3. stak'.last = stak.last /\ stak'.status = stak.status
    <3>1. \A v \in Validators : stak'.last[v] = stak.last[v] /\ stak'.status[v] = stak.status[v]
      BY <1>1, <2>1, ElectionAgain DEF SeatsKept
    <3>2. /\ stak'.last \in [Validators -> Nat] /\ stak.last \in [Validators -> Nat]
          /\ stak'.status \in [Validators -> Status] /\ stak.status \in [Validators -> Status]
      BY DEF StakOK
    <3> QED BY <3>1, <3>2
  <2>4. Electable(stak') /\ Elected(stak')
    BY <1>1, <2>2, <2>3, ElectableSame, ElectedSame DEF SeatsKept
  <2>5. SeatsKept'
    BY <1>1, <2>2, <2>3, <2>4 DEF SeatsKept
  <2>6. ~ MeetsJailed(stak')
    BY <1>4, <2>2, ConsideredSame DEF MeetsJailed
  <2>7. JailedSoFar'
    <3>1. forZero
      BY <1>1 DEF SolvencyInv, Prepares
    <3>2. Passed' = stak.vals
      BY <1>1, <2>1, <2>2, <3>1 DEF Passed
    <3> QED BY <1>1, <2>2, <3>2 DEF JailedSoFar, Unlisted, Allowed
  <2> QED BY <2>1, <2>4, <2>5, <2>6, <2>7 DEF SeatsInv
<1> QED BY <1>3, <1>4
LEMMA SeatsCollect ==
    ASSUME SeatsInv, CollectGenesis
    PROVE  SeatsInv'
<1>1. /\ pc = "collect" /\ pc' = "done" /\ UNCHANGED <<stak, snap, allow, forZero, height>>
      /\ genesis' = [height |-> IF forZero THEN 0 ELSE height + 1,
                     validators |-> {v \in Validators : stak.last[v] > 0}]
  BY DEF CollectGenesis
<1>2. Electable(stak)' /\ SeatsKept'
  BY <1>1 DEF SeatsInv, SeatsKept
<1>3. JailedSoFar'
  <2>1. Passed' = Passed
    BY <1>1 DEF Passed
  <2> QED BY <1>1, <2>1 DEF SeatsInv, JailedSoFar, Unlisted, Allowed
<1>4. (forZero' => ~ CloseMayFail) => ~ MeetsJailed(stak')
  BY <1>1 DEF SeatsInv
<1> QED BY <1>1, <1>2, <1>3, <1>4 DEF SeatsInv

LEMMA SeatsNext ==
    ASSUME SeatsInv, SolvencyInv, SolvencyInv', [Next]_vars
    PROVE  SeatsInv'
<1>1. /\ StakOK(stak) /\ StakOK(stak') /\ StakOK(snap.stak) /\ Hosted(stak)
  BY DEF SolvencyInv, CountInv, TypeOK
<1>2. CASE UNCHANGED vars
  BY <1>2 DEF vars, SeatsInv, SeatsKept, JailedSoFar, Passed, Unlisted, Allowed,
              PanicJustified
<1>3. CASE ExportStep
  <2> QED BY <1>1, <1>3, SeatsJail, SeatsVisit, SeatsBetween, SeatsForget, SeatsApply,
             SeatsCollect DEF ExportStep
<1> QED BY <1>1, <1>2, <1>3, SeatsChain, SeatsStart DEF Next
LEMMA SeatsAlways == Spec => [](SolvencyInv /\ SeatsInv)
<1>1. Init => SolvencyInv /\ SeatsInv
  BY SolvencyInit, SeatsInit
<1>2. SolvencyInv /\ SeatsInv /\ [Next]_vars => (SolvencyInv /\ SeatsInv)'
  BY SolvencyNext, SeatsNext
<1> QED BY <1>1, <1>2, PTL DEF Spec

(***************************************************************************)
(* Of the panics of prepForZeroHeightGenesis only two can happen: a        *)
(* malformed entry of the allow list, and a validator that the list jailed *)
(* among the leading entries of the power index.                           *)
(***************************************************************************)
THEOREM TwoPanics == Spec => []OnlyTwoPanics
<1>1. SolvencyInv /\ SeatsInv => OnlyTwoPanics
  BY DEF SolvencyInv, Sound, SeatsInv, PanicJustified, OnlyTwoPanics
<1> QED BY <1>1, SeatsAlways, PTL

(***************************************************************************)
(* After a zero-height export a validator is jailed if and only if it was  *)
(* before or a list is given that does not spell it the way the codec does.*)
(***************************************************************************)
THEOREM JailsTheUnlisted == Spec => []JailedByList
<1>1. SolvencyInv /\ SeatsInv => JailedByList
  <2> SUFFICES ASSUME SolvencyInv, SeatsInv, pc = "done", forZero, NEW v \in stak.vals
               PROVE  stak.jailed[v] <=> \/ snap.stak.jailed[v]
                                         \/ allow # {} /\ ~ Allowed(v)
    BY DEF JailedByList
  <2>1. v \in Validators
    BY DEF SolvencyInv, CountInv, TypeOK, StakOK
  <2>2. v \in Passed
    BY DEF Passed
  <2> QED BY <2>1, <2>2 DEF SeatsInv, JailedSoFar, Unlisted
<1> QED BY <1>1, SeatsAlways, PTL

(***************************************************************************)
(* The genesis validators are the bonded ones with the powers they had in  *)
(* the committed state; one the list jailed is among them only where       *)
(* closing the store iterator may fail (export.go:230-233).                *)
(***************************************************************************)
THEOREM GenesisSets == Spec => []GenesisSetSound
<1>1. SolvencyInv /\ SeatsInv => GenesisSetSound
  <2> SUFFICES ASSUME SolvencyInv, SeatsInv, pc = "done", NEW v \in Validators
               PROVE  /\ v \in genesis.validators <=> stak.status[v] = "bonded"
                      /\ stak.last[v] = snap.stak.last[v]
                      /\ v \in genesis.validators /\ stak.jailed[v] =>
                            CloseMayFail /\ ~ snap.stak.jailed[v]
    BY DEF GenesisSetSound
  <2>1. v \in genesis.validators <=> stak.last[v] > 0
    BY DEF SeatsInv
  <2>2. stak.status[v] = "bonded" <=> stak.last[v] > 0
    BY DEF SeatsInv, Electable, Manned
  <2>3. SeatsKept
    BY DEF SeatsInv
  <2>4. ASSUME stak.last[v] > 0, stak.jailed[v]
        PROVE  CloseMayFail /\ ~ snap.stak.jailed[v]
    <3>1. v \in Considered(stak)
      BY <2>3, <2>4 DEF SeatsKept, Elected, Electees
    <3>2. MeetsJailed(stak)
      BY <2>4, <3>1 DEF MeetsJailed
    <3>3. CloseMayFail
      BY <3>2 DEF SeatsInv
    <3>4. v \in snap.stak.index
      BY <2>3, <3>1 DEF SeatsKept, Considered
    <3> QED BY <2>3, <3>3, <3>4 DEF SeatsKept, Unjailed
  <2> QED BY <2>1, <2>2, <2>3, <2>4 DEF SeatsKept
<1> QED BY <1>1, SeatsAlways, PTL
-----------------------------------------------------------------------------
\* What the hooks do to the starting infos.  A fault is never forgotten, so
\* where none is left at the end there was none on the way.

Starting(d, e) == e.start = d.start /\ (e.fault = "none" => d.fault = "none")

LEMMA CountsStart ==
    ASSUME NEW d, "start" \in DOMAIN d, "fault" \in DOMAIN d, NEW v, NEW p
    PROVE  /\ Starting(d, DecrementReferenceCount(d, v, p))
           /\ Starting(d, IncrementReferenceCount(d, v, p))
           /\ \A x, n : Starting(d, SetHistorical(d, v, p, x, n))
<1>1. /\ Starting(d, Fault(d, "references negative"))
      /\ Starting(d, Fault(d, "references exceed 2"))
  BY DEF Starting, Fault
<1>2. Starting(d, DeleteHistorical(d, v, p))
  BY DEF Starting, DeleteHistorical
<1>3. \A x, n : Starting(d, SetHistorical(d, v, p, x, n))
  BY DEF Starting, SetHistorical
<1> QED BY <1>1, <1>2, <1>3, Zenon DEF DecrementReferenceCount, IncrementReferenceCount

LEMMA PeriodStart ==
    ASSUME NEW d, DistOK(d), NEW s, NEW v
    PROVE  Starting(d, IncrementValidatorPeriod(d, s, v))
<1> DEFINE e == IncrementValidatorPeriod(d, s, v)
           closing == d.period[v]
           stray == IF s.tokens[v] = 0 THEN d.rew[v] ELSE 0
           ratio == Historical(d, v, closing - 1).ratio
                      + (IF s.tokens[v] = 0 THEN 0 ELSE d.rew[v] \div s.tokens[v])
           donated == [d EXCEPT !.outst[v] = @ - stray, !.pool = @ + stray]
           released == DecrementReferenceCount(donated, v, closing - 1)
           closed == SetHistorical(released, v, closing, ratio, 1)
<1>1. CASE stray > d.outst[v]
  <2>1. e = Fault(d, "negative coins")
    BY <1>1 DEF IncrementValidatorPeriod
  <2> QED BY <2>1 DEF Starting, Fault, DistOK
<1>2. CASE ~ (stray > d.outst[v])
  <2>1. e = [closed EXCEPT !.rew[v] = 0, !.period[v] = closing + 1]
    BY <1>2, Zenon DEF IncrementValidatorPeriod
  <2> HIDE DEF stray, ratio, closing
  <2>2. DOMAIN donated = DOMAIN d /\ Starting(d, donated)
    BY DEF Starting, DistOK
  <2>3. "start" \in DOMAIN d /\ "fault" \in DOMAIN d
    BY DEF DistOK
  <2> HIDE DEF donated
  <2>4. Starting(donated, released) /\ DOMAIN released = DOMAIN d
    <3>1. Starting(donated, released)
      BY <2>2, <2>3, CountsStart
    <3>2. DOMAIN released = DOMAIN donated
      BY DEF DecrementReferenceCount, Fault, DeleteHistorical, SetHistorical
    <3> QED BY <2>2, <3>1, <3>2
  <2> HIDE DEF released
  <2>5. Starting(released, closed) /\ DOMAIN closed = DOMAIN d
    <3>1. DOMAIN closed = DOMAIN released
      BY DEF SetHistorical
    <3> QED BY <2>3, <2>4, <3>1, CountsStart
  <2> HIDE DEF closed
  <2>6. Starting(closed, e)
    BY <2>1, <2>3, <2>5 DEF Starting
  <2> HIDE DEF e
  <2>7. Starting(d, e)
    BY <2>2, <2>4, <2>5, <2>6 DEF Starting
  <2> QED BY <2>7 DEF e
<1> QED BY <1>1, <1>2

LEMMA SettlingEndsStart ==
    ASSUME NEW d, DistOK(d), NEW s, StakOK(s), NEW pair \in Pairs, NEW h,
           NEW e, e = SettleDelegation(d, s, pair, h), e.fault = "none"
    PROVE  d.fault = "none" /\ e.start = [d.start EXCEPT ![pair] = NoInfo]
<1> DEFINE v == pair[2]
           ending == d.period[v]
           closed == IncrementValidatorPeriod(d, s, v)
           raw == CalculateDelegationRewards(closed, pair, ending, h)
           due == IF raw <= closed.outst[v] THEN raw ELSE closed.outst[v]
           coins == due \div Unit
           sent == SendCoins(closed, pair[1], coins)
           settled == [sent EXCEPT !.outst[v] = @ - due, !.pool = @ + (due % Unit)]
           released == DecrementReferenceCount(settled, v, d.start[pair].period)
           panics == closed.start[pair].height # h
                       /\ CalculationPanics(closed, s, pair, ending)
<1>1. Starting(d, closed) /\ DistOK(closed)
  BY PeriodStart, PairOf, IncrementValidatorPeriodType
<1>2. e \in {Fault(d, "no info"), Fault(closed, "calculation"), Fault(closed, "unfunded"),
             [released EXCEPT !.start[pair] = NoInfo]}
  BY Zenon DEF SettleDelegation
<1> HIDE DEF closed, due, coins
<1>3. e = [released EXCEPT !.start[pair] = NoInfo]
  <2>1. /\ Fault(d, "no info").fault # "none" /\ Fault(closed, "calculation").fault # "none"
        /\ Fault(closed, "unfunded").fault # "none"
    BY <1>1 DEF Fault, DistOK
  <2> QED BY <1>2, <2>1
<1>4. DOMAIN settled = DOMAIN d /\ Starting(closed, settled)
  BY <1>1 DEF SendCoins, Starting, DistOK
<1>5. "start" \in DOMAIN d /\ "fault" \in DOMAIN d
  BY DEF DistOK
<1> HIDE DEF settled
<1>6. Starting(settled, released) /\ DOMAIN released = DOMAIN d
  <2>1. Starting(settled, released)
    BY <1>4, <1>5, CountsStart
  <2>2. DOMAIN released = DOMAIN settled
    BY DEF DecrementReferenceCount, Fault, DeleteHistorical, SetHistorical
  <2> QED BY <1>4, <2>1, <2>2
<1> HIDE DEF released
<1>7. e.start = [released.start EXCEPT ![pair] = NoInfo] /\ e.fault = released.fault
  BY <1>3, <1>5, <1>6
<1> QED BY <1>1, <1>4, <1>6, <1>7 DEF Starting

LEMMA InitializingStarts ==
    ASSUME NEW d, DistOK(d), NEW s, NEW pair \in Pairs, NEW h,
           NEW e, e = InitializeDelegation(d, s, pair, h), e.fault = "none"
    PROVE  d.fault = "none" /\ \A other \in Pairs \ {pair} : e.start[other] = d.start[other]
<1> DEFINE previous == d.period[pair[2]] - 1
           counted == IncrementReferenceCount(d, pair[2], previous)
           info == [period |-> previous, stake |-> s.shares[pair], height |-> h]
<1>1. e = [counted EXCEPT !.start[pair] = info]
  BY Zenon DEF InitializeDelegation
<1>2. Starting(d, counted)
  <2>1. "start" \in DOMAIN d /\ "fault" \in DOMAIN d
    BY DEF DistOK
  <2> HIDE DEF previous
  <2> QED BY <2>1, CountsStart
<1>3. DOMAIN counted = DOMAIN d /\ "start" \in DOMAIN d /\ "fault" \in DOMAIN d
  BY DEF IncrementReferenceCount, Fault, SetHistorical, DistOK
<1>4. DOMAIN d.start = Pairs
  BY DEF DistOK
<1> HIDE DEF counted, info
<1>5. e.start = [counted.start EXCEPT ![pair] = info] /\ e.fault = counted.fault
  BY <1>1, <1>3
<1> QED BY <1>2, <1>4, <1>5 DEF Starting

LEMMA RemovalStart ==
    ASSUME NEW d, DistOK(d), NEW v, NEW e, e \in {RemoveRecords(d, v), InitializeValidator(d, v)}
    PROVE  Starting(d, e)
<1>1. CASE e = RemoveRecords(d, v)
  BY <1>1 DEF RemoveRecords, SendCoins, Fault, Starting, DistOK
<1>2. CASE e = InitializeValidator(d, v)
  BY <1>2 DEF InitializeValidator, SetHistorical, Starting, DistOK
<1> QED BY <1>1, <1>2

\* A starting info belongs to a delegation.
NoStray(d, s) == \A pair \in Pairs : s.shares[pair] = 0 => d.start[pair] = NoInfo

LEMMA HooksNoStray ==
    ASSUME NEW d, DistOK(d), NEW s, StakOK(s), NEW t, StakOK(t), NEW pair \in Pairs, NEW h \in Nat,
           \A other \in Pairs : other # pair => t.shares[other] = s.shares[other],
           NoStray(d, s), NEW e, e = DelegationHooks(d, s, t, pair, h), e.fault = "none"
    PROVE  d.fault = "none" /\ NoStray(e, t)
<1> DEFINE before == IF s.shares[pair] > 0 THEN SettleDelegation(d, s, pair, h)
                     ELSE IncrementValidatorPeriod(d, s, pair[2])
<1>1. e = IF t.shares[pair] > 0 THEN InitializeDelegation(before, t, pair, h) ELSE before
  BY Zenon DEF DelegationHooks
<1>2. DistOK(before)
  <2>1. DistOK(SettleDelegation(d, s, pair, h))
    BY SettleDelegationType
  <2>2. DistOK(IncrementValidatorPeriod(d, s, pair[2]))
    BY PairOf, IncrementValidatorPeriodType
  <2> QED BY <2>1, <2>2
<1>3. /\ before.fault = "none" =>
           /\ d.fault = "none" /\ before.start[pair] = NoInfo
           /\ \A other \in Pairs \ {pair} : before.start[other] = d.start[other]
  <2> SUFFICES ASSUME before.fault = "none"
               PROVE  /\ d.fault = "none" /\ before.start[pair] = NoInfo
                      /\ \A other \in Pairs \ {pair} : before.start[other] = d.start[other]
    OBVIOUS
  <2>1. DOMAIN d.start = Pairs /\ s.shares[pair] \in Nat
    BY DEF DistOK, StakOK
  <2>2. CASE s.shares[pair] > 0
    <3> DEFINE f == SettleDelegation(d, s, pair, h)
    <3>1. before = f
      BY <2>2
    <3> HIDE DEF f, before
    <3>2. d.fault = "none" /\ before.start = [d.start EXCEPT ![pair] = NoInfo]
      BY <3>1, SettlingEndsStart DEF f
    <3> QED BY <2>1, <3>2
  <2>3. CASE ~ (s.shares[pair] > 0)
    <3>1. Starting(d, before)
      BY <2>3, PeriodStart
    <3> HIDE DEF before
    <3>2. s.shares[pair] = 0
      BY <2>1, <2>3
    <3> QED BY <3>1, <3>2 DEF Starting, NoStray
  <2> QED BY <2>2, <2>3
<1> HIDE DEF before
<1>4. t.shares[pair] \in Nat
  BY DEF StakOK
<1>5. CASE t.shares[pair] > 0
  <2>1. /\ before.fault = "none"
        /\ \A other \in Pairs \ {pair} : e.start[other] = before.start[other]
    BY <1>1, <1>2, <1>5, InitializingStarts
  <2> QED BY <1>3, <1>5, <2>1 DEF NoStray
<1>6. CASE ~ (t.shares[pair] > 0)
  BY <1>1, <1>3, <1>6 DEF NoStray
<1> QED BY <1>5, <1>6

LEMMA UnbondNoStray ==
    ASSUME NEW d, DistOK(d), NEW s, StakOK(s), NEW t, StakOK(t), NEW pair \in Pairs, NEW h \in Nat,
           \A other \in Pairs : other # pair => t.shares[other] = s.shares[other],
           NoStray(d, s), NEW e, e = UnbondHooks(d, s, t, pair, h), e.fault = "none"
    PROVE  d.fault = "none" /\ NoStray(e, t)
<1> DEFINE f == DelegationHooks(d, s, t, pair, h)
<1>1. e = IF pair[2] \in t.vals THEN f ELSE RemoveRecords(f, pair[2])
  BY Zenon DEF UnbondHooks
<1>2. DistOK(f)
  BY DelegationHooksType
<1>3. Starting(f, e)
  <2> HIDE DEF f
  <2>1. Starting(f, RemoveRecords(f, pair[2])) /\ Starting(f, f)
    BY <1>2, RemovalStart DEF Starting
  <2> QED BY <1>1, <2>1
<1>4. f.fault = "none"
  BY <1>3 DEF Starting
<1>5. d.fault = "none" /\ NoStray(f, t)
  BY <1>4, HooksNoStray
<1> QED BY <1>3, <1>5 DEF Starting, NoStray
LEMMA WithdrawingNoStray ==
    ASSUME NEW d, DistOK(d), NEW s, StakOK(s), NEW pair \in Pairs, s.shares[pair] > 0,
           NEW h \in Nat, NoStray(d, s), NEW e, e = WithdrawDelegationRewards(d, s, pair, h),
           e.fault = "none"
    PROVE  NoStray(e, s)
<1> DEFINE f == SettleDelegation(d, s, pair, h)
<1>1. CASE d.start[pair] = NoInfo
  BY <1>1 DEF WithdrawDelegationRewards
<1>2. CASE d.start[pair] # NoInfo
  <2>1. e = InitializeDelegation(f, s, pair, h)
    BY <1>2, Zenon DEF WithdrawDelegationRewards
  <2>2. DistOK(f)
    BY SettleDelegationType
  <2>3. f.fault = "none" => f.start = [d.start EXCEPT ![pair] = NoInfo]
    BY SettlingEndsStart
  <2> HIDE DEF f
  <2>4. f.fault = "none" /\ \A other \in Pairs \ {pair} : e.start[other] = f.start[other]
    BY <2>1, <2>2, InitializingStarts
  <2>5. \A other \in Pairs \ {pair} : e.start[other] = d.start[other]
    BY <2>3, <2>4 DEF DistOK
  <2>6. s.shares[pair] # 0
    BY DEF StakOK
  <2> QED BY <2>5, <2>6 DEF NoStray
<1> QED BY <1>1, <1>2

LEMMA CommissionStart ==
    ASSUME NEW d, DistOK(d), NEW v
    PROVE  WithdrawValidatorCommission(d, v).start = d.start
  BY DEF WithdrawValidatorCommission, SendCoins, Fault, DistOK

-----------------------------------------------------------------------------
\* No token has earned anything yet.
Flat(d) == \A v \in Validators : \A p : Ratio(d, v, p) = 0

Dateless(entries) == \A e \in entries : e.height = 0

\* Since the loop over the unbonding delegations.
Unbound == pc \in {"bondHeights", "apply"} \/ (forZero /\ pc \in {"collect", "done"})

\* What the loops that have passed have forgotten.
FreshInv ==
    /\ NoStray(dist, stak)
    /\ \A v \in Passed : stak.unbondHeight[v] = 0
    /\ pc = "unbondings" \/ Unbound => \A r \in Routes : Dateless(stak.red[r])
    /\ Unbound => \A pair \in Pairs : Dateless(stak.ubd[pair])
    /\ pc = "validators" \/ Rebuilt => Flat(dist)
    /\ Rebuilt => \A pair \in LiveDelegations : dist.start[pair].height = 0

LEMMA FreshInit == Init => FreshInv
<1> SUFFICES ASSUME Init PROVE FreshInv
  OBVIOUS
<1>1. pc = "idle" /\ dist = GenesisDist /\ stak = ApplyValidatorSetUpdates(CreatedStak, 1)
  BY DEF Init, ChainInit
<1>2. stak.shares = CreatedStak.shares
  BY <1>1, GenesisType, SetUpdatesFields
<1>3. NoStray(dist, stak)
  <2> SUFFICES ASSUME NEW pair \in Pairs, stak.shares[pair] = 0
               PROVE  dist.start[pair] = NoInfo
    BY DEF NoStray
  <2>1. ~ (pair[1] = pair[2] /\ pair[2] \in GenesisValidators)
    BY <1>2, ChainAssumption DEF CreatedStak, GenesisValidators
  <2> QED BY <1>1, <2>1 DEF GenesisDist
<1> QED BY <1>1, <1>3 DEF FreshInv, Passed, Unbound, Rebuilt

\* In blocks, and in the loops before the history is cleared.
LEMMA FreshMessage ==
    ASSUME \/ pc' \in {"idle", "block", "allowList", "commission", "rewards", "panicked"}
           \/ pc' = "collect" /\ ~ forZero',
           NoStray(dist', stak')
    PROVE  FreshInv'
<1>1. Passed' = {} /\ ~ Unbound' /\ ~ Rebuilt'
  BY DEF Passed, Unbound, Rebuilt
<1> QED BY <1>1 DEF FreshInv

LEMMA FreshChain ==
    ASSUME FreshInv, SolvencyInv, SolvencyInv', ChainNext
    PROVE  FreshInv'
<1>1. /\ DistOK(dist) /\ StakOK(stak) /\ StakOK(stak') /\ height \in Nat
      /\ NoStray(dist, stak) /\ dist'.fault = "none"
  BY DEF SolvencyInv, CountInv, TypeOK, Sound, FreshInv
<1>2. CASE BeginBlock
  <2>1. dist'.start = dist.start /\ stak' = stak /\ pc' = "block"
    BY <1>1, <1>2 DEF BeginBlock, AllocateTokens, DistOK
  <2> QED BY <1>1, <2>1, FreshMessage DEF NoStray
<1>3. CASE EndBlock
  <2>1. dist' = dist /\ stak'.shares = stak.shares /\ pc' = "idle"
    BY <1>1, <1>3, SetUpdatesFields DEF EndBlock
  <2> QED BY <1>1, <2>1, FreshMessage DEF NoStray
<1>4. ASSUME NEW pair \in Pairs, NEW amount \in Amounts, MsgDelegate(pair, amount)
      PROVE  FreshInv'
  <2>1. /\ pc' = "block" /\ amount \in Nat /\ stak' = AddShares(stak, pair, amount)
        /\ dist' = DelegationHooks(dist, stak, stak', pair, height)
    BY <1>4, ChainAssumption DEF MsgDelegate, Deliver
  <2>2. \A other \in Pairs : other # pair => stak'.shares[other] = stak.shares[other]
    BY <1>1, <2>1, SharesChanged
  <2>3. NoStray(dist', stak')
    BY <1>1, <2>1, <2>2, HooksNoStray
  <2> QED BY <2>1, <2>3, FreshMessage
<1>5. ASSUME NEW pair \in Pairs, NEW amount \in Amounts, MsgUndelegate(pair, amount)
      PROVE  FreshInv'
  <2> DEFINE t == RemoveShares(stak, pair, amount)
  <2>1. PICK entries : /\ pc' = "block" /\ Removable(stak, pair, amount)
                       /\ stak' = [t EXCEPT !.ubd[pair] = entries]
                       /\ dist' = UnbondHooks(dist, stak, stak', pair, height)
    BY <1>5 DEF MsgUndelegate, Deliver
  <2>2. amount \in Nat
    BY ChainAssumption
  <2>3. StakOK(t) /\ \A other \in Pairs : other # pair => t.shares[other] = stak.shares[other]
    BY <1>1, <2>1, <2>2, RemoveSharesType, SharesChanged
  <2> HIDE DEF t
  <2>4. stak'.shares = t.shares
    BY <2>1, <2>3 DEF StakOK
  <2>5. \A other \in Pairs : other # pair => stak'.shares[other] = stak.shares[other]
    BY <2>3, <2>4
  <2>6. NoStray(dist', stak')
    BY <1>1, <2>1, <2>5, UnbondNoStray
  <2> QED BY <2>1, <2>6, FreshMessage
<1>6. ASSUME NEW a \in Accounts, NEW from \in Validators, NEW to \in Validators,
             NEW amount \in Amounts, MsgBeginRedelegate(a, from, to, amount)
      PROVE  FreshInv'
  <2> DEFINE one == <<a, from>>
             two == <<a, to>>
             route == <<a, from, to>>
             removed == RemoveShares(stak, one, amount)
             left == UnbondHooks(dist, stak, removed, one, height)
             moved == AddShares(removed, two, amount)
  <2>1. PICK added : /\ pc' = "block" /\ Removable(stak, one, amount)
                     /\ stak' = [moved EXCEPT !.red[route] = @ \cup added]
                     /\ dist' = DelegationHooks(left, removed, moved, two, height)
    BY <1>6 DEF MsgBeginRedelegate, Deliver
  <2>2. amount \in Nat /\ one \in Pairs /\ two \in Pairs
    BY ChainAssumption DEF Pairs
  <2> HIDE DEF one, two, route
  <2>3. StakOK(removed) /\ \A other \in Pairs :
                             other # one => removed.shares[other] = stak.shares[other]
    BY <1>1, <2>1, <2>2, RemoveSharesType, SharesChanged
  <2>4. DistOK(left)
    BY <1>1, <2>2, <2>3, UnbondHooksType
  <2>5. left.fault = "none" => NoStray(left, removed)
    BY <1>1, <2>2, <2>3, UnbondNoStray
  <2> HIDE DEF removed, left
  <2>6. StakOK(moved) /\ \A other \in Pairs :
                             other # two => moved.shares[other] = removed.shares[other]
    BY <2>2, <2>3, AddSharesType, SharesChanged
  <2> HIDE DEF moved
  <2>7. left.fault = "none"
    <3> DEFINE before == IF removed.shares[two] > 0
                           THEN SettleDelegation(left, removed, two, height)
                           ELSE IncrementValidatorPeriod(left, removed, two[2])
    <3>2. dist' = IF moved.shares[two] > 0
                  THEN InitializeDelegation(before, moved, two, height) ELSE before
      BY <2>1, Zenon DEF DelegationHooks
    <3>3. DistOK(before) /\ (before.fault = "none" => left.fault = "none")
      <4>1. /\ DistOK(SettleDelegation(left, removed, two, height))
            /\ DistOK(IncrementValidatorPeriod(left, removed, two[2]))
        BY <1>1, <2>2, <2>3, <2>4, PairOf, SettleDelegationType, IncrementValidatorPeriodType
      <4>2. SettleDelegation(left, removed, two, height).fault = "none"
              => left.fault = "none"
        <5> DEFINE f == SettleDelegation(left, removed, two, height)
        <5> SUFFICES ASSUME f.fault = "none" PROVE left.fault = "none"
          OBVIOUS
        <5>1. f = SettleDelegation(left, removed, two, height)
          OBVIOUS
        <5>2. StakOK(removed) /\ two \in Pairs
          BY <2>2, <2>3
        <5> HIDE DEF f, before
        <5>3. left.fault = "none" /\ f.start = [left.start EXCEPT ![two] = NoInfo]
          BY <2>4, <5>1, <5>2, SettlingEndsStart
        <5> QED BY <5>3
      <4>3. IncrementValidatorPeriod(left, removed, two[2]).fault = "none"
              => left.fault = "none"
        BY <2>4, PeriodStart DEF Starting
      <4> QED BY <4>1, <4>2, <4>3
    <3> HIDE DEF before
    <3>4. before.fault = "none"
      <4>1. InitializeDelegation(before, moved, two, height).fault = "none"
              => before.fault = "none"
        BY <2>2, <3>3, InitializingStarts
      <4> QED BY <1>1, <3>2, <4>1
    <3> QED BY <3>3, <3>4
  <2>8. NoStray(dist', moved)
    BY <1>1, <2>1, <2>2, <2>3, <2>4, <2>5, <2>6, <2>7, HooksNoStray
  <2>9. stak'.shares = moved.shares
    BY <2>1, <2>6 DEF StakOK
  <2> QED BY <2>1, <2>8, <2>9, FreshMessage DEF NoStray
<1>7. ASSUME NEW v \in Validators, NEW amount \in Amounts, MsgCreateValidator(v, amount)
      PROVE  FreshInv'
  <2> DEFINE pair == <<v, v>>
             created == CreateValidator(stak, v)
             hooked == InitializeValidator(dist, v)
  <2>1. /\ pc' = "block" /\ amount \in Nat
        /\ stak' = AddShares(created, pair, amount)
        /\ dist' = DelegationHooks(hooked, created, stak', pair, height)
    BY <1>7, ChainAssumption, Zenon DEF MsgCreateValidator, Deliver
  <2>2. pair \in Pairs
    BY AddressAssumption DEF Pairs
  <2> HIDE DEF pair
  <2>3. StakOK(created) /\ created.shares = stak.shares
    <3>1. StakOK(created)
      BY <1>1, CreateValidatorType
    <3>2. created.shares = stak.shares
      BY <1>1 DEF CreateValidator, StakOK
    <3> QED BY <3>1, <3>2
  <2>4. DistOK(hooked) /\ Starting(dist, hooked)
    BY <1>1, InitializeValidatorType, RemovalStart
  <2>5. NoStray(hooked, created)
    BY <1>1, <2>3, <2>4 DEF NoStray, Starting
  <2> HIDE DEF created, hooked
  <2>6. \A other \in Pairs : other # pair => stak'.shares[other] = created.shares[other]
    BY <2>1, <2>2, <2>3, SharesChanged
  <2>7. NoStray(dist', stak')
    BY <1>1, <2>1, <2>2, <2>3, <2>4, <2>5, <2>6, HooksNoStray
  <2> QED BY <2>1, <2>7, FreshMessage
<1>8. ASSUME NEW pair \in Pairs, MsgWithdrawDelegatorReward(pair)
      PROVE  FreshInv'
  <2>1. /\ pc' = "block" /\ stak' = stak /\ stak.shares[pair] > 0
        /\ dist' = WithdrawDelegationRewards(dist, stak, pair, height)
    BY <1>8 DEF MsgWithdrawDelegatorReward, Deliver
  <2>2. NoStray(dist', stak)
    BY <1>1, <2>1, WithdrawingNoStray
  <2> QED BY <2>1, <2>2, FreshMessage
<1>9. ASSUME NEW v \in Validators, MsgWithdrawValidatorCommission(v)
      PROVE  FreshInv'
  <2>1. /\ pc' = "block" /\ stak' = stak /\ dist' = WithdrawValidatorCommission(dist, v)
    BY <1>9 DEF MsgWithdrawValidatorCommission, Deliver
  <2>2. dist'.start = dist.start
    BY <1>1, <2>1, CommissionStart
  <2> QED BY <1>1, <2>1, <2>2, FreshMessage DEF NoStray
<1> QED BY <1>2, <1>3, <1>4, <1>5, <1>6, <1>7, <1>8, <1>9 DEF ChainNext

-----------------------------------------------------------------------------
\* A history without earnings gets none from the counting of references, nor
\* from closing a period without rewards.

LEMMA FlatSet ==
    ASSUME NEW d, DistOK(d), Flat(d), NEW v \in Validators, NEW p, NEW n,
           NEW e, e = SetHistorical(d, v, p, 0, n)
    PROVE  Flat(e)
<1>1. /\ \A w \in Validators : w # v => e.hist[w] = d.hist[w]
      /\ Ratio(e, v, p) = 0
      /\ \A q : q # p => Ratio(e, v, q) = Ratio(d, v, q)
  BY SetHistoricalRatio
<1>2. ASSUME NEW w \in Validators, NEW q PROVE Ratio(e, w, q) = 0
  <2>1. Ratio(d, w, q) = 0
    BY DEF Flat
  <2>2. w # v => Ratio(e, w, q) = Ratio(d, w, q)
    BY <1>1 DEF Ratio, Historical
  <2> QED BY <1>1, <2>1, <2>2
<1> QED BY <1>2 DEF Flat

LEMMA FlatDelete ==
    ASSUME NEW d, DistOK(d), Flat(d), NEW v \in Validators, NEW p,
           NEW e, e = DeleteHistorical(d, v, p)
    PROVE  Flat(e)
<1> DEFINE h == [q \in DOMAIN d.hist[v] \ {p} |-> d.hist[v][q]]
<1>1. /\ \A w \in Validators : w # v => e.hist[w] = d.hist[w]
      /\ \A q : q # p => Ratio(e, v, q) = Ratio(d, v, q)
  BY DeleteHistoricalRatio
<1>2. Ratio(e, v, p) = 0
  <2>1. e = [d EXCEPT !.hist[v] = h]
    BY Zenon DEF DeleteHistorical
  <2>2. p \notin DOMAIN h
    OBVIOUS
  <2> HIDE DEF h
  <2>3. e.hist[v] = h
    BY <2>1 DEF DistOK
  <2> QED BY <2>2, <2>3 DEF Ratio, Historical
<1>3. ASSUME NEW w \in Validators, NEW q PROVE Ratio(e, w, q) = 0
  <2>1. Ratio(d, w, q) = 0
    BY DEF Flat
  <2>2. w # v => Ratio(e, w, q) = Ratio(d, w, q)
    BY <1>1 DEF Ratio, Historical
  <2> QED BY <1>1, <1>2, <2>1, <2>2
<1> QED BY <1>3 DEF Flat

LEMMA FlatSame ==
    ASSUME NEW d, NEW e, Flat(d), e.hist = d.hist
    PROVE  Flat(e)
  BY DEF Flat, Ratio, Historical

LEMMA FlatCounts ==
    ASSUME NEW d, DistOK(d), Flat(d), NEW v \in Validators, NEW p
    PROVE  Flat(DecrementReferenceCount(d, v, p)) /\ Flat(IncrementReferenceCount(d, v, p))
<1> DEFINE old == Historical(d, v, p)
<1>1. old.ratio = 0
  BY DEF Flat, Ratio
<1>2. \A n : Flat(SetHistorical(d, v, p, old.ratio, n))
  BY <1>1, FlatSet
<1>3. Flat(DeleteHistorical(d, v, p))
  BY FlatDelete
<1>4. \A why : Flat(Fault(d, why))
  <2> SUFFICES ASSUME NEW why PROVE Flat(Fault(d, why))
    OBVIOUS
  <2>1. Fault(d, why).hist = d.hist
    BY DEF Fault, DistOK
  <2> QED BY <2>1, FlatSame
<1>5. DecrementReferenceCount(d, v, p)
        \in {Fault(d, "references negative"), DeleteHistorical(d, v, p),
             SetHistorical(d, v, p, old.ratio, old.refs - 1)}
  BY Zenon DEF DecrementReferenceCount
<1>6. IncrementReferenceCount(d, v, p)
        \in {Fault(d, "references exceed 2"),
             SetHistorical(d, v, p, old.ratio, old.refs + 1)}
  BY Zenon DEF IncrementReferenceCount
<1> HIDE DEF old
<1> QED BY <1>2, <1>3, <1>4, <1>5, <1>6

LEMMA FlatPeriod ==
    ASSUME NEW d, DistOK(d), Flat(d), NEW s, StakOK(s), NEW v \in Validators, d.rew[v] = 0,
           NEW e, e = IncrementValidatorPeriod(d, s, v), e.fault = "none"
    PROVE  Flat(e)
<1> DEFINE closing == d.period[v]
           stray == IF s.tokens[v] = 0 THEN d.rew[v] ELSE 0
           ratio == Historical(d, v, closing - 1).ratio
                      + (IF s.tokens[v] = 0 THEN 0 ELSE d.rew[v] \div s.tokens[v])
           donated == [d EXCEPT !.outst[v] = @ - stray, !.pool = @ + stray]
           released == DecrementReferenceCount(donated, v, closing - 1)
           closed == SetHistorical(released, v, closing, ratio, 1)
<1>1. stray = 0 /\ d.outst[v] \in Nat /\ d.pool \in Nat /\ closing - 1 \in Nat
  BY DEF DistOK
<1>2. ratio = 0
  <2>1. Historical(d, v, closing - 1).ratio = 0
    BY DEF Flat, Ratio
  <2>2. s.tokens[v] # 0 => d.rew[v] \div s.tokens[v] = 0
    <3>1. s.tokens[v] \in Nat
      BY DEF StakOK
    <3> QED BY <3>1
  <2> QED BY <2>1, <2>2
<1>3. e = [closed EXCEPT !.rew[v] = 0, !.period[v] = closing + 1]
  <2>1. ~ (stray > d.outst[v])
    BY <1>1
  <2> QED BY <2>1, Zenon DEF IncrementValidatorPeriod
<1> HIDE DEF stray, ratio
<1>4. donated = d
  <2>1. d.outst[v] - stray = d.outst[v] /\ d.pool + stray = d.pool
    BY <1>1
  <2>2. donated = [d EXCEPT !.outst = [d.outst EXCEPT ![v] = d.outst[v]], !.pool = d.pool]
    BY <2>1 DEF DistOK
  <2>3. [d.outst EXCEPT ![v] = d.outst[v]] = d.outst
    BY DEF DistOK
  <2> QED BY <2>2, <2>3 DEF DistOK
<1> HIDE DEF donated
<1>5. DistOK(released) /\ Flat(released)
  BY <1>1, <1>4, FlatCounts, DecrementReferenceCountType
<1> HIDE DEF released
<1>6. Flat(closed)
  BY <1>2, <1>5, FlatSet
<1>7. e.hist = closed.hist
  <2>1. "hist" \in DOMAIN closed
    BY <1>5 DEF SetHistorical, DistOK
  <2> HIDE DEF closed
  <2> QED BY <1>3, <2>1
<1> QED BY <1>6, <1>7, FlatSame

LEMMA FlatStart ==
    ASSUME NEW d, DistOK(d), Flat(d), NEW s, NEW pair \in Pairs, NEW h,
           NEW e, e = InitializeDelegation(d, s, pair, h)
    PROVE  Flat(e)
<1> DEFINE previous == d.period[pair[2]] - 1
           counted == IncrementReferenceCount(d, pair[2], previous)
           info == [period |-> previous, stake |-> s.shares[pair], height |-> h]
<1>1. e = [counted EXCEPT !.start[pair] = info]
  BY Zenon DEF InitializeDelegation
<1>2. Flat(counted)
  <2> HIDE DEF previous
  <2> QED BY PairOf, FlatCounts
<1>3. "hist" \in DOMAIN counted
  BY DEF IncrementReferenceCount, Fault, SetHistorical, DistOK
<1> HIDE DEF counted, info
<1>4. e.hist = counted.hist
  BY <1>1, <1>3
<1> QED BY <1>2, <1>4, FlatSame

-----------------------------------------------------------------------------
\* A step that leaves the starting infos and the history alone.
LEMMA FreshStay ==
    ASSUME FreshInv, dist' = dist, stak'.shares = stak.shares,
           \A v \in Passed' : stak'.unbondHeight[v] = 0,
           pc' = "unbondings" \/ Unbound' => \A r \in Routes : Dateless(stak'.red[r]),
           Unbound' => \A pair \in Pairs : Dateless(stak'.ubd[pair]),
           pc' = "validators" \/ Rebuilt' => pc = "validators" \/ Rebuilt,
           Rebuilt' => LiveDelegations' = {} \/ (Rebuilt /\ LiveDelegations' = LiveDelegations)
    PROVE  FreshInv'
<1>1. NoStray(dist', stak')
  BY DEF FreshInv, NoStray
<1>2. pc' = "validators" \/ Rebuilt' => Flat(dist')
  BY DEF FreshInv
<1>3. Rebuilt' => \A pair \in LiveDelegations' : dist'.start[pair].height = 0
  BY DEF FreshInv
<1> QED BY <1>1, <1>2, <1>3 DEF FreshInv

\* ... and staking too.
LEMMA FreshQuiet ==
    ASSUME FreshInv, dist' = dist, stak' = stak, Passed' \subseteq Passed,
           pc' = "unbondings" \/ Unbound' => pc = "unbondings" \/ Unbound,
           Unbound' => Unbound,
           pc' = "validators" \/ Rebuilt' => pc = "validators" \/ Rebuilt,
           Rebuilt' => LiveDelegations' = {} \/ (Rebuilt /\ LiveDelegations' = LiveDelegations)
    PROVE  FreshInv'
<1>1. /\ \A v \in Passed' : stak'.unbondHeight[v] = 0
      /\ pc' = "unbondings" \/ Unbound' => \A r \in Routes : Dateless(stak'.red[r])
      /\ Unbound' => \A pair \in Pairs : Dateless(stak'.ubd[pair])
  BY DEF FreshInv
<1> QED BY <1>1, FreshStay

LEMMA FreshBetween ==
    ASSUME FreshInv, SolvencyInv,
           \/ \E zero \in BOOLEAN : \E list : StartExport(zero, list)
           \/ ParseAllowList \/ GetAllDelegations \/ StartDelegations
           \/ RestoreHeight \/ CloseIterator \/ CollectGenesis
    PROVE  FreshInv'
<1>1. CASE \E zero \in BOOLEAN : \E list : StartExport(zero, list)
  <2>1. PICK zero \in BOOLEAN : /\ dist' = dist /\ stak' = stak /\ forZero' = zero
                                /\ pc' = IF zero THEN "allowList" ELSE "collect"
    BY <1>1 DEF StartExport
  <2>2. NoStray(dist', stak')
    BY <2>1 DEF FreshInv
  <2> QED BY <2>1, <2>2, FreshMessage
<1>2. CASE ParseAllowList \/ GetAllDelegations
  <2>1. /\ dist' = dist /\ stak' = stak
        /\ pc' \in {"commission", "rewards", "panicked"}
    BY <1>2 DEF ParseAllowList, GetAllDelegations
  <2>2. NoStray(dist', stak')
    BY <2>1 DEF FreshInv
  <2> QED BY <2>1, <2>2, FreshMessage
<1>3. CASE StartDelegations
  <2>1. /\ pc = "validators" /\ pc' = "delegations" /\ dist' = dist /\ stak' = stak
        /\ todoD' = Delegations(snap.stak) /\ snap' = snap
    BY <1>3 DEF StartDelegations
  <2>2. LiveDelegations' = {} /\ Passed' = {} /\ ~ Unbound'
    BY <2>1 DEF LiveDelegations, Passed, Unbound
  <2> QED BY <2>1, <2>2, FreshQuiet
<1>4. CASE RestoreHeight
  <2>1. /\ pc = "delegations" /\ pc' = "redelegations" /\ dist' = dist /\ stak' = stak
        /\ todoD = {} /\ snap' = snap /\ forZero' = forZero
    BY <1>4 DEF RestoreHeight
  <2>2. Delegations(snap.stak) = Delegations(stak)
    BY <2>1 DEF SolvencyInv, CountInv, LoopsSound, Delegations
  <2>3. LiveDelegations' = LiveDelegations /\ Passed' = {} /\ ~ Unbound'
    BY <2>1, <2>2 DEF LiveDelegations, Passed, Unbound
  <2>4. Rebuilt' <=> Rebuilt
    BY <2>1 DEF Rebuilt
  <2> QED BY <2>1, <2>3, <2>4, FreshQuiet
<1>5. CASE CloseIterator
  <2>1. /\ pc = "bondHeights" /\ pc' \in {"apply", "collect"} /\ dist' = dist /\ stak' = stak
        /\ todoV = {} /\ forZero' = forZero
    BY <1>5 DEF CloseIterator, exportVars
  <2>2. Passed' \subseteq Passed
    BY <2>1 DEF Passed
  <2>3. LiveDelegations' = LiveDelegations
    BY <2>1 DEF LiveDelegations
  <2>4. (Rebuilt' => Rebuilt) /\ (Unbound' => Unbound)
    BY <2>1 DEF Rebuilt, Unbound
  <2> QED BY <2>1, <2>2, <2>3, <2>4, FreshQuiet
<1>6. CASE CollectGenesis
  <2>1. /\ pc = "collect" /\ pc' = "done" /\ dist' = dist /\ stak' = stak
        /\ forZero' = forZero
    BY <1>6 DEF CollectGenesis
  <2>2. Passed' = Passed
    BY <2>1 DEF Passed
  <2>3. LiveDelegations' = LiveDelegations
    BY <2>1 DEF LiveDelegations
  <2>4. (Rebuilt' <=> Rebuilt) /\ (Unbound' <=> Unbound)
    BY <2>1 DEF Rebuilt, Unbound
  <2> QED BY <2>1, <2>2, <2>3, <2>4, FreshQuiet
<1> QED BY <1>1, <1>2, <1>3, <1>4, <1>5, <1>6

\* The loops of the export that settle.
LEMMA FreshSettle ==
    ASSUME FreshInv, SolvencyInv, SolvencyInv',
           \/ \E v \in Validators : WithdrawCommission(v)
           \/ \E pair \in Pairs : WithdrawRewards(pair)
    PROVE  FreshInv'
<1>1. /\ DistOK(dist) /\ StakOK(stak) /\ ctx \in Nat /\ NoStray(dist, stak)
      /\ dist'.fault = "none"
  BY DEF SolvencyInv, CountInv, TypeOK, Sound, FreshInv
<1>2. ASSUME NEW v \in Validators, WithdrawCommission(v) PROVE FreshInv'
  <2>1. /\ stak' = stak /\ pc' \in {"commission", "panicked"}
        /\ dist' = WithdrawValidatorCommission(dist, v)
    BY <1>2 DEF WithdrawCommission, Goto
  <2>2. dist'.start = dist.start
    BY <1>1, <2>1, CommissionStart
  <2>3. NoStray(dist', stak')
    BY <1>1, <2>1, <2>2 DEF NoStray
  <2> QED BY <2>1, <2>3, FreshMessage
<1>3. ASSUME NEW pair \in Pairs, WithdrawRewards(pair) PROVE FreshInv'
  <2>1. /\ stak' = stak /\ pc' \in {"rewards", "panicked"}
        /\ pc = "rewards" /\ pair \in todoD
        /\ dist' \in {dist, WithdrawDelegationRewards(dist, stak, pair, ctx)}
    BY <1>3 DEF WithdrawRewards, Goto, NextD
  <2>2. stak.shares[pair] > 0
    BY <2>1 DEF SolvencyInv, CountInv, LoopsSound, Delegations
  <2>3. CASE dist' = dist
    <3>1. NoStray(dist', stak')
      BY <1>1, <2>1, <2>3
    <3> QED BY <2>1, <3>1, FreshMessage
  <2>4. CASE dist' = WithdrawDelegationRewards(dist, stak, pair, ctx)
    <3>1. NoStray(dist', stak')
      BY <1>1, <2>1, <2>2, <2>4, WithdrawingNoStray
    <3> QED BY <2>1, <3>1, FreshMessage
  <2> QED BY <2>1, <2>3, <2>4
<1> QED BY <1>2, <1>3

\* Clearing the history leaves no ratio.
LEMMA FreshClear ==
    ASSUME FreshInv, SolvencyInv, ClearHistory
    PROVE  FreshInv'
<1>1. /\ pc' = "validators" /\ stak' = stak
      /\ dist' = [dist EXCEPT !.hist = [v \in Validators |-> [p \in {} |-> 0]]]
      /\ NoStray(dist, stak) /\ DistOK(dist)
  BY DEF ClearHistory, SolvencyInv, CountInv, TypeOK, FreshInv
<1>2. dist'.start = dist.start /\ \A v \in Validators : dist'.hist[v] = [p \in {} |-> 0]
  BY <1>1 DEF DistOK
<1>3. Flat(dist')
  BY <1>2 DEF Flat, Ratio, Historical
<1>4. NoStray(dist', stak')
  BY <1>1, <1>2 DEF NoStray
<1>5. Passed' = {} /\ ~ Unbound' /\ ~ Rebuilt'
  BY <1>1 DEF Passed, Unbound, Rebuilt
<1> QED BY <1>1, <1>3, <1>4, <1>5 DEF FreshInv

LEMMA FreshValidator ==
    ASSUME FreshInv, SolvencyInv, SolvencyInv', NEW v \in Validators, ReinitValidator(v)
    PROVE  FreshInv'
<1>1. CountInv'
  BY DEF SolvencyInv
<1>2. /\ pc' = "validators"
      /\ Created(dist, stak, dist', stak.vals \ todoV, {}, v, 0)
  BY <1>1, SolvencyValidator
<1>3. /\ pc = "validators" /\ stak' = stak
  BY DEF ReinitValidator
<1>4. /\ OnlyAt(dist, dist', v) /\ dist'.start = dist.start
      /\ \A p : Ratio(dist, v, p) = 0 => Ratio(dist', v, p) = 0
  BY <1>2 DEF Created
<1>5. Flat(dist')
  <2> SUFFICES ASSUME NEW w \in Validators, NEW p PROVE Ratio(dist', w, p) = 0
    BY DEF Flat
  <2>1. Ratio(dist, w, p) = 0
    BY <1>3 DEF FreshInv, Flat
  <2>2. w # v => Ratio(dist', w, p) = Ratio(dist, w, p)
    BY <1>4 DEF OnlyAt, Ratio, Historical
  <2> QED BY <1>4, <2>1, <2>2
<1>6. NoStray(dist', stak')
  BY <1>3, <1>4 DEF FreshInv, NoStray
<1>7. Passed' = {} /\ ~ Unbound' /\ ~ Rebuilt'
  BY <1>2 DEF Passed, Unbound, Rebuilt
<1> QED BY <1>2, <1>5, <1>6, <1>7 DEF FreshInv

LEMMA FreshDelegation ==
    ASSUME FreshInv, SolvencyInv, SolvencyInv', NEW pair \in Pairs, ReinitDelegation(pair)
    PROVE  FreshInv'
<1> DEFINE v == pair[2]
           closed == IncrementValidatorPeriod(dist, stak, v)
           D == Delegations(stak) \ todoD
<1>1. CountInv'
  BY DEF SolvencyInv
<1>2. /\ pc' = "delegations"
      /\ Advanced(dist, stak, closed, stak.vals, D, v, 0)
      /\ Begun(closed, stak, dist', stak.vals, D, pair, 0)
  BY <1>1, SolvencyDelegation
<1>3. /\ pc = "delegations" /\ stak' = stak /\ snap' = snap /\ pair \in todoD
      /\ todoD' = todoD \ {pair} /\ forZero' = forZero
      /\ dist' # dist => dist' = InitializeDelegation(closed, stak, pair, ctx)
  BY DEF ReinitDelegation, NextD
<1>4. /\ DistOK(dist) /\ StakOK(stak) /\ ctx = 0 /\ Unowed(dist, {}) /\ forZero
      /\ todoD \subseteq Delegations(stak) /\ pair[2] \in Validators
      /\ Delegations(snap.stak) = Delegations(stak)
      /\ Delegations(stak) \in SUBSET Pairs
  <2>1. /\ DistOK(dist) /\ StakOK(stak) /\ ctx = 0 /\ Unowed(dist, {}) /\ forZero
        /\ LoopsSound /\ Delegations(stak) \in SUBSET Pairs
    BY <1>3, RebuildFrom
  <2> QED BY <1>3, <2>1, PairOf DEF LoopsSound, Delegations
<1> HIDE DEF closed, D
<1>5. DistOK(closed) /\ closed.start = dist.start /\ closed.fault = "none"
  BY <1>2 DEF Advanced, Sound
<1>6. Flat(dist')
  <2>1. Flat(dist)
    BY <1>3, <1>4 DEF FreshInv, Rebuilt
  <2>2. dist.rew[v] = 0
    BY <1>4 DEF Unowed
  <2>3. Flat(closed)
    BY <1>4, <1>5, <2>1, <2>2, FlatPeriod DEF closed
  <2>4. CASE dist' = InitializeDelegation(closed, stak, pair, ctx)
    BY <1>5, <2>3, <2>4, FlatStart
  <2> QED BY <1>3, <2>1, <2>4
<1>7. dist'.start = [dist.start EXCEPT ![pair] =
                       [period |-> Closed(closed, pair[2]), stake |-> stak.shares[pair],
                        height |-> 0]]
  BY <1>2, <1>5 DEF Begun
<1>8. DOMAIN dist.start = Pairs
  BY <1>4 DEF DistOK
<1>9. NoStray(dist', stak')
  <2>1. stak.shares[pair] # 0
    BY <1>3, <1>4 DEF Delegations, StakOK
  <2>2. \A other \in Pairs : other # pair => dist'.start[other] = dist.start[other]
    BY <1>7, <1>8
  <2> QED BY <1>3, <2>1, <2>2 DEF FreshInv, NoStray
<1>10. Rebuilt /\ Rebuilt' /\ Passed' = {} /\ ~ Unbound'
  BY <1>2, <1>3, <1>4 DEF Rebuilt, Passed, Unbound
<1>11. LiveDelegations = D /\ LiveDelegations' = D \cup {pair}
  BY <1>2, <1>3, <1>4 DEF LiveDelegations, D
<1>12. \A other \in LiveDelegations' : dist'.start[other].height = 0
  <2> SUFFICES ASSUME NEW other \in LiveDelegations' PROVE dist'.start[other].height = 0
    OBVIOUS
  <2>1. other \in Pairs
    BY <1>4, <1>11 DEF D
  <2>2. CASE other = pair
    BY <1>7, <1>8, <2>2
  <2>3. CASE other # pair
    <3>1. other \in LiveDelegations
      BY <1>11, <2>3
    <3> QED BY <1>7, <1>8, <1>10, <2>1, <2>3, <3>1 DEF FreshInv
  <2> QED BY <2>2, <2>3
<1> QED BY <1>2, <1>6, <1>9, <1>10, <1>12 DEF FreshInv

\* The loops of the export over the heights that staking keeps.
LEMMA FreshForget ==
    ASSUME FreshInv, StakOK(stak), ResetRedelegations \/ ResetUnbondings
    PROVE  FreshInv'
<1>1. \A entries : Dateless(AtHeightZero(entries)) \/ entries \notin SUBSET Entry
  BY DEF Dateless, AtHeightZero, Entry
<1>2. CASE ResetRedelegations
  <2>1. /\ pc = "redelegations" /\ pc' = "unbondings" /\ dist' = dist
        /\ UNCHANGED <<forZero, snap, todoD>>
        /\ stak'.shares = stak.shares
        /\ stak'.red = [r \in Routes |-> AtHeightZero(stak.red[r])]
    BY <1>2 DEF ResetRedelegations, StakOK
  <2>2. \A r \in Routes : Dateless(stak'.red[r])
    BY <1>1, <2>1 DEF StakOK
  <2>3. Passed' = {} /\ ~ Unbound' /\ (Rebuilt' => Rebuilt)
    BY <2>1 DEF Passed, Unbound, Rebuilt
  <2>4. LiveDelegations' = LiveDelegations
    BY <2>1 DEF LiveDelegations, Delegations
  <2> QED BY <2>1, <2>2, <2>3, <2>4, FreshStay
<1>3. CASE ResetUnbondings
  <2>1. /\ pc = "unbondings" /\ pc' = "bondHeights" /\ dist' = dist
        /\ UNCHANGED <<forZero, snap, todoD>>
        /\ stak'.shares = stak.shares /\ stak'.vals = stak.vals /\ stak'.red = stak.red
        /\ stak'.ubd = [p \in Pairs |-> AtHeightZero(stak.ubd[p])]
        /\ todoV' = stak.vals
    BY <1>3 DEF ResetUnbondings, StakOK
  <2>2. \A pair \in Pairs : Dateless(stak'.ubd[pair])
    BY <1>1, <2>1 DEF StakOK
  <2>3. \A r \in Routes : Dateless(stak'.red[r])
    BY <2>1 DEF FreshInv
  <2>4. Passed' = {} /\ (Rebuilt' => Rebuilt)
    BY <2>1 DEF Passed, Rebuilt
  <2>5. LiveDelegations' = LiveDelegations
    BY <2>1 DEF LiveDelegations, Delegations
  <2> QED BY <2>1, <2>2, <2>3, <2>4, <2>5, FreshStay
<1> QED BY <1>2, <1>3

LEMMA FreshJail ==
    ASSUME FreshInv, StakOK(stak), NEW v \in Validators, ResetValidator(v)
    PROVE  FreshInv'
<1>1. /\ pc = "bondHeights" /\ pc' = "bondHeights" /\ dist' = dist
      /\ UNCHANGED <<forZero, snap, todoD>> /\ todoV' = todoV \ {v}
      /\ stak'.shares = stak.shares /\ stak'.vals = stak.vals /\ stak'.red = stak.red
      /\ stak'.ubd = stak.ubd
      /\ stak'.unbondHeight = [stak.unbondHeight EXCEPT ![v] = 0]
  BY DEF ResetValidator, StakOK
<1>2. \A w \in Passed' : stak'.unbondHeight[w] = 0
  <2> SUFFICES ASSUME NEW w \in Passed' PROVE stak'.unbondHeight[w] = 0
    OBVIOUS
  <2>1. w \in Validators /\ (w \in Passed \/ w = v)
    BY <1>1 DEF Passed, StakOK
  <2>2. w \in Passed => stak.unbondHeight[w] = 0
    BY DEF FreshInv
  <2>3. DOMAIN stak.unbondHeight = Validators
    BY DEF StakOK
  <2> QED BY <1>1, <2>1, <2>2, <2>3
<1>3. /\ \A r \in Routes : Dateless(stak'.red[r])
      /\ \A pair \in Pairs : Dateless(stak'.ubd[pair])
  BY <1>1 DEF FreshInv, Unbound
<1>4. LiveDelegations' = LiveDelegations /\ (Rebuilt' => Rebuilt)
  BY <1>1 DEF LiveDelegations, Delegations, Rebuilt
<1> QED BY <1>1, <1>2, <1>3, <1>4, FreshStay

\* The election changes nothing, so no new unbonding height appears.
LEMMA FreshApply ==
    ASSUME FreshInv, SeatsInv, StakOK(stak), ApplySetUpdates
    PROVE  FreshInv'
<1>1. /\ pc = "apply" /\ dist' = dist /\ UNCHANGED <<forZero, snap, todoD>>
      /\ \/ pc' = "panicked" /\ stak' = stak
         \/ pc' = "collect" /\ stak' = ApplyValidatorSetUpdates(stak, ctx)
  BY DEF ApplySetUpdates, exportVars
<1>2. CASE pc' = "panicked" /\ stak' = stak
  <2>1. NoStray(dist', stak')
    BY <1>1, <1>2 DEF FreshInv
  <2> QED BY <1>2, <2>1, FreshMessage
<1>3. CASE pc' = "collect" /\ stak' = ApplyValidatorSetUpdates(stak, ctx)
  <2>1. /\ stak'.vals = stak.vals /\ stak'.shares = stak.shares
        /\ stak'.ubd = stak.ubd /\ stak'.red = stak.red
    BY <1>3, SetUpdatesFields
  <2>2. Electable(stak) /\ Elected(stak)
    BY <1>1 DEF SeatsInv, SeatsKept
  <2>3. \A v \in Validators : stak'.unbondHeight[v] = stak.unbondHeight[v]
    BY <1>3, <2>2, ElectionAgain
  <2>4. \A v \in Passed' : stak'.unbondHeight[v] = 0
    <3>1. Passed' \subseteq Passed /\ Passed \subseteq Validators
      BY <1>1, <1>3, <2>1 DEF Passed, StakOK
    <3> QED BY <2>3, <3>1 DEF FreshInv
  <2>5. /\ \A r \in Routes : Dateless(stak'.red[r])
        /\ \A pair \in Pairs : Dateless(stak'.ubd[pair])
    BY <1>1, <2>1 DEF FreshInv, Unbound
  <2>6. LiveDelegations' = LiveDelegations /\ (Rebuilt' => Rebuilt)
    BY <1>1, <1>3, <2>1 DEF LiveDelegations, Delegations, Rebuilt
  <2> QED BY <1>1, <1>3, <2>1, <2>4, <2>5, <2>6, FreshStay
<1> QED BY <1>1, <1>2, <1>3

LEMMA FreshNext ==
    ASSUME FreshInv, SeatsInv, SolvencyInv, SolvencyInv', [Next]_vars
    PROVE  FreshInv'
<1>1. StakOK(stak)
  BY DEF SolvencyInv, CountInv, TypeOK
<1>2. CASE UNCHANGED vars
  <2>1. Passed' = Passed /\ (Unbound' <=> Unbound) /\ (Rebuilt' <=> Rebuilt)
    BY <1>2 DEF vars, Passed, Unbound, Rebuilt
  <2>2. LiveDelegations' = LiveDelegations
    BY <1>2 DEF vars, LiveDelegations
  <2> QED BY <1>2, <2>1, <2>2, FreshQuiet DEF vars
<1>3. CASE ExportStep
  BY <1>1, <1>3, FreshBetween, FreshSettle, FreshClear, FreshValidator, FreshDelegation,
     FreshForget, FreshJail, FreshApply DEF ExportStep
<1>4. CASE StartExport(FALSE, {}) \/ \E list \in AllowLists : StartExport(TRUE, list)
  BY <1>4, FreshBetween
<1> QED BY <1>2, <1>3, <1>4, FreshChain DEF Next

LEMMA FreshAlways == Spec => [](SolvencyInv /\ SeatsInv /\ FreshInv)
<1>1. Init => SolvencyInv /\ SeatsInv /\ FreshInv
  BY SolvencyInit, SeatsInit, FreshInit
<1>2. SolvencyInv /\ SeatsInv /\ FreshInv /\ [Next]_vars
        => (SolvencyInv /\ SeatsInv /\ FreshInv)'
  BY SolvencyNext, SeatsNext, FreshNext
<1> QED BY <1>1, <1>2, PTL DEF Spec

(***************************************************************************)
(* A zero-height genesis remembers no height and no reward of the old      *)
(* chain: starting infos, unbonding heights, unbonding delegations and     *)
(* redelegations are all at height zero, the history is flat, and every    *)
(* delegation starts with the shares it had as stake.                      *)
(***************************************************************************)
THEOREM StartsAfresh == Spec => []FreshStart
<1>1. SolvencyInv /\ SeatsInv /\ FreshInv => FreshStart
  <2> SUFFICES ASSUME SolvencyInv, SeatsInv, FreshInv, pc = "done", forZero
               PROVE  FreshStart
    BY DEF FreshStart
  <2>1. /\ DistOK(dist) /\ StakOK(stak) /\ snap.stak.shares = stak.shares
        /\ Sound(dist, stak, LiveValidators, LiveDelegations, Now)
    BY DEF SolvencyInv, CountInv, TypeOK, LoopsSound
  <2>2. Passed = stak.vals /\ Unbound /\ Rebuilt /\ LiveDelegations = Delegations(stak)
    BY DEF Passed, Unbound, Rebuilt, LiveDelegations
  <2>3. genesis.height = 0
    BY DEF SeatsInv
  <2>4. ASSUME NEW pair \in Pairs
        PROVE  IF stak.shares[pair] = 0
               THEN dist.start[pair] = NoInfo
               ELSE /\ dist.start[pair].height = 0
                    /\ dist.start[pair].stake = snap.stak.shares[pair]
    <3>1. CASE stak.shares[pair] = 0
      BY <3>1 DEF FreshInv, NoStray
    <3>2. CASE stak.shares[pair] # 0
      <4>1. pair \in LiveDelegations
        BY <2>1, <2>2, <3>2 DEF Delegations, StakOK
      <4>2. dist.start[pair].height = 0
        BY <2>2, <4>1 DEF FreshInv
      <4>3. dist.start[pair].stake = stak.shares[pair]
        BY <2>1, <4>1 DEF Sound, SolventAt
      <4> QED BY <2>1, <3>2, <4>2, <4>3
    <3> QED BY <3>1, <3>2
  <2>5. /\ \A v \in stak.vals : stak.unbondHeight[v] = 0
        /\ \A pair \in Pairs : \A e \in stak.ubd[pair] : e.height = 0
        /\ \A r \in Routes : \A e \in stak.red[r] : e.height = 0
    BY <2>2 DEF FreshInv, Dateless
  <2>6. \A v \in Validators : \A p \in DOMAIN dist.hist[v] : dist.hist[v][p].ratio = 0
    BY <2>2 DEF FreshInv, Flat, Ratio, Historical
  <2> QED BY <2>3, <2>4, <2>5, <2>6 DEF FreshStart
<1> QED BY <1>1, FreshAlways, PTL

-----------------------------------------------------------------------------
\* Payments of the zero-height export.

\* What d owes on each delegation, in whole coins, and those of a among D.
Dues(d, s) == [pair \in Pairs |-> Earned(d, s, pair) \div Unit]
HeldBy(a, D) == {pair \in D : pair[1] = a}
DuesTo(d, s, a, D) == SumFunctionOnSet(Dues(d, s), HeldBy(a, D))

\* The addresses and delegations the two paying loops have visited.
PaidValidators ==
    CASE pc = "allowList" -> {}
      [] pc = "commission" -> Validators \ todoV
      [] OTHER -> Validators
PaidDelegations ==
    CASE pc \in {"allowList", "commission"} -> {}
      [] pc = "rewards" -> Delegations(stak) \ todoD
      [] OTHER -> Delegations(stak)

CommissionTo(d, a, V) == IF a \in V THEN d.comm[a] \div Unit ELSE 0

\* Every account has been paid what the committed state owed it on what has
\* been visited, and what has not is still due in full.
Paying ==
    /\ \A pair \in Delegations(stak) :
         snap.dist.start[pair] # NoInfo /\ Earned(snap.dist, snap.stak, pair) \in Int
    /\ \A a \in Accounts :
         dist.paid[a] = snap.dist.paid[a] + CommissionTo(snap.dist, a, PaidValidators)
                          + DuesTo(snap.dist, snap.stak, a, PaidDelegations)
    /\ pc \in {"allowList", "commission"} =>
         \A v \in Validators \ PaidValidators : dist.comm[v] = snap.dist.comm[v]
    /\ pc \in {"allowList", "commission", "rewards"} =>
         \A pair \in Delegations(stak) \ PaidDelegations :
           Earned(dist, stak, pair) = Earned(snap.dist, snap.stak, pair)

PaymentsInv == forZero /\ pc \notin {"idle", "block", "panicked"} => Paying

LEMMA FinitePairs == \A D \in SUBSET Pairs : IsFiniteSet(D)
<1>1. IsFiniteSet(Pairs)
  BY FiniteAddresses, FS_Product DEF Pairs
<1> QED BY <1>1, FS_Subset

LEMMA WholeDue == \A x \in Int : x \div Unit \in Int
  BY UnitAssumption

LEMMA DuesToNone ==
    ASSUME NEW d, NEW s, NEW a
    PROVE  DuesTo(d, s, a, {}) = 0
<1>1. HeldBy(a, {}) = {}
  BY DEF HeldBy
<1> QED BY <1>1, SumOfNone DEF DuesTo

Payable(d, s, D) == D \subseteq Pairs /\ \A pair \in D : Earned(d, s, pair) \in Int

\* One more delegation adds what is due on it to its delegator, ...
LEMMA DuesToOne ==
    ASSUME NEW d, NEW s, NEW D, Payable(d, s, D), NEW pair \in D
    PROVE  DuesTo(d, s, pair[1], D)
             = Dues(d, s)[pair] + DuesTo(d, s, pair[1], D \ {pair})
<1> DEFINE S == HeldBy(pair[1], D)
           F == Dues(d, s)
<1>1. pair \in S /\ S \ {pair} = HeldBy(pair[1], D \ {pair}) /\ S \in SUBSET Pairs
  BY DEF HeldBy, Payable
<1>2. IsFiniteSet(S)
  BY <1>1, FinitePairs
<1>3. \A one \in S : F[one] = Earned(d, s, one) \div Unit /\ F[one] \in Int
  <2> SUFFICES ASSUME NEW one \in S
               PROVE  F[one] = Earned(d, s, one) \div Unit /\ F[one] \in Int
    OBVIOUS
  <2>1. one \in Pairs /\ Earned(d, s, one) \in Int
    BY DEF HeldBy, Payable
  <2>2. F[one] = Earned(d, s, one) \div Unit
    BY <2>1 DEF Dues
  <2> QED BY <2>1, <2>2, WholeDue
<1> HIDE DEF S, F
<1>4. SumFunctionOnSet(F, S) = F[pair] + SumFunctionOnSet(F, S \ {pair})
  BY <1>1, <1>2, <1>3, SumSplit
<1> QED BY <1>1, <1>4 DEF DuesTo, S, F

\* ... and nothing to anybody else.
LEMMA DuesToOthers ==
    ASSUME NEW d, NEW s, NEW D, NEW pair, NEW a, a # pair[1]
    PROVE  DuesTo(d, s, a, D) = DuesTo(d, s, a, D \ {pair})
<1>1. HeldBy(a, D) = HeldBy(a, D \ {pair})
  BY DEF HeldBy
<1> QED BY <1>1 DEF DuesTo

LEMMA DuesToType ==
    ASSUME NEW d, NEW s, NEW D, Payable(d, s, D), NEW a
    PROVE  DuesTo(d, s, a, D) \in Int
<1> DEFINE S == HeldBy(a, D)
           F == Dues(d, s)
<1>1. IsFiniteSet(S)
  BY FinitePairs DEF HeldBy, Payable
<1>2. \A one \in S : F[one] \in Int
  <2> SUFFICES ASSUME NEW one \in S PROVE F[one] \in Int
    OBVIOUS
  <2>1. one \in Pairs /\ Earned(d, s, one) \in Int
    BY DEF HeldBy, Payable
  <2>2. F[one] = Earned(d, s, one) \div Unit
    BY <2>1 DEF Dues
  <2> QED BY <2>1, <2>2, WholeDue
<1> HIDE DEF S, F
<1>3. SumFunctionOnSet(F, S) \in Int
  BY <1>1, <1>2, SumType
<1> QED BY <1>3 DEF DuesTo, S, F

\* What is due on a delegation of a sound state is a number.
LEMMA EarnedType ==
    ASSUME NEW d, DistOK(d), NEW s, StakOK(s), NEW pair \in Pairs, d.start[pair] # NoInfo
    PROVE  Earned(d, s, pair) \in Int
<1>1. /\ Claim(d, pair) \in Int /\ d.start[pair].stake \in Nat /\ pair[2] \in Validators
  BY ClaimType
<1>2. Growth(d, s, pair[2]) \in Nat
  BY <1>1, GrowthType
<1>3. d.start[pair].stake * Growth(d, s, pair[2]) \in Nat
  BY <1>1, <1>2, Distributes
<1> QED BY <1>1, <1>3 DEF Earned

\* Owed, as PaidInFull has it, is what is due in the committed state.
LEMMA OwedIsEarned ==
    ASSUME DistOK(snap.dist), StakOK(snap.stak), NEW pair \in Pairs,
           snap.dist.start[pair] # NoInfo
    PROVE  Owed(pair) = Earned(snap.dist, snap.stak, pair)
<1> DEFINE d == snap.dist
           v == pair[2]
           k == d.start[pair].stake
           x == Ratio(d, v, Closed(d, v))
           y == Ratio(d, v, d.start[pair].period)
           open == Growth(d, snap.stak, v)
<1>1. k \in Nat /\ x \in Nat /\ y \in Nat /\ v \in Validators
  BY ClaimType
<1>2. open \in Nat
  BY <1>1, GrowthType
<1>3. Owed(pair) = k * (x + open - y)
  BY Zenon DEF Owed, Ratio, Closed, Growth
<1>4. Earned(d, snap.stak, pair) = k * (x - y) + k * open
  BY Zenon DEF Earned, Claim
<1> HIDE DEF d, v, k, x, y, open
<1>5. k * (x - y) + k * open = k * ((x - y) + open)
  BY <1>1, <1>2, Distributes
<1>6. (x - y) + open = x + open - y
  BY <1>1, <1>2
<1> QED BY <1>3, <1>4, <1>5, <1>6 DEF d

\* When nothing is paid and nothing visited, nothing changes.
LEMMA PayingStays ==
    ASSUME PaymentsInv, forZero' = forZero, pc \notin {"idle", "block", "panicked"},
           snap' = snap, stak'.shares = stak.shares, dist'.paid = dist.paid,
           pc' \in {"allowList", "commission", "rewards"} => dist' = dist /\ stak' = stak,
           pc' \in {"allowList", "commission"} => pc \in {"allowList", "commission"},
           pc' = "rewards" => pc \in {"allowList", "commission", "rewards"},
           PaidDelegations' = PaidDelegations,
           \A v \in Validators : snap.dist.comm[v] = 0 \/ (v \in PaidValidators' <=> v \in PaidValidators),
           PaidValidators \subseteq PaidValidators' \/ pc' \notin {"allowList", "commission"}
    PROVE  PaymentsInv'
<1> SUFFICES ASSUME forZero, Paying PROVE Paying'
  BY DEF PaymentsInv
<1>1. Delegations(stak') = Delegations(stak)
  BY DEF Delegations
<1>2. ASSUME NEW a \in Accounts
      PROVE  CommissionTo(snap.dist, a, PaidValidators')
               = CommissionTo(snap.dist, a, PaidValidators)
  <2>1. PaidValidators \subseteq Validators /\ PaidValidators' \subseteq Validators
    BY DEF PaidValidators
  <2>2. 0 \div Unit = 0
    BY UnitAssumption
  <2> QED BY <2>1, <2>2 DEF CommissionTo
<1>3. \A a \in Accounts :
        dist'.paid[a] = snap'.dist.paid[a] + CommissionTo(snap'.dist, a, PaidValidators')
                          + DuesTo(snap'.dist, snap'.stak, a, PaidDelegations')
  BY <1>2 DEF Paying
<1>4. pc' \in {"allowList", "commission"} =>
        \A v \in Validators \ PaidValidators' : dist'.comm[v] = snap'.dist.comm[v]
  BY DEF Paying
<1>5. pc' \in {"allowList", "commission", "rewards"} =>
        \A pair \in Delegations(stak') \ PaidDelegations' :
          Earned(dist', stak', pair) = Earned(snap'.dist, snap'.stak, pair)
  BY <1>1 DEF Paying
<1>6. \A pair \in Delegations(stak') :
        snap'.dist.start[pair] # NoInfo /\ Earned(snap'.dist, snap'.stak, pair) \in Int
  BY <1>1 DEF Paying
<1> QED BY <1>3, <1>4, <1>5, <1>6 DEF Paying

LEMMA PayingStart ==
    ASSUME SolvencyInv, NEW zero \in BOOLEAN, NEW list, StartExport(zero, list)
    PROVE  PaymentsInv'
<1>1. /\ pc = "idle" /\ dist' = dist /\ stak' = stak /\ forZero' = zero
      /\ snap' = [dist |-> dist, stak |-> stak]
      /\ pc' = IF zero THEN "allowList" ELSE "collect"
  BY DEF StartExport
<1> SUFFICES ASSUME zero PROVE Paying'
  BY <1>1 DEF PaymentsInv
<1>2. PaidValidators' = {} /\ PaidDelegations' = {} /\ snap'.dist = dist /\ snap'.stak = stak
  BY <1>1 DEF PaidValidators, PaidDelegations
<1>3. /\ DistOK(dist) /\ StakOK(stak)
      /\ \A pair \in Delegations(stak) : pair \in Pairs /\ dist.start[pair] # NoInfo
  <2>1. DistOK(dist) /\ StakOK(stak) /\ LiveValidators = stak.vals
        /\ LiveDelegations = Delegations(stak)
    BY <1>1 DEF SolvencyInv, CountInv, TypeOK, LiveValidators, LiveDelegations
  <2> QED BY <2>1 DEF SolvencyInv, Sound, Counted, Delegations
<1>4. \A pair \in Delegations(stak) : Earned(dist, stak, pair) \in Int
  BY <1>3, EarnedType
<1>5. \A a \in Accounts : dist.paid[a] \in Nat
  BY <1>3 DEF DistOK
<1>6. ASSUME NEW a \in Accounts
      PROVE  dist.paid[a] = dist.paid[a] + CommissionTo(dist, a, {}) + DuesTo(dist, stak, a, {})
  <2>1. CommissionTo(dist, a, {}) = 0 /\ DuesTo(dist, stak, a, {}) = 0
    BY DuesToNone DEF CommissionTo
  <2> QED BY <1>5, <2>1
<1> QED BY <1>1, <1>2, <1>3, <1>4, <1>6 DEF Paying

LEMMA PayingBetween ==
    ASSUME PaymentsInv, SolvencyInv,
           \/ ParseAllowList \/ GetAllDelegations \/ ClearHistory \/ StartDelegations
           \/ RestoreHeight \/ ResetRedelegations \/ ResetUnbondings \/ CloseIterator
           \/ ApplySetUpdates \/ CollectGenesis \/ \E v \in Validators : ResetValidator(v)
    PROVE  PaymentsInv'
<1>1. DistOK(dist) /\ StakOK(stak)
  BY DEF SolvencyInv, CountInv, TypeOK
<1>2. CASE pc' = "panicked"
  BY <1>2 DEF PaymentsInv
<1>3. CASE ParseAllowList /\ pc' # "panicked"
  <2>1. /\ pc = "allowList" /\ pc' = "commission" /\ todoV' = stak.vals
        /\ UNCHANGED <<dist, stak, snap, forZero>>
    BY <1>3 DEF ParseAllowList
  <2>2. PaidDelegations' = PaidDelegations /\ PaidValidators = {}
        /\ PaidValidators' = Validators \ stak.vals
    BY <2>1 DEF PaidDelegations, PaidValidators
  <2>3. forZero => \A v \in Validators \ stak.vals : snap.dist.comm[v] = 0
    <3>1. ChainSound
      BY <2>1, WholeSoundFrom
    <3>2. \A v \in Validators \ stak.vals : dist.comm[v] = 0
      BY <3>1 DEF ChainSound, Unowed
    <3> QED BY <2>1, <2>2, <3>2 DEF PaymentsInv, Paying
  <2>4. CASE forZero
    BY <2>1, <2>2, <2>3, <2>4, PayingStays
  <2> QED BY <2>1, <2>4 DEF PaymentsInv
<1>4. CASE GetAllDelegations
  <2>1. /\ pc = "commission" /\ pc' = "rewards" /\ todoV = {} /\ todoD' = Delegations(stak)
        /\ UNCHANGED <<dist, stak, snap, forZero>>
    BY <1>4 DEF GetAllDelegations
  <2>2. PaidDelegations' = PaidDelegations /\ PaidValidators = Validators
        /\ PaidValidators' = Validators
    BY <2>1 DEF PaidDelegations, PaidValidators
  <2> QED BY <2>1, <2>2, PayingStays
<1>5. CASE ClearHistory
  <2>1. /\ pc = "rewards" /\ pc' = "validators" /\ todoD = {} /\ dist'.paid = dist.paid
        /\ UNCHANGED <<stak, snap, forZero>>
    BY <1>1, <1>5 DEF ClearHistory, DistOK
  <2>2. PaidDelegations' = PaidDelegations /\ PaidValidators' = PaidValidators
    BY <2>1 DEF PaidDelegations, PaidValidators
  <2> QED BY <2>1, <2>2, PayingStays
<1> DEFINE Late == {"validators", "delegations", "redelegations", "unbondings",
                    "bondHeights", "apply", "collect", "done"}
<1>6. ASSUME pc \in Late, pc' \in Late, UNCHANGED <<dist, snap, forZero>>,
             stak'.shares = stak.shares
      PROVE  PaymentsInv'
  <2>1. PaidDelegations' = PaidDelegations /\ PaidValidators' = PaidValidators
    BY <1>6 DEF PaidDelegations, PaidValidators, Delegations
  <2> QED BY <1>6, <2>1, PayingStays
<1>7. CASE StartDelegations \/ RestoreHeight \/ CloseIterator \/ CollectGenesis
  BY <1>6, <1>7 DEF StartDelegations, RestoreHeight, CloseIterator, CollectGenesis, exportVars
<1>8. CASE ResetRedelegations \/ ResetUnbondings
  BY <1>1, <1>6, <1>8 DEF ResetRedelegations, ResetUnbondings, StakOK
<1>9. CASE \E v \in Validators : ResetValidator(v)
  BY <1>1, <1>6, <1>9 DEF ResetValidator, StakOK
<1>10. CASE ApplySetUpdates /\ pc' # "panicked"
  <2>1. /\ pc = "apply" /\ pc' = "collect" /\ UNCHANGED <<dist, snap, forZero>>
        /\ stak' = ApplyValidatorSetUpdates(stak, ctx)
    BY <1>10 DEF ApplySetUpdates, exportVars
  <2>2. stak'.shares = stak.shares
    BY <1>1, <2>1, SetUpdatesFields
  <2> QED BY <1>6, <2>1, <2>2
<1> QED BY <1>2, <1>3, <1>4, <1>5, <1>7, <1>8, <1>9, <1>10

LEMMA PayingCommission ==
    ASSUME PaymentsInv, SolvencyInv, SolvencyInv', NEW v \in Validators, WithdrawCommission(v)
    PROVE  PaymentsInv'
<1>1. /\ pc = "commission" /\ pc' = "commission" /\ v \in todoV /\ todoV' = todoV \ {v}
      /\ UNCHANGED <<stak, snap, forZero>>
      /\ dist' = WithdrawValidatorCommission(dist, v)
  BY NeverPanics DEF WithdrawCommission, NextV
<1>2. ChainSound /\ forZero /\ Paying
  BY <1>1, WholeSoundFrom DEF SolvencyInv, Prepares, PaymentsInv
<1>3. /\ DistOK(dist) /\ Unowed(dist, stak.vals) /\ todoV \subseteq Validators
      /\ Sound(dist, stak, stak.vals, Delegations(stak), height) /\ Funded(dist)
      /\ Delegations(stak) \in SUBSET Pairs /\ stak.vals \in SUBSET Validators
  BY <1>2 DEF ChainSound, SolvencyInv, CountInv, TypeOK
<1>4. /\ PaidDelegations = {} /\ PaidDelegations' = {}
      /\ PaidValidators = Validators \ todoV /\ PaidValidators' = PaidValidators \cup {v}
      /\ v \in Validators \ PaidValidators
  BY <1>1, <1>3 DEF PaidDelegations, PaidValidators
<1>5. dist.comm[v] = snap.dist.comm[v] /\ dist.comm[v] \in Nat /\ v \in Accounts
      /\ dist.paid \in [Accounts -> Nat] /\ DOMAIN dist.comm = Validators
  BY <1>1, <1>2, <1>3, <1>4, FiniteAddresses DEF Paying, DistOK
<1>6. /\ dist'.paid = [dist.paid EXCEPT ![v] = @ + (dist.comm[v] \div Unit)]
      /\ \A w \in Validators : w # v => dist'.comm[w] = dist.comm[w]
      /\ \A pair : Earned(dist', stak, pair) = Earned(dist, stak, pair)
  <2>1. CASE v \in stak.vals
    <3> DEFINE D == Delegations(stak)
    <3> HIDE DEF D
    <3>1. Commissioned(dist, stak, dist', stak.vals, D, v, height)
      BY <1>1, <1>3, <2>1, CommissionSound DEF D
    <3> QED BY <1>5, <3>1 DEF Commissioned
  <2>2. CASE v \notin stak.vals
    <3>1. dist.comm[v] = 0
      BY <1>3, <2>2 DEF Unowed
    <3>2. dist' = dist
      BY <1>1, <3>1 DEF WithdrawValidatorCommission
    <3>3. dist.comm[v] \div Unit = 0
      BY <3>1, UnitAssumption
    <3>4. dist.paid = [dist.paid EXCEPT ![v] = @ + 0]
      BY <1>5
    <3> QED BY <3>2, <3>3, <3>4
  <2> QED BY <2>1, <2>2
<1>7. ASSUME NEW a \in Accounts
      PROVE  dist'.paid[a] = snap.dist.paid[a] + CommissionTo(snap.dist, a, PaidValidators')
                               + DuesTo(snap.dist, snap.stak, a, {})
  <2> DEFINE x == snap.dist.paid[a]
             y == CommissionTo(snap.dist, a, PaidValidators)
             z == DuesTo(snap.dist, snap.stak, a, {})
  <2>1. dist.paid[a] = x + y + z
    BY <1>2, <1>4 DEF Paying
  <2>2. z = 0
    BY DuesToNone
  <2>3. x \in Nat
    BY DEF SolvencyInv, CountInv, TypeOK, DistOK
  <2>4. CASE a = v
    <3>1. y = 0 /\ CommissionTo(snap.dist, a, PaidValidators') = dist.comm[v] \div Unit
      BY <1>4, <1>5, <2>4 DEF CommissionTo
    <3>2. dist'.paid[a] = dist.paid[a] + (dist.comm[v] \div Unit)
      BY <1>5, <1>6, <2>4
    <3>3. dist.comm[v] \div Unit \in Nat
      BY <1>5, WholeCoins
    <3> HIDE DEF x, y, z
    <3> QED BY <2>1, <2>2, <2>3, <3>1, <3>2, <3>3 DEF x, z
  <2>5. CASE a # v
    <3>1. CommissionTo(snap.dist, a, PaidValidators') = y
      BY <1>4, <2>5 DEF CommissionTo
    <3>2. dist'.paid[a] = dist.paid[a]
      BY <1>5, <1>6, <2>5
    <3> QED BY <2>1, <3>1, <3>2
  <2> QED BY <2>4, <2>5
<1>8. \A w \in Validators \ PaidValidators' : dist'.comm[w] = snap.dist.comm[w]
  BY <1>1, <1>2, <1>4, <1>6 DEF Paying
<1>9. \A pair \in Delegations(stak) : Earned(dist', stak, pair) = Earned(snap.dist, snap.stak, pair)
  BY <1>1, <1>2, <1>4, <1>6 DEF Paying
<1>10. Paying'
  BY <1>1, <1>2, <1>4, <1>7, <1>8, <1>9 DEF Paying
<1> QED BY <1>10 DEF PaymentsInv

LEMMA PayingRewards ==
    ASSUME PaymentsInv, SolvencyInv, SolvencyInv', NEW pair \in Pairs, WithdrawRewards(pair)
    PROVE  PaymentsInv'
<1> DEFINE D == Delegations(stak)
           owed == Earned(snap.dist, snap.stak, pair) \div Unit
<1>1. /\ pc = "rewards" /\ pc' = "rewards" /\ pair \in todoD /\ todoD' = todoD \ {pair}
      /\ UNCHANGED <<stak, snap, forZero>>
      /\ pair[2] \in stak.vals => dist' = WithdrawDelegationRewards(dist, stak, pair, ctx)
  BY NeverPanics DEF WithdrawRewards, NextD
<1>2. ChainSound /\ ctx = height /\ forZero /\ Paying
  BY <1>1, WholeSoundFrom DEF SolvencyInv, Prepares, PaymentsInv
<1>3. /\ DistOK(dist) /\ StakOK(stak) /\ Backed(stak) /\ height \in Nat
      /\ Sound(dist, stak, stak.vals, D, height) /\ D \in SUBSET Pairs
      /\ Funded(dist) /\ stak.vals \in SUBSET Validators
  BY <1>2 DEF ChainSound
<1>4. pair \in D /\ pair[2] \in stak.vals /\ todoD \subseteq D
  BY <1>1, <1>2 DEF SolvencyInv, CountInv, LoopsSound, ChainSound, Hosted
<1>5. /\ PaidDelegations = D \ todoD /\ PaidDelegations' = PaidDelegations \cup {pair}
      /\ pair \notin PaidDelegations /\ PaidValidators = Validators
      /\ PaidValidators' = Validators /\ PaidDelegations' \in SUBSET Pairs
      /\ PaidDelegations' \subseteq D
  BY <1>1, <1>3, <1>4 DEF PaidDelegations, PaidValidators
<1> HIDE DEF D
<1>6. Withdrawn(dist, stak, dist', stak.vals, D, pair, height)
  BY <1>1, <1>2, <1>3, <1>4, WithdrawSound
<1>7. Earned(dist, stak, pair) = Earned(snap.dist, snap.stak, pair)
  BY <1>1, <1>2, <1>4, <1>5 DEF Paying, D
<1>8. /\ dist'.paid = [dist.paid EXCEPT ![pair[1]] = @ + owed]
      /\ \A other \in D \ {pair} : Earned(dist', stak, other) = Earned(dist, stak, other)
  BY <1>6, <1>7 DEF Withdrawn
<1>9. /\ dist.paid \in [Accounts -> Nat] /\ pair[1] \in Accounts
      /\ \A one \in D : Earned(snap.dist, snap.stak, one) \in Int
  BY <1>2, <1>3, PairOf DEF DistOK, Paying, D
<1>10. owed \in Int
  BY <1>4, <1>9, WholeDue
<1>11. ASSUME NEW a \in Accounts
       PROVE  dist'.paid[a] = snap.dist.paid[a] + CommissionTo(snap.dist, a, Validators)
                                + DuesTo(snap.dist, snap.stak, a, PaidDelegations')
  <2> DEFINE x == snap.dist.paid[a]
             y == CommissionTo(snap.dist, a, Validators)
             z == DuesTo(snap.dist, snap.stak, a, PaidDelegations)
             P == PaidDelegations'
             w == DuesTo(snap.dist, snap.stak, a, P)
  <2>1. dist.paid[a] = x + y + z
    BY <1>2, <1>5 DEF Paying
  <2>2. PaidDelegations' \ {pair} = PaidDelegations
    BY <1>5
  <2>3. /\ Payable(snap.dist, snap.stak, PaidDelegations')
        /\ Payable(snap.dist, snap.stak, PaidDelegations)
    BY <1>5, <1>9 DEF Payable
  <2>4. CASE a = pair[1]
    <3>1. w = owed + z
      <4>1. pair \in P /\ P \ {pair} = PaidDelegations /\ Payable(snap.dist, snap.stak, P)
        BY <1>5, <2>2, <2>3
      <4> HIDE DEF P
      <4>2. DuesTo(snap.dist, snap.stak, pair[1], P)
              = Dues(snap.dist, snap.stak)[pair]
                  + DuesTo(snap.dist, snap.stak, pair[1], P \ {pair})
        BY <4>1, DuesToOne
      <4>3. Dues(snap.dist, snap.stak)[pair] = owed
        BY DEF Dues
      <4> HIDE DEF owed
      <4> QED BY <2>4, <4>1, <4>2, <4>3
    <3>2. dist'.paid[a] = dist.paid[a] + owed
      BY <1>8, <1>9, <2>4
    <3>3. x \in Int /\ y \in Int /\ z \in Int
      <4>1. snap.dist.paid[a] \in Nat /\ (a \in Validators => snap.dist.comm[a] \in Nat)
        BY DEF SolvencyInv, CountInv, TypeOK, DistOK
      <4>2. y \in Int
        BY <4>1, WholeDue DEF CommissionTo
      <4>3. z \in Int
        BY <2>3, DuesToType
      <4> QED BY <4>1, <4>2, <4>3
    <3> HIDE DEF x, y, z, w, owed
    <3>4. dist'.paid[a] = x + y + w
      BY <1>10, <2>1, <3>1, <3>2, <3>3
    <3> QED BY <3>4 DEF x, y, w
  <2>5. CASE a # pair[1]
    <3>1. w = z
      BY <2>2, <2>5, DuesToOthers
    <3>2. dist'.paid[a] = dist.paid[a]
      BY <1>8, <1>9, <2>5
    <3> QED BY <2>1, <3>1, <3>2
  <2> QED BY <2>4, <2>5
<1>12. \A other \in D \ PaidDelegations' :
         Earned(dist', stak, other) = Earned(snap.dist, snap.stak, other)
  BY <1>1, <1>2, <1>5, <1>8 DEF Paying, D
<1>13. Paying'
  BY <1>1, <1>2, <1>5, <1>9, <1>11, <1>12 DEF Paying, D
<1> QED BY <1>13 DEF PaymentsInv

\* Rebuilding the history pays nobody.
LEMMA PayingRebuild ==
    ASSUME PaymentsInv, SolvencyInv, SolvencyInv',
           \/ \E v \in Validators : ReinitValidator(v)
           \/ \E pair \in Pairs : ReinitDelegation(pair)
    PROVE  PaymentsInv'
<1>1. CountInv'
  BY DEF SolvencyInv
<1> DEFINE Loops == {"validators", "delegations"}
<1>2. pc \in Loops /\ pc' \in Loops /\ dist'.paid = dist.paid /\ UNCHANGED <<stak, snap, forZero>>
  <2>1. ASSUME NEW v \in Validators, ReinitValidator(v)
        PROVE  /\ pc \in Loops /\ pc' \in Loops /\ dist'.paid = dist.paid
               /\ UNCHANGED <<stak, snap, forZero>>
    <3>1. /\ pc' = "validators"
          /\ Created(dist, stak, dist', stak.vals \ todoV, {}, v, 0)
      BY <1>1, <2>1, SolvencyValidator
    <3> QED BY <2>1, <3>1 DEF Created, ReinitValidator
  <2>2. ASSUME NEW pair \in Pairs, ReinitDelegation(pair)
        PROVE  /\ pc \in Loops /\ pc' \in Loops /\ dist'.paid = dist.paid
               /\ UNCHANGED <<stak, snap, forZero>>
    <3> DEFINE closed == IncrementValidatorPeriod(dist, stak, pair[2])
               D == Delegations(stak) \ todoD
    <3>1. /\ pc' = "delegations"
          /\ Advanced(dist, stak, closed, stak.vals, D, pair[2], 0)
          /\ Begun(closed, stak, dist', stak.vals, D, pair, 0)
      BY <1>1, <2>2, SolvencyDelegation
    <3> HIDE DEF closed, D
    <3>2. dist'.paid = dist.paid
      BY <3>1 DEF Advanced, Begun
    <3> QED BY <2>2, <3>1, <3>2 DEF ReinitDelegation
  <2> QED BY <2>1, <2>2
<1>3. PaidDelegations' = PaidDelegations /\ PaidValidators' = PaidValidators
  BY <1>2 DEF PaidDelegations, PaidValidators
<1> QED BY <1>2, <1>3, PayingStays

LEMMA PaymentsInit == Init => PaymentsInv
  BY DEF Init, ChainInit, PaymentsInv

LEMMA PaymentsNext ==
    ASSUME PaymentsInv, SolvencyInv, SolvencyInv', [Next]_vars
    PROVE  PaymentsInv'
<1>1. CASE UNCHANGED vars
  <2>1. PaidDelegations' = PaidDelegations /\ PaidValidators' = PaidValidators
    BY <1>1 DEF vars, PaidDelegations, PaidValidators
  <2> QED BY <1>1, <2>1 DEF vars, PaymentsInv, Paying
<1>2. CASE ChainNext
  <2>1. pc' = "block" \/ EndBlock
    <3>1. Deliver => pc' = "block"
      BY DEF Deliver
    <3>2. /\ \A pair, amount : MsgDelegate(pair, amount) => Deliver
          /\ \A pair, amount : MsgUndelegate(pair, amount) => Deliver
      BY DEF MsgDelegate, MsgUndelegate
    <3>3. /\ \A a, from, to, amount : MsgBeginRedelegate(a, from, to, amount) => Deliver
          /\ \A v, amount : MsgCreateValidator(v, amount) => Deliver
      BY DEF MsgBeginRedelegate, MsgCreateValidator
    <3>4. /\ \A pair : MsgWithdrawDelegatorReward(pair) => Deliver
          /\ \A v : MsgWithdrawValidatorCommission(v) => Deliver
      BY DEF MsgWithdrawDelegatorReward, MsgWithdrawValidatorCommission
    <3>5. BeginBlock => pc' = "block"
      BY DEF BeginBlock
    <3> QED BY <1>2, <3>1, <3>2, <3>3, <3>4, <3>5 DEF ChainNext
  <2>2. EndBlock => pc' = "idle"
    BY DEF EndBlock
  <2> QED BY <2>1, <2>2 DEF PaymentsInv
<1>3. CASE StartExport(FALSE, {}) \/ \E list \in AllowLists : StartExport(TRUE, list)
  BY <1>3, PayingStart
<1>4. CASE ExportStep
  BY <1>4, PayingBetween, PayingCommission, PayingRewards, PayingRebuild DEF ExportStep
<1> QED BY <1>1, <1>2, <1>3, <1>4 DEF Next

LEMMA PaymentsAlways == Spec => [](SolvencyInv /\ PaymentsInv)
<1>1. Init => SolvencyInv /\ PaymentsInv
  BY SolvencyInit, PaymentsInit
<1>2. SolvencyInv /\ PaymentsInv /\ [Next]_vars => (SolvencyInv /\ PaymentsInv)'
  BY SolvencyNext, PaymentsNext
<1> QED BY <1>1, <1>2, PTL DEF Spec

(***************************************************************************)
(* A zero-height export pays every account the whole coins of its          *)
(* commission and of the rewards of each of its delegations, and leaves    *)
(* nothing outstanding (export.go:76-109): whatever order the two loops    *)
(* visit the keys in, and however many delegations an account has.         *)
(***************************************************************************)
THEOREM PaysInFull == Spec => []PaidInFull
<1>1. SolvencyInv /\ PaymentsInv => PaidInFull
  <2> SUFFICES ASSUME SolvencyInv, PaymentsInv, pc = "done", forZero
               PROVE  PaidInFull
    BY DEF PaidInFull
  <2>1. /\ DistOK(dist) /\ DistOK(snap.dist) /\ StakOK(snap.stak) /\ StakOK(stak)
        /\ snap.stak.shares = stak.shares /\ Unowed(dist, Owing)
    BY DEF SolvencyInv, CountInv, TypeOK, LoopsSound
  <2>2. \A v \in Validators : dist.outst[v] = 0 /\ dist.comm[v] = 0 /\ dist.rew[v] = 0
    BY <2>1 DEF Owing, Rebuilt, Unowed
  <2>3. /\ Paying /\ PaidValidators = Validators /\ PaidDelegations = Delegations(stak)
        /\ Delegations(snap.stak) = Delegations(stak)
    BY <2>1 DEF PaymentsInv, PaidValidators, PaidDelegations, Delegations
  <2>4. ASSUME NEW a \in Accounts
        PROVE  dist.paid[a] - snap.dist.paid[a] =
                 SumFunction([pair \in {p \in Delegations(snap.stak) : p[1] = a} |->
                                 Owed(pair) \div Unit])
                   + (IF a \in Validators THEN snap.dist.comm[a] \div Unit ELSE 0)
    <3> DEFINE S == {p \in Delegations(snap.stak) : p[1] = a}
               f == [pair \in S |-> Owed(pair) \div Unit]
               F == Dues(snap.dist, snap.stak)
    <3>1. S = HeldBy(a, Delegations(stak)) /\ S \in SUBSET Pairs
      BY <2>3 DEF HeldBy, Delegations
    <3>2. \A pair \in S : f[pair] = F[pair]
      <4> SUFFICES ASSUME NEW pair \in S PROVE f[pair] = F[pair]
        OBVIOUS
      <4>1. pair \in Pairs /\ snap.dist.start[pair] # NoInfo
        BY <2>3, <3>1 DEF Paying
      <4>2. Owed(pair) = Earned(snap.dist, snap.stak, pair)
        BY <2>1, <4>1, OwedIsEarned
      <4> QED BY <4>1, <4>2 DEF Dues
    <3>3. SumFunction(f) = SumFunctionOnSet(F, S)
      <4>1. SumFunction(f) = SumFunctionOnSet(f, S)
        BY DEF SumFunction
      <4>2. IsFiniteSet(S)
        BY <3>1, FinitePairs
      <4> HIDE DEF S, f, F
      <4> QED BY <3>2, <4>1, <4>2, SumSame
    <3>4. SumFunction(f) = DuesTo(snap.dist, snap.stak, a, Delegations(stak))
      BY <3>1, <3>3 DEF DuesTo
    <3>5. dist.paid[a] = snap.dist.paid[a] + CommissionTo(snap.dist, a, Validators)
                           + DuesTo(snap.dist, snap.stak, a, Delegations(stak))
      BY <2>3 DEF Paying
    <3>6. DuesTo(snap.dist, snap.stak, a, Delegations(stak)) \in Int
      <4>1. Payable(snap.dist, snap.stak, Delegations(stak))
        BY <2>3 DEF Payable, Paying, Delegations
      <4> QED BY <4>1, DuesToType
    <3>7. snap.dist.paid[a] \in Nat /\ CommissionTo(snap.dist, a, Validators) \in Int
      <4>1. a \in Validators => snap.dist.comm[a] \in Nat
        BY <2>1 DEF DistOK
      <4> QED BY <2>1, <4>1, WholeDue DEF CommissionTo, DistOK
    <3> HIDE DEF f, S
    <3>8. dist.paid[a] - snap.dist.paid[a]
            = SumFunction(f) + CommissionTo(snap.dist, a, Validators)
      BY <3>4, <3>5, <3>6, <3>7
    <3> QED BY <3>8 DEF CommissionTo, f, S
  <2> QED BY <2>2, <2>4 DEF PaidInFull
<1> QED BY <1>1, PaymentsAlways, PTL
=============================================================================
