------------------------ MODULE MultiNodeTestnetProofs ------------------------
(***************************************************************************)
(* What holds of `mirrorvaultd multi-node' for every number of nodes, runs *)
(* and faults, every list of amounts and every list of ports.              *)
(***************************************************************************)
EXTENDS MultiNodeTestnet, FiniteSetTheorems, TLAPS

-----------------------------------------------------------------------------
(***************************************************************************)
(* The inductive invariant.                                                *)
(***************************************************************************)
On == {k \in Nodes : disk[k] # NoFile}

\* What every directory keeps to at all times, whichever run wrote it: no two
\* nodes share a node key or an account key, a gentx file is named after the id
\* of a node that is still there, and is alone under that name.
KeysInv ==
    /\ \A k, m \in On : disk[k].id = disk[m].id /\ disk[k].id # 0 => k = m
    /\ \A k, m \in On : disk[k].acc = disk[m].acc /\ disk[k].acc # 0 => k = m
    /\ \A k \in On : \A g \in disk[k].gentxs :
          /\ g.acc \in 1..keys
          /\ g.id # 0 /\ \E m \in On : disk[m].id = g.id
          /\ \A h \in disk[k].gentxs : h.id = g.id => h = g

\* No list of amounts with a negative number gets past RunCommand.
AmountsInv ==
    pc # "failed" => \A k \in DOMAIN Parsed(args.amounts) : Parsed(args.amounts)[k] >= 0

Started == pc \notin {"idle", "failed"}

FirstLoop == {"nodeDir", "nodeFiles", "account", "seed", "gentx", "appConfig"}

\* The nodes that in this run have got a node key, an account key, a saved seed,
\* a gentx and an app.toml.
Reached(steps) ==
    IF pc \notin FirstLoop THEN args.n ELSE IF pc \in steps THEN i + 1 ELSE i
UpTo(steps) == 0..(Reached(steps) - 1)
Named == UpTo({"account", "seed", "gentx", "appConfig"})
Keyed == UpTo({"seed", "gentx", "appConfig"})
Seeded == UpTo({"gentx", "appConfig"})
Signed == UpTo({"appConfig"})
Finished == UpTo({})

\* The loop variables stay in range while a node is worked at.
LoopInv ==
    /\ pc \in (FirstLoop \ {"nodeDir"}) \cup {"canonical"} => i < args.n
    /\ pc \in FirstLoop \ {"nodeDir"} => i \in On
    /\ j # 0 => pc \in {"copy", "failed"} /\ i < args.n /\ j < args.n

\* The first loop: the files of this run, and the account of no node that has a
\* new one signs anything but the node's gentx of this run.
FilesInv ==
    /\ \A k \in Named : k \in On /\ disk[k].id # 0
    /\ Len(peers) = Reached({"account", "seed", "gentx", "appConfig"})
    /\ \A k \in Named : peers[k + 1] = [id |-> disk[k].id, port |-> PeerPort(k)]
    /\ \A k \in Keyed : disk[k].acc # 0
    /\ \A k \in Seeded : disk[k].seed = disk[k].acc
    /\ funded = {disk[k].acc : k \in Seeded}
    /\ \A k \in Signed : OwnGentx(k) \in disk[k].gentxs
    /\ \A k \in On : \A g \in disk[k].gentxs : \A m \in Keyed :
          g.acc = disk[m].acc => m \in Signed /\ g = OwnGentx(m)
    /\ \A k \in Finished : disk[k].app = [grpc |-> GrpcPort(k), api |-> ApiPort(k)]

\* The genesis file of a node before and after its gentxs are collected.
Bare == [chain |-> runs, funded |-> funded, gentxs |-> {}]
Full == [chain |-> runs, funded |-> {disk[m].acc : m \in Members},
         gentxs |-> {OwnGentx(m) : m \in Members}]

ConfigOf(k) == [peers |-> peers, p2p |-> P2PPort(k), rpc |-> RpcPort(k),
                proxy |-> ProxyPort(k), prometheus |-> PrometheusPort(k)]

\* The three loops after it, node by node.
Copied(k, m) ==
    \/ pc = "copy" /\ (k < i \/ (k = i /\ m < j))
    \/ pc \in {"collect", "canonical", "done"}
Canonical(k) == pc = "done" \/ (pc \in {"collect", "canonical"} /\ k < i)
Collected(k) == Canonical(k) \/ (pc = "canonical" /\ k = i)
Saved(k) == pc \in {"copy", "collect", "canonical"} \/ (pc = "genesis" /\ k < i)

GenesisInv ==
    /\ \A k, m \in Members : Copied(k, m) => OwnGentx(m) \in disk[k].gentxs
    /\ \A k \in Members : Collected(k) => disk[k].genesis = Full
    /\ \A k \in Members : Saved(k) /\ ~ Collected(k) => disk[k].genesis = Bare
    /\ canon # NoFile => pc \in {"collect", "canonical", "done"} /\ canon = Full
    /\ \A k \in Members : Canonical(k) => disk[k].config = ConfigOf(k)

NetworkInv ==
    /\ TypeOK
    /\ KeysInv
    /\ AmountsInv
    /\ LoopInv
    /\ Started => FilesInv /\ GenesisInv
    /\ OnlySmallerRunsRefused

-----------------------------------------------------------------------------
(***************************************************************************)
(* Values.                                                                 *)
(***************************************************************************)
LEMMA ParsedInts ==
    ASSUME NEW amounts \in Seq(Int \cup {NotANumber})
    PROVE  \A k \in DOMAIN Parsed(amounts) : Parsed(amounts)[k] \in Int
<1> DEFINE numbers == {p \in DOMAIN amounts : amounts[p] # NotANumber}
           top(p) == Cardinality({q \in numbers : q < p})
<1> DEFINE F == [k \in {top(p) : p \in numbers} |->
                    amounts[CHOOSE p \in numbers : top(p) = k]]
<1>0. Parsed(amounts) = F
  BY Zenon DEF Parsed
<1> HIDE DEF top
<1> SUFFICES ASSUME NEW p \in numbers
             PROVE  amounts[CHOOSE q \in numbers : top(q) = top(p)] \in Int
  BY <1>0
<1>1. (CHOOSE q \in numbers : top(q) = top(p)) \in numbers
  <2> HIDE DEF numbers, top
  <2> QED OBVIOUS
<1>2. \A q \in numbers : amounts[q] \in Int
  OBVIOUS
<1> HIDE DEF numbers, top
<1> QED BY <1>1, <1>2

LEMMA Args ==
    ASSUME TypeOK
    PROVE  /\ args.n \in Sizes \cup {0} /\ args.n \in Nat
           /\ args.amounts \in Seq(Int \cup {NotANumber})
           /\ args.ports \in Seq(Int)
<1>1. args \in [n : Sizes \cup {0}, amounts : AmountLists \cup {<<>>},
               ports : PortLists \cup {<<>>}]
  BY DEF TypeOK
<1>2. /\ args.n \in Sizes \cup {0} /\ args.amounts \in AmountLists \cup {<<>>}
      /\ args.ports \in PortLists \cup {<<>>}
  BY <1>1
<1>3. <<>> \in Seq(Int \cup {NotANumber}) /\ <<>> \in Seq(Int)
  OBVIOUS
<1>4. args.n \in Nat
  <2>1. Sizes \cup {0} \subseteq Nat
    BY SizesAssumption
  <2> QED BY <1>2, <2>1
<1>5. AmountLists \subseteq Seq(Int \cup {NotANumber}) /\ PortLists \subseteq Seq(Int)
  BY ListsAssumption
<1>6. args.amounts \in Seq(Int \cup {NotANumber})
  BY <1>2, <1>3, <1>5
<1>7. args.ports \in Seq(Int)
  BY <1>2, <1>3, <1>5
<1> QED BY <1>2, <1>4, <1>6, <1>7

LEMMA StakeNat ==
    ASSUME TypeOK, AmountsInv, pc # "failed"
    PROVE  \A k : StakeOf(k) \in Nat
<1>1. args.amounts \in Seq(Int \cup {NotANumber})
  BY Args
<1>2. \A k \in DOMAIN Parsed(args.amounts) : Parsed(args.amounts)[k] \in Nat
  BY <1>1, ParsedInts DEF AmountsInv
<1> QED BY <1>2 DEF StakeOf, DefaultStake

LEMMA MembersAreNodes ==
    ASSUME TypeOK
    PROVE  args.n \in Nat /\ Members \subseteq Nodes /\ Members \subseteq Nat
<1>1. args.n \in Sizes \cup {0} /\ args.n \in Nat
  BY Args, SizesAssumption
<1>2. args.n # 0 => Members \in {0..(n - 1) : n \in Sizes}
  BY <1>1 DEF Members
<1> QED BY <1>1, <1>2 DEF Members, Nodes

LEMMA NodesAreNat == Nodes \subseteq Nat
  BY SizesAssumption DEF Nodes

LEMMA NodeFields ==
    ASSUME TypeOK, NEW k \in On
    PROVE  /\ k \in Nodes /\ disk[k] \in Node
           /\ disk[k].id \in 0..keys /\ disk[k].acc \in 0..keys /\ disk[k].seed \in 0..keys
           /\ disk[k].gentxs \subseteq Gentx
           /\ disk[k].genesis \in Genesis \cup {NoFile}
           /\ disk[k].app \in AppConfig \cup {NoFile}
           /\ disk[k].config \in Config \cup {NoFile}
<1>1. k \in Nodes /\ disk[k] # NoFile /\ disk[k] \in Node
  BY DEF On, TypeOK
<1>2. {disk[k].id, disk[k].acc, disk[k].seed} \subseteq 0..keys
  BY <1>1 DEF TypeOK
<1> QED BY <1>1, <1>2 DEF Node

LEMMA OwnIsGentx ==
    ASSUME TypeOK, AmountsInv, pc # "failed", NEW k \in On
    PROVE  OwnGentx(k) \in Gentx
<1>1. disk[k].id \in Nat /\ disk[k].acc \in Nat /\ StakeOf(k) \in Nat /\ runs \in Nat
  BY NodeFields, StakeNat, BoundsAssumption DEF TypeOK
<1> QED BY <1>1 DEF OwnGentx, Gentx

LEMMA OwnStays ==
    ASSUME args' = args, runs' = runs, NEW k,
           disk'[k].id = disk[k].id, disk'[k].acc = disk[k].acc
    PROVE  OwnGentx(k)' = OwnGentx(k)
  BY DEF OwnGentx, StakeOf

-----------------------------------------------------------------------------
(***************************************************************************)
(* Steps that change one directory, and parts no step of a kind disturbs.  *)
(***************************************************************************)
LEMMA DiskAt ==
    ASSUME TypeOK, NEW k \in Nodes, NEW d \in Node, disk' = [disk EXCEPT ![k] = d]
    PROVE  /\ disk' \in [Nodes -> Node \cup {NoFile}]
           /\ disk'[k] = d
           /\ \A m \in Nodes \ {k} : disk'[m] = disk[m]
           /\ On' = On \cup {k}
<1>1. disk \in [Nodes -> Node \cup {NoFile}]
  BY DEF TypeOK
<1>2. disk'[k] = d /\ disk'[k] # NoFile /\ \A m \in Nodes \ {k} : disk'[m] = disk[m]
  BY <1>1, NoFileAssumption
<1>3. disk' \in [Nodes -> Node \cup {NoFile}]
  BY <1>1
<1> QED BY <1>2, <1>3 DEF On

SameKeys ==
    /\ On' = On
    /\ \A k \in On : disk'[k].id = disk[k].id /\ disk'[k].acc = disk[k].acc
SameGentxs == \A k \in On : disk'[k].gentxs = disk[k].gentxs

LEMMA KeysStay ==
    ASSUME KeysInv, SameKeys, SameGentxs, keys' = keys
    PROVE  KeysInv'
<1>1. \A k, m \in On : disk'[k].id = disk'[m].id /\ disk'[k].id # 0 => k = m
  BY DEF KeysInv, SameKeys
<1>2. \A k, m \in On : disk'[k].acc = disk'[m].acc /\ disk'[k].acc # 0 => k = m
  BY DEF KeysInv, SameKeys
<1>3. \A k \in On : \A g \in disk'[k].gentxs :
          /\ g.acc \in 1..keys'
          /\ g.id # 0 /\ \E m \in On : disk'[m].id = g.id
          /\ \A h \in disk'[k].gentxs : h.id = g.id => h = g
  BY DEF KeysInv, SameKeys, SameGentxs
<1>4. On' = On
  BY DEF SameKeys
<1> QED BY <1>1, <1>2, <1>3, <1>4 DEF KeysInv

LEMMA NamedAreOn ==
    ASSUME TypeOK, LoopInv, NEW steps \in SUBSET FirstLoop, "nodeDir" \notin steps
    PROVE  Reached(steps) \in 0..args.n /\ UpTo(steps) \subseteq Members
<1>1. args.n \in Nat /\ i \in 0..args.n
  BY MembersAreNodes DEF TypeOK
<1> QED BY <1>1 DEF Reached, UpTo, Members, LoopInv

LEMMA AmountsStay ==
    ASSUME AmountsInv, args' = args, pc # "failed"
    PROVE  AmountsInv'
  BY DEF AmountsInv

LEMMA FilesStay ==
    ASSUME TypeOK, LoopInv, FilesInv, SameKeys, SameGentxs,
           \A k \in On : disk'[k].seed = disk[k].seed /\ disk'[k].app = disk[k].app,
           UNCHANGED <<args, runs, peers, funded>>,
           \A steps : "nodeDir" \notin steps => Reached(steps)' = Reached(steps)
    PROVE  FilesInv'
<1>1. /\ Named' = Named /\ Keyed' = Keyed /\ Seeded' = Seeded /\ Signed' = Signed
      /\ Finished' = Finished /\ On' = On
  BY DEF Named, Keyed, Seeded, Signed, Finished, UpTo, SameKeys
<1>2. /\ Keyed \subseteq Named /\ Seeded \subseteq Named /\ Signed \subseteq Named
      /\ Finished \subseteq Named /\ Named \subseteq On
  <2>1. Keyed \subseteq Named /\ Seeded \subseteq Named /\ Signed \subseteq Named
        /\ Finished \subseteq Named
    BY DEF Named, Keyed, Seeded, Signed, Finished, UpTo, Reached, TypeOK
  <2> QED BY <2>1 DEF FilesInv
<1>3. \A k \in On : OwnGentx(k)' = OwnGentx(k)
  BY OwnStays DEF SameKeys
<1>4. /\ \A k \in Named : k \in On /\ disk'[k].id # 0
      /\ \A k \in Named : peers'[k + 1] = [id |-> disk'[k].id, port |-> PeerPort(k)]
      /\ \A k \in Keyed : disk'[k].acc # 0
      /\ \A k \in Seeded : disk'[k].seed = disk'[k].acc
      /\ \A k \in Finished : disk'[k].app = [grpc |-> GrpcPort(k), api |-> ApiPort(k)]
  BY <1>2 DEF FilesInv, SameKeys
<1>5. funded' = {disk'[k].acc : k \in Seeded}
  BY <1>2 DEF FilesInv, SameKeys
<1>6. \A k \in Signed : OwnGentx(k)' \in disk'[k].gentxs
  BY <1>2, <1>3 DEF FilesInv, SameGentxs
<1>7. \A k \in On : \A g \in disk'[k].gentxs : \A m \in Keyed :
          g.acc = disk'[m].acc => m \in Signed /\ g = OwnGentx(m)'
  BY <1>2, <1>3 DEF FilesInv, SameGentxs, SameKeys
<1>8. Len(peers') = Reached({"account", "seed", "gentx", "appConfig"})'
  BY DEF FilesInv
<1> QED BY <1>1, <1>4, <1>5, <1>6, <1>7, <1>8 DEF FilesInv

\* Nothing is claimed of genesis files before the second loop.
LEMMA GenesisBefore ==
    ASSUME pc' \in FirstLoop \/ (pc' = "genesis" /\ i' = 0), canon' = NoFile,
           Members' \subseteq Nat
    PROVE  GenesisInv'
  BY DEF GenesisInv, Copied, Collected, Canonical, Saved, FirstLoop

-----------------------------------------------------------------------------
(***************************************************************************)
(* Steps that leave the directories alone, or remove them all.             *)
(***************************************************************************)
LEMMA InitNetwork == Init => NetworkInv
<1> SUFFICES ASSUME Init PROVE NetworkInv
  OBVIOUS
<1>1. Members = {} /\ On = {}
  BY DEF Init, Members, On
<1>2. TypeOK
  <2>1. args \in [n : Sizes \cup {0}, amounts : AmountLists \cup {<<>>},
                 ports : PortLists \cup {<<>>}]
    BY DEF Init
  <2>2. runs \in 0..MaxRuns /\ faults \in 0..MaxFaults
    BY BoundsAssumption DEF Init
  <2>3. args.n = 0 /\ i = 0 /\ j = 0 /\ peers = <<>> /\ keys = 0 /\ funded = {} /\ canon = NoFile
    BY DEF Init
  <2>4. disk \in [Nodes -> Node \cup {NoFile}] /\ \A k \in Nodes : disk[k] = NoFile
    BY DEF Init
  <2>5. pc \in PC /\ why \in {"none", "environment", "negative", "balance", "funds"}
    BY DEF Init, PC
  <2>6. peers \in Seq(Peer) /\ Len(peers) <= args.n
    BY <2>3
  <2> QED BY <2>1, <2>2, <2>3, <2>4, <2>5, <2>6 DEF TypeOK
<1>3. KeysInv /\ LoopInv /\ OnlySmallerRunsRefused
  BY <1>1 DEF KeysInv, LoopInv, OnlySmallerRunsRefused, FirstLoop, Init
<1>4. AmountsInv
  <2>1. args.amounts = <<>>
    BY DEF Init
  <2>2. DOMAIN Parsed(<<>>) = {}
    BY DEF Parsed
  <2> QED BY <2>1, <2>2 DEF AmountsInv
<1> QED BY <1>2, <1>3, <1>4 DEF NetworkInv, Started, Init

LEMMA RunCommandNetwork ==
    ASSUME NetworkInv, NEW n \in Sizes, NEW amounts \in AmountLists, NEW ports \in PortLists,
           RunCommand(n, amounts, ports)
    PROVE  NetworkInv'
<1>1. /\ disk' = disk /\ keys' = keys /\ faults' = faults /\ i' = 0 /\ j' = 0 /\ funded' = {}
      /\ peers' = <<>> /\ canon' = NoFile /\ runs' = runs + 1 /\ runs < MaxRuns
      /\ args' = [n |-> n, amounts |-> amounts, ports |-> ports]
  BY DEF RunCommand
<1>2. \/ /\ pc' = "failed" /\ why' = "negative"
      \/ /\ pc' = "nodeDir" /\ why' = "none"
         /\ \A k \in DOMAIN Parsed(amounts) : ~ (Parsed(amounts)[k] < 0)
  BY DEF RunCommand
<1>3. args'.n = n /\ args'.amounts = amounts /\ n \in Nat
  BY <1>1, SizesAssumption
<1>4. TypeOK'
  <2>1. args' \in [n : Sizes \cup {0}, amounts : AmountLists \cup {<<>>},
                 ports : PortLists \cup {<<>>}]
    BY <1>1
  <2>2. runs' \in 0..MaxRuns /\ i' \in 0..args'.n /\ j' \in 0..args'.n
    BY <1>1, <1>3, BoundsAssumption DEF TypeOK, NetworkInv
  <2>3. peers' \in Seq(Peer) /\ Len(peers') <= args'.n
    BY <1>1, <1>3
  <2>4. pc' \in PC /\ why' \in {"none", "environment", "negative", "balance", "funds"}
    BY <1>2 DEF PC
  <2> QED BY <1>1, <2>1, <2>2, <2>3, <2>4 DEF TypeOK, NetworkInv
<1>5. KeysInv'
  BY <1>1, KeysStay DEF SameKeys, SameGentxs, On, NetworkInv
<1>6. AmountsInv'
  <2>1. ASSUME pc' = "nodeDir", NEW k \in DOMAIN Parsed(amounts)
        PROVE  Parsed(amounts)[k] >= 0
    <3>1. Parsed(amounts)[k] \in Int
      BY ParsedInts, ListsAssumption
    <3> QED BY <2>1, <1>2, <3>1
  <2> QED BY <1>2, <1>3, <2>1 DEF AmountsInv
<1>7. LoopInv'
  BY <1>1, <1>2 DEF LoopInv, FirstLoop
<1>8. Started' => FilesInv' /\ GenesisInv'
  <2> SUFFICES ASSUME pc' = "nodeDir" PROVE FilesInv' /\ GenesisInv'
    BY <1>2 DEF Started
  <2>1. /\ Named' = {} /\ Keyed' = {} /\ Seeded' = {} /\ Signed' = {} /\ Finished' = {}
        /\ Reached({"account", "seed", "gentx", "appConfig"})' = 0
    BY <1>1 DEF Named, Keyed, Seeded, Signed, Finished, UpTo, Reached, FirstLoop
  <2>2. FilesInv'
    BY <1>1, <2>1 DEF FilesInv
  <2>3. Members' \subseteq Nat
    BY <1>3 DEF Members
  <2>4. GenesisInv'
    BY <1>1, <2>3, GenesisBefore DEF FirstLoop
  <2> QED BY <2>2, <2>4
<1>9. OnlySmallerRunsRefused'
  BY <1>2 DEF OnlySmallerRunsRefused
<1> QED BY <1>4, <1>5, <1>6, <1>7, <1>8, <1>9 DEF NetworkInv

LEMMA FailNetwork == ASSUME NetworkInv, Fail PROVE NetworkInv'
<1>1. /\ pc' = "failed" /\ why' = "environment" /\ faults' = faults + 1 /\ faults < MaxFaults
      /\ UNCHANGED <<runs, args, i, j, keys, funded, peers, canon, disk>>
  BY DEF Fail
<1>2. TypeOK'
  <2>1. faults' \in 0..MaxFaults /\ pc' \in PC
        /\ why' \in {"none", "environment", "negative", "balance", "funds"}
    BY <1>1, BoundsAssumption DEF TypeOK, NetworkInv, PC
  <2> QED BY <1>1, <2>1 DEF TypeOK, NetworkInv
<1>3. KeysInv'
  BY <1>1, KeysStay DEF SameKeys, SameGentxs, On, NetworkInv
<1>4. AmountsInv' /\ LoopInv' /\ ~ Started' /\ OnlySmallerRunsRefused'
  BY <1>1 DEF AmountsInv, LoopInv, Started, OnlySmallerRunsRefused, NetworkInv, FirstLoop
<1> QED BY <1>2, <1>3, <1>4 DEF NetworkInv

LEMMA FailRemovingNetwork == ASSUME NetworkInv, FailRemoving PROVE NetworkInv'
<1>1. /\ pc' = "failed" /\ why' = "environment" /\ faults' = faults + 1 /\ faults < MaxFaults
      /\ UNCHANGED <<runs, args, i, j, keys, funded, peers, canon>>
      /\ disk' = [k \in Nodes |-> NoFile]
  BY DEF FailRemoving
<1>2. TypeOK'
  <2>1. faults' \in 0..MaxFaults /\ pc' \in PC
        /\ why' \in {"none", "environment", "negative", "balance", "funds"}
    BY <1>1, BoundsAssumption DEF TypeOK, NetworkInv, PC
  <2>2. disk' \in [Nodes -> Node \cup {NoFile}] /\ \A k \in Nodes : disk'[k] = NoFile
    BY <1>1
  <2> QED BY <1>1, <2>1, <2>2 DEF TypeOK, NetworkInv
<1>3. On' = {}
  BY <1>1 DEF On
<1>4. KeysInv'
  BY <1>3 DEF KeysInv
<1>5. j # 0 => i < args.n /\ j < args.n
  BY DEF NetworkInv, LoopInv
<1>6. AmountsInv' /\ LoopInv' /\ ~ Started' /\ OnlySmallerRunsRefused'
  BY <1>1, <1>5 DEF AmountsInv, LoopInv, Started, OnlySmallerRunsRefused, FirstLoop
<1> QED BY <1>2, <1>4, <1>6 DEF NetworkInv

-----------------------------------------------------------------------------
(***************************************************************************)
(* The first loop.                                                         *)
(***************************************************************************)
LEMMA TypeStays ==
    ASSUME TypeOK, NEW k \in Nodes, NEW d \in Node, disk' = [disk EXCEPT ![k] = d],
           keys' \in Nat, keys <= keys', {d.id, d.acc, d.seed} \subseteq 0..keys',
           pc' \in PC, why' = why, UNCHANGED <<runs, faults, args>>,
           i' \in 0..args.n, j' \in 0..args.n, funded' \subseteq 1..keys',
           peers' \in Seq(Peer), Len(peers') <= args.n, canon' \in Genesis \cup {NoFile}
    PROVE  TypeOK'
<1>1. /\ disk' \in [Nodes -> Node \cup {NoFile}] /\ disk'[k] = d
      /\ \A m \in Nodes \ {k} : disk'[m] = disk[m]
  BY DiskAt
<1>2. \A m \in Nodes : disk'[m] # NoFile =>
          {disk'[m].id, disk'[m].acc, disk'[m].seed} \subseteq 0..keys'
  <2> SUFFICES ASSUME NEW m \in Nodes, disk'[m] # NoFile
               PROVE  {disk'[m].id, disk'[m].acc, disk'[m].seed} \subseteq 0..keys'
    OBVIOUS
  <2>1. CASE m = k
    BY <2>1, <1>1
  <2>2. CASE m # k
    <3>1. disk'[m] = disk[m] /\ keys \in Nat
      BY <1>1, <2>2 DEF TypeOK
    <3>2. {disk[m].id, disk[m].acc, disk[m].seed} \subseteq 0..keys
      BY <3>1 DEF TypeOK
    <3>3. 0..keys \subseteq 0..keys'
      BY <3>1
    <3> QED BY <3>1, <3>2, <3>3
  <2> QED BY <2>1, <2>2
<1> QED BY <1>1, <1>2 DEF TypeOK

LEMMA MakeNodeDirNetwork == ASSUME NetworkInv, MakeNodeDir PROVE NetworkInv'
<1> DEFINE d == IF disk[i] = NoFile THEN NewNode ELSE disk[i]
<1>1. /\ pc = "nodeDir" /\ pc' = "nodeFiles" /\ i < args.n /\ disk' = [disk EXCEPT ![i] = d]
      /\ UNCHANGED <<why, runs, faults, args, i, j, keys, funded, peers, canon>>
  BY DEF MakeNodeDir
<1>2. i \in Nodes /\ i \in Members /\ keys \in Nat /\ i \in Nat /\ args.n \in Nat
  BY <1>1, MembersAreNodes DEF NetworkInv, TypeOK, Members
<1>3. NewNode \in Node
  BY DEF NewNode, Node
<1>4. d \in Node /\ {d.id, d.acc, d.seed} \subseteq 0..keys
  <2>1. CASE disk[i] = NoFile
    BY <2>1, <1>2, <1>3 DEF NewNode
  <2>2. CASE disk[i] # NoFile
    BY <2>2, <1>2 DEF NetworkInv, TypeOK
  <2> QED BY <2>1, <2>2
<1>5. disk[i] # NoFile => d = disk[i]
  OBVIOUS
<1>6. disk[i] = NoFile => d.id = 0 /\ d.acc = 0 /\ d.gentxs = {}
  BY DEF NewNode
<1> HIDE DEF d
<1>7. TypeOK'
  BY <1>1, <1>2, <1>4, TypeStays DEF NetworkInv, TypeOK, PC
<1>8. /\ disk'[i] = d /\ \A m \in Nodes \ {i} : disk'[m] = disk[m]
      /\ On' = On \cup {i}
  BY <1>1, <1>2, <1>4, DiskAt DEF NetworkInv
<1>9. \A k \in On : disk'[k] = disk[k]
  BY <1>5, <1>8 DEF On
<1>10. \A k \in On' : k \in On \/ (disk'[k].id = 0 /\ disk'[k].acc = 0 /\ disk'[k].gentxs = {})
  BY <1>2, <1>6, <1>8 DEF On
<1>11. KeysInv'
  <2>1. KeysInv
    BY DEF NetworkInv
  <2>2. \A k, m \in On' : disk'[k].id = disk'[m].id /\ disk'[k].id # 0 => k = m
    BY <2>1, <1>9, <1>10 DEF KeysInv
  <2>3. \A k, m \in On' : disk'[k].acc = disk'[m].acc /\ disk'[k].acc # 0 => k = m
    BY <2>1, <1>9, <1>10 DEF KeysInv
  <2>4. \A k \in On' : \A g \in disk'[k].gentxs :
          /\ g.acc \in 1..keys'
          /\ g.id # 0 /\ \E m \in On' : disk'[m].id = g.id
          /\ \A h \in disk'[k].gentxs : h.id = g.id => h = g
    BY <2>1, <1>1, <1>8, <1>9, <1>10 DEF KeysInv
  <2> QED BY <2>2, <2>3, <2>4 DEF KeysInv
<1>12. AmountsInv' /\ OnlySmallerRunsRefused'
  BY <1>1, AmountsStay DEF NetworkInv, OnlySmallerRunsRefused
<1>13. LoopInv'
  BY <1>1, <1>8 DEF NetworkInv, LoopInv, FirstLoop
<1>14. FilesInv'
  <2>1. FilesInv
    BY <1>1 DEF NetworkInv, Started
  <2>2. /\ Named = 0..(i - 1) /\ Keyed = Named /\ Seeded = Named /\ Signed = Named /\ Finished = Named
        /\ Named' = Named /\ Keyed' = Named /\ Seeded' = Named /\ Signed' = Named /\ Finished' = Named
        /\ Reached({"account", "seed", "gentx", "appConfig"})'
             = Reached({"account", "seed", "gentx", "appConfig"})
    BY <1>1 DEF Named, Keyed, Seeded, Signed, Finished, UpTo, Reached, FirstLoop
  <2>3. \A k \in Named : k \in On /\ disk'[k] = disk[k] /\ OwnGentx(k)' = OwnGentx(k)
    BY <1>1, <1>9, <2>1, OwnStays DEF FilesInv
  <2>4. /\ \A k \in Named : k \in On' /\ disk'[k].id # 0
        /\ \A k \in Named : peers'[k + 1] = [id |-> disk'[k].id, port |-> PeerPort(k)]
        /\ \A k \in Named : disk'[k].acc # 0 /\ disk'[k].seed = disk'[k].acc
        /\ \A k \in Named : disk'[k].app = [grpc |-> GrpcPort(k), api |-> ApiPort(k)]
        /\ \A k \in Named : OwnGentx(k)' \in disk'[k].gentxs
    BY <1>1, <1>8, <2>1, <2>2, <2>3 DEF FilesInv
  <2>5. funded' = {disk'[k].acc : k \in Named}
    BY <1>1, <2>1, <2>2, <2>3 DEF FilesInv
  <2>6. \A k \in On' : \A g \in disk'[k].gentxs : \A m \in Named :
          g.acc = disk'[m].acc => m \in Named /\ g = OwnGentx(m)'
    BY <1>9, <1>10, <2>1, <2>2, <2>3 DEF FilesInv
  <2>7. Len(peers') = Reached({"account", "seed", "gentx", "appConfig"})'
    BY <1>1, <2>1, <2>2 DEF FilesInv
  <2> QED BY <2>2, <2>4, <2>5, <2>6, <2>7 DEF FilesInv
<1>15. GenesisInv'
  <2>1. canon' = NoFile
    BY <1>1 DEF NetworkInv, Started, GenesisInv
  <2> QED BY <1>1, <1>2, <2>1, GenesisBefore DEF FirstLoop, Members
<1> QED BY <1>7, <1>11, <1>12, <1>13, <1>14, <1>15 DEF NetworkInv

LEMMA InitializeNodeFilesNetwork == ASSUME NetworkInv, InitializeNodeFiles PROVE NetworkInv'
<1> DEFINE id == IF disk[i].id = 0 THEN keys + 1 ELSE disk[i].id
           d == [disk[i] EXCEPT !.id = id]
<1>1. /\ pc = "nodeFiles" /\ pc' = "account" /\ disk' = [disk EXCEPT ![i] = d]
      /\ keys' = IF disk[i].id = 0 THEN keys + 1 ELSE keys
      /\ peers' = Append(peers, [id |-> id, port |-> PeerPort(i)])
      /\ UNCHANGED <<why, runs, faults, args, i, j, funded, canon>>
  BY DEF InitializeNodeFiles
<1>2. /\ i \in On /\ i < args.n /\ i \in Nat /\ args.n \in Nat /\ keys \in Nat /\ i \in Members
      /\ Members \subseteq Nat
  BY <1>1, MembersAreNodes DEF NetworkInv, LoopInv, TypeOK, Members, FirstLoop
<1>3. /\ disk[i] \in Node /\ i \in Nodes
      /\ disk[i].id \in 0..keys /\ disk[i].acc \in 0..keys /\ disk[i].seed \in 0..keys
  BY <1>2, NodeFields DEF NetworkInv
<1>4. /\ id \in 1..keys' /\ keys' \in Nat /\ keys <= keys' /\ id \in Nat
      /\ disk[i].id # 0 => id = disk[i].id
      /\ disk[i].id = 0 => id = keys + 1
  BY <1>1, <1>2, <1>3
<1> HIDE DEF id
<1>5. /\ d \in Node /\ d.id = id /\ d.acc = disk[i].acc /\ d.seed = disk[i].seed
      /\ d.gentxs = disk[i].gentxs
  BY <1>3, <1>4 DEF Node
<1> HIDE DEF d
<1>6. FilesInv
  BY <1>1 DEF NetworkInv, Started
<1>7. /\ Named = 0..(i - 1) /\ Keyed = Named /\ Seeded = Named /\ Signed = Named /\ Finished = Named
      /\ Named' = 0..i /\ Keyed' = Named /\ Seeded' = Named /\ Signed' = Named /\ Finished' = Named
      /\ Reached({"account", "seed", "gentx", "appConfig"}) = i
      /\ Reached({"account", "seed", "gentx", "appConfig"})' = i + 1
  BY <1>1, <1>2 DEF Named, Keyed, Seeded, Signed, Finished, UpTo, Reached, FirstLoop
<1>8. TypeOK'
  <2>1. PeerPort(i) \in Int
    BY <1>2 DEF PeerPort
  <2>2. peers \in Seq(Peer) /\ [id |-> id, port |-> PeerPort(i)] \in Peer
    BY <1>4, <2>1 DEF NetworkInv, TypeOK, Peer
  <2>3. Len(peers) = i
    BY <1>6, <1>7 DEF FilesInv
  <2>4. peers' \in Seq(Peer) /\ Len(peers') = Len(peers) + 1
    BY <1>1, <2>2
  <2>5. Len(peers') <= args.n
    BY <1>2, <2>3, <2>4
  <2>6. {d.id, d.acc, d.seed} \subseteq 0..keys'
    BY <1>2, <1>3, <1>4, <1>5
  <2>7. funded' \subseteq 1..keys'
    <3>1. funded \subseteq 1..keys
      BY DEF NetworkInv, TypeOK
    <3> QED BY <1>1, <1>2, <1>4, <3>1
  <2> QED BY <1>1, <1>3, <1>4, <1>5, <2>4, <2>5, <2>6, <2>7, TypeStays
          DEF NetworkInv, TypeOK, PC
<1>9. /\ disk'[i] = d /\ \A m \in Nodes \ {i} : disk'[m] = disk[m]
      /\ On' = On
  <2>1. On' = On \cup {i}
    BY <1>1, <1>2, <1>3, <1>5, DiskAt DEF NetworkInv
  <2>2. On \cup {i} = On
    BY <1>2
  <2> QED BY <1>1, <1>3, <1>5, <2>1, <2>2, DiskAt DEF NetworkInv
<1>10. /\ \A k \in On : /\ disk'[k].acc = disk[k].acc /\ disk'[k].gentxs = disk[k].gentxs
                        /\ k # i => disk'[k] = disk[k]
                        /\ disk[k].id # 0 => disk'[k].id = disk[k].id
                        /\ disk[k].id \in 0..keys
  BY <1>4, <1>5, <1>9, NodeFields DEF On, NetworkInv
<1>11. KeysInv'
  <2>1. KeysInv
    BY DEF NetworkInv
  <2>2. \A k, m \in On : disk'[k].id = disk'[m].id /\ disk'[k].id # 0 => k = m
    <3>1. \A k \in On : disk'[k].id = disk[k].id \/ (k = i /\ disk'[k].id = keys + 1)
      BY <1>4, <1>5, <1>9, <1>10
    <3> QED BY <1>2, <2>1, <3>1, <1>10 DEF KeysInv
  <2>3. \A k, m \in On : disk'[k].acc = disk'[m].acc /\ disk'[k].acc # 0 => k = m
    BY <2>1, <1>10 DEF KeysInv
  <2>4. \A k \in On : \A g \in disk[k].gentxs : g.acc \in 1..keys'
    BY <2>1, <1>2, <1>4 DEF KeysInv
  <2>5. \A k \in On : \A g \in disk'[k].gentxs :
          /\ g.acc \in 1..keys'
          /\ g.id # 0 /\ \E m \in On : disk'[m].id = g.id
          /\ \A h \in disk'[k].gentxs : h.id = g.id => h = g
    BY <2>1, <2>4, <1>10 DEF KeysInv
  <2> QED BY <2>2, <2>3, <2>5, <1>9 DEF KeysInv
<1>12. AmountsInv' /\ OnlySmallerRunsRefused'
  BY <1>1, AmountsStay DEF NetworkInv, OnlySmallerRunsRefused
<1>13. LoopInv'
  BY <1>1, <1>9 DEF NetworkInv, LoopInv, FirstLoop
<1>14. FilesInv'
  <2>1. \A k \in Named : k \in On /\ k # i /\ disk'[k] = disk[k] /\ OwnGentx(k)' = OwnGentx(k)
    <3> SUFFICES ASSUME NEW k \in Named
                 PROVE  k \in On /\ k # i /\ disk'[k] = disk[k] /\ OwnGentx(k)' = OwnGentx(k)
      OBVIOUS
    <3>1. k \in On
      BY <1>6 DEF FilesInv
    <3>2. k # i
      BY <1>2, <1>7
    <3>3. disk'[k] = disk[k]
      BY <1>10, <3>1, <3>2
    <3> QED BY <1>1, <3>1, <3>2, <3>3, OwnStays
  <2>2. /\ \A k \in Named : peers[k + 1] = [id |-> disk[k].id, port |-> PeerPort(k)]
        /\ Len(peers) = i /\ peers \in Seq(Peer)
    BY <1>6, <1>7 DEF FilesInv, NetworkInv, TypeOK
  <2>3. /\ \A k \in 0..(i - 1) : peers'[k + 1] = peers[k + 1]
        /\ peers'[i + 1] = [id |-> id, port |-> PeerPort(i)]
        /\ Len(peers') = i + 1
    BY <1>1, <1>2, <2>2
  <2>4. \A k \in Named' : k \in Named \/ k = i
    BY <1>2, <1>7
  <2>5. \A k \in Named' : /\ k \in On' /\ disk'[k].id # 0
                          /\ peers'[k + 1] = [id |-> disk'[k].id, port |-> PeerPort(k)]
    BY <2>4, <2>1, <2>2, <2>3, <1>2, <1>4, <1>5, <1>6, <1>7, <1>9 DEF FilesInv
  <2>6. /\ \A k \in Named : disk'[k].acc # 0 /\ disk'[k].seed = disk'[k].acc
        /\ \A k \in Named : disk'[k].app = [grpc |-> GrpcPort(k), api |-> ApiPort(k)]
        /\ \A k \in Named : OwnGentx(k)' \in disk'[k].gentxs
    BY <1>6, <1>7, <2>1 DEF FilesInv
  <2>7. funded' = {disk'[k].acc : k \in Named}
    BY <1>1, <1>6, <1>7, <2>1 DEF FilesInv
  <2>8. \A k \in On : \A g \in disk'[k].gentxs : \A m \in Named :
          g.acc = disk'[m].acc => m \in Named /\ g = OwnGentx(m)'
    BY <1>6, <1>7, <1>10, <2>1 DEF FilesInv
  <2>9. Len(peers') = Reached({"account", "seed", "gentx", "appConfig"})'
    BY <1>7, <2>3
  <2>10. /\ \A k \in Named' : k \in On' /\ disk'[k].id # 0
         /\ \A k \in Named' : peers'[k + 1] = [id |-> disk'[k].id, port |-> PeerPort(k)]
    BY <2>5
  <2> QED BY <1>7, <1>9, <2>6, <2>7, <2>8, <2>9, <2>10 DEF FilesInv
<1>15. GenesisInv'
  <2>1. canon' = NoFile
    BY <1>1 DEF NetworkInv, Started, GenesisInv
  <2> QED BY <1>1, <1>2, <2>1, GenesisBefore DEF FirstLoop, Members
<1> QED BY <1>8, <1>11, <1>12, <1>13, <1>14, <1>15 DEF NetworkInv

LEMMA GenerateAccountNetwork == ASSUME NetworkInv, GenerateAccount PROVE NetworkInv'
<1> DEFINE d == [disk[i] EXCEPT !.acc = keys + 1]
<1>1. /\ pc = "account" /\ pc' = "seed" /\ disk' = [disk EXCEPT ![i] = d]
      /\ keys' = keys + 1
      /\ UNCHANGED <<why, runs, faults, args, i, j, funded, peers, canon>>
  BY DEF GenerateAccount
<1>2. /\ i \in On /\ i < args.n /\ i \in Nat /\ args.n \in Nat /\ keys \in Nat /\ i \in Members
      /\ Members \subseteq Nat
  BY <1>1, MembersAreNodes DEF NetworkInv, LoopInv, TypeOK, Members, FirstLoop
<1>3. /\ disk[i] \in Node /\ i \in Nodes
      /\ disk[i].id \in 0..keys /\ disk[i].acc \in 0..keys /\ disk[i].seed \in 0..keys
  BY <1>2, NodeFields DEF NetworkInv
<1>4. /\ d \in Node /\ d.id = disk[i].id /\ d.acc = keys + 1 /\ d.seed = disk[i].seed
      /\ d.gentxs = disk[i].gentxs
  BY <1>2, <1>3 DEF Node
<1> HIDE DEF d
<1>5. FilesInv
  BY <1>1 DEF NetworkInv, Started
<1>6. /\ Named = 0..i /\ Keyed = 0..(i - 1) /\ Seeded = Keyed /\ Signed = Keyed /\ Finished = Keyed
      /\ Named' = Named /\ Keyed' = 0..i /\ Seeded' = Keyed /\ Signed' = Keyed /\ Finished' = Keyed
      /\ Reached({"account", "seed", "gentx", "appConfig"})'
           = Reached({"account", "seed", "gentx", "appConfig"})
  BY <1>1, <1>2 DEF Named, Keyed, Seeded, Signed, Finished, UpTo, Reached, FirstLoop
<1>7. TypeOK'
  <2>1. {d.id, d.acc, d.seed} \subseteq 0..keys' /\ funded' \subseteq 1..keys'
        /\ keys' \in Nat /\ keys <= keys'
    BY <1>1, <1>2, <1>3, <1>4 DEF NetworkInv, TypeOK
  <2> QED BY <1>1, <1>3, <1>4, <2>1, TypeStays DEF NetworkInv, TypeOK, PC
<1>8. /\ disk'[i] = d /\ \A m \in Nodes \ {i} : disk'[m] = disk[m]
      /\ On' = On
  <2>1. On' = On \cup {i}
    BY <1>1, <1>2, <1>3, <1>4, DiskAt DEF NetworkInv
  <2>2. On \cup {i} = On
    BY <1>2
  <2> QED BY <1>1, <1>3, <1>4, <2>1, <2>2, DiskAt DEF NetworkInv
<1>9. /\ \A k \in On : /\ disk'[k].id = disk[k].id /\ disk'[k].gentxs = disk[k].gentxs
                       /\ k # i => disk'[k] = disk[k]
                       /\ disk[k].acc \in 0..keys
  BY <1>4, <1>8, NodeFields DEF On, NetworkInv
<1>10. \A k \in On : \A g \in disk[k].gentxs : g.acc \in 1..keys
  BY DEF NetworkInv, KeysInv
<1>11. KeysInv'
  <2>1. KeysInv
    BY DEF NetworkInv
  <2>2. \A k, m \in On : disk'[k].acc = disk'[m].acc /\ disk'[k].acc # 0 => k = m
    <3>1. \A k \in On : disk'[k].acc = IF k = i THEN keys + 1 ELSE disk[k].acc
      BY <1>4, <1>8, <1>9
    <3> QED BY <1>2, <2>1, <3>1, <1>9 DEF KeysInv
  <2>3. \A k, m \in On : disk'[k].id = disk'[m].id /\ disk'[k].id # 0 => k = m
    BY <2>1, <1>9 DEF KeysInv
  <2>4. \A k \in On : \A g \in disk[k].gentxs : g.acc \in 1..keys'
    BY <1>1, <1>2, <1>10
  <2>5. \A k \in On : \A g \in disk'[k].gentxs :
          /\ g.acc \in 1..keys'
          /\ g.id # 0 /\ \E m \in On : disk'[m].id = g.id
          /\ \A h \in disk'[k].gentxs : h.id = g.id => h = g
    BY <2>1, <2>4, <1>9 DEF KeysInv
  <2> QED BY <2>2, <2>3, <2>5, <1>8 DEF KeysInv
<1>12. AmountsInv' /\ OnlySmallerRunsRefused'
  BY <1>1, AmountsStay DEF NetworkInv, OnlySmallerRunsRefused
<1>13. LoopInv'
  BY <1>1, <1>8 DEF NetworkInv, LoopInv, FirstLoop
<1>14. FilesInv'
  <2>1. \A k \in Keyed : k \in On /\ k # i /\ disk'[k] = disk[k] /\ OwnGentx(k)' = OwnGentx(k)
    <3>1. \A k \in Keyed : k \in Named /\ k # i
      BY <1>2, <1>6
    <3> QED BY <1>1, <1>5, <1>9, <3>1, OwnStays DEF FilesInv
  <2>2. \A k \in Named : k \in On /\ disk'[k].id # 0
                         /\ peers'[k + 1] = [id |-> disk'[k].id, port |-> PeerPort(k)]
    BY <1>1, <1>5, <1>9 DEF FilesInv
  <2>3. \A k \in Keyed' : k \in Keyed \/ k = i
    BY <1>2, <1>6
  <2>4. \A k \in Keyed' : disk'[k].acc # 0
    BY <1>2, <1>4, <1>5, <1>8, <2>1, <2>3 DEF FilesInv
  <2>5. /\ \A k \in Keyed : disk'[k].seed = disk'[k].acc
        /\ \A k \in Keyed : disk'[k].app = [grpc |-> GrpcPort(k), api |-> ApiPort(k)]
        /\ \A k \in Keyed : OwnGentx(k)' \in disk'[k].gentxs
    BY <1>5, <1>6, <2>1 DEF FilesInv
  <2>6. funded' = {disk'[k].acc : k \in Keyed}
    BY <1>1, <1>5, <1>6, <2>1 DEF FilesInv
  <2>7. \A k \in On : \A g \in disk'[k].gentxs : \A m \in Keyed' :
          g.acc = disk'[m].acc => m \in Keyed /\ g = OwnGentx(m)'
    <3> SUFFICES ASSUME NEW k \in On, NEW g \in disk[k].gentxs, NEW m \in Keyed',
                        g.acc = disk'[m].acc
                 PROVE  m \in Keyed /\ g = OwnGentx(m)'
      BY <1>9
    <3>1. m # i
      BY <1>2, <1>4, <1>8, <1>10
    <3>2. m \in Keyed /\ g.acc = disk[m].acc
      BY <2>1, <2>3, <3>1
    <3>3. g = OwnGentx(m)
      BY <1>5, <3>2 DEF FilesInv
    <3> QED BY <2>1, <3>2, <3>3
  <2>8. Len(peers') = Reached({"account", "seed", "gentx", "appConfig"})'
    BY <1>1, <1>5, <1>6 DEF FilesInv
  <2>9. /\ \A k \in Named' : k \in On' /\ disk'[k].id # 0
        /\ \A k \in Named' : peers'[k + 1] = [id |-> disk'[k].id, port |-> PeerPort(k)]
        /\ \A k \in Keyed' : disk'[k].acc # 0
    BY <1>6, <1>8, <2>2, <2>4
  <2>10. /\ \A k \in Seeded' : disk'[k].seed = disk'[k].acc
         /\ funded' = {disk'[k].acc : k \in Seeded'}
    BY <1>6, <2>5, <2>6
  <2>11. /\ \A k \in Signed' : OwnGentx(k)' \in disk'[k].gentxs
         /\ \A k \in Finished' : disk'[k].app = [grpc |-> GrpcPort(k), api |-> ApiPort(k)]
    BY <1>6, <2>5
  <2>12. \A k \in On' : \A g \in disk'[k].gentxs : \A m \in Keyed' :
            g.acc = disk'[m].acc => m \in Signed' /\ g = OwnGentx(m)'
    BY <1>6, <1>8, <2>7
  <2> QED BY <2>8, <2>9, <2>10, <2>11, <2>12 DEF FilesInv
<1>15. GenesisInv'
  <2>1. canon' = NoFile
    BY <1>1 DEF NetworkInv, Started, GenesisInv
  <2> QED BY <1>1, <1>2, <2>1, GenesisBefore DEF FirstLoop, Members
<1> QED BY <1>7, <1>11, <1>12, <1>13, <1>14, <1>15 DEF NetworkInv

LEMMA WriteSeedNetwork == ASSUME NetworkInv, WriteSeed PROVE NetworkInv'
<1> DEFINE d == [disk[i] EXCEPT !.seed = disk[i].acc]
<1>1. /\ pc = "seed" /\ pc' = "gentx" /\ disk' = [disk EXCEPT ![i] = d]
      /\ funded' = funded \cup {disk[i].acc}
      /\ UNCHANGED <<why, runs, faults, args, i, j, keys, peers, canon>>
  BY DEF WriteSeed
<1>2. /\ i \in On /\ i < args.n /\ i \in Nat /\ args.n \in Nat /\ keys \in Nat /\ i \in Members
      /\ Members \subseteq Nat
  BY <1>1, MembersAreNodes DEF NetworkInv, LoopInv, TypeOK, Members, FirstLoop
<1>3. /\ disk[i] \in Node /\ i \in Nodes
      /\ disk[i].id \in 0..keys /\ disk[i].acc \in 0..keys /\ disk[i].seed \in 0..keys
  BY <1>2, NodeFields DEF NetworkInv
<1>4. /\ d \in Node /\ d.id = disk[i].id /\ d.acc = disk[i].acc /\ d.seed = disk[i].acc
      /\ d.gentxs = disk[i].gentxs
  BY <1>2, <1>3 DEF Node
<1> HIDE DEF d
<1>5. FilesInv
  BY <1>1 DEF NetworkInv, Started
<1>6. /\ Named = 0..i /\ Keyed = Named /\ Seeded = 0..(i - 1) /\ Signed = Seeded /\ Finished = Seeded
      /\ Named' = Named /\ Keyed' = Named /\ Seeded' = Named /\ Signed' = Seeded /\ Finished' = Seeded
      /\ Reached({"account", "seed", "gentx", "appConfig"})'
           = Reached({"account", "seed", "gentx", "appConfig"})
  BY <1>1, <1>2 DEF Named, Keyed, Seeded, Signed, Finished, UpTo, Reached, FirstLoop
<1>7. disk[i].acc # 0
  <2>1. i \in Keyed
    BY <1>2, <1>6
  <2> QED BY <1>5, <2>1 DEF FilesInv
<1>8. TypeOK'
  <2>1. {d.id, d.acc, d.seed} \subseteq 0..keys' /\ keys' \in Nat /\ keys <= keys'
    BY <1>1, <1>2, <1>3, <1>4
  <2>2. funded \subseteq 1..keys /\ disk[i].acc \in 1..keys
    BY <1>2, <1>3, <1>7 DEF NetworkInv, TypeOK
  <2>3. funded' \subseteq 1..keys'
    BY <1>1, <2>2
  <2> QED BY <1>1, <1>3, <1>4, <2>1, <2>3, TypeStays DEF NetworkInv, TypeOK, PC
<1>9. /\ disk'[i] = d /\ \A m \in Nodes \ {i} : disk'[m] = disk[m]
      /\ On' = On
  <2>1. On' = On \cup {i}
    BY <1>1, <1>2, <1>3, <1>4, DiskAt DEF NetworkInv
  <2>2. On \cup {i} = On
    BY <1>2
  <2> QED BY <1>1, <1>3, <1>4, <2>1, <2>2, DiskAt DEF NetworkInv
<1>10. /\ \A k \in On : /\ disk'[k].id = disk[k].id /\ disk'[k].gentxs = disk[k].gentxs
                        /\ disk'[k].acc = disk[k].acc
                        /\ k # i => disk'[k] = disk[k]
  BY <1>4, <1>9 DEF On
<1>11. KeysInv'
  BY <1>1, <1>9, <1>10, KeysStay DEF NetworkInv, SameKeys, SameGentxs
<1>12. AmountsInv' /\ OnlySmallerRunsRefused'
  BY <1>1, AmountsStay DEF NetworkInv, OnlySmallerRunsRefused
<1>13. LoopInv'
  BY <1>1, <1>9 DEF NetworkInv, LoopInv, FirstLoop
<1>14. FilesInv'
  <2>1. \A k \in Named : k \in On /\ disk'[k].acc = disk[k].acc /\ disk'[k].id = disk[k].id
                         /\ OwnGentx(k)' = OwnGentx(k)
    BY <1>1, <1>5, <1>10, OwnStays DEF FilesInv
  <2>2. \A k \in Seeded : k \in Named /\ k # i /\ disk'[k] = disk[k]
    <3>1. \A k \in Seeded : k \in Named /\ k # i
      BY <1>2, <1>6
    <3> QED BY <1>10, <2>1, <3>1
  <2>3. \A k \in Named : k \in On /\ disk'[k].id # 0 /\ disk'[k].acc # 0
                         /\ peers'[k + 1] = [id |-> disk'[k].id, port |-> PeerPort(k)]
    BY <1>1, <1>5, <1>6, <2>1 DEF FilesInv
  <2>4. \A k \in Named : k \in Seeded \/ k = i
    BY <1>2, <1>6
  <2>5. \A k \in Named : disk'[k].seed = disk'[k].acc
    BY <1>4, <1>5, <1>9, <2>2, <2>4 DEF FilesInv
  <2>6. /\ \A k \in Seeded : disk'[k].app = [grpc |-> GrpcPort(k), api |-> ApiPort(k)]
        /\ \A k \in Seeded : OwnGentx(k)' \in disk'[k].gentxs
    BY <1>5, <1>6, <2>1, <2>2 DEF FilesInv
  <2>7. funded' = {disk'[k].acc : k \in Named}
    <3>1. funded = {disk[k].acc : k \in Seeded} /\ i \in Named
      BY <1>2, <1>5, <1>6 DEF FilesInv
    <3> QED BY <1>1, <2>1, <2>2, <2>4, <3>1
  <2>8. \A k \in On : \A g \in disk'[k].gentxs : \A m \in Named :
          g.acc = disk'[m].acc => m \in Seeded /\ g = OwnGentx(m)'
    BY <1>5, <1>6, <1>10, <2>1 DEF FilesInv
  <2>9. Len(peers') = Reached({"account", "seed", "gentx", "appConfig"})'
    BY <1>1, <1>5, <1>6 DEF FilesInv
  <2>10. /\ \A k \in Named' : k \in On' /\ disk'[k].id # 0
         /\ \A k \in Named' : peers'[k + 1] = [id |-> disk'[k].id, port |-> PeerPort(k)]
         /\ \A k \in Keyed' : disk'[k].acc # 0
    BY <1>6, <1>9, <2>3
  <2>11. /\ \A k \in Seeded' : disk'[k].seed = disk'[k].acc
         /\ funded' = {disk'[k].acc : k \in Seeded'}
    BY <1>6, <2>5, <2>7
  <2>12. /\ \A k \in Signed' : OwnGentx(k)' \in disk'[k].gentxs
         /\ \A k \in Finished' : disk'[k].app = [grpc |-> GrpcPort(k), api |-> ApiPort(k)]
    BY <1>6, <2>6
  <2>13. \A k \in On' : \A g \in disk'[k].gentxs : \A m \in Keyed' :
            g.acc = disk'[m].acc => m \in Signed' /\ g = OwnGentx(m)'
    BY <1>6, <1>9, <2>8
  <2> QED BY <2>9, <2>10, <2>11, <2>12, <2>13 DEF FilesInv
<1>15. GenesisInv'
  <2>1. canon' = NoFile
    BY <1>1 DEF NetworkInv, Started, GenesisInv
  <2> QED BY <1>1, <1>2, <2>1, GenesisBefore DEF FirstLoop, Members
<1> QED BY <1>8, <1>11, <1>12, <1>13, <1>14, <1>15 DEF NetworkInv

\* A directory stays in order when a gentx is put into it: the new one alone has
\* its id.
LEMMA PutIn ==
    ASSUME NEW gentxs, NEW g
    PROVE  /\ g \in Put(gentxs, g)
           /\ \A h \in Put(gentxs, g) : h = g \/ (h \in gentxs /\ h.id # g.id)
           /\ \A h \in gentxs : h.id # g.id => h \in Put(gentxs, g)
  BY DEF Put

\* Putting a gentx of a node that is there, signed by a key made before, into
\* any directory.
LEMMA KeysPut ==
    ASSUME KeysInv, SameKeys, keys' = keys, NEW n \in On, NEW g,
           g.acc \in 1..keys, g.id # 0, \E m \in On : disk[m].id = g.id,
           disk'[n].gentxs = Put(disk[n].gentxs, g),
           \A k \in On \ {n} : disk'[k].gentxs = disk[k].gentxs
    PROVE  KeysInv'
<1>1. On' = On /\ \A k \in On : disk'[k].id = disk[k].id /\ disk'[k].acc = disk[k].acc
  BY DEF SameKeys
<1>2. \A k, m \in On : disk'[k].id = disk'[m].id /\ disk'[k].id # 0 => k = m
  BY <1>1 DEF KeysInv
<1>3. \A k, m \in On : disk'[k].acc = disk'[m].acc /\ disk'[k].acc # 0 => k = m
  BY <1>1 DEF KeysInv
<1>4. ASSUME NEW k \in On, NEW h \in disk'[k].gentxs
      PROVE  /\ h.acc \in 1..keys'
             /\ h.id # 0 /\ \E m \in On : disk'[m].id = h.id
             /\ \A o \in disk'[k].gentxs : o.id = h.id => o = h
  <2>1. CASE k # n
    BY <1>1, <2>1 DEF KeysInv
  <2>2. CASE k = n
    <3>1. h = g \/ (h \in disk[n].gentxs /\ h.id # g.id)
      BY <2>2, PutIn
    <3>2. h.acc \in 1..keys' /\ h.id # 0 /\ \E m \in On : disk'[m].id = h.id
      BY <1>1, <3>1 DEF KeysInv
    <3>3. \A o \in disk'[k].gentxs : o = g \/ (o \in disk[n].gentxs /\ o.id # g.id)
      BY <2>2, PutIn
    <3>4. \A o \in disk'[k].gentxs : o.id = h.id => o = h
      BY <3>1, <3>3 DEF KeysInv
    <3> QED BY <3>2, <3>4
  <2> QED BY <2>1, <2>2
<1> QED BY <1>1, <1>2, <1>3, <1>4 DEF KeysInv

LEMMA WriteGentxNetwork == ASSUME NetworkInv, WriteGentx PROVE NetworkInv'
<1> DEFINE g == OwnGentx(i)
           d == [disk[i] EXCEPT !.gentxs = Put(disk[i].gentxs, g)]
<1>1. /\ pc = "gentx" /\ pc' = "appConfig" /\ disk' = [disk EXCEPT ![i] = d]
      /\ UNCHANGED <<why, runs, faults, args, i, j, keys, funded, peers, canon>>
  BY DEF WriteGentx, OwnGentx
<1>2. /\ i \in On /\ i < args.n /\ i \in Nat /\ args.n \in Nat /\ keys \in Nat /\ i \in Members
      /\ Members \subseteq Nat
  BY <1>1, MembersAreNodes DEF NetworkInv, LoopInv, TypeOK, Members, FirstLoop
<1>3. /\ disk[i] \in Node /\ i \in Nodes
      /\ disk[i].id \in 0..keys /\ disk[i].acc \in 0..keys /\ disk[i].seed \in 0..keys
      /\ disk[i].gentxs \subseteq Gentx
  BY <1>2, NodeFields DEF NetworkInv
<1>4. g \in Gentx /\ g.id = disk[i].id /\ g.acc = disk[i].acc
  BY <1>1, <1>2, OwnIsGentx DEF NetworkInv, OwnGentx
<1> HIDE DEF g
<1>5. Put(disk[i].gentxs, g) \subseteq Gentx
  BY <1>3, <1>4 DEF Put
<1>6. /\ d \in Node /\ d.id = disk[i].id /\ d.acc = disk[i].acc /\ d.seed = disk[i].seed
      /\ d.gentxs = Put(disk[i].gentxs, g)
  BY <1>3, <1>5 DEF Node
<1> HIDE DEF d
<1>7. FilesInv
  BY <1>1 DEF NetworkInv, Started
<1>8. /\ Named = 0..i /\ Keyed = Named /\ Seeded = Named /\ Signed = 0..(i - 1) /\ Finished = Signed
      /\ Named' = Named /\ Keyed' = Named /\ Seeded' = Named /\ Signed' = Named /\ Finished' = Signed
      /\ Reached({"account", "seed", "gentx", "appConfig"})'
           = Reached({"account", "seed", "gentx", "appConfig"})
  BY <1>1, <1>2 DEF Named, Keyed, Seeded, Signed, Finished, UpTo, Reached, FirstLoop
<1>9. disk[i].acc \in 1..keys /\ disk[i].id # 0 /\ i \in Named
  <2>1. i \in Named
    BY <1>2, <1>8
  <2>2. disk[i].acc # 0 /\ disk[i].id # 0
    BY <1>7, <1>8, <2>1 DEF FilesInv
  <2> QED BY <1>2, <1>3, <2>1, <2>2
<1>10. TypeOK'
  <2>1. {d.id, d.acc, d.seed} \subseteq 0..keys'
    BY <1>1, <1>3, <1>6
  <2> QED BY <1>1, <1>2, <1>3, <1>6, <2>1, TypeStays DEF NetworkInv, TypeOK, PC
<1>11. /\ disk'[i] = d /\ \A m \in Nodes \ {i} : disk'[m] = disk[m]
       /\ On' = On
  <2>1. On' = On \cup {i}
    BY <1>1, <1>3, <1>6, DiskAt DEF NetworkInv
  <2>2. On \cup {i} = On
    BY <1>2
  <2> QED BY <1>1, <1>3, <1>6, <2>1, <2>2, DiskAt DEF NetworkInv
<1>12. /\ \A k \in On : /\ disk'[k].id = disk[k].id /\ disk'[k].acc = disk[k].acc
                        /\ disk'[k].seed = disk[k].seed
                        /\ k # i => disk'[k] = disk[k]
  BY <1>6, <1>11 DEF On
<1>13. KeysInv'
  <2>1. SameKeys
    BY <1>11, <1>12 DEF SameKeys
  <2>2. disk'[i].gentxs = Put(disk[i].gentxs, g) /\ \A k \in On \ {i} : disk'[k].gentxs = disk[k].gentxs
    BY <1>6, <1>11, <1>12
  <2>3. g.acc \in 1..keys /\ g.id # 0 /\ \E m \in On : disk[m].id = g.id
    BY <1>2, <1>4, <1>9
  <2> QED BY <1>1, <1>2, <2>1, <2>2, <2>3, KeysPut DEF NetworkInv
<1>14. AmountsInv' /\ OnlySmallerRunsRefused'
  BY <1>1, AmountsStay DEF NetworkInv, OnlySmallerRunsRefused
<1>15. LoopInv'
  BY <1>1, <1>11 DEF NetworkInv, LoopInv, FirstLoop
<1>16. FilesInv'
  <2>1. \A k \in Named : k \in On /\ disk'[k].acc = disk[k].acc /\ disk'[k].id = disk[k].id
                         /\ disk'[k].seed = disk[k].seed /\ OwnGentx(k)' = OwnGentx(k)
    BY <1>1, <1>7, <1>12, OwnStays DEF FilesInv
  <2>2. \A k \in Signed : k \in Named /\ k # i /\ disk'[k] = disk[k]
    <3>1. \A k \in Signed : k \in Named /\ k # i
      BY <1>2, <1>8
    <3> QED BY <1>12, <2>1, <3>1
  <2>3. /\ \A k \in Named : k \in On /\ disk'[k].id # 0
        /\ \A k \in Named : disk'[k].acc # 0 /\ disk'[k].seed = disk'[k].acc
        /\ \A k \in Named : peers'[k + 1] = [id |-> disk'[k].id, port |-> PeerPort(k)]
    BY <1>1, <1>7, <1>8, <2>1 DEF FilesInv
  <2>4. \A k \in Named : k \in Signed \/ k = i
    BY <1>2, <1>8
  <2>5. \A k \in Signed : disk'[k].app = [grpc |-> GrpcPort(k), api |-> ApiPort(k)]
    BY <1>7, <1>8, <2>2 DEF FilesInv
  <2>6. \A k \in Named : OwnGentx(k)' \in disk'[k].gentxs
    <3> SUFFICES ASSUME NEW k \in Named PROVE OwnGentx(k) \in disk'[k].gentxs
      BY <2>1
    <3>1. CASE k = i
      <4>1. g \in disk'[i].gentxs
        BY <1>6, <1>11, PutIn
      <4> QED BY <3>1, <4>1 DEF g
    <3>2. CASE k \in Signed
      BY <1>7, <2>2, <3>2 DEF FilesInv
    <3> QED BY <2>4, <3>1, <3>2
  <2>7. funded' = {disk'[k].acc : k \in Named}
    BY <1>1, <1>7, <1>8, <2>1 DEF FilesInv
  <2>8. \A k \in On : \A h \in disk'[k].gentxs : \A m \in Named :
          h.acc = disk'[m].acc => m \in Named /\ h = OwnGentx(m)'
    <3> SUFFICES ASSUME NEW k \in On, NEW h \in disk'[k].gentxs, NEW m \in Named,
                        h.acc = disk[m].acc
                 PROVE  h = OwnGentx(m)
      BY <2>1
    <3>1. (k = i /\ h = g) \/ h \in disk[k].gentxs
      BY <1>6, <1>11, <1>12, PutIn
    <3>2. CASE k = i /\ h = g
      <4>1. disk[m].acc = disk[i].acc /\ disk[i].acc # 0 /\ m \in On
        BY <1>4, <1>7, <1>9, <3>2 DEF FilesInv
      <4>2. m = i
        BY <1>2, <4>1 DEF NetworkInv, KeysInv
      <4> QED BY <3>2, <4>2 DEF g
    <3>3. CASE h \in disk[k].gentxs
      BY <1>7, <1>8, <3>3 DEF FilesInv
    <3> QED BY <3>1, <3>2, <3>3
  <2>9. Len(peers') = Reached({"account", "seed", "gentx", "appConfig"})'
    BY <1>1, <1>7, <1>8 DEF FilesInv
  <2> QED BY <1>8, <1>11, <2>3, <2>5, <2>6, <2>7, <2>8, <2>9 DEF FilesInv
<1>17. GenesisInv'
  <2>1. canon' = NoFile
    BY <1>1 DEF NetworkInv, Started, GenesisInv
  <2> QED BY <1>1, <1>2, <2>1, GenesisBefore DEF FirstLoop, Members
<1> QED BY <1>10, <1>13, <1>14, <1>15, <1>16, <1>17 DEF NetworkInv

LEMMA WriteAppConfigNetwork == ASSUME NetworkInv, WriteAppConfig PROVE NetworkInv'
<1> DEFINE app == [grpc |-> GrpcPort(i), api |-> ApiPort(i)]
           d == [disk[i] EXCEPT !.app = app]
<1>1. /\ pc = "appConfig" /\ pc' = "nodeDir" /\ disk' = [disk EXCEPT ![i] = d] /\ i' = i + 1
      /\ UNCHANGED <<why, runs, faults, args, j, keys, funded, peers, canon>>
  BY DEF WriteAppConfig
<1>2. /\ i \in On /\ i < args.n /\ i \in Nat /\ args.n \in Nat /\ keys \in Nat /\ i \in Members
      /\ Members \subseteq Nat
  BY <1>1, MembersAreNodes DEF NetworkInv, LoopInv, TypeOK, Members, FirstLoop
<1>3. /\ disk[i] \in Node /\ i \in Nodes
      /\ disk[i].id \in 0..keys /\ disk[i].acc \in 0..keys /\ disk[i].seed \in 0..keys
  BY <1>2, NodeFields DEF NetworkInv
<1>4. app \in AppConfig
  BY <1>2 DEF AppConfig, GrpcPort, ApiPort
<1> HIDE DEF app
<1>5. /\ d \in Node /\ d.id = disk[i].id /\ d.acc = disk[i].acc /\ d.seed = disk[i].seed
      /\ d.gentxs = disk[i].gentxs /\ d.app = app
  BY <1>3, <1>4 DEF Node
<1> HIDE DEF d
<1>6. FilesInv
  BY <1>1 DEF NetworkInv, Started
<1>7. /\ Named = 0..i /\ Keyed = Named /\ Seeded = Named /\ Signed = Named /\ Finished = 0..(i - 1)
      /\ Named' = Named /\ Keyed' = Named /\ Seeded' = Named /\ Signed' = Named /\ Finished' = Named
      /\ Reached({"account", "seed", "gentx", "appConfig"})'
           = Reached({"account", "seed", "gentx", "appConfig"})
  BY <1>1, <1>2 DEF Named, Keyed, Seeded, Signed, Finished, UpTo, Reached, FirstLoop
<1>8. TypeOK'
  <2>1. {d.id, d.acc, d.seed} \subseteq 0..keys' /\ i' \in 0..args.n
    BY <1>1, <1>2, <1>3, <1>5
  <2> QED BY <1>1, <1>2, <1>3, <1>5, <2>1, TypeStays DEF NetworkInv, TypeOK, PC
<1>9. /\ disk'[i] = d /\ \A m \in Nodes \ {i} : disk'[m] = disk[m]
      /\ On' = On
  <2>1. On' = On \cup {i}
    BY <1>1, <1>3, <1>5, DiskAt DEF NetworkInv
  <2>2. On \cup {i} = On
    BY <1>2
  <2> QED BY <1>1, <1>3, <1>5, <2>1, <2>2, DiskAt DEF NetworkInv
<1>10. /\ \A k \in On : /\ disk'[k].id = disk[k].id /\ disk'[k].gentxs = disk[k].gentxs
                        /\ disk'[k].acc = disk[k].acc /\ disk'[k].seed = disk[k].seed
                        /\ k # i => disk'[k] = disk[k]
  BY <1>5, <1>9 DEF On
<1>11. KeysInv'
  BY <1>1, <1>9, <1>10, KeysStay DEF NetworkInv, SameKeys, SameGentxs
<1>12. AmountsInv' /\ OnlySmallerRunsRefused'
  BY <1>1, AmountsStay DEF NetworkInv, OnlySmallerRunsRefused
<1>13. LoopInv'
  BY <1>1, <1>9 DEF NetworkInv, LoopInv, FirstLoop
<1>14. FilesInv'
  <2>1. \A k \in Named : k \in On /\ disk'[k].acc = disk[k].acc /\ disk'[k].id = disk[k].id
                         /\ disk'[k].seed = disk[k].seed /\ disk'[k].gentxs = disk[k].gentxs
                         /\ OwnGentx(k)' = OwnGentx(k)
    BY <1>1, <1>6, <1>10, OwnStays DEF FilesInv
  <2>2. \A k \in Named : k = i \/ (k \in Finished /\ k # i)
    BY <1>2, <1>7
  <2>3. \A k \in Named : disk'[k].app = [grpc |-> GrpcPort(k), api |-> ApiPort(k)]
    BY <1>5, <1>6, <1>9, <1>10, <2>1, <2>2 DEF FilesInv, app
  <2>4. /\ \A k \in Named : k \in On /\ disk'[k].id # 0
        /\ \A k \in Named : disk'[k].acc # 0 /\ disk'[k].seed = disk'[k].acc
        /\ \A k \in Named : peers'[k + 1] = [id |-> disk'[k].id, port |-> PeerPort(k)]
        /\ \A k \in Named : OwnGentx(k)' \in disk'[k].gentxs
    BY <1>1, <1>6, <1>7, <2>1 DEF FilesInv
  <2>5. funded' = {disk'[k].acc : k \in Named}
    BY <1>1, <1>6, <1>7, <2>1 DEF FilesInv
  <2>6. \A k \in On : \A g \in disk'[k].gentxs : \A m \in Named :
          g.acc = disk'[m].acc => m \in Named /\ g = OwnGentx(m)'
    BY <1>6, <1>7, <1>10, <2>1 DEF FilesInv
  <2>7. Len(peers') = Reached({"account", "seed", "gentx", "appConfig"})'
    BY <1>1, <1>6, <1>7 DEF FilesInv
  <2> QED BY <1>7, <1>9, <2>3, <2>4, <2>5, <2>6, <2>7 DEF FilesInv
<1>15. GenesisInv'
  <2>1. canon' = NoFile
    BY <1>1 DEF NetworkInv, Started, GenesisInv
  <2> QED BY <1>1, <1>2, <2>1, GenesisBefore DEF FirstLoop, Members
<1> QED BY <1>8, <1>11, <1>12, <1>13, <1>14, <1>15 DEF NetworkInv

-----------------------------------------------------------------------------
(***************************************************************************)
(* The other three loops.                                                  *)
(***************************************************************************)
LEMMA AfterFirstLoop ==
    ASSUME NetworkInv, Started, pc \notin FirstLoop
    PROVE  /\ Named = Members /\ Keyed = Members /\ Seeded = Members /\ Signed = Members
           /\ Finished = Members /\ Reached({"account", "seed", "gentx", "appConfig"}) = args.n
           /\ Len(peers) = args.n
           /\ \A k \in Members : peers[k + 1] = [id |-> disk[k].id, port |-> PeerPort(k)]
           /\ \A k \in Members : k \in On /\ k \in Nat /\ disk[k].id # 0 /\ disk[k].acc # 0
           /\ \A k \in Members : disk[k].seed = disk[k].acc
           /\ \A k \in Members : OwnGentx(k) \in disk[k].gentxs /\ OwnGentx(k) \in Gentx
           /\ \A k \in Members : disk[k].app = [grpc |-> GrpcPort(k), api |-> ApiPort(k)]
           /\ \A k \in On : \A g \in disk[k].gentxs : \A m \in Members :
                  g.acc = disk[m].acc => g = OwnGentx(m)
           /\ funded = {disk[k].acc : k \in Members}
<1>1. /\ Named = Members /\ Keyed = Members /\ Seeded = Members /\ Signed = Members
      /\ Finished = Members /\ Reached({"account", "seed", "gentx", "appConfig"}) = args.n
  BY DEF Named, Keyed, Seeded, Signed, Finished, UpTo, Reached, Members
<1>2. FilesInv
  BY DEF NetworkInv
<1>3. /\ Len(peers) = args.n /\ funded = {disk[k].acc : k \in Members}
      /\ \A k \in Members : peers[k + 1] = [id |-> disk[k].id, port |-> PeerPort(k)]
      /\ \A k \in Members : k \in On /\ disk[k].id # 0 /\ disk[k].acc # 0
      /\ \A k \in Members : disk[k].seed = disk[k].acc
      /\ \A k \in Members : OwnGentx(k) \in disk[k].gentxs
      /\ \A k \in Members : disk[k].app = [grpc |-> GrpcPort(k), api |-> ApiPort(k)]
      /\ \A k \in On : \A g \in disk[k].gentxs : \A m \in Members :
                  g.acc = disk[m].acc => g = OwnGentx(m)
  BY <1>1, <1>2 DEF FilesInv
<1>4. \A k \in Members : OwnGentx(k) \in Gentx
  BY <1>3, OwnIsGentx DEF NetworkInv, Started
<1>5. \A k \in Members : k \in Nat
  BY MembersAreNodes DEF NetworkInv
<1> QED BY <1>1, <1>3, <1>4, <1>5

LEMMA ReachedStays ==
    ASSUME pc \notin FirstLoop, pc' \notin FirstLoop, args' = args
    PROVE  \A steps : "nodeDir" \notin steps => Reached(steps)' = Reached(steps)
  BY DEF Reached

LEMMA EndLoopNetwork == ASSUME NetworkInv, EndLoop PROVE NetworkInv'
<1>1. /\ \/ pc = "nodeDir" /\ pc' = "genesis"
         \/ pc = "genesis" /\ pc' = "copy"
         \/ pc = "copy" /\ pc' = "collect"
         \/ pc = "collect" /\ pc' = "done"
      /\ i = args.n /\ i' = 0
      /\ UNCHANGED <<why, runs, faults, args, j, keys, funded, peers, canon, disk>>
  BY DEF EndLoop, After
<1>2. args.n \in Nat /\ Members \subseteq Nat /\ pc' \in PC /\ pc' \notin FirstLoop
  BY <1>1, MembersAreNodes DEF NetworkInv, PC, FirstLoop
<1>3. TypeOK'
  BY <1>1, <1>2 DEF NetworkInv, TypeOK
<1>4. KeysInv'
  BY <1>1, KeysStay DEF SameKeys, SameGentxs, On, NetworkInv
<1>5. AmountsInv' /\ OnlySmallerRunsRefused'
  BY <1>1, AmountsStay DEF NetworkInv, OnlySmallerRunsRefused
<1>6. j = 0
  BY <1>1 DEF NetworkInv, LoopInv, TypeOK
<1>7. Started' => FilesInv' /\ GenesisInv'
  <2>1. FilesInv
    BY <1>1 DEF NetworkInv, Started
  <2>2. \A steps : "nodeDir" \notin steps => Reached(steps)' = Reached(steps)
    BY <1>1, <1>2 DEF Reached, FirstLoop
  <2>3. FilesInv'
    BY <1>1, <2>1, <2>2, FilesStay DEF SameKeys, SameGentxs, On, NetworkInv
  <2>4. GenesisInv
    BY <1>1 DEF NetworkInv, Started
  <2>5. GenesisInv'
    <3>1. CASE pc = "nodeDir"
      <4>1. canon' = NoFile /\ pc' = "genesis" /\ Members' = Members
        BY <1>1, <2>4, <3>1 DEF GenesisInv, Members
      <4> QED BY <1>1, <1>2, <4>1, GenesisBefore
    <3>2. CASE pc # "nodeDir"
      <4>1. \A k, m \in Members : /\ Copied(k, m)' => Copied(k, m)
                                  /\ Collected(k)' => Collected(k)
                                  /\ Canonical(k)' => Canonical(k)
                                  /\ Saved(k)' /\ ~ Collected(k)' => Saved(k) /\ ~ Collected(k)
        BY <1>1, <1>2, <1>6, <3>2 DEF Copied, Collected, Canonical, Saved, Members
      <4>2. pc \in {"collect", "canonical", "done"} => pc' \in {"collect", "canonical", "done"}
        BY <1>1
      <4>3. /\ Members' = Members /\ Full' = Full /\ Bare' = Bare
            /\ \A k : OwnGentx(k)' = OwnGentx(k) /\ ConfigOf(k)' = ConfigOf(k)
        BY <1>1 DEF Members, Full, Bare, OwnGentx, StakeOf, ConfigOf, RpcPort
      <4> QED BY <1>1, <2>4, <4>1, <4>2, <4>3 DEF GenesisInv
    <3> QED BY <3>1, <3>2
  <2> QED BY <2>3, <2>5
<1>8. LoopInv'
  BY <1>1, <1>6 DEF LoopInv, FirstLoop
<1> QED BY <1>3, <1>4, <1>5, <1>7, <1>8 DEF NetworkInv

LEMMA SaveGenesisNetwork == ASSUME NetworkInv, SaveGenesis PROVE NetworkInv'
<1> DEFINE d == [disk[i] EXCEPT !.genesis = Bare]
<1>1. /\ pc = "genesis" /\ pc' = pc /\ disk' = [disk EXCEPT ![i] = d] /\ i' = i + 1 /\ i < args.n
      /\ UNCHANGED <<why, runs, faults, args, j, keys, funded, peers, canon>>
  BY DEF SaveGenesis, Bare
<1>2. /\ pc \notin FirstLoop /\ Started
      /\ i \in Nat /\ args.n \in Nat /\ keys \in Nat /\ i \in Members /\ Members \subseteq Nat
  BY <1>1, MembersAreNodes DEF NetworkInv, TypeOK, Members, FirstLoop, Started
<1>3. i \in On
  BY <1>2, AfterFirstLoop
<1>4. /\ disk[i] \in Node /\ i \in Nodes
      /\ disk[i].id \in 0..keys /\ disk[i].acc \in 0..keys /\ disk[i].seed \in 0..keys
  BY <1>3, NodeFields DEF NetworkInv
<1>5. Bare \in Genesis
  <2>1. runs \in Nat /\ funded \subseteq Nat
    BY BoundsAssumption DEF NetworkInv, TypeOK
  <2> QED BY <2>1 DEF Bare, Genesis
<1>6. /\ d \in Node /\ d.id = disk[i].id /\ d.acc = disk[i].acc /\ d.seed = disk[i].seed
      /\ d.gentxs = disk[i].gentxs /\ d.app = disk[i].app /\ d.genesis = Bare
  BY <1>4, <1>5 DEF Node
<1> HIDE DEF d
<1>7. TypeOK'
  <2>1. {d.id, d.acc, d.seed} \subseteq 0..keys' /\ i' \in 0..args.n
    BY <1>1, <1>2, <1>4, <1>6
  <2> QED BY <1>1, <1>2, <1>4, <1>6, <2>1, TypeStays DEF NetworkInv, TypeOK
<1>8. /\ disk'[i] = d /\ \A m \in Nodes \ {i} : disk'[m] = disk[m]
      /\ On' = On
  <2>1. On' = On \cup {i}
    BY <1>1, <1>4, <1>6, DiskAt DEF NetworkInv
  <2>2. On \cup {i} = On
    BY <1>3
  <2> QED BY <1>1, <1>4, <1>6, <2>1, <2>2, DiskAt DEF NetworkInv
<1>9. /\ \A k \in On : /\ disk'[k].id = disk[k].id /\ disk'[k].gentxs = disk[k].gentxs
                       /\ disk'[k].acc = disk[k].acc /\ disk'[k].seed = disk[k].seed
                       /\ disk'[k].app = disk[k].app
                       /\ k # i => disk'[k] = disk[k]
  BY <1>6, <1>8 DEF On
<1>10. SameKeys /\ SameGentxs
  BY <1>8, <1>9 DEF SameKeys, SameGentxs
<1>11. KeysInv'
  BY <1>1, <1>10, KeysStay DEF NetworkInv
<1>12. AmountsInv' /\ OnlySmallerRunsRefused' /\ LoopInv'
  BY <1>1, AmountsStay DEF NetworkInv, OnlySmallerRunsRefused, LoopInv, FirstLoop
<1>13. FilesInv'
  BY <1>1, <1>2, <1>9, <1>10, FilesStay, ReachedStays DEF NetworkInv
<1>14. GenesisInv'
  <2>1. GenesisInv
    BY <1>2 DEF NetworkInv
  <2>2. \A k, m \in Members : ~ Copied(k, m)' /\ ~ Collected(k)' /\ ~ Canonical(k)' /\ ~ Collected(k)
    BY <1>1 DEF Copied, Collected, Canonical
  <2>3. \A k \in Members : Saved(k)' => Saved(k) \/ k = i
    BY <1>1, <1>2 DEF Saved
  <2>4. Members' = Members /\ Bare' = Bare /\ canon' = NoFile
    BY <1>1, <2>1 DEF Members, Bare, GenesisInv
  <2>5. \A k \in Members : Saved(k)' => disk'[k].genesis = Bare
    <3> SUFFICES ASSUME NEW k \in Members, Saved(k)' PROVE disk'[k].genesis = Bare
      OBVIOUS
    <3>1. k \in On
      BY <1>2, AfterFirstLoop
    <3>2. CASE k = i
      BY <1>6, <1>8, <3>2
    <3>3. CASE k # i
      BY <1>9, <2>1, <2>2, <2>3, <3>1, <3>3 DEF GenesisInv
    <3> QED BY <3>2, <3>3
  <2> QED BY <2>2, <2>4, <2>5 DEF GenesisInv
<1> QED BY <1>7, <1>11, <1>12, <1>13, <1>14 DEF NetworkInv

\* The file that is copied is the gentx node j has made in this run.
LEMMA CopiedFile ==
    ASSUME NetworkInv, Started, pc \notin FirstLoop, NEW k \in Members
    PROVE  (CHOOSE g \in disk[k].gentxs : g.id = disk[k].id) = OwnGentx(k)
<1>1. k \in On /\ OwnGentx(k) \in disk[k].gentxs /\ OwnGentx(k).id = disk[k].id
  BY AfterFirstLoop DEF OwnGentx
<1>2. \A g \in disk[k].gentxs : g.id = disk[k].id => g = OwnGentx(k)
  BY <1>1 DEF NetworkInv, KeysInv
<1> HIDE DEF OwnGentx
<1> QED BY <1>1, <1>2

LEMMA CopyGentxNetwork == ASSUME NetworkInv, CopyGentx PROVE NetworkInv'
<1> DEFINE g == OwnGentx(j)
           d == IF j = i THEN disk[i]
                ELSE [disk[i] EXCEPT !.gentxs = Put(disk[i].gentxs, g)]
<1>1. /\ pc = "copy" /\ pc' = pc /\ i < args.n
      /\ IF j + 1 = args.n THEN i' = i + 1 /\ j' = 0 ELSE i' = i /\ j' = j + 1
      /\ UNCHANGED <<why, runs, faults, args, keys, funded, peers, canon>>
  BY DEF CopyGentx
<1>2. /\ pc \notin FirstLoop /\ Started
      /\ i \in Nat /\ j \in Nat /\ args.n \in Nat /\ keys \in Nat /\ i \in Members
      /\ j \in Members /\ j < args.n /\ Members \subseteq Nat
  BY <1>1, MembersAreNodes DEF NetworkInv, TypeOK, LoopInv, Members, FirstLoop, Started
<1>3. /\ i \in On /\ j \in On /\ g \in Gentx /\ g \in disk[j].gentxs
      /\ g.id = disk[j].id /\ g.acc = disk[j].acc /\ g.id # 0 /\ g.acc # 0
  BY <1>2, AfterFirstLoop DEF OwnGentx
<1>4. /\ disk[i] \in Node /\ i \in Nodes /\ disk[i].gentxs \subseteq Gentx
      /\ disk[i].id \in 0..keys /\ disk[i].acc \in 0..keys /\ disk[i].seed \in 0..keys
      /\ disk[j].acc \in 0..keys
  BY <1>3, NodeFields DEF NetworkInv
<1>5. disk' = [disk EXCEPT ![i] = d]
  <2>1. (CHOOSE h \in disk[j].gentxs : h.id = disk[j].id) = g
    BY <1>2, CopiedFile
  <2> HIDE DEF g
  <2>2. disk' = IF j = i THEN disk ELSE [disk EXCEPT ![i].gentxs = Put(disk[i].gentxs, g)]
    <3> DEFINE file == CHOOSE h \in disk[j].gentxs : h.id = disk[j].id
    <3>1. disk' = IF j = i THEN disk ELSE [disk EXCEPT ![i].gentxs = Put(disk[i].gentxs, file)]
      BY DEF CopyGentx, IsSubDir
    <3>2. file = g
      BY <2>1
    <3> HIDE DEF file
    <3> QED BY <3>1, <3>2
  <2>3. disk \in [Nodes -> Node \cup {NoFile}]
    BY DEF NetworkInv, TypeOK
  <2>4. CASE j = i
    BY <2>2, <2>3, <2>4
  <2>5. CASE j # i
    BY <2>2, <2>5
  <2> QED BY <2>4, <2>5
<1> HIDE DEF g
<1>6. Put(disk[i].gentxs, g) \subseteq Gentx
  BY <1>3, <1>4 DEF Put
<1>7. j = i => Put(disk[i].gentxs, g) = disk[i].gentxs
  <2>1. \A h \in disk[i].gentxs : h.id = disk[i].id /\ j = i => h = g
    BY <1>3 DEF NetworkInv, KeysInv
  <2> QED BY <1>3, <2>1 DEF Put
<1>8. /\ d \in Node /\ d.id = disk[i].id /\ d.acc = disk[i].acc /\ d.seed = disk[i].seed
      /\ d.app = disk[i].app /\ d.genesis = disk[i].genesis
      /\ d.gentxs = Put(disk[i].gentxs, g)
  <2>1. CASE j = i
    BY <1>4, <1>7, <2>1
  <2>2. CASE j # i
    BY <1>4, <1>6, <2>2 DEF Node
  <2> QED BY <2>1, <2>2
<1> HIDE DEF d
<1>9. /\ i' \in 0..args.n /\ j' \in 0..args.n
      /\ j' # 0 => i' < args.n /\ j' < args.n
  BY <1>1, <1>2
<1>10. TypeOK'
  <2>1. {d.id, d.acc, d.seed} \subseteq 0..keys'
    BY <1>1, <1>4, <1>8
  <2> QED BY <1>1, <1>2, <1>4, <1>5, <1>8, <1>9, <2>1, TypeStays DEF NetworkInv, TypeOK
<1>11. /\ disk'[i] = d /\ \A m \in Nodes \ {i} : disk'[m] = disk[m]
       /\ On' = On
  <2>1. On' = On \cup {i}
    BY <1>4, <1>5, <1>8, DiskAt DEF NetworkInv
  <2>2. On \cup {i} = On
    BY <1>3
  <2> QED BY <1>4, <1>5, <1>8, <2>1, <2>2, DiskAt DEF NetworkInv
<1>12. \A k \in On : /\ disk'[k].id = disk[k].id /\ disk'[k].genesis = disk[k].genesis
                     /\ disk'[k].acc = disk[k].acc /\ disk'[k].seed = disk[k].seed
                     /\ disk'[k].app = disk[k].app
                     /\ k # i => disk'[k] = disk[k]
  BY <1>8, <1>11 DEF On
<1>13. KeysInv'
  <2>1. SameKeys
    BY <1>11, <1>12 DEF SameKeys
  <2>2. disk'[i].gentxs = Put(disk[i].gentxs, g) /\ \A k \in On \ {i} : disk'[k].gentxs = disk[k].gentxs
    BY <1>8, <1>11, <1>12
  <2>3. g.acc \in 1..keys /\ g.id # 0 /\ \E m \in On : disk[m].id = g.id
    BY <1>2, <1>3, <1>4
  <2> QED BY <1>1, <1>3, <2>1, <2>2, <2>3, KeysPut DEF NetworkInv
<1>14. AmountsInv' /\ OnlySmallerRunsRefused' /\ LoopInv'
  BY <1>1, <1>9, AmountsStay DEF NetworkInv, OnlySmallerRunsRefused, LoopInv, FirstLoop
<1>15. \A k, m \in Members : m # j /\ OwnGentx(m) \in disk[k].gentxs => OwnGentx(m) \in disk'[k].gentxs
  <2> SUFFICES ASSUME NEW k \in Members, NEW m \in Members, m # j, OwnGentx(m) \in disk[k].gentxs
               PROVE  OwnGentx(m) \in disk'[k].gentxs
    OBVIOUS
  <2>1. k \in On /\ m \in On /\ disk[m].id # 0
    BY <1>2, AfterFirstLoop
  <2>2. disk[m].id # disk[j].id
    BY <1>3, <2>1 DEF NetworkInv, KeysInv
  <2>3. OwnGentx(m).id # g.id
    BY <1>3, <2>2 DEF OwnGentx
  <2>4. CASE k = i
    BY <1>8, <1>11, <2>3, <2>4, PutIn
  <2>5. CASE k # i
    BY <1>12, <2>1, <2>5
  <2> QED BY <2>4, <2>5
<1>16. OwnGentx(j) \in disk'[i].gentxs
  BY <1>8, <1>11, PutIn DEF g
<1>17. FilesInv'
  <2>1. /\ Named' = Members /\ Keyed' = Members /\ Seeded' = Members /\ Signed' = Members
        /\ Finished' = Members /\ Reached({"account", "seed", "gentx", "appConfig"})' = args.n
    BY <1>1, <1>2 DEF Named, Keyed, Seeded, Signed, Finished, UpTo, Reached, Members
  <2>2. \A k \in Members : /\ k \in On /\ disk'[k].id = disk[k].id /\ disk'[k].acc = disk[k].acc
                           /\ disk'[k].seed = disk[k].seed /\ disk'[k].app = disk[k].app
                           /\ OwnGentx(k)' = OwnGentx(k)
    BY <1>1, <1>2, <1>12, AfterFirstLoop, OwnStays
  <2>3. /\ Len(peers') = args.n
        /\ \A k \in Members : peers'[k + 1] = [id |-> disk'[k].id, port |-> PeerPort(k)]
        /\ \A k \in Members : k \in On /\ disk'[k].id # 0
        /\ \A k \in Members : disk'[k].acc # 0
        /\ \A k \in Members : disk'[k].seed = disk'[k].acc
        /\ \A k \in Members : disk'[k].app = [grpc |-> GrpcPort(k), api |-> ApiPort(k)]
    BY <1>1, <1>2, <2>2, AfterFirstLoop
  <2>4. funded' = {disk'[k].acc : k \in Members}
    <3>1. funded = {disk[k].acc : k \in Members}
      BY <1>2, AfterFirstLoop
    <3> QED BY <1>1, <2>2, <3>1
  <2>5. \A k \in Members : OwnGentx(k)' \in disk'[k].gentxs
    <3> SUFFICES ASSUME NEW k \in Members PROVE OwnGentx(k) \in disk'[k].gentxs
      BY <2>2
    <3>1. OwnGentx(k) \in disk[k].gentxs
      BY <1>2, AfterFirstLoop
    <3>2. CASE k # j
      BY <1>15, <3>1, <3>2
    <3>3. CASE k = j /\ j # i
      BY <1>12, <2>2, <3>1, <3>3
    <3>4. CASE k = j /\ j = i
      BY <1>16, <3>4
    <3> QED BY <3>2, <3>3, <3>4
  <2>6. \A k \in On : \A h \in disk'[k].gentxs : \A m \in Members :
          h.acc = disk'[m].acc => m \in Members /\ h = OwnGentx(m)'
    <3> SUFFICES ASSUME NEW k \in On, NEW h \in disk'[k].gentxs, NEW m \in Members,
                        h.acc = disk[m].acc
                 PROVE  h = OwnGentx(m)
      BY <2>2
    <3>1. (k = i /\ h = g) \/ h \in disk[k].gentxs
      BY <1>8, <1>11, <1>12, PutIn
    <3>2. CASE k = i /\ h = g
      <4>1. disk[m].acc = disk[j].acc /\ disk[j].acc # 0 /\ m \in On
        BY <1>3, <2>2, <3>2
      <4>2. m = j
        BY <1>3, <4>1 DEF NetworkInv, KeysInv
      <4> QED BY <3>2, <4>2 DEF g
    <3>3. CASE h \in disk[k].gentxs
      BY <1>2, <3>3, AfterFirstLoop
    <3> QED BY <3>1, <3>2, <3>3
  <2> QED BY <1>11, <2>1, <2>3, <2>4, <2>5, <2>6 DEF FilesInv
<1>18. GenesisInv'
  <2>1. GenesisInv /\ canon' = NoFile
    BY <1>1, <1>2 DEF NetworkInv, GenesisInv
  <2>2. \A k, m \in Members : Copied(k, m)' => Copied(k, m) \/ (k = i /\ m = j)
    BY <1>1, <1>2 DEF Copied, Members
  <2>3. \A k \in Members : ~ Collected(k)' /\ ~ Collected(k) /\ ~ Canonical(k)' /\ Saved(k)
    BY <1>1 DEF Collected, Canonical, Saved
  <2>4. Members' = Members /\ Bare' = Bare
    BY <1>1 DEF Members, Bare
  <2>5. \A k \in Members : k \in On /\ OwnGentx(k)' = OwnGentx(k) /\ disk'[k].genesis = disk[k].genesis
    BY <1>1, <1>2, <1>12, AfterFirstLoop, OwnStays
  <2>6. \A k, m \in Members : Copied(k, m)' => OwnGentx(m) \in disk'[k].gentxs
    <3> SUFFICES ASSUME NEW k \in Members, NEW m \in Members, Copied(k, m)'
                 PROVE  OwnGentx(m) \in disk'[k].gentxs
      OBVIOUS
    <3>1. CASE k = i /\ m = j
      BY <1>16, <3>1
    <3>2. CASE Copied(k, m) /\ m # j
      BY <1>15, <2>1, <3>2 DEF GenesisInv
    <3>3. CASE Copied(k, m) /\ m = j /\ k # i
      BY <1>12, <2>1, <2>5, <3>3 DEF GenesisInv
    <3> QED BY <2>2, <3>1, <3>2, <3>3
  <2>7. \A k \in Members : disk'[k].genesis = Bare
    BY <2>1, <2>3, <2>5 DEF GenesisInv
  <2> QED BY <2>1, <2>3, <2>4, <2>5, <2>6, <2>7 DEF GenesisInv
<1> QED BY <1>10, <1>13, <1>14, <1>17, <1>18 DEF NetworkInv

\* A directory that no stranger's gentx is in holds the gentxs of this run.
LEMMA NoStranger ==
    ASSUME NetworkInv, pc = "collect", NEW k \in Members,
           \A g \in disk[k].gentxs : g.acc \in funded
    PROVE  disk[k].gentxs = {OwnGentx(m) : m \in Members}
<1>1. pc \notin FirstLoop /\ Started
  BY DEF FirstLoop, Started
<1>2. k \in On /\ funded = {disk[m].acc : m \in Members}
  BY <1>1, AfterFirstLoop
<1>3. \A g \in disk[k].gentxs : \E m \in Members : g = OwnGentx(m)
  <2> SUFFICES ASSUME NEW g \in disk[k].gentxs PROVE \E m \in Members : g = OwnGentx(m)
    OBVIOUS
  <2>1. PICK m \in Members : g.acc = disk[m].acc
    BY <1>2
  <2> QED BY <1>1, <1>2, <2>1, AfterFirstLoop
<1>4. \A m \in Members : OwnGentx(m) \in disk[k].gentxs
  BY <1>1 DEF NetworkInv, GenesisInv, Copied
<1> QED BY <1>3, <1>4

\* A stranger is a node of a larger run.
LEMMA StrangerIsLarger ==
    ASSUME NetworkInv, pc = "collect", NEW k \in Members,
           NEW g \in disk[k].gentxs, g.acc \notin funded
    PROVE  \E m \in Nodes \ Members : disk[m] # NoFile
<1>1. pc \notin FirstLoop /\ Started
  BY DEF FirstLoop, Started
<1>2. k \in On /\ funded = {disk[m].acc : m \in Members}
  BY <1>1, AfterFirstLoop
<1>3. PICK m \in On : disk[m].id = g.id
  BY <1>2 DEF NetworkInv, KeysInv
<1>4. m \notin Members
  <2> SUFFICES ASSUME m \in Members PROVE FALSE
    OBVIOUS
  <2>1. OwnGentx(m) \in disk[k].gentxs
    BY <1>1 DEF NetworkInv, GenesisInv, Copied
  <2>2. OwnGentx(m).id = g.id /\ OwnGentx(m).acc = disk[m].acc
    BY <1>3 DEF OwnGentx
  <2>3. g = OwnGentx(m)
    BY <1>2, <2>1, <2>2 DEF NetworkInv, KeysInv
  <2> QED BY <1>2, <2>2, <2>3
<1> QED BY <1>3, <1>4 DEF On

LEMMA FullIsGenesis ==
    ASSUME NetworkInv, Started, pc \notin FirstLoop
    PROVE  Full \in Genesis
<1>1. \A k \in Members : disk[k].acc \in Nat /\ OwnGentx(k) \in Gentx
  <2> SUFFICES ASSUME NEW k \in Members PROVE disk[k].acc \in Nat /\ OwnGentx(k) \in Gentx
    OBVIOUS
  <2>1. k \in On /\ OwnGentx(k) \in Gentx
    BY AfterFirstLoop
  <2> QED BY <2>1, NodeFields DEF NetworkInv, TypeOK
<1>2. runs \in Nat
  BY BoundsAssumption DEF NetworkInv, TypeOK
<1> QED BY <1>1, <1>2 DEF Full, Genesis

\* The fields of a directory that stay when its genesis or config is written.
LEMMA FilesWritten ==
    ASSUME NetworkInv, Started, Started', pc \notin FirstLoop, pc' \notin FirstLoop,
           On' = On,
           \A k \in On : /\ disk'[k].id = disk[k].id /\ disk'[k].acc = disk[k].acc
                         /\ disk'[k].seed = disk[k].seed /\ disk'[k].app = disk[k].app
                         /\ disk'[k].gentxs = disk[k].gentxs,
           UNCHANGED <<args, runs, peers, funded, keys>>
    PROVE  /\ FilesInv' /\ KeysInv' /\ AmountsInv'
           /\ Members' = Members /\ Bare' = Bare /\ Full' = Full
           /\ \A k \in Members : OwnGentx(k)' = OwnGentx(k) /\ k \in On
           /\ \A k : ConfigOf(k)' = ConfigOf(k)
<1>1. SameKeys /\ SameGentxs
  BY DEF SameKeys, SameGentxs
<1>2. KeysInv'
  BY <1>1, KeysStay DEF NetworkInv
<1>3. FilesInv'
  BY <1>1, FilesStay, ReachedStays DEF NetworkInv
<1>4. AmountsInv'
  BY AmountsStay DEF NetworkInv, Started
<1>5. Members' = Members /\ Bare' = Bare
  BY DEF Members, Bare
<1>6. \A k \in Members : OwnGentx(k)' = OwnGentx(k) /\ k \in On /\ disk'[k].acc = disk[k].acc
  BY AfterFirstLoop, OwnStays
<1>7. Full' = Full
  <2>1. {disk'[m].acc : m \in Members} = {disk[m].acc : m \in Members}
    BY <1>6
  <2>2. {OwnGentx(m)' : m \in Members} = {OwnGentx(m) : m \in Members}
    BY <1>6
  <2> QED BY <1>5, <2>1, <2>2 DEF Full
<1>8. \A k : ConfigOf(k)' = ConfigOf(k)
  BY DEF ConfigOf, RpcPort
<1> QED BY <1>2, <1>3, <1>4, <1>5, <1>6, <1>7, <1>8

LEMMA CollectGentxsNetwork == ASSUME NetworkInv, CollectGentxs PROVE NetworkInv'
<1>1. /\ pc = "collect" /\ i < args.n
      /\ UNCHANGED <<runs, faults, args, i, j, keys, funded, peers, canon>>
  BY DEF CollectGentxs
<1>2. /\ pc \notin FirstLoop /\ Started
      /\ i \in Nat /\ args.n \in Nat /\ keys \in Nat /\ i \in Members /\ Members \subseteq Nat
  BY <1>1, MembersAreNodes DEF NetworkInv, TypeOK, Members, FirstLoop, Started
<1>3. i \in On /\ disk[i].genesis = Bare /\ disk[i].genesis.funded = funded
  <2>1. disk[i].genesis = Bare
    BY <1>1, <1>2 DEF NetworkInv, GenesisInv, Saved, Collected, Canonical
  <2> QED BY <1>2, <2>1, AfterFirstLoop DEF Bare
<1>4. CASE \E g \in disk[i].gentxs : g.acc \notin disk[i].genesis.funded \/ g.stake > AccountStake
  <2>1. /\ pc' = "failed" /\ disk' = disk
        /\ \/ why' = "balance" /\ \E g \in disk[i].gentxs : g.acc \notin funded
           \/ why' = "funds"
    BY <1>3, <1>4 DEF CollectGentxs
  <2>2. TypeOK'
    BY <1>1, <2>1 DEF NetworkInv, TypeOK, PC
  <2>3. KeysInv'
    BY <1>1, <2>1, KeysStay DEF SameKeys, SameGentxs, On, NetworkInv
  <2>4. AmountsInv' /\ ~ Started' /\ LoopInv'
    BY <1>1, <2>1 DEF NetworkInv, AmountsInv, Started, LoopInv, FirstLoop
  <2>5. OnlySmallerRunsRefused'
    <3> SUFFICES ASSUME why' = "balance"
                 PROVE  \E m \in Nodes \ Members : disk[m] # NoFile
      BY <1>1, <2>1 DEF OnlySmallerRunsRefused, Members
    <3>1. \E g \in disk[i].gentxs : g.acc \notin funded
      BY <2>1
    <3> QED BY <1>1, <1>2, <3>1, StrangerIsLarger
  <2> QED BY <2>2, <2>3, <2>4, <2>5 DEF NetworkInv
<1>5. CASE ~ \E g \in disk[i].gentxs : g.acc \notin disk[i].genesis.funded \/ g.stake > AccountStake
  <2> DEFINE d == [disk[i] EXCEPT !.genesis = Full]
  <2>1. /\ pc' = "canonical" /\ why' = why
        /\ disk' = [disk EXCEPT ![i].genesis.gentxs = disk[i].gentxs]
    BY <1>5 DEF CollectGentxs
  <2>2. disk[i].gentxs = {OwnGentx(m) : m \in Members}
    BY <1>1, <1>2, <1>3, <1>5, NoStranger
  <2>3. [disk[i].genesis EXCEPT !.gentxs = disk[i].gentxs] = Full
    <3>1. funded = {disk[m].acc : m \in Members}
      BY <1>2, AfterFirstLoop
    <3>2. [Bare EXCEPT !.gentxs = disk[i].gentxs]
            = [chain |-> runs, funded |-> funded, gentxs |-> disk[i].gentxs]
      BY DEF Bare
    <3>3. Full = [chain |-> runs, funded |-> funded, gentxs |-> disk[i].gentxs]
      BY <2>2, <3>1 DEF Full
    <3> QED BY <1>3, <3>2, <3>3
  <2>4. disk' = [disk EXCEPT ![i] = d]
    BY <2>1, <2>3
  <2>5. /\ disk[i] \in Node /\ i \in Nodes
        /\ disk[i].id \in 0..keys /\ disk[i].acc \in 0..keys /\ disk[i].seed \in 0..keys
    BY <1>3, NodeFields DEF NetworkInv
  <2>6. Full \in Genesis
    BY <1>2, FullIsGenesis
  <2>7. /\ d \in Node /\ d.id = disk[i].id /\ d.acc = disk[i].acc /\ d.seed = disk[i].seed
        /\ d.gentxs = disk[i].gentxs /\ d.app = disk[i].app /\ d.genesis = Full
        /\ d.config = disk[i].config
    BY <2>5, <2>6 DEF Node
  <2> HIDE DEF d
  <2>8. TypeOK'
    <3>1. {d.id, d.acc, d.seed} \subseteq 0..keys'
      BY <1>1, <2>5, <2>7
    <3>2. /\ i' \in 0..args.n /\ j' \in 0..args.n /\ funded' \subseteq 1..keys'
          /\ peers' \in Seq(Peer) /\ Len(peers') <= args.n /\ canon' \in Genesis \cup {NoFile}
      BY <1>1 DEF NetworkInv, TypeOK
    <3>3. pc' \in PC /\ why' = why /\ keys' \in Nat /\ keys <= keys'
      BY <1>1, <1>2, <2>1 DEF PC
    <3>4. TypeOK
      BY DEF NetworkInv
    <3> QED BY <1>1, <2>4, <2>5, <2>7, <3>1, <3>2, <3>3, <3>4, TypeStays
  <2>9. /\ disk'[i] = d /\ \A m \in Nodes \ {i} : disk'[m] = disk[m]
        /\ On' = On
    <3>1. On' = On \cup {i}
      BY <2>4, <2>5, <2>7, DiskAt DEF NetworkInv
    <3>2. On \cup {i} = On
      BY <1>3
    <3> QED BY <2>4, <2>5, <2>7, <3>1, <3>2, DiskAt DEF NetworkInv
  <2>10. \A k \in On : /\ disk'[k].id = disk[k].id /\ disk'[k].gentxs = disk[k].gentxs
                       /\ disk'[k].acc = disk[k].acc /\ disk'[k].seed = disk[k].seed
                       /\ disk'[k].app = disk[k].app /\ disk'[k].config = disk[k].config
                       /\ disk'[k].genesis = IF k = i THEN Full ELSE disk[k].genesis
    BY <2>7, <2>9 DEF On
  <2>11. pc' \notin FirstLoop /\ Started'
    BY <2>1 DEF FirstLoop, Started
  <2>12. /\ FilesInv' /\ KeysInv' /\ AmountsInv'
         /\ Members' = Members /\ Bare' = Bare /\ Full' = Full
         /\ \A k \in Members : OwnGentx(k)' = OwnGentx(k) /\ k \in On
         /\ \A k : ConfigOf(k)' = ConfigOf(k)
    BY <1>1, <1>2, <2>9, <2>10, <2>11, FilesWritten
  <2>13. GenesisInv'
    <3>1. \A k, m \in Members : /\ Copied(k, m)' => Copied(k, m)
                                /\ Canonical(k)' => Canonical(k)
                                /\ Collected(k)' => Collected(k) \/ k = i
                                /\ Saved(k)' /\ ~ Collected(k)' => Saved(k) /\ ~ Collected(k) /\ k # i
      BY <1>1, <1>2, <2>1 DEF Copied, Canonical, Collected, Saved
    <3>2. GenesisInv
      BY <1>2 DEF NetworkInv
    <3>3. \A k, m \in Members : Copied(k, m)' => OwnGentx(m) \in disk'[k].gentxs
      BY <2>10, <2>12, <3>1, <3>2 DEF GenesisInv
    <3>4. \A k \in Members : Collected(k)' => disk'[k].genesis = Full
      BY <2>10, <2>12, <3>1, <3>2 DEF GenesisInv
    <3>5. \A k \in Members : Saved(k)' /\ ~ Collected(k)' => disk'[k].genesis = Bare
      BY <2>10, <2>12, <3>1, <3>2 DEF GenesisInv
    <3>6. \A k \in Members : Canonical(k)' => disk'[k].config = ConfigOf(k)
      BY <2>10, <2>12, <3>1, <3>2 DEF GenesisInv
    <3>7. canon' # NoFile => canon' = Full
      BY <1>1, <3>2 DEF GenesisInv
    <3> QED BY <2>1, <2>12, <3>3, <3>4, <3>5, <3>6, <3>7 DEF GenesisInv
  <2>14. LoopInv' /\ OnlySmallerRunsRefused'
    BY <1>1, <2>1 DEF NetworkInv, LoopInv, OnlySmallerRunsRefused, FirstLoop
  <2> QED BY <2>8, <2>12, <2>13, <2>14 DEF NetworkInv
<1> QED BY <1>4, <1>5

LEMMA WriteCanonicalNetwork == ASSUME NetworkInv, WriteCanonical PROVE NetworkInv'
<1> DEFINE d == [disk[i] EXCEPT !.config = ConfigOf(i), !.genesis = Full]
<1>1. /\ pc = "canonical" /\ pc' = "collect" /\ i' = i + 1
      /\ UNCHANGED <<why, runs, faults, args, j, keys, funded, peers>>
  BY DEF WriteCanonical
<1>2. /\ pc \notin FirstLoop /\ Started /\ i < args.n
      /\ i \in Nat /\ args.n \in Nat /\ keys \in Nat /\ i \in Members /\ Members \subseteq Nat
  BY <1>1, MembersAreNodes DEF NetworkInv, LoopInv, TypeOK, Members, FirstLoop, Started
<1>3. i \in On /\ disk[i].genesis = Full /\ (canon # NoFile => canon = Full)
  <2>1. disk[i].genesis = Full /\ (canon # NoFile => canon = Full)
    BY <1>1, <1>2 DEF NetworkInv, GenesisInv, Collected
  <2> QED BY <1>2, <2>1, AfterFirstLoop
<1>4. canon' = Full /\ disk' = [disk EXCEPT ![i].config = ConfigOf(i), ![i].genesis = Full]
  <2> DEFINE state == IF canon = NoFile THEN disk[i].genesis ELSE canon
  <2>1. state = Full
    BY <1>3
  <2>2. canon' = state /\ disk' = [disk EXCEPT ![i].config = ConfigOf(i), ![i].genesis = state]
    BY DEF WriteCanonical, ConfigOf
  <2> HIDE DEF state
  <2> QED BY <2>1, <2>2
<1>5. /\ disk[i] \in Node /\ i \in Nodes
      /\ disk[i].id \in 0..keys /\ disk[i].acc \in 0..keys /\ disk[i].seed \in 0..keys
  BY <1>3, NodeFields DEF NetworkInv
<1>6. Full \in Genesis
  BY <1>2, FullIsGenesis
<1>7. ConfigOf(i) \in Config
  <2>1. RpcPort(i) \in Int \cup {NoFile}
    <3>1. args.ports \in Seq(Int)
      BY Args DEF NetworkInv
    <3>2. i < Len(args.ports) => args.ports[i + 1] \in Int
      BY <1>2, <3>1
    <3>3. 26657 - 3 * i \in Int
      BY <1>2
    <3> QED BY <3>2, <3>3 DEF RpcPort
  <2>2. P2PPort(i) \in Int /\ ProxyPort(i) \in Int /\ PrometheusPort(i) \in Int
    BY <1>2 DEF P2PPort, ProxyPort, PrometheusPort
  <2>3. peers \in Seq(Peer)
    BY DEF NetworkInv, TypeOK
  <2> QED BY <2>1, <2>2, <2>3 DEF ConfigOf, Config
<1>8. disk' = [disk EXCEPT ![i] = d]
  <2>1. disk \in [Nodes -> Node \cup {NoFile}]
    BY DEF NetworkInv, TypeOK
  <2> QED BY <1>4, <1>5, <2>1
<1>9. /\ d \in Node /\ d.id = disk[i].id /\ d.acc = disk[i].acc /\ d.seed = disk[i].seed
      /\ d.gentxs = disk[i].gentxs /\ d.app = disk[i].app /\ d.genesis = Full
      /\ d.config = ConfigOf(i)
  BY <1>5, <1>6, <1>7 DEF Node
<1> HIDE DEF d
<1>10. TypeOK'
  <2>1. {d.id, d.acc, d.seed} \subseteq 0..keys' /\ i' \in 0..args.n /\ canon' \in Genesis \cup {NoFile}
    BY <1>1, <1>2, <1>4, <1>5, <1>6, <1>9
  <2> QED BY <1>1, <1>2, <1>5, <1>8, <1>9, <2>1, TypeStays DEF NetworkInv, TypeOK, PC
<1>11. /\ disk'[i] = d /\ \A m \in Nodes \ {i} : disk'[m] = disk[m]
       /\ On' = On
  <2>1. On' = On \cup {i}
    BY <1>5, <1>8, <1>9, DiskAt DEF NetworkInv
  <2>2. On \cup {i} = On
    BY <1>3
  <2> QED BY <1>5, <1>8, <1>9, <2>1, <2>2, DiskAt DEF NetworkInv
<1>12. \A k \in On : /\ disk'[k].id = disk[k].id /\ disk'[k].gentxs = disk[k].gentxs
                     /\ disk'[k].acc = disk[k].acc /\ disk'[k].seed = disk[k].seed
                     /\ disk'[k].app = disk[k].app
                     /\ disk'[k].config = IF k = i THEN ConfigOf(i) ELSE disk[k].config
                     /\ disk'[k].genesis = IF k = i THEN Full ELSE disk[k].genesis
  BY <1>9, <1>11 DEF On
<1>13. pc' \notin FirstLoop /\ Started'
  BY <1>1 DEF FirstLoop, Started
<1>14. /\ FilesInv' /\ KeysInv' /\ AmountsInv'
       /\ Members' = Members /\ Bare' = Bare /\ Full' = Full
       /\ \A k \in Members : OwnGentx(k)' = OwnGentx(k) /\ k \in On
       /\ \A k : ConfigOf(k)' = ConfigOf(k)
  BY <1>1, <1>2, <1>11, <1>12, <1>13, FilesWritten
<1>15. GenesisInv'
  <2>1. \A k, m \in Members : /\ Copied(k, m)' => Copied(k, m)
                              /\ Canonical(k)' => Canonical(k) \/ k = i
                              /\ Collected(k)' => Collected(k)
                              /\ Saved(k)' /\ ~ Collected(k)' => Saved(k) /\ ~ Collected(k)
    BY <1>1, <1>2 DEF Copied, Canonical, Collected, Saved
  <2>2. GenesisInv
    BY <1>2 DEF NetworkInv
  <2>3. \A k, m \in Members : Copied(k, m)' => OwnGentx(m) \in disk'[k].gentxs
    BY <1>12, <1>14, <2>1, <2>2 DEF GenesisInv
  <2>4. \A k \in Members : Collected(k)' => disk'[k].genesis = Full
    BY <1>12, <1>14, <2>1, <2>2 DEF GenesisInv
  <2>5. \A k \in Members : Saved(k)' /\ ~ Collected(k)' => disk'[k].genesis = Bare
    <3>1. Collected(i)
      BY <1>1 DEF Collected
    <3> QED BY <1>12, <1>14, <2>1, <2>2, <3>1 DEF GenesisInv
  <2>6. \A k \in Members : Canonical(k)' => disk'[k].config = ConfigOf(k)
    BY <1>12, <1>14, <2>1, <2>2 DEF GenesisInv
  <2>7. /\ \A k, m \in Members' : Copied(k, m)' => OwnGentx(m)' \in disk'[k].gentxs
        /\ \A k \in Members' : Collected(k)' => disk'[k].genesis = Full'
    BY <1>14, <2>3, <2>4
  <2>8. /\ \A k \in Members' : Saved(k)' /\ ~ Collected(k)' => disk'[k].genesis = Bare'
        /\ \A k \in Members' : Canonical(k)' => disk'[k].config = ConfigOf(k)'
    BY <1>14, <2>5, <2>6
  <2>9. canon' # NoFile => pc' \in {"collect", "canonical", "done"} /\ canon' = Full'
    BY <1>1, <1>4, <1>14
  <2> QED BY <2>7, <2>8, <2>9 DEF GenesisInv
<1>16. LoopInv' /\ OnlySmallerRunsRefused'
  BY <1>1 DEF NetworkInv, LoopInv, OnlySmallerRunsRefused, FirstLoop
<1> QED BY <1>10, <1>14, <1>15, <1>16 DEF NetworkInv

-----------------------------------------------------------------------------
LEMMA NextNetwork == NetworkInv /\ [Next]_vars => NetworkInv'
<1> SUFFICES ASSUME NetworkInv, [Next]_vars PROVE NetworkInv'
  OBVIOUS
<1>1. CASE \E n \in Sizes, amounts \in AmountLists, ports \in PortLists :
               RunCommand(n, amounts, ports)
  BY <1>1, RunCommandNetwork
<1>2. CASE Fail
  BY <1>2, FailNetwork
<1>3. CASE FailRemoving
  BY <1>3, FailRemovingNetwork
<1>4. CASE Step
  BY <1>4, EndLoopNetwork, MakeNodeDirNetwork, InitializeNodeFilesNetwork,
     GenerateAccountNetwork, WriteSeedNetwork, WriteGentxNetwork, WriteAppConfigNetwork,
     SaveGenesisNetwork, CopyGentxNetwork, CollectGentxsNetwork, WriteCanonicalNetwork
     DEF Step
<1>5. CASE UNCHANGED vars
  <2>1. NetworkInv' <=> NetworkInv
    BY <1>5 DEF vars, NetworkInv, TypeOK, KeysInv, AmountsInv, LoopInv, Started, FilesInv,
         GenesisInv, OnlySmallerRunsRefused, On, Named, Keyed, Seeded, Signed, Finished, UpTo,
         Reached, Members, OwnGentx, StakeOf, Copied, Canonical, Collected, Saved, Full, Bare,
         ConfigOf, RpcPort
  <2> QED BY <2>1
<1> QED BY <1>1, <1>2, <1>3, <1>4, <1>5 DEF Next

LEMMA NetworkAlways == Spec => []NetworkInv
BY InitNetwork, NextNetwork, PTL DEF Spec

(***************************************************************************)
(* The theorems.                                                           *)
(***************************************************************************)

\* Every variable, and every file on disk, holds a value of its type.
THEOREM TestnetTypeCorrect == Spec => []TypeOK
<1>1. NetworkInv => TypeOK
  BY DEF NetworkInv
<1> QED BY <1>1, NetworkAlways, PTL

(***************************************************************************)
(* A run that reports success leaves one network (initTestnetFiles), for   *)
(* every number of nodes, however many runs of whatever size were made     *)
(* before it over the same directories, and wherever they were cut off.    *)
(***************************************************************************)
THEOREM BuildsOneNetwork == Spec => []OneNetwork
<1>1. NetworkInv => OneNetwork
  <2> SUFFICES ASSUME NetworkInv, pc = "done", NEW k \in Members
               PROVE  disk[k].seed = disk[k].acc /\ disk[k].genesis = Full
    BY DEF OneNetwork, Full
  <2>1. pc \notin FirstLoop /\ Started
    BY DEF FirstLoop, Started
  <2>2. disk[k].genesis = Full
    BY <2>1 DEF NetworkInv, GenesisInv, Collected, Canonical
  <2> QED BY <2>1, <2>2, AfterFirstLoop
<1> QED BY <1>1, NetworkAlways, PTL

(***************************************************************************)
(* Each node of a finished network lists every node of it, in order, under *)
(* the id of the key on that node's disk and at the port it listens on.    *)
(***************************************************************************)
THEOREM KnowsEveryPeer == Spec => []PeersKnown
<1>1. NetworkInv => PeersKnown
  <2> SUFFICES ASSUME NetworkInv, pc = "done", NEW k \in Members
               PROVE  /\ Len(disk[k].config.peers) = args.n
                      /\ \A m \in Members :
                            disk[k].config.peers[m + 1] =
                              [id |-> disk[m].id, port |-> disk[m].config.p2p]
    BY DEF PeersKnown
  <2>1. pc \notin FirstLoop /\ Started
    BY DEF FirstLoop, Started
  <2>2. \A m \in Members : disk[m].config.peers = peers /\ disk[m].config.p2p = PeerPort(m)
    <3>1. \A m \in Members : disk[m].config = ConfigOf(m)
      BY <2>1 DEF NetworkInv, GenesisInv, Canonical
    <3>2. \A m \in Members : ConfigOf(m).peers = peers /\ ConfigOf(m).p2p = PeerPort(m)
      BY DEF ConfigOf, P2PPort, PeerPort
    <3> QED BY <3>1, <3>2
  <2> QED BY <2>1, <2>2, AfterFirstLoop
<1> QED BY <1>1, NetworkAlways, PTL

(***************************************************************************)
(* What an earlier run left behind stops a later one only when the later   *)
(* one is smaller: a retry of the same size or a larger one is never       *)
(* refused because of a gentx whose account has no balance any more.       *)
(***************************************************************************)
THEOREM RefusesOnlySmallerRuns == Spec => []OnlySmallerRunsRefused
<1>1. NetworkInv => OnlySmallerRunsRefused
  BY DEF NetworkInv
<1> QED BY <1>1, NetworkAlways, PTL

-----------------------------------------------------------------------------
Distinct(a, b, c, d, e) ==
    /\ a # b /\ a # c /\ a # d /\ a # e /\ b # c
    /\ b # d /\ b # e /\ c # d /\ c # e /\ d # e

LEMMA FiveElements ==
    ASSUME NEW a, NEW b, NEW c, NEW d, NEW e, Distinct(a, b, c, d, e)
    PROVE  Cardinality({a, b, c, d, e}) = 5
<1>0. /\ a # b /\ a # c /\ a # d /\ a # e /\ b # c
      /\ b # d /\ b # e /\ c # d /\ c # e /\ d # e
  BY DEF Distinct
<1>1. IsFiniteSet({a}) /\ Cardinality({a}) = 1
  BY FS_Singleton
<1>2. IsFiniteSet({a, b}) /\ Cardinality({a, b}) = 2
  <2>1. {a} \cup {b} = {a, b} /\ b \notin {a}
    BY <1>0
  <2> QED BY <1>1, <2>1, FS_AddElement
<1>3. IsFiniteSet({a, b, c}) /\ Cardinality({a, b, c}) = 3
  <2>1. {a, b} \cup {c} = {a, b, c} /\ c \notin {a, b}
    BY <1>0
  <2> QED BY <1>2, <2>1, FS_AddElement
<1>4. IsFiniteSet({a, b, c, d}) /\ Cardinality({a, b, c, d}) = 4
  <2>1. {a, b, c} \cup {d} = {a, b, c, d} /\ d \notin {a, b, c}
    BY <1>0
  <2> QED BY <1>3, <2>1, FS_AddElement
<1>5. {a, b, c, d} \cup {e} = {a, b, c, d, e} /\ e \notin {a, b, c, d}
  BY <1>0
<1>6. Cardinality({a, b, c, d} \cup {e}) = 4 + 1
  BY <1>4, <1>5, FS_AddElement
<1> QED BY <1>5, <1>6

\* The p2p port of a node counts down to the gRPC ports: those of nodes 1 and
\* 5856 are the same.
DefaultPorts(k) == {26657 - 3 * k, P2PPort(k), ProxyPort(k), PrometheusPort(k), GrpcPort(k)}

Fits(k) == k \in 0..5855

LEMMA PortsDiffer ==
    ASSUME NEW k, NEW m, Fits(k), Fits(m)
    PROVE  /\ Cardinality(DefaultPorts(k)) = 5
           /\ k # m => DefaultPorts(k) \cap DefaultPorts(m) = {}
<1>0. k \in Int /\ m \in Int /\ 0 <= k /\ 0 <= m /\ k <= 5855 /\ m <= 5855
  BY DEF Fits
<1>1. /\ 26657 - 3 * k # 26656 - 3 * k /\ 26657 - 3 * k # 26658 - 3 * k
      /\ 26657 - 3 * k # 26660 + k /\ 26657 - 3 * k # 9090 - 2 * k
      /\ 26656 - 3 * k # 26658 - 3 * k /\ 26656 - 3 * k # 26660 + k
      /\ 26656 - 3 * k # 9090 - 2 * k /\ 26658 - 3 * k # 26660 + k
      /\ 26658 - 3 * k # 9090 - 2 * k /\ 26660 + k # 9090 - 2 * k
  BY <1>0
<1>2. Cardinality(DefaultPorts(k)) = 5
  <2> DEFINE a == 26657 - 3 * k
             b == 26656 - 3 * k
             c == 26658 - 3 * k
             d == 26660 + k
             e == 9090 - 2 * k
  <2>1. DefaultPorts(k) = {a, b, c, d, e}
    BY DEF DefaultPorts, P2PPort, ProxyPort, PrometheusPort, GrpcPort
  <2>2. Distinct(a, b, c, d, e)
    BY <1>1 DEF Distinct
  <2> HIDE DEF a, b, c, d, e
  <2>3. Cardinality({a, b, c, d, e}) = 5
    BY <2>2, FiveElements
  <2> QED BY <2>1, <2>3
<1>3. ASSUME k # m
      PROVE  DefaultPorts(k) \cap DefaultPorts(m) = {}
  <2> SUFFICES ASSUME NEW p \in DefaultPorts(k), p \in DefaultPorts(m) PROVE FALSE
    OBVIOUS
  <2>1. \/ p = 26657 - 3 * k \/ p = 26656 - 3 * k \/ p = 26658 - 3 * k
        \/ p = 26660 + k \/ p = 9090 - 2 * k
    BY DEF DefaultPorts, P2PPort, ProxyPort, PrometheusPort, GrpcPort
  <2>2. \/ p = 26657 - 3 * m \/ p = 26656 - 3 * m \/ p = 26658 - 3 * m
        \/ p = 26660 + m \/ p = 9090 - 2 * m
    BY DEF DefaultPorts, P2PPort, ProxyPort, PrometheusPort, GrpcPort
  <2>3. p \in Int
    BY <1>0, <2>1
  <2>4. CASE p = 26657 - 3 * k
    BY <1>0, <1>3, <2>2, <2>4
  <2>5. CASE p = 26656 - 3 * k
    BY <1>0, <1>3, <2>2, <2>5
  <2>6. CASE p = 26658 - 3 * k
    BY <1>0, <1>3, <2>2, <2>6
  <2>7. CASE p = 26660 + k
    BY <1>0, <1>3, <2>2, <2>7
  <2>8. CASE p = 9090 - 2 * k
    BY <1>0, <1>3, <2>2, <2>8
  <2> QED BY <2>1, <2>4, <2>5, <2>6, <2>7, <2>8
<1> QED BY <1>2, <1>3

(***************************************************************************)
(* With the default ports the five listeners the command configures have   *)
(* ports of their own, for up to 5856 nodes; of one more, the p2p port of  *)
(* the last would be the gRPC port of another (testnet_multi_node.go:310,  *)
(* 449).                                                                   *)
(***************************************************************************)
THEOREM SeparatesPorts ==
    ASSUME \A n \in Sizes : n <= 5856
    PROVE  Spec => []PortsDisjoint
<1>1. NetworkInv => PortsDisjoint
  <2> SUFFICES ASSUME NetworkInv, pc = "done", args.ports = <<>>
               PROVE  /\ \A k \in Members : Cardinality(ListenPorts(k)) = 5
                      /\ \A k, m \in Members : k # m => ListenPorts(k) \cap ListenPorts(m) = {}
    BY DEF PortsDisjoint
  <2>1. pc \notin FirstLoop /\ Started
    BY DEF FirstLoop, Started
  <2>2. \A k \in Members : ListenPorts(k) = DefaultPorts(k)
    <3> SUFFICES ASSUME NEW k \in Members PROVE ListenPorts(k) = DefaultPorts(k)
      OBVIOUS
    <3>1. disk[k].config = ConfigOf(k)
      BY <2>1 DEF NetworkInv, GenesisInv, Canonical
    <3>2. disk[k].app = [grpc |-> GrpcPort(k), api |-> ApiPort(k)]
      BY <2>1, AfterFirstLoop
    <3>3. /\ ConfigOf(k).rpc = 26657 - 3 * k /\ ConfigOf(k).p2p = P2PPort(k)
          /\ ConfigOf(k).proxy = ProxyPort(k) /\ ConfigOf(k).prometheus = PrometheusPort(k)
      BY DEF ConfigOf, RpcPort
    <3> QED BY <3>1, <3>2, <3>3 DEF ListenPorts, DefaultPorts
  <2>3. \A k \in Members : Fits(k)
    <3> DEFINE n == args.n
    <3>1. n \in Nat /\ n <= 5856 /\ Members = 0..(n - 1)
      <4>1. args.n \in Sizes \cup {0} /\ args.n \in Nat
        BY Args DEF NetworkInv
      <4>2. CASE args.n \in Sizes
        BY <4>1, <4>2 DEF Members
      <4>3. CASE args.n = 0
        BY <4>1, <4>3 DEF Members
      <4> QED BY <4>1, <4>2, <4>3
    <3> HIDE DEF n
    <3> QED BY <3>1 DEF Fits
  <2>4. \A k, m \in Members : /\ Cardinality(DefaultPorts(k)) = 5
                              /\ k # m => DefaultPorts(k) \cap DefaultPorts(m) = {}
    <3> SUFFICES ASSUME NEW k \in Members, NEW m \in Members
                 PROVE  /\ Cardinality(DefaultPorts(k)) = 5
                        /\ k # m => DefaultPorts(k) \cap DefaultPorts(m) = {}
      OBVIOUS
    <3>1. Fits(k) /\ Fits(m)
      BY <2>3
    <3> QED BY <3>1, PortsDiffer
  <2> QED BY <2>2, <2>4
<1> QED BY <1>1, NetworkAlways, PTL
=============================================================================
