--------------------------- MODULE MultiNodeTestnet ---------------------------
(***************************************************************************)
(* `mirrorvaultd multi-node': initTestnetFiles and what it calls, in       *)
(* src/chain/cmd/mirrorvaultd/cmd/testnet_multi_node.go.                   *)
(*                                                                         *)
(* The command writes the directories of n validators, file by file, in    *)
(* four loops: the nodes' own files, their empty genesis files, copies of  *)
(* every gentx in every node, and the collected genesis.  A run may fail   *)
(* at any file, or be killed; some failures remove the whole output        *)
(* directory, others leave what is there.  The user may then run it again  *)
(* over the same directory, with other flags: node keys found on disk are  *)
(* kept, account keys are made anew.                                       *)
(*                                                                         *)
(* A key (and the address or node id it gives) is a number, 0 for none,    *)
(* made in order.  A node id stands for the consensus key too: both are    *)
(* made by InitializeNodeValidatorFiles.  Amounts count in units of the    *)
(* code's millions, files are written whole.                               *)
(***************************************************************************)
EXTENDS Integers, Sequences, FiniteSets

CONSTANTS Sizes,        \* bound: values of --v
          AmountLists,  \* bound: values of --validators-stake-amount
          PortLists,    \* bound: values of --list-ports, <<>> for ""
          MaxRuns,      \* bound: times the command is run
          MaxFaults,    \* bound: failures and kills in all
          NotANumber,   \* an amount NewIntFromString refuses
          NoFile        \* a file or directory that does not exist

ASSUME SizesAssumption == Sizes \subseteq Nat
ASSUME ListsAssumption ==
    /\ AmountLists \subseteq Seq(Int \cup {NotANumber})
    /\ PortLists \subseteq Seq(Int)
ASSUME BoundsAssumption == MaxRuns \in Nat /\ MaxFaults \in Nat

Nodes == UNION {0..(n - 1) : n \in Sizes}

AccountStake == 500  \* accStakingTokens, TokensFromConsensusPower(500)
DefaultStake == 100  \* valTokens of a node that is not in the map
Gentx == [id : Nat, acc : Nat, stake : Nat, chain : Nat]
Genesis == [chain : Nat, funded : SUBSET Nat, gentxs : SUBSET Gentx]
AppConfig == [grpc : Int, api : Int]
Peer == [id : Nat, port : Int]
Config == [peers : Seq(Peer), p2p : Int, rpc : Int \cup {NoFile},
           proxy : Int, prometheus : Int]
Node == [id : Nat, acc : Nat, seed : Nat, gentxs : SUBSET Gentx,
         genesis : Genesis \cup {NoFile}, app : AppConfig \cup {NoFile},
         config : Config \cup {NoFile}]
NewNode == [id |-> 0, acc |-> 0, seed |-> 0, gentxs |-> {},
            genesis |-> NoFile, app |-> NoFile, config |-> NoFile]

ASSUME NoFileAssumption == NoFile \notin Genesis \cup Node

VARIABLES pc,      \* "idle", the step of the running command, "done" or "failed"
          why,     \* what the last run failed of
          runs,    \* runs started so far; also the run's random chain id
          faults,  \* failures and kills so far
          args,    \* initArgs of the current run
          i, j,    \* the loop variables
          keys,    \* keys made so far
          funded,  \* addresses in genBalances and genAccounts
          peers,   \* persistentPeers
          canon,   \* appState, the canonical one
          disk     \* the node directories

vars == <<pc, why, runs, faults, args, i, j, keys, funded, peers, canon, disk>>

Running == pc \notin {"idle", "done", "failed"}

Init ==
    /\ pc = "idle"
    /\ why = "none"
    /\ runs = 0
    /\ faults = 0
    /\ args = [n |-> 0, amounts |-> <<>>, ports |-> <<>>]
    /\ i = 0
    /\ j = 0
    /\ keys = 0
    /\ funded = {}
    /\ peers = <<>>
    /\ canon = NoFile
    /\ disk = [k \in Nodes |-> NoFile]

-----------------------------------------------------------------------------
\* An entry that is not a number is skipped and the next one takes its place.
\* This is the map validatorsStakesAmount; top is the code's variable.
Parsed(amounts) ==
    LET numbers == {p \in DOMAIN amounts : amounts[p] # NotANumber}
        top(p) == Cardinality({q \in numbers : q < p})
    IN  [k \in {top(p) : p \in numbers} |->
            amounts[CHOOSE p \in numbers : top(p) = k]]

\* What node k stakes, which need not be in the map.
StakeOf(k) ==
    LET stakes == Parsed(args.amounts)
    IN  IF k \in DOMAIN stakes THEN stakes[k] ELSE DefaultStake

\* The RPC ports: the default ones, or those listed; NoFile when a list is too
\* short (the address then ends in ":").
RpcPort(k) ==
    IF args.ports = <<>> THEN 26657 - 3 * k
    ELSE IF k < Len(args.ports) THEN args.ports[k + 1] ELSE NoFile

PeerPortAscending(k) == 26656 + 3 * k \* bug variant of the next
PeerPort(k) == 26656 - 3 * k     \* in the memo and the list of peers
P2PPortByTwo(k) == 26656 - 2 * k \* bug variant of the next
P2PPort(k) == 26656 - 3 * k      \* P2P.ListenAddress
ProxyPort(k) == 26658 - 3 * k
PrometheusPort(k) == 26660 + k
GrpcPort(k) == 9090 - 2 * k
ApiPort(k) == 1317 - k           \* written, but the API is disabled

\* A file of the same name is overwritten.
Put(gentxs, g) == {other \in gentxs : other.id # g.id} \cup {g}

-----------------------------------------------------------------------------
\* RunE: parse the flags.  sdk.NewCoin panics on a negative amount.
RunCommand(n, amounts, ports) ==
    /\ ~ Running
    /\ runs < MaxRuns
    /\ runs' = runs + 1
    /\ args' = [n |-> n, amounts |-> amounts, ports |-> ports]
    /\ IF \E k \in DOMAIN Parsed(amounts) : Parsed(amounts)[k] < 0
       THEN pc' = "failed" /\ why' = "negative"
       ELSE pc' = "nodeDir" /\ why' = "none"
    /\ i' = 0
    /\ j' = 0
    /\ funded' = {}
    /\ peers' = <<>>
    /\ canon' = NoFile
    /\ UNCHANGED <<faults, keys, disk>>

\* The command returns an error, panics or is killed before its next file.
Fail ==
    /\ Running
    /\ faults < MaxFaults
    /\ faults' = faults + 1
    /\ pc' = "failed"
    /\ why' = "environment"
    /\ UNCHANGED <<runs, args, i, j, keys, funded, peers, canon, disk>>

\* os.RemoveAll(outputDir) on the way out, after three of the errors.
FailRemoving ==
    /\ pc \in {"nodeDir", "nodeFiles", "account"}
    /\ i < args.n
    /\ faults < MaxFaults
    /\ faults' = faults + 1
    /\ pc' = "failed"
    /\ why' = "environment"
    /\ disk' = [k \in Nodes |-> NoFile]
    /\ UNCHANGED <<runs, args, i, j, keys, funded, peers, canon>>

\* A loop over 0..n-1 ends.
After == [nodeDir |-> "genesis", genesis |-> "copy", copy |-> "collect",
          collect |-> "done"]

EndLoop ==
    /\ pc \in DOMAIN After
    /\ i = args.n
    /\ pc' = After[pc]
    /\ i' = 0
    /\ UNCHANGED <<why, runs, faults, args, j, keys, funded, peers, canon, disk>>

-----------------------------------------------------------------------------
\* The first loop: the files of node i.
MakeNodeDir ==
    /\ pc = "nodeDir"
    /\ i < args.n
    /\ disk' = [disk EXCEPT ![i] = IF @ = NoFile THEN NewNode ELSE @]
    /\ pc' = "nodeFiles"
    /\ UNCHANGED <<why, runs, faults, args, i, j, keys, funded, peers, canon>>

\* genutil.InitializeNodeValidatorFiles loads the keys, or makes them.
InitializeNodeFiles ==
    /\ pc = "nodeFiles"
    /\ LET id == IF disk[i].id = 0 THEN keys + 1 ELSE disk[i].id
       IN  /\ disk' = [disk EXCEPT ![i].id = id]
           /\ keys' = IF disk[i].id = 0 THEN keys + 1 ELSE keys
           /\ peers' = Append(peers, [id |-> id, port |-> PeerPort(i)])
    /\ pc' = "account"
    /\ UNCHANGED <<why, runs, faults, args, i, j, funded, canon>>

\* Bug variant: the key is not a new one.
GenerateAccountAgain ==
    /\ pc = "account"
    /\ disk' = [disk EXCEPT ![i].acc = keys + 1]
    /\ pc' = "seed"
    /\ UNCHANGED <<why, runs, faults, args, i, j, keys, funded, peers, canon>>

\* testutil.GenerateSaveCoinKey overwrites the key of that name.
GenerateAccount ==
    /\ pc = "account"
    /\ keys' = keys + 1
    /\ disk' = [disk EXCEPT ![i].acc = keys + 1]
    /\ pc' = "seed"
    /\ UNCHANGED <<why, runs, faults, args, i, j, funded, peers, canon>>

\* key_seed.json, then the account joins genBalances and genAccounts.
WriteSeed ==
    /\ pc = "seed"
    /\ disk' = [disk EXCEPT ![i].seed = disk[i].acc]
    /\ funded' = funded \cup {disk[i].acc}
    /\ pc' = "gentx"
    /\ UNCHANGED <<why, runs, faults, args, i, j, keys, peers, canon>>

WriteGentx ==
    /\ pc = "gentx"
    /\ LET gentx == [id |-> disk[i].id, acc |-> disk[i].acc,
                     stake |-> StakeOf(i), chain |-> runs]
       IN  disk' = [disk EXCEPT ![i].gentxs = Put(@, gentx)]
    /\ pc' = "appConfig"
    /\ UNCHANGED <<why, runs, faults, args, i, j, keys, funded, peers, canon>>

\* app.toml, with the two ports that are not in config.toml.
WriteAppConfig ==
    /\ pc = "appConfig"
    /\ disk' = [disk EXCEPT ![i].app = [grpc |-> GrpcPort(i), api |-> ApiPort(i)]]
    /\ pc' = "nodeDir"
    /\ i' = i + 1
    /\ UNCHANGED <<why, runs, faults, args, j, keys, funded, peers, canon>>

-----------------------------------------------------------------------------
\* initGenFiles: the accounts and balances, no gentx yet.
SaveGenesis ==
    /\ pc = "genesis"
    /\ i < args.n
    /\ disk' = [disk EXCEPT ![i].genesis =
                  [chain |-> runs, funded |-> funded, gentxs |-> {}]]
    /\ i' = i + 1
    /\ UNCHANGED <<pc, why, runs, faults, args, j, keys, funded, peers, canon>>

\* isSubDir: the gentx file of node k is in the gentx directory of node m.
IsSubDir(k, m) == k = m

\* Bug variant: a file that is there already is not overwritten.
CopyGentxOnce ==
    /\ pc = "copy"
    /\ i < args.n
    /\ LET file == CHOOSE g \in disk[j].gentxs : g.id = disk[j].id
           there == \E g \in disk[i].gentxs : g.id = file.id
       IN  disk' = IF there THEN disk ELSE [disk EXCEPT ![i].gentxs = Put(@, file)]
    /\ IF j + 1 = args.n THEN i' = i + 1 /\ j' = 0 ELSE i' = i /\ j' = j + 1
    /\ UNCHANGED <<pc, why, runs, faults, args, keys, funded, peers, canon>>

\* gentxsFiles[j] is copied to node i, unless it is node i's own.
CopyGentx ==
    /\ pc = "copy"
    /\ i < args.n
    /\ LET file == CHOOSE g \in disk[j].gentxs : g.id = disk[j].id
       IN  disk' = IF IsSubDir(j, i) THEN disk ELSE [disk EXCEPT ![i].gentxs = Put(@, file)]
    /\ IF j + 1 = args.n THEN i' = i + 1 /\ j' = 0 ELSE i' = i /\ j' = j + 1
    /\ UNCHANGED <<pc, why, runs, faults, args, keys, funded, peers, canon>>

-----------------------------------------------------------------------------
\* Bug variant: the balances are not looked at.
CollectGentxsUnchecked ==
    /\ pc = "collect"
    /\ i < args.n
    /\ pc' = "canonical"
    /\ disk' = [disk EXCEPT ![i].genesis.gentxs = disk[i].gentxs]
    /\ UNCHANGED <<why, runs, faults, args, i, j, keys, funded, peers, canon>>

(***************************************************************************)
(* genutil.GenAppStateFromConfig for node i: every gentx in its directory  *)
(* must come from an account with a balance in its genesis file, and with  *)
(* enough of it; they are then added to the file.                          *)
(***************************************************************************)
CollectGentxs ==
    /\ pc = "collect"
    /\ i < args.n
    /\ LET gentxs == disk[i].gentxs
           stranger == \E g \in gentxs : g.acc \notin disk[i].genesis.funded
           poor == \E g \in gentxs : g.stake > AccountStake
       IN  IF stranger \/ poor
           THEN /\ pc' = "failed"
                /\ \/ stranger /\ why' = "balance"
                   \/ poor /\ why' = "funds"
                /\ UNCHANGED disk
           ELSE /\ pc' = "canonical"
                /\ disk' = [disk EXCEPT ![i].genesis.gentxs = gentxs]
                /\ UNCHANGED why
    /\ UNCHANGED <<runs, faults, args, i, j, keys, funded, peers, canon>>

\* config.toml, and node i's genesis file overwritten with the first node's.
WriteCanonical ==
    /\ pc = "canonical"
    /\ LET state == IF canon = NoFile THEN disk[i].genesis ELSE canon
       IN  /\ canon' = state
           /\ disk' = [disk EXCEPT
                ![i].config = [peers |-> peers, p2p |-> P2PPort(i), rpc |-> RpcPort(i),
                               proxy |-> ProxyPort(i), prometheus |-> PrometheusPort(i)],
                ![i].genesis = state]
    /\ pc' = "collect"
    /\ i' = i + 1
    /\ UNCHANGED <<why, runs, faults, args, j, keys, funded, peers>>

-----------------------------------------------------------------------------
Step ==
    \/ EndLoop \/ MakeNodeDir \/ InitializeNodeFiles \/ GenerateAccount
    \/ WriteSeed \/ WriteGentx \/ WriteAppConfig \/ SaveGenesis \/ CopyGentx
    \/ CollectGentxs \/ WriteCanonical

Next ==
    \/ \E n \in Sizes, amounts \in AmountLists, ports \in PortLists :
           RunCommand(n, amounts, ports)
    \/ Fail
    \/ FailRemoving
    \/ Step

Spec == Init /\ [][Next]_vars

\* The command is a sequential program: it keeps running.
FairSpec == Spec /\ WF_vars(Step)

-----------------------------------------------------------------------------
(***************************************************************************)
(* Properties.                                                             *)
(***************************************************************************)
PC == {"idle", "nodeDir", "nodeFiles", "account", "seed", "gentx", "appConfig",
       "genesis", "copy", "collect", "canonical", "done", "failed"}

\* Every variable holds a value of its type.
TypeOK ==
    /\ pc \in PC
    /\ why \in {"none", "environment", "negative", "balance", "funds"}
    /\ runs \in 0..MaxRuns
    /\ faults \in 0..MaxFaults
    /\ args \in [n : Sizes \cup {0}, amounts : AmountLists \cup {<<>>},
                 ports : PortLists \cup {<<>>}]
    /\ i \in 0..args.n
    /\ j \in 0..args.n
    /\ keys \in Nat
    /\ funded \subseteq 1..keys
    /\ peers \in Seq(Peer) /\ Len(peers) <= args.n
    /\ canon \in Genesis \cup {NoFile}
    /\ disk \in [Nodes -> Node \cup {NoFile}]
    /\ \A k \in Nodes : disk[k] # NoFile =>
          {disk[k].id, disk[k].acc, disk[k].seed} \subseteq 0..keys

Members == 0..(args.n - 1)

\* What a gentx of node k, made in this run, says.
OwnGentx(k) == [id |-> disk[k].id, acc |-> disk[k].acc,
                stake |-> StakeOf(k), chain |-> runs]

(***************************************************************************)
(* A run that reports success leaves one network: all its nodes share one  *)
(* genesis, made of one gentx per node, each signed in this run by the     *)
(* account in the node's keyring (whose seed is the one saved beside it)   *)
(* for the node key on its disk, and just these accounts are funded.       *)
(* Whatever earlier runs, of other sizes or cut off at any file, left in   *)
(* the directories does not get in.                                        *)
(***************************************************************************)
OneNetwork ==
    pc = "done" =>
      \A k \in Members :
        /\ disk[k].seed = disk[k].acc
        /\ disk[k].genesis = [chain  |-> runs,
                             funded |-> {disk[m].acc : m \in Members},
                             gentxs |-> {OwnGentx(m) : m \in Members}]

(***************************************************************************)
(* Each node lists every node of the network and no other: under the id of *)
(* the key on that node's disk, at the port that node listens on.  The id  *)
(* outlives a failed run, the list of peers is made anew in each.          *)
(***************************************************************************)
PeersKnown ==
    pc = "done" =>
      \A k \in Members :
        /\ Len(disk[k].config.peers) = args.n
        /\ \A m \in Members :
              disk[k].config.peers[m + 1] =
                [id |-> disk[m].id, port |-> disk[m].config.p2p]

ListenPorts(k) == {disk[k].config.rpc, disk[k].config.p2p, disk[k].config.proxy,
                   disk[k].config.prometheus, disk[k].app.grpc}

\* With the default ports all nodes can run on one machine: of the listeners
\* whose ports the command assigns no two, of one node or of two, have the same
\* one.  (The SDK's pprof listener is the same in every config.toml.)
PortsDisjoint ==
    pc = "done" /\ args.ports = <<>> =>
      /\ \A k \in Members : Cardinality(ListenPorts(k)) = 5
      /\ \A k, m \in Members : k # m => ListenPorts(k) \cap ListenPorts(m) = {}

(***************************************************************************)
(* What an earlier run left behind stops a later one only when the later   *)
(* one is smaller: then a gentx of a node that is not set up again is      *)
(* still there, its account no longer funded.  A retry of the same size is *)
(* never refused for the balance of a stranger.                            *)
(***************************************************************************)
OnlySmallerRunsRefused ==
    pc = "failed" /\ why = "balance" =>
      \E k \in Nodes \ Members : disk[k] # NoFile

(***************************************************************************)
(* A run the environment leaves alone from some step on succeeds, whatever *)
(* earlier runs were cut off in and whatever they left on disk, provided   *)
(* that its accounts can pay the stakes and no larger run came before it.  *)
(***************************************************************************)
Affordable == \A k \in Members : StakeOf(k) <= AccountStake

RetrySucceeds ==
    (/\ Running /\ faults = MaxFaults
     /\ Affordable
     /\ \A k \in Nodes \ Members : disk[k] = NoFile) ~> pc = "done"

\* "If the flag string is invalid, the amount will default to 100000000" (line
\* 104): the amount in place of an entry that is not a number is the default.
InvalidAmountDefaults ==
    \A k \in Members : Running /\ k < Len(args.amounts) =>
      (args.amounts[k + 1] = NotANumber => StakeOf(k) = DefaultStake)
=============================================================================
