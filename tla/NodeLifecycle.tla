---------------------------- MODULE NodeLifecycle ----------------------------
(***************************************************************************)
(* The process mirrorvaultd from its start to its end, again and again     *)
(* over one database: the root command injects a first container, New      *)
(* (app.go) builds the application step by step and loads a version of the *)
(* stores, for the node (newApp) the latest one, for `export' (appExport)  *)
(* perhaps an older one; the node then executes blocks, optimistically     *)
(* (app.go, line 188) as soon as one is proposed, and commits those        *)
(* consensus decides.  It may crash anywhere.                              *)
(*                                                                         *)
(* At this commit no process gets that far: dependency injection panics    *)
(* over the signer of MsgEthereumTx (docs/PROJECT_STATE.md, line 41), and  *)
(* if it did not, the EVM keeper's constructor would, for want of a module *)
(* account.  The constant Repairs says which of the two are repaired, as   *)
(* docs/MANUAL_WIRING_MIGRATION_PLAN.md plans.                             *)
(*                                                                         *)
(* A version of the stores is the sequence of the blocks executed to get   *)
(* there.  CometBFT, the store and BaseApp are libraries: proposals,       *)
(* decisions, optimistic execution and commits are modelled by what they   *)
(* do to the application's state.  The database is locked, so there is one *)
(* process at a time.                                                      *)
(***************************************************************************)
EXTENDS Integers, Sequences, SequencesExt

CONSTANTS Repairs,     \* steps of the migration plan done; as built: none
          Blocks,      \* bound: blocks that may be proposed at a height
          None,        \* no block, no version, no result
          MaxHeight,   \* bound: height of the last decided block
          KeepRecent,  \* versions below the latest that are not pruned
          MaxCrashes,  \* bound: crashes of the process
          MaxExports,  \* bound: runs of the export command
          MaxRounds    \* bound: proposals the node sees in the whole run

ASSUME LifecycleAssumption ==
    /\ Repairs \subseteq {"signer", "evmAccount"}
    /\ None \notin Blocks \cup Int \cup [block : Blocks, ran : BOOLEAN]
    /\ {MaxHeight, KeepRecent, MaxCrashes, MaxExports, MaxRounds} \subseteq Nat

VARIABLES decided,  \* blocks of the chain, in CometBFT's block store
          disk,     \* blocks whose execution is committed
          command,  \* "none" (no process), "start" or "export"
          asked,    \* the export's --height, -1: the latest
          pos,      \* position in Steps of what the process does next
          loaded,   \* the loaded version, or None
          branch,   \* the blocks executed on top of it, and it: not yet committed
          optimistic, \* [block, ran]: the block being executed before its decision
          exported, \* what the last export that returned was asked for and read
          crashes, exports, rounds \* counters of the bounds

store == <<decided, disk>>
process == <<command, asked, pos, loaded>>
execution == <<branch, optimistic>>
counters == <<crashes, exports, rounds>>
vars == <<store, process, execution, exported, counters>>

-----------------------------------------------------------------------------
\* The root command's injection, and what New does, in order.
Steps == <<"rootCmd", "inject", "build", "mount", "feeMarket", "preciseBank",
           "evm", "erc20", "modules", "simulation", "load">>

\* Both injections resolve the signer of every message; the constructor of the
\* EVM keeper looks its module account up.  What lacks makes them panic.
Requires(step) ==
    CASE step \in {"rootCmd", "inject"} -> {"signer"}
      [] step = "evm" -> {"evmAccount"}
      [] OTHER -> {}

-----------------------------------------------------------------------------
Init ==
    /\ decided = <<>> /\ disk = <<>>
    /\ command = "none" /\ asked = None /\ pos = 0
    /\ loaded = None
    /\ branch = <<>> /\ optimistic = None
    /\ exported = None
    /\ crashes = 0 /\ exports = 0 /\ rounds = 0

\* The process is gone with all its memory.
End ==
    /\ command' = "none" /\ asked' = None /\ pos' = 0
    /\ loaded' = None
    /\ branch' = <<>> /\ optimistic' = None

Begin(what, height) ==
    /\ command = "none"
    /\ command' = what
    /\ asked' = height
    /\ pos' = 1
    /\ UNCHANGED <<store, loaded, execution, exported, crashes, rounds>>

\* newApp: New with loadLatest.
Start == Begin("start", None) /\ UNCHANGED exports

\* appExport: an older version, or the latest.  (Without a home directory it
\* returns before it has made anything.)
Export(height) ==
    /\ exports < MaxExports
    /\ exports' = exports + 1
    /\ Begin("export", height)

\* One step of NewRootCmd and New; a panic ends the process.
Construct ==
    /\ pos \in 1..(Len(Steps) - 1)
    /\ IF Requires(Steps[pos]) \subseteq Repairs
       THEN pos' = pos + 1 /\ UNCHANGED <<command, asked, loaded, execution>>
       ELSE End
    /\ UNCHANGED <<store, exported, counters>>

\* Bug variants: newApp does not load, appExport always loads the latest.
LoadLatestForExport == command = "export" /\ asked = -1
LoadLatestAlways == TRUE

\* loadLatest: of newApp, and of appExport without --height.
LoadLatest == command = "start" \/ asked = -1

\* Bug variant: the version before the latest.
LoadOneBack ==
    /\ pos = Len(Steps)
    /\ pos' = pos + 1
    /\ loaded' = IF LoadLatest THEN Len(disk) - 1 ELSE None
    /\ branch' = IF LoadLatest THEN disk ELSE <<>>
    /\ UNCHANGED <<store, command, asked, optimistic, exported, counters>>

Load ==
    /\ pos = Len(Steps)
    /\ pos' = pos + 1
    /\ loaded' = IF LoadLatest THEN Len(disk) ELSE None
    /\ branch' = IF LoadLatest THEN disk ELSE <<>>
    /\ UNCHANGED <<store, command, asked, optimistic, exported, counters>>

\* The latest version cannot be read, and New panics; counted as a crash.
LoadPanics ==
    /\ pos = Len(Steps) /\ LoadLatest
    /\ crashes < MaxCrashes
    /\ crashes' = crashes + 1
    /\ End
    /\ UNCHANGED <<store, exported, exports, rounds>>

\* LoadHeight fails when the version is pruned or not there yet.
LoadHeight ==
    /\ command = "export" /\ pos > Len(Steps) /\ loaded = None
    /\ IF asked \in 1..Len(disk) /\ asked >= Len(disk) - KeepRecent
       THEN /\ loaded' = asked
            /\ branch' = SubSeq(disk, 1, asked)
            /\ UNCHANGED <<command, asked, pos, optimistic>>
       ELSE End
    /\ UNCHANGED <<store, exported, counters>>

\* ExportAppStateAndValidators reads the loaded version and the command ends.
ReturnExport ==
    /\ command = "export" /\ loaded # None
    /\ exported' = [asked |-> asked, latest |-> Len(disk), state |-> branch]
    /\ End
    /\ UNCHANGED <<store, counters>>

-----------------------------------------------------------------------------
Running == command = "start" /\ loaded # None

\* Consensus goes on without this node.
Decide(b) ==
    /\ Len(decided) < MaxHeight
    /\ decided' = Append(decided, b)
    /\ UNCHANGED <<disk, process, execution, exported, counters>>

\* ProcessProposal: a new round aborts the execution of the last proposal and
\* starts on a fresh branch; nothing is executed before the first block.
ProcessProposal(b) ==
    /\ Running
    /\ loaded = Len(disk) /\ Len(disk) > 0
    /\ Len(decided) = Len(disk)
    /\ rounds < MaxRounds
    /\ rounds' = rounds + 1
    /\ optimistic' = [block |-> b, ran |-> FALSE]
    /\ branch' = disk
    /\ UNCHANGED <<store, process, exported, crashes, exports>>

ExecuteOptimistically ==
    /\ optimistic # None /\ ~ optimistic.ran
    /\ optimistic' = [optimistic EXCEPT !.ran = TRUE]
    /\ branch' = Append(disk, optimistic.block)
    /\ UNCHANGED <<store, process, exported, counters>>

Executed == Len(branch) = loaded + 1 /\ optimistic = None

\* Bug variant: the branch of a proposal that lost is built upon.
FinalizeOnLeftover ==
    /\ Running /\ ~ Executed
    /\ Len(decided) > Len(disk)
    /\ LET b == decided[Len(disk) + 1]
       IN  IF optimistic # None /\ optimistic.block = b
           THEN optimistic.ran /\ UNCHANGED branch
           ELSE branch' = IF Len(branch) > loaded THEN branch ELSE Append(disk, b)
    /\ optimistic' = None
    /\ UNCHANGED <<store, process, exported, counters>>

\* FinalizeBlock waits for the optimistic execution of the decided block, and
\* aborts that of any other and executes the decided one from the start.
FinalizeBlock ==
    /\ Running /\ ~ Executed
    /\ Len(decided) > Len(disk)
    /\ LET b == decided[Len(disk) + 1]
       IN  IF optimistic # None /\ optimistic.block = b
           THEN optimistic.ran /\ UNCHANGED branch
           ELSE branch' = Append(disk, b)
    /\ optimistic' = None
    /\ UNCHANGED <<store, process, exported, counters>>

Commit ==
    /\ Running /\ Executed
    /\ disk' = branch
    /\ loaded' = loaded + 1
    /\ UNCHANGED <<decided, command, asked, pos, execution, exported, counters>>

\* At any point the process is killed, or the machine goes down.
Crash ==
    /\ command # "none"
    /\ crashes < MaxCrashes
    /\ crashes' = crashes + 1
    /\ End
    /\ UNCHANGED <<store, exported, exports, rounds>>

-----------------------------------------------------------------------------
Work == Construct \/ Load \/ LoadHeight \/ ReturnExport
            \/ ExecuteOptimistically \/ FinalizeBlock \/ Commit

Next ==
    \/ Start
    \/ \E height \in {-1} \cup 1..MaxHeight : Export(height)
    \/ \E b \in Blocks : Decide(b) \/ ProcessProposal(b)
    \/ Work
    \/ LoadPanics
    \/ Crash

Spec == Init /\ [][Next]_vars

\* The process works on while it is there, and whoever runs the node starts it
\* again when it is not.
FairSpec == Spec /\ WF_vars(Work) /\ WF_vars(Start)

-----------------------------------------------------------------------------
(***************************************************************************)
(* Properties.                                                             *)
(***************************************************************************)

\* Every variable holds a value of its type: versions are those of blocks.
TypeOK ==
    /\ decided \in Seq(Blocks) /\ disk \in Seq(Blocks) /\ branch \in Seq(Blocks)
    /\ command \in {"none", "start", "export"}
    /\ asked \in {None, -1} \cup 1..MaxHeight
    /\ pos \in 0..(Len(Steps) + 1)
    /\ loaded \in {None} \cup Nat
    /\ optimistic \in [block : Blocks, ran : BOOLEAN] \cup {None}

(***************************************************************************)
(* The stores are the execution of the decided blocks, each once and in    *)
(* order, and of nothing else: not of a proposal that was executed         *)
(* optimistically and lost, nor twice of a block whose commit a crash      *)
(* forestalled.                                                            *)
(***************************************************************************)
CommittedAreDecided == IsPrefix(disk, decided)

\* An export returns the state of the height it was asked for, or of the latest
\* one committed when it was not asked, whatever node ran on the database
\* before or since; and it changes nothing the node could see.
ExportsAsked ==
    exported # None =>
        /\ IsPrefix(exported.state, disk)
        /\ Len(exported.state) = IF exported.asked = -1 THEN exported.latest
                                 ELSE exported.asked

\* A decided block is committed in the end, however the node was interrupted:
\* the chain "producing blocks" of docs/PROJECT_STATE.md, line 21.  It takes
\* both repairs; as built no block is ever committed.
CatchesUp == \A h \in 1..MaxHeight : Len(decided) >= h ~> Len(disk) >= h
=============================================================================
