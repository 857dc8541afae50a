------------------------- MODULE NodeLifecycleProofs -------------------------
(***************************************************************************)
(* The safety properties of NodeLifecycle, for any blocks and any bounds:  *)
(* one inductive invariant on what a process has loaded and executed, and  *)
(* the theorems that follow from it.  They hold with or without Repairs.   *)
(***************************************************************************)
EXTENDS NodeLifecycle, SequenceTheorems, TLAPS

-----------------------------------------------------------------------------
\* Without a process there is no memory; with one, New has begun.
MemoryOfProcess ==
    IF command = "none" THEN pos = 0 /\ loaded = None ELSE pos > 0

\* A version is loaded after New's last step; until then nothing is executed.
LoadedLast ==
    /\ loaded # None => pos > Len(Steps)
    /\ loaded = None => branch = <<>> /\ optimistic = None

\* The node's branch is what it committed, or that and one more block: the
\* one proposed, or once its execution counts the next one decided.
NodeBranch ==
    command = "start" /\ loaded # None =>
        /\ loaded = Len(disk)
        /\ IF optimistic # None
           THEN branch = IF optimistic.ran THEN Append(disk, optimistic.block) ELSE disk
           ELSE \/ branch = disk
                \/ /\ Len(decided) > Len(disk)
                   /\ branch = Append(disk, decided[Len(disk) + 1])

\* The export's branch is the version it was asked for.
ExportBranch ==
    command = "export" /\ loaded # None =>
        /\ optimistic = None
        /\ IsPrefix(branch, disk)
        /\ Len(branch) = IF asked = -1 THEN Len(disk) ELSE asked

ExportedType == exported # None => exported.state \in Seq(Blocks)

IInv ==
    /\ TypeOK /\ ExportedType
    /\ MemoryOfProcess /\ LoadedLast
    /\ NodeBranch /\ ExportBranch
    /\ CommittedAreDecided /\ ExportsAsked

-----------------------------------------------------------------------------
\* Facts on prefixes, by positions.

LEMMA PrefixByPosition ==
    ASSUME NEW s \in Seq(Blocks), NEW t \in Seq(Blocks)
    PROVE  IsPrefix(s, t) <=> /\ Len(s) <= Len(t)
                              /\ \A i \in 1..Len(s) : s[i] = t[i]
<1>1. Len(s) \in Nat /\ Len(t) \in Nat /\ SubSeq(s, 1, Len(s)) = s
  BY SubSeqFull, LenProperties
<1> SUFFICES ASSUME Len(s) <= Len(t)
             PROVE  s = SubSeq(t, 1, Len(s)) <=> \A i \in 1..Len(s) : s[i] = t[i]
  BY <1>1 DEF IsPrefix
<1> DEFINE u == SubSeq(t, 1, Len(s))
<1>2. \A i \in 1..Len(s) : t[i] \in Blocks
  BY <1>1, ElementOfSeq
<1>3. u \in Seq(Blocks) /\ Len(u) = Len(s) /\ \A i \in 1..Len(s) : u[i] = t[i]
  BY <1>1, <1>2, SubSeqProperties
<1> HIDE DEF u
<1>4. (\A i \in 1..Len(s) : s[i] = u[i]) => s = u
  BY <1>1, <1>3, SeqEqual
<1> QED BY <1>3, <1>4

LEMMA PrefixOfItself ==
    ASSUME NEW s \in Seq(Blocks)
    PROVE  IsPrefix(s, s)
  BY PrefixByPosition, LenProperties

LEMMA PrefixTransitive ==
    ASSUME NEW s \in Seq(Blocks), NEW t \in Seq(Blocks), NEW u \in Seq(Blocks),
           IsPrefix(s, t), IsPrefix(t, u)
    PROVE  IsPrefix(s, u)
  BY PrefixByPosition, LenProperties

LEMMA PrefixOfLonger ==
    ASSUME NEW s \in Seq(Blocks), NEW t \in Seq(Blocks), NEW b \in Blocks, IsPrefix(s, t)
    PROVE  Append(t, b) \in Seq(Blocks) /\ IsPrefix(s, Append(t, b))
<1> DEFINE e == Append(t, b)
<1>1. /\ e \in Seq(Blocks) /\ Len(e) = Len(t) + 1
      /\ \A i \in 1..Len(t) : e[i] = t[i]
  BY AppendProperties
<1> HIDE DEF e
<1>2. e \in Seq(Blocks) /\ IsPrefix(s, e)
  BY <1>1, PrefixByPosition, LenProperties
<1> QED BY <1>2 DEF e

\* A prefix with the next element of the sequence is a prefix of it still.
LEMMA PrefixExtended ==
    ASSUME NEW s \in Seq(Blocks), NEW t \in Seq(Blocks), IsPrefix(s, t), Len(t) > Len(s)
    PROVE  /\ Append(s, t[Len(s) + 1]) \in Seq(Blocks)
           /\ IsPrefix(s, Append(s, t[Len(s) + 1]))
           /\ IsPrefix(Append(s, t[Len(s) + 1]), t)
           /\ Len(Append(s, t[Len(s) + 1])) = Len(s) + 1
<1>1. Len(s) \in Nat /\ Len(t) \in Nat /\ t[Len(s) + 1] \in Blocks
  BY LenProperties, ElementOfSeq
<1> DEFINE b == t[Len(s) + 1]
           e == Append(s, b)
<1>2. /\ e \in Seq(Blocks) /\ Len(e) = Len(s) + 1
      /\ \A i \in 1..Len(s) : e[i] = s[i]
      /\ e[Len(s) + 1] = b
  BY <1>1, AppendProperties
<1>3. IsPrefix(s, e)
  BY <1>1, PrefixOfLonger, PrefixOfItself
<1>4. \A i \in 1..Len(s) : s[i] = t[i]
  BY PrefixByPosition
<1> HIDE DEF e
<1>5. \A i \in 1..Len(e) : e[i] = t[i]
  BY <1>1, <1>2, <1>4
<1>6. IsPrefix(e, t)
  BY <1>1, <1>2, <1>5, PrefixByPosition
<1> QED BY <1>2, <1>3, <1>6 DEF e

\* The first elements of a sequence are a prefix of it.
LEMMA PrefixCut ==
    ASSUME NEW s \in Seq(Blocks), NEW n \in 1..Len(s)
    PROVE  /\ SubSeq(s, 1, n) \in Seq(Blocks)
           /\ IsPrefix(SubSeq(s, 1, n), s)
           /\ Len(SubSeq(s, 1, n)) = n
<1>1. Len(s) \in Nat /\ n \in Nat /\ \A i \in 1..n : s[i] \in Blocks
  BY LenProperties, ElementOfSeq
<1> DEFINE u == SubSeq(s, 1, n)
<1>2. u \in Seq(Blocks) /\ Len(u) = n /\ \A i \in 1..n : u[i] = s[i]
  BY <1>1, SubSeqProperties
<1> HIDE DEF u
<1>3. IsPrefix(u, s)
  BY <1>1, <1>2, PrefixByPosition
<1> QED BY <1>2, <1>3 DEF u

-----------------------------------------------------------------------------
\* The initial state, and each action in turn, satisfies the invariant.

LEMMA InitIInv == Init => IInv
<1> SUFFICES ASSUME Init PROVE IInv
  OBVIOUS
<1>1. <<>> \in Seq(Blocks) /\ Len(<<>>) = 0
  BY EmptySeq
<1>2. TypeOK /\ ExportedType
  BY <1>1 DEF Init, TypeOK, ExportedType, Steps
<1>3. MemoryOfProcess /\ LoadedLast /\ NodeBranch /\ ExportBranch /\ ExportsAsked
  BY DEF Init, MemoryOfProcess, LoadedLast, NodeBranch, ExportBranch, ExportsAsked
<1>4. CommittedAreDecided
  BY <1>1, PrefixOfItself DEF Init, CommittedAreDecided
<1> QED BY <1>2, <1>3, <1>4 DEF IInv

LEMMA ConstantTypes ==
    /\ None \notin Blocks /\ None \notin Int /\ None \notin [block : Blocks, ran : BOOLEAN]
    /\ MaxHeight \in Nat /\ KeepRecent \in Nat
    /\ Len(Steps) = 11
  BY LifecycleAssumption DEF Steps

\* What is left when a process ends: nothing but the stores.
LEMMA EndIInv ==
    ASSUME IInv, End, UNCHANGED <<store, exported>>
    PROVE  IInv'
<1>1. <<>> \in Seq(Blocks)
  BY EmptySeq
<1>2. TypeOK' /\ ExportedType'
  BY <1>1, ConstantTypes DEF IInv, TypeOK, ExportedType, End, store
<1>3. (MemoryOfProcess /\ LoadedLast /\ NodeBranch /\ ExportBranch)'
  BY DEF End, MemoryOfProcess, LoadedLast, NodeBranch, ExportBranch
<1>4. (CommittedAreDecided /\ ExportsAsked)'
  BY DEF IInv, CommittedAreDecided, ExportsAsked, store
<1> QED BY <1>2, <1>3, <1>4 DEF IInv

LEMMA BeginIInv ==
    ASSUME IInv, NEW what \in {"start", "export"}, NEW height \in {None, -1} \cup 1..MaxHeight,
           Begin(what, height)
    PROVE  IInv'
<1> USE DEF Begin, store, execution
<1>1. TypeOK' /\ ExportedType'
  BY ConstantTypes DEF IInv, TypeOK, ExportedType
<1>2. (MemoryOfProcess /\ LoadedLast /\ NodeBranch /\ ExportBranch)'
  BY ConstantTypes
     DEF IInv, MemoryOfProcess, LoadedLast, NodeBranch, ExportBranch
<1>3. (CommittedAreDecided /\ ExportsAsked)'
  BY DEF IInv, CommittedAreDecided, ExportsAsked
<1> QED BY <1>1, <1>2, <1>3 DEF IInv

LEMMA ConstructIInv ==
    ASSUME IInv, Construct
    PROVE  IInv'
<1>1. CASE ~ (Requires(Steps[pos]) \subseteq Repairs)
  BY <1>1, EndIInv DEF Construct
<1>2. CASE Requires(Steps[pos]) \subseteq Repairs
  <2>1. /\ pos \in 1..10 /\ pos' = pos + 1
        /\ UNCHANGED <<decided, disk, command, asked, loaded, branch, optimistic, exported>>
    BY <1>2, ConstantTypes DEF Construct, store, execution
  <2>2. TypeOK' /\ ExportedType'
    BY <2>1, ConstantTypes DEF IInv, TypeOK, ExportedType
  <2>3. (MemoryOfProcess /\ LoadedLast /\ NodeBranch /\ ExportBranch)'
    BY <2>1, ConstantTypes
       DEF IInv, TypeOK, MemoryOfProcess, LoadedLast, NodeBranch, ExportBranch
  <2>4. (CommittedAreDecided /\ ExportsAsked)'
    BY <2>1 DEF IInv, CommittedAreDecided, ExportsAsked
  <2> QED BY <2>2, <2>3, <2>4 DEF IInv
<1> QED BY <1>1, <1>2

LEMMA LoadIInv ==
    ASSUME IInv, Load
    PROVE  IInv'
<1> USE DEF Load, store
<1>0. /\ disk \in Seq(Blocks) /\ Len(disk) \in Nat /\ <<>> \in Seq(Blocks)
      /\ pos = 11 /\ loaded = None /\ optimistic = None
  BY ConstantTypes, EmptySeq, LenProperties DEF IInv, TypeOK, LoadedLast
<1>1. TypeOK' /\ ExportedType'
  BY <1>0, ConstantTypes DEF IInv, TypeOK, ExportedType
<1>2. (MemoryOfProcess /\ LoadedLast)'
  BY <1>0, ConstantTypes DEF IInv, MemoryOfProcess, LoadedLast
<1>3. (NodeBranch /\ ExportBranch)'
  BY <1>0, PrefixOfItself DEF NodeBranch, ExportBranch, LoadLatest
<1>4. (CommittedAreDecided /\ ExportsAsked)'
  BY DEF IInv, CommittedAreDecided, ExportsAsked
<1> QED BY <1>1, <1>2, <1>3, <1>4 DEF IInv

LEMMA LoadHeightIInv ==
    ASSUME IInv, LoadHeight
    PROVE  IInv'
<1> USE DEF LoadHeight, store
<1>1. CASE ~ (asked \in 1..Len(disk) /\ asked >= Len(disk) - KeepRecent)
  BY <1>1, EndIInv
<1>2. CASE asked \in 1..Len(disk) /\ asked >= Len(disk) - KeepRecent
  <2>0. disk \in Seq(Blocks) /\ Len(disk) \in Nat /\ optimistic = None
    BY LenProperties DEF IInv, TypeOK, LoadedLast
  <2>1. /\ asked \in Nat /\ asked # -1
        /\ branch' \in Seq(Blocks) /\ IsPrefix(branch', disk) /\ Len(branch') = asked
    <3>1. asked \in 1..Len(disk) /\ asked \in Nat /\ asked # -1 /\ branch' = SubSeq(disk, 1, asked)
      BY <1>2, <2>0
    <3> HIDE DEF LoadHeight
    <3> QED BY <2>0, <3>1, PrefixCut
  <2>2. TypeOK' /\ ExportedType'
    BY <1>2, <2>0, <2>1 DEF IInv, TypeOK, ExportedType
  <2>3. (MemoryOfProcess /\ LoadedLast)'
    BY <1>2, <2>0, <2>1, ConstantTypes DEF IInv, MemoryOfProcess, LoadedLast
  <2>4. (NodeBranch /\ ExportBranch)'
    BY <1>2, <2>0, <2>1 DEF NodeBranch, ExportBranch
  <2>5. (CommittedAreDecided /\ ExportsAsked)'
    BY DEF IInv, CommittedAreDecided, ExportsAsked
  <2> QED BY <2>2, <2>3, <2>4, <2>5 DEF IInv
<1> QED BY <1>1, <1>2

LEMMA ReturnExportIInv ==
    ASSUME IInv, ReturnExport
    PROVE  IInv'
<1>1. <<>> \in Seq(Blocks) /\ branch \in Seq(Blocks) /\ disk \in Seq(Blocks)
  BY EmptySeq DEF IInv, TypeOK
<1>2. TypeOK' /\ ExportedType'
  BY <1>1, ConstantTypes DEF ReturnExport, IInv, TypeOK, ExportedType, End, store
<1>3. (MemoryOfProcess /\ LoadedLast /\ NodeBranch /\ ExportBranch)'
  BY DEF ReturnExport, End, MemoryOfProcess, LoadedLast, NodeBranch, ExportBranch
<1>4. CommittedAreDecided'
  BY DEF ReturnExport, IInv, CommittedAreDecided, store
<1>5. ExportsAsked'
  BY DEF ReturnExport, IInv, ExportBranch, ExportsAsked, store
<1> QED BY <1>2, <1>3, <1>4, <1>5 DEF IInv

LEMMA DecideIInv ==
    ASSUME IInv, NEW b \in Blocks, Decide(b)
    PROVE  IInv'
<1> USE DEF Decide, process, execution
<1>1. /\ decided \in Seq(Blocks) /\ disk \in Seq(Blocks)
      /\ decided' \in Seq(Blocks) /\ Len(decided') = Len(decided) + 1
      /\ \A i \in 1..Len(decided) : decided'[i] = decided[i]
      /\ Len(decided) \in Nat /\ Len(disk) \in Nat
  BY AppendProperties, LenProperties DEF IInv, TypeOK
<1>2. TypeOK' /\ ExportedType'
  BY <1>1 DEF IInv, TypeOK, ExportedType
<1>3. (MemoryOfProcess /\ LoadedLast /\ ExportBranch /\ ExportsAsked)'
  BY DEF IInv, MemoryOfProcess, LoadedLast, ExportBranch, ExportsAsked
<1>4. NodeBranch'
  <2>1. Len(decided) > Len(disk) =>
           Len(decided') > Len(disk) /\ decided'[Len(disk) + 1] = decided[Len(disk) + 1]
    BY <1>1
  <2> QED BY <2>1 DEF IInv, NodeBranch
<1>5. CommittedAreDecided'
  BY <1>1, PrefixOfLonger DEF IInv, CommittedAreDecided
<1> QED BY <1>2, <1>3, <1>4, <1>5 DEF IInv

LEMMA ProcessProposalIInv ==
    ASSUME IInv, NEW b \in Blocks, ProcessProposal(b)
    PROVE  IInv'
<1> USE DEF ProcessProposal, Running, store, process
<1>1. TypeOK' /\ ExportedType'
  BY DEF IInv, TypeOK, ExportedType
<1>2. optimistic' # None /\ loaded = Len(disk)
  <2>1. optimistic' \in [block : Blocks, ran : BOOLEAN]
    OBVIOUS
  <2> QED BY <2>1, ConstantTypes
<1>3. (MemoryOfProcess /\ LoadedLast /\ NodeBranch /\ ExportBranch)'
  BY <1>2 DEF IInv, MemoryOfProcess, LoadedLast, NodeBranch, ExportBranch
<1>4. (CommittedAreDecided /\ ExportsAsked)'
  BY DEF IInv, CommittedAreDecided, ExportsAsked
<1> QED BY <1>1, <1>2, <1>3, <1>4 DEF IInv

LEMMA ExecuteOptimisticallyIInv ==
    ASSUME IInv, ExecuteOptimistically
    PROVE  IInv'
<1> USE DEF ExecuteOptimistically, store, process
<1>1. /\ optimistic \in [block : Blocks, ran : BOOLEAN] /\ disk \in Seq(Blocks)
      /\ loaded # None /\ optimistic.block \in Blocks
  BY DEF IInv, TypeOK, LoadedLast
<1>2. optimistic' \in [block : Blocks, ran : BOOLEAN] /\ optimistic'.ran
      /\ optimistic'.block = optimistic.block /\ branch' \in Seq(Blocks)
  BY <1>1, AppendProperties
<1>3. TypeOK' /\ ExportedType'
  BY <1>2 DEF IInv, TypeOK, ExportedType
<1>4. (MemoryOfProcess /\ LoadedLast)'
  BY <1>1 DEF IInv, MemoryOfProcess, LoadedLast
<1>5. NodeBranch'
  BY <1>2, ConstantTypes DEF IInv, NodeBranch
<1>6. ExportBranch'
  BY <1>1 DEF IInv, ExportBranch
<1>7. (CommittedAreDecided /\ ExportsAsked)'
  BY DEF IInv, CommittedAreDecided, ExportsAsked
<1> QED BY <1>3, <1>4, <1>5, <1>6, <1>7 DEF IInv

LEMMA FinalizeBlockIInv ==
    ASSUME IInv, FinalizeBlock
    PROVE  IInv'
<1> DEFINE b == decided[Len(disk) + 1]
<1> USE DEF FinalizeBlock, Running, store, process
<1>1. /\ decided \in Seq(Blocks) /\ disk \in Seq(Blocks) /\ branch \in Seq(Blocks)
      /\ Len(decided) \in Nat /\ Len(disk) \in Nat /\ b \in Blocks
      /\ Append(disk, b) \in Seq(Blocks)
  BY ElementOfSeq, LenProperties, AppendProperties DEF IInv, TypeOK
<1>2. branch' = Append(disk, b)
  BY DEF IInv, NodeBranch
<1>3. TypeOK' /\ ExportedType'
  BY <1>1, <1>2 DEF IInv, TypeOK, ExportedType
<1>4. (MemoryOfProcess /\ LoadedLast /\ ExportBranch)'
  BY DEF IInv, MemoryOfProcess, LoadedLast, ExportBranch
<1>5. NodeBranch'
  BY <1>2 DEF IInv, NodeBranch
<1>6. (CommittedAreDecided /\ ExportsAsked)'
  BY DEF IInv, CommittedAreDecided, ExportsAsked
<1> QED BY <1>3, <1>4, <1>5, <1>6 DEF IInv

LEMMA CommitIInv ==
    ASSUME IInv, Commit
    PROVE  IInv'
<1> USE DEF Commit, Running, Executed, execution
<1>1. /\ decided \in Seq(Blocks) /\ disk \in Seq(Blocks) /\ branch \in Seq(Blocks)
      /\ Len(disk) \in Nat /\ IsPrefix(disk, decided)
      /\ exported # None => exported.state \in Seq(Blocks)
  BY LenProperties DEF IInv, TypeOK, ExportedType, CommittedAreDecided
<1>2. /\ loaded = Len(disk) /\ Len(decided) > Len(disk)
      /\ branch = Append(disk, decided[Len(disk) + 1])
  BY <1>1 DEF IInv, NodeBranch
<1>3. IsPrefix(disk, branch) /\ IsPrefix(branch, decided) /\ Len(branch) = Len(disk) + 1
  BY <1>1, <1>2, PrefixExtended
<1>4. TypeOK' /\ ExportedType'
  BY <1>1, <1>2 DEF IInv, TypeOK, ExportedType
<1>5. (MemoryOfProcess /\ LoadedLast /\ ExportBranch)'
  BY <1>1, <1>2, ConstantTypes
     DEF IInv, MemoryOfProcess, LoadedLast, ExportBranch
<1>6. NodeBranch'
  BY <1>2, <1>3 DEF NodeBranch
<1>7. CommittedAreDecided'
  BY <1>3 DEF CommittedAreDecided
<1>8. ExportsAsked'
  BY <1>1, <1>3, PrefixTransitive DEF IInv, ExportsAsked
<1> QED BY <1>4, <1>5, <1>6, <1>7, <1>8 DEF IInv

LEMMA NextIInv == IInv /\ [Next]_vars => IInv'
<1> SUFFICES ASSUME IInv, [Next]_vars PROVE IInv'
  OBVIOUS
<1>1. CASE Start
  BY <1>1, BeginIInv DEF Start
<1>2. CASE \E height \in {-1} \cup 1..MaxHeight : Export(height)
  BY <1>2, BeginIInv DEF Export
<1>3. CASE \E b \in Blocks : Decide(b)
  BY <1>3, DecideIInv
<1>4. CASE \E b \in Blocks : ProcessProposal(b)
  BY <1>4, ProcessProposalIInv
<1>5. CASE Construct
  BY <1>5, ConstructIInv
<1>6. CASE Load
  BY <1>6, LoadIInv
<1>7. CASE LoadHeight
  BY <1>7, LoadHeightIInv
<1>8. CASE ReturnExport
  BY <1>8, ReturnExportIInv
<1>9. CASE ExecuteOptimistically
  BY <1>9, ExecuteOptimisticallyIInv
<1>10. CASE FinalizeBlock
  BY <1>10, FinalizeBlockIInv
<1>11. CASE Commit
  BY <1>11, CommitIInv
<1>12. CASE Crash \/ LoadPanics
  BY <1>12, EndIInv DEF Crash, LoadPanics
<1>13. CASE UNCHANGED vars
  BY <1>13 DEF vars, store, process, execution, IInv, TypeOK, ExportedType, MemoryOfProcess,
               LoadedLast, NodeBranch, ExportBranch, CommittedAreDecided, ExportsAsked
<1> QED BY <1>1, <1>2, <1>3, <1>4, <1>5, <1>6, <1>7, <1>8, <1>9, <1>10, <1>11, <1>12, <1>13
        DEF Next, Work

LEMMA AlwaysIInv == Spec => []IInv
  BY InitIInv, NextIInv, PTL DEF Spec

-----------------------------------------------------------------------------
\* Every variable holds a value of its type, in every run.
THEOREM NodeTypeCorrect == Spec => []TypeOK
<1>1. IInv => TypeOK
  BY DEF IInv
<1> QED BY <1>1, AlwaysIInv, PTL

(***************************************************************************)
(* The stores a node commits are the execution of the decided blocks, each *)
(* once and in order, however often it crashes, whatever proposals it      *)
(* executes before a decision, for any number of blocks, heights, crashes  *)
(* and rounds.                                                             *)
(***************************************************************************)
THEOREM CommitsWhatIsDecided == Spec => []CommittedAreDecided
<1>1. IInv => CommittedAreDecided
  BY DEF IInv
<1> QED BY <1>1, AlwaysIInv, PTL

\* An export that returns has read the version it was asked for, and no node
\* that runs on the database later contradicts it.
THEOREM ExportsWhatIsAsked == Spec => []ExportsAsked
<1>1. IInv => ExportsAsked
  BY DEF IInv
<1> QED BY <1>1, AlwaysIInv, PTL

=============================================================================
