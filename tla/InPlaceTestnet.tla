---------------------------- MODULE InPlaceTestnet ----------------------------
(***************************************************************************)
(* `mirrorvaultd in-place-testnet' (testnet.go): the stores of a stopped   *)
(* node are rewritten so that one new validator makes all the blocks, and  *)
(* the node is started on them.  Composed with the chain before and after  *)
(* (messages, blocks, a second rewriting) and with its export.             *)
(*                                                                         *)
(* initAppForTestnet deletes the validators, the power index, the last set *)
(* and the queue of unbonding validators, but neither delegations, nor     *)
(* unbonding entries, nor anything in x/distribution; then it writes one   *)
(* validator and its distribution records.  The command is sequential, and *)
(* handleErr exits before anything is committed: one action.  What it      *)
(* writes is committed with the first block of the node it starts; until   *)
(* then nothing else reads it (a crash before: it never ran).              *)
(*                                                                         *)
(* The new validator's tokens have no delegation, and no coins: the bonded *)
(* pool is not touched, and a transfer out of it may fail from here on.    *)
(* Its rate of tokens to shares is not one; a delegation is counted by     *)
(* what it is worth, which leaves out a reused operator's old shares.      *)
(***************************************************************************)
EXTENDS ZeroHeightExport, Sequences, SequencesExt

CONSTANTS NoAddress,     \* a string no address is decoded from, or blocked
          AccountFlags,  \* bound: lists given with --accounts-to-fund
          TestnetTokens, \* valVotingPower
          MaxTakeovers   \* bound: runs of the command

ASSUME TestnetAssumption ==
    /\ NoAddress \notin Accounts
    /\ AccountFlags \subseteq Seq(Accounts \cup {NoAddress})
    /\ TestnetTokens \in Nat
    /\ TestnetTokens >= PowerReduction
    /\ MaxTakeovers \in Nat

VARIABLES takeovers, \* runs of the command so far
          operator,  \* newOperatorAddress of the last run
          flag,      \* --accounts-to-fund of the last run, before it is split
          funded,    \* times each account has been funded
          pending,   \* the last run's writes are not committed yet
          bondedPool, \* coins of the bonded pool
          renewed    \* history: validators created over records left behind

testnetVars == <<takeovers, operator, flag, funded, pending, bondedPool, renewed>>
allVars == <<vars, testnetVars>>

BondedTokens(s) ==
    SumFunctionOnSet(s.tokens, {v \in s.vals : s.status[v] = "bonded"})

TestnetInit ==
    /\ Init
    /\ pending = FALSE
    /\ bondedPool = BondedTokens(stak)
    /\ takeovers = 0
    /\ operator = NoAddress
    /\ flag = <<>>
    /\ funded = [a \in Accounts |-> 0]
    /\ renewed = {}

-----------------------------------------------------------------------------
\* strings.Split gives one empty string for the empty flag.
Split(list) == IF list = <<>> THEN <<NoAddress>> ELSE list

\* Bug variants of the new set: the old last set is kept, or the new validator
\* is not put into the power index.
NewSetKeepsLast(s, op) ==
    [s EXCEPT !.vals = {op}, !.index = {op}, !.tokens[op] = TestnetTokens,
              !.status = [v \in Validators |-> IF v = op THEN "bonded" ELSE "unbonded"],
              !.jailed = [v \in Validators |-> FALSE], !.unbondHeight[op] = 0]

NewSetUnindexed(s, op) ==
    [NewSetKeepsLast(s, op) EXCEPT !.index = {}, !.last = [v \in Validators |-> 0]]

\* Validators, power index, last set and validator queue are deleted; the new
\* validator is bonded, in the index, and in the last set with power 0 (there
\* is no other way to be bonded with last 0: InLastSet).
NewSet(s, op) ==
    [s EXCEPT !.vals = {op}, !.index = {op}, !.tokens[op] = TestnetTokens,
              !.status = [v \in Validators |-> IF v = op THEN "bonded" ELSE "unbonded"],
              !.jailed = [v \in Validators |-> FALSE], !.unbondHeight[op] = 0,
              !.last = [v \in Validators |-> 0]]

\* Bug variant: the open period counts once by the hook, once by hand.
WriteRecordsTwice(d, v) ==
    [SetHistorical(d, v, 0, 0, Historical(d, v, 0).refs + 1)
        EXCEPT !.rew[v] = 0, !.period[v] = 1, !.comm[v] = 0, !.outst[v] = 0]

\* Bug variant: what is outstanding to everybody else goes to the pool.
WriteRecordsDonates(d, v) ==
    [SetHistorical(d, v, 0, 0, 1)
        EXCEPT !.rew[v] = 0, !.period[v] = 1, !.comm[v] = 0,
               !.pool = @ + SumFunctionOnSet(d.outst, Validators \ {v}),
               !.outst = [w \in Validators |-> 0]]

\* The four records of the validator, written by hand after the hook did.
WriteRecords(d, v) ==
    [SetHistorical(d, v, 0, 0, 1)
        EXCEPT !.rew[v] = 0, !.period[v] = 1, !.comm[v] = 0, !.outst[v] = 0]

\* A validator is created over reward records that nobody deleted.
Renewed(created) == {v \in created : DOMAIN dist.hist[v] # {}}

TakeOver(op, list) ==
    /\ pc = "idle"
    /\ ~ pending
    /\ takeovers < MaxTakeovers
    /\ takeovers' = takeovers + 1
    /\ operator' = op
    /\ flag' = list
    /\ IF op = NoAddress \/ NoAddress \in ToSet(Split(list))
       THEN /\ pc' = "exited"
            /\ UNCHANGED <<dist, stak, funded, pending, renewed>>
       ELSE /\ stak' = NewSet(stak, op)
            /\ dist' = WriteRecords(InitializeValidator(dist, op), op)
            /\ renewed' = renewed \cup Renewed({op})
            /\ funded' = [a \in Accounts |-> funded[a] +
                             Cardinality({i \in DOMAIN list : list[i] = a})]
            /\ pending' = TRUE
            /\ UNCHANGED pc
    /\ UNCHANGED <<height, msgs, bondedPool, exportVars>>

\* Coins follow the tokens in and out of the bonded pool: short of them, a
\* message fails, and an EndBlocker (it sends the difference) halts the chain.
\* The election of an export moves none.
PoolFollows ==
    /\ bondedPool' = bondedPool + BondedTokens(stak') - BondedTokens(stak)
    /\ bondedPool' >= 0

\* The first block after the command commits what it wrote.
Committed == pending' = (pending /\ ~ (pc = "block" /\ pc' = "idle"))

\* The chain and its export, as before.
RunAs(step) ==
    /\ step
    /\ PoolFollows
    /\ Committed
    /\ pending => pc' \in {"idle", "block"}
    /\ renewed' = renewed \cup Renewed(stak'.vals \ stak.vals)
    /\ UNCHANGED <<takeovers, operator, flag, funded>>

Run == RunAs(Next)

TestnetNext ==
    \/ Run
    \/ \E op \in Validators \cup {NoAddress}, list \in AccountFlags : TakeOver(op, list)

TestnetSpec == TestnetInit /\ [][TestnetNext]_allVars

\* The node that the command starts proposes block after block by itself, and
\* the export is a sequential program.
FairTestnetSpec ==
    /\ TestnetSpec
    /\ WF_allVars(RunAs(BeginBlock /\ UNCHANGED exportVars))
    /\ WF_allVars(RunAs(EndBlock /\ UNCHANGED exportVars))
    /\ WF_allVars(RunAs(ExportStep))

-----------------------------------------------------------------------------
(***************************************************************************)
(* Properties.                                                             *)
(***************************************************************************)

(***************************************************************************)
(* What the rewriting leaves in x/distribution does no harm, as long as no *)
(* validator is created over old records: the records of the new validator *)
(* (written by the hook and again by hand) and of those that join later    *)
(* have exact references, nothing panics, and the coins that were owed to  *)
(* the deleted validators and their delegators are still there.  An export *)
(* without a list panics only over a delegation to a deleted validator.    *)
(***************************************************************************)
TestnetSound ==
    renewed = {} =>
        /\ dist.fault = "none"
        /\ pc # "panicked" => RefCountsExact
        /\ FundsCovered
        /\ pc = "panicked" /\ allow = {} =>
               \E pair \in Delegations(snap.stak) : pair[2] \notin snap.stak.vals

\* v's books are as they were, but for commission v's own account was paid.
BooksKept(v) ==
    LET drawn == dist.comm[v] - dist'.comm[v]
    IN  /\ dist'.rew[v] = dist.rew[v]
        /\ dist'.outst[v] = dist.outst[v] - drawn
        /\ drawn # 0 => (dist'.paid[v] - dist.paid[v]) * Unit = drawn

\* Validators that a rewriting deletes, and those that are already gone.
Gone == {v \in Validators \ stak'.vals : v \in stak.vals => pc = "idle"}

(***************************************************************************)
(* The settlement of rewards goes on over the rewriting, as long as no     *)
(* validator is created over old records: in total, coins come in with     *)
(* fees and leave to accounts only, and what is settled and not paid goes  *)
(* to the pool.  And whatever is rewritten, created or exported, nothing   *)
(* is taken from or added to the books of a validator that is gone, except *)
(* that its operator may still draw the commission.                        *)
(***************************************************************************)
TestnetSettles ==
    /\ Settlement!Init
    /\ [][renewed' = {} => [Settlement!Next]_(Settlement!settlement)]_allVars
    /\ [][\A v \in Gone : BooksKept(v)]_allVars

(***************************************************************************)
(* No EndBlocker finds, among the power index entries and the last set it  *)
(* reads, a validator that is gone or jailed, whatever was deleted,        *)
(* created, jailed or removed.  (It may still halt the chain: when nobody  *)
(* is left for a set, or when the bonded pool is short of coins.)          *)
(***************************************************************************)
ElectionSound == pc = "block" => ~ MeetsUnknown(stak) /\ ~ MeetsJailed(stak)


\* After a run of the command the chain gets a set again, and the new
\* validator has its seat with all its power (unless the height is exhausted,
\* the command is run again or the state is exported).
Unmanned(op) ==
    /\ takeovers > 0
    /\ operator = op
    /\ pc = "idle"
    /\ height < MaxHeight
    /\ \A v \in Validators : stak.last[v] = 0

TestnetStarts ==
    \A op \in Validators :
        Unmanned(op) ~> \/ stak.last[op] > 0 /\ stak.last[op] = Power(stak, op)
                        \/ operator # op
                        \/ pc \notin {"idle", "block"}

\* "starts the node" (line 47): an operator address and the default of the
\* flag (line 55) are enough.
DefaultFlagStarts == pc = "exited" => operator = NoAddress \/ flag # <<>>

\* "never called as BeforeDelegationCreated always returns nil" (export.go,
\* line 158): an export without a list never panics while it rebuilds
\* delegations.
HooksReturnNil ==
    [][pc = "delegations" /\ pc' = "panicked" => dist'.fault # "none"]_allVars
=============================================================================
