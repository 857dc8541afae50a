----------------------------- MODULE ChainRestart -----------------------------
(***************************************************************************)
(* What `mirrorvaultd export' is for: a new chain is started from the      *)
(* genesis file it returned, and runs.  The last step of the old chain and *)
(* the first of the new one are InitChain with the exported stores (x/     *)
(* distribution before x/staking, app_config.go) and BeginBlock of the     *)
(* first block.                                                            *)
(*                                                                         *)
(* InitGenesis, a library, writes back what was exported; only the power   *)
(* index is not exported but built anew.  In a genesis of an old height    *)
(* the validators that were unbonding may still vote here for a block or   *)
(* two: a superset of what CometBFT does.  Bound: MaxRestarts.             *)
(***************************************************************************)
EXTENDS ZeroHeightExport

CONSTANT MaxRestarts \* bound: new chains, one after the other

ASSUME RestartAssumption == MaxRestarts \in Nat

VARIABLE restarts \* new chains so far

restartVars == <<vars, restarts>>

RestartInit == Init /\ restarts = 0

-----------------------------------------------------------------------------
(***************************************************************************)
(* x/distribution's InitGenesis panics unless its coins are the whole      *)
(* coins of what it owes; InitChain fails unless the exported set is the   *)
(* one x/staking returns, with the same powers, or when there is none.     *)
(***************************************************************************)
Refused ==
    \/ dist.funds # (TotalOutstanding + dist.pool) \div Unit
    \/ genesis.validators = {}
    \/ \E v \in genesis.validators : v \notin stak.vals \/ stak.last[v] # Power(stak, v)

\* Bug variant: jailed validators are indexed as well.
ImportIndexesJailed ==
    /\ pc = "done" /\ restarts < MaxRestarts /\ ~ Refused
    /\ restarts' = restarts + 1
    /\ pc' = "block"
    /\ stak' = [stak EXCEPT !.index = stak.vals]
    /\ \/ genesis.height = 0 /\ height' = 1 /\ UNCHANGED dist
       \/ /\ genesis.height > 1 /\ height' = genesis.height
          /\ dist' = AllocateTokens(dist, [v \in Validators |-> 0], Fee, 0)
    /\ UNCHANGED <<msgs, exportVars>>

\* The first block has no votes: at height 1 BeginBlocker does not allocate,
\* at a later one it gives the fees of the old chain's last block to the pool.
Import ==
    /\ pc = "done" /\ restarts < MaxRestarts /\ ~ Refused
    /\ restarts' = restarts + 1
    /\ pc' = "block"
    /\ stak' = [stak EXCEPT !.index = {v \in stak.vals : ~ stak.jailed[v]}]
    /\ \/ genesis.height = 0 /\ height' = 1 /\ UNCHANGED dist
       \/ /\ genesis.height > 1 /\ height' = genesis.height
          /\ dist' = AllocateTokens(dist, [v \in Validators |-> 0], Fee, 0)
    /\ UNCHANGED <<msgs, exportVars>>

\* After the last restart the chain only runs: no export is started.
RestartNext ==
    \/ /\ Next /\ UNCHANGED restarts
       /\ restarts = MaxRestarts => pc' \in {"idle", "block"}
    \/ Import

RestartSpec == RestartInit /\ [][RestartNext]_restartVars

-----------------------------------------------------------------------------
(***************************************************************************)
(* Properties.                                                             *)
(***************************************************************************)

\* What an export returns is never refused as a genesis: the whole coins of
\* what is owed are there to the last one (decimals only changed hands while
\* rewards were paid, donated and started again), and the exported set is the
\* one x/staking comes to with the exported validators.
ImportAccepted == pc = "done" => ~ Refused

\* The new chain's accounting is as sound as the old one's: rewards earned on
\* the rebuilt history meet exact references, and no keeper panics.
RestartSound == dist.fault = "none" /\ RefCountsExact

\* No EndBlocker halts either chain at a jailed or missing validator, the new
\* one with the power index that was built from the exported validators.
BlocksCommit == pc = "block" => ~ MeetsJailed(stak) /\ ~ MeetsUnknown(stak)

\* What the stores of the running chain owe delegator pair[1] on pair[2].
Due(pair) ==
    LET v == pair[2]
        open == IF stak.tokens[v] = 0 THEN 0 ELSE dist.rew[v] \div stak.tokens[v]
        grown == Historical(dist, v, dist.period[v] - 1).ratio + open
                   - Historical(dist, v, dist.start[pair].period).ratio
    IN  dist.start[pair].stake * grown

(***************************************************************************)
(* Whenever a message settles a delegation it pays the whole coins of all  *)
(* the ratio has grown since the delegation started.  The keeper pays      *)
(* nothing in a block of the height the delegation started at; that loses  *)
(* nothing, in a new chain neither, because no block has the height 0 the  *)
(* export gave to the delegations it carried over.                         *)
(***************************************************************************)
PaysWhatIsDue ==
    [][\A pair \in Delegations(stak) :
         pc = "block" /\ dist'.start[pair] # dist.start[pair] =>
           dist'.paid[pair[1]] - dist.paid[pair[1]] =
             SumFunction([p \in {q \in Delegations(stak) : q[1] = pair[1]
                                       /\ dist'.start[q] # dist.start[q]} |->
                             Due(p) \div Unit])]_restartVars
=============================================================================
