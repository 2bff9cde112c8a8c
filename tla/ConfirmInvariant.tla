-------------------------- MODULE ConfirmInvariant --------------------------
(***************************************************************************)
(* Why the properties of ConfirmTransactions hold: an invariant that every *)
(* step preserves.  TLC checks it on an instance (MCConfirm); module       *)
(* ConfirmProofs proves it for every instance.                             *)
(***************************************************************************)
EXTENDS ConfirmTransactions

\* A handler that is under way is about a plan.
Targeted ==
  \A r \in Request : pc[r] \notin {"new", "done"} =>
    target[r] \in Plan /\ kind[r] \in Kinds

\* The run's row is locked exactly by the one handler that executes.
RunLockHeld ==
  \A r \in Request : runLock = r <=> pc[r] \in {"load_ledger", "execute"}

\* Outside execution a session has no ledger rows and no results.
NoTrace ==
  \A r \in Request : pc[r] # "execute" =>
    mine[r] = NoRows /\ results[r] = <<>>

\* The ledger rows a session has inserted are those of its plan's actions
\* that it has been through and that had no row.
OwnRows ==
  \A r \in Request : \A k \in Key : mine[r][k] # "none" =>
    /\ k[1] = target[r]
    /\ k[2] \in 1 .. Len(results[r])
    /\ ledger[k] = "none"

\* Every action a session has been through has succeeded, in its own rows
\* or the committed ones, except perhaps the last.
ResultsBacked ==
  \A r \in Request : pc[r] = "execute" =>
    /\ Len(results[r]) <= ActionCount[target[r]]
    /\ \A i \in 1 .. Len(results[r]) :
         /\ results[r][i] \in SuccessStatus \union FailureStatus
         /\ i < Len(results[r]) => results[r][i] \in SuccessStatus
         /\ results[r][i] \in SuccessStatus =>
              Visible(r, <<target[r], i>>) = "succeeded"

\* A stored plan is never "confirmed"; a session that has the plan
\* "confirmed" has its row locked and is executing it.
ConfirmationLocked ==
  /\ \A p \in Plan : plan[p].status # "confirmed"
  /\ \A r \in Request, p \in Plan : seen[r][p].status = "confirmed" =>
       /\ p = target[r]
       /\ lock[p] = r
       /\ kind[r] = "confirm"
       /\ seen[r][p].decision = "confirmed"
       /\ pc[r] \in {"touch_run", "load_ledger", "execute"}
  /\ \A r \in Request :
       kind[r] = "confirm" /\ pc[r] \in {"touch_run", "load_ledger", "execute"}
         => seen[r][target[r]].status = "confirmed"
  /\ \A r \in Request : pc[r] = "execute" =>
       kind[r] = "confirm" /\ seen[r][target[r]].selected
  /\ \A r \in Request : pc[r] = "load_ledger" => kind[r] = "confirm"

\* The inductive invariant: at most one handler executes, it is the one
\* that holds the run's row and the confirmed plan's, and what it has read
\* of the ledger stays true until it ends.
ExecutionIsExclusive ==
  /\ Targeted
  /\ RunLockHeld
  /\ NoTrace
  /\ SnapshotCurrent
  /\ OwnRows
  /\ ResultsBacked
  /\ SagaPrefix
  /\ EffectsAccounted
  /\ ConfirmationLocked

============================================================================
