----------------------------- MODULE MCConfirm -----------------------------
(***************************************************************************)
(* Instances of ConfirmTransactions for TLC.                               *)
(***************************************************************************)
EXTENDS ConfirmInvariant, TLC

\* One plan with a reservation and a second action, one with a single action.
TwoPlans == <<2, 1>>

\* Three plans; the first has a reservation and a message.
ThreePlans == <<2, 0, 0>>

\* One plan with three actions: a failure in the middle leaves a rest.
LongPlan == <<3>>

Interchangeable == Permutations(Request)

============================================================================
