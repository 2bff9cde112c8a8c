----------------------------- MODULE SagaProofs -----------------------------
(***************************************************************************)
(* The invariant of module ConfirmInvariant is inductive, for any number   *)
(* of plans, actions and requests; from it follow the safety properties of *)
(* the execution, and that its handlers implement WriteSaga.               *)
(***************************************************************************)
EXTENDS ConfirmProofs

\* The part of the invariant that is about the saga.
SagaInv ==
  /\ RunLockHeld
  /\ NoTrace
  /\ SnapshotCurrent
  /\ OwnRows
  /\ ResultsBacked
  /\ SagaPrefix
  /\ EffectsAccounted

\* A step of r before its execution, or after it.
Quiet(r) ==
  /\ pc[r] \notin {"load_ledger", "execute"}
  /\ pc'[r] \notin {"load_ledger", "execute"}
  /\ \A o \in Request \ {r} : pc'[o] = pc[o] /\ target'[o] = target[o]
  /\ UNCHANGED <<ledger, effects, lost, runLock, known, mine, results>>

----------------------------------------------------------------------------
(* Consequences of the invariant *)

\* Two handlers never execute at the same time.
LEMMA OneExecutes ==
  ASSUME RunLockHeld,
         NEW r \in Request, pc[r] \in {"load_ledger", "execute"},
         NEW o \in Request, pc[o] \in {"load_ledger", "execute"}
  PROVE  o = r
BY DEF RunLockHeld

LEMMA NoRowsOutside ==
  ASSUME NoTrace, NEW r \in Request, pc[r] # "execute", NEW k \in Key
  PROVE  mine[r][k] = "none"
BY DEF NoTrace, NoRows

\* Only the handler that executes has rows of its own.
LEMMA OthersHaveNoRows ==
  ASSUME TypeOK, RunLockHeld, NoTrace,
         NEW r \in Request, pc[r] \in {"load_ledger", "execute"},
         NEW o \in Request \ {r}, NEW k \in Key
  PROVE  mine[o][k] = "none"
BY OneExecutes, NoRowsOutside

----------------------------------------------------------------------------
(* The initial states *)

LEMMA InitSaga == Init => SagaInv
<1> SUFFICES ASSUME Init PROVE SagaInv
  OBVIOUS
<1>1. RunLockHeld /\ NoTrace /\ SnapshotCurrent /\ ResultsBacked
  BY RequestAssumption
     DEF Init, RunLockHeld, NoTrace, SnapshotCurrent, ResultsBacked
<1>2. OwnRows
  BY DEF Init, OwnRows, NoRows
<1>3. SagaPrefix
  BY KeyMember DEF Init, SagaPrefix, NoRows
<1>4. EffectsAccounted
  BY DEF Init, EffectsAccounted, NoRows
<1> QED
  BY <1>1, <1>2, <1>3, <1>4 DEF SagaInv

----------------------------------------------------------------------------
(* Steps outside the execution *)

LEMMA QuietKeeps ==
  ASSUME TypeOK, SagaInv, NEW r \in Request, Quiet(r)
  PROVE  SagaInv'
<1>1. RunLockHeld'
  BY DEF SagaInv, Quiet, RunLockHeld
<1>2. NoTrace'
  BY DEF SagaInv, Quiet, NoTrace
<1>3. SnapshotCurrent'
  BY DEF SagaInv, Quiet, SnapshotCurrent
<1>4. OwnRows'
  BY NoRowsOutside DEF SagaInv, Quiet, OwnRows
<1>5. ResultsBacked'
  <2> SUFFICES ASSUME NEW o \in Request, pc'[o] = "execute"
               PROVE  /\ o # r
                      /\ pc[o] = "execute"
                      /\ target'[o] = target[o]
    BY DEF SagaInv, Quiet, ResultsBacked, Visible
  <2> QED
    BY DEF Quiet
<1>6. SagaPrefix' /\ EffectsAccounted'
  BY DEF SagaInv, Quiet, SagaPrefix, EffectsAccounted
<1> QED
  BY <1>1, <1>2, <1>3, <1>4, <1>5, <1>6 DEF SagaInv

\* The steps up to the decision are quiet.
LEMMA QuietSteps ==
  ASSUME TypeOK, NEW r \in Request
  PROVE  /\ \A k \in Kinds, p \in Plan : OpenRequest(r, k, p) => Quiet(r)
         /\ ListPlans(r) => Quiet(r)
         /\ \A p \in Plan : SelectRow(r, p) => Quiet(r)
         /\ SelectionDone(r) => Quiet(r)
         /\ DecidePlan(r) => Quiet(r)
<1>1. \A k \in Kinds, p \in Plan : OpenRequest(r, k, p) => Quiet(r)
  BY DEF OpenRequest, Goto, Quiet, TypeOK, durable, locks
<1>2. ListPlans(r) => Quiet(r)
  BY DEF ListPlans, Goto, Quiet, TypeOK, durable, locks
<1>3. \A p \in Plan : SelectRow(r, p) => Quiet(r)
  BY DEF SelectRow, Quiet, durable
<1>4. SelectionDone(r) => Quiet(r)
  BY DEF SelectionDone, Goto, Quiet, TypeOK, durable, locks, session
<1>5. DecidePlan(r) => Quiet(r)
  BY DEF DecidePlan, Goto, Quiet, TypeOK, durable
<1> QED
  BY <1>1, <1>2, <1>3, <1>4, <1>5

LEMMA LockRunKeeps ==
  ASSUME TypeOK, SagaInv, NEW r \in Request, LockRun(r)
  PROVE  SagaInv'
<1>1. RunLockHeld'
  BY RequestAssumption DEF SagaInv, LockRun, Goto, RunLockHeld, TypeOK
<1>2. NoTrace'
  BY DEF SagaInv, LockRun, Goto, NoTrace, TypeOK
<1>3. SnapshotCurrent'
  BY DEF SagaInv, LockRun, Goto, SnapshotCurrent, TypeOK, durable
<1>4. OwnRows'
  BY DEF SagaInv, LockRun, OwnRows, durable
<1>5. ResultsBacked'
  BY DEF SagaInv, LockRun, Goto, ResultsBacked, Visible, TypeOK, durable
<1>6. SagaPrefix' /\ EffectsAccounted'
  BY DEF SagaInv, LockRun, SagaPrefix, EffectsAccounted, durable
<1> QED
  BY <1>1, <1>2, <1>3, <1>4, <1>5, <1>6 DEF SagaInv

LEMMA LoadLedgerKeeps ==
  ASSUME TypeOK, Targeted, SagaInv, NEW r \in Request, LoadLedger(r)
  PROVE  SagaInv'
<1>1. RunLockHeld'
  BY DEF SagaInv, LoadLedger, Goto, RunLockHeld, TypeOK, locks
<1>2. NoTrace'
  BY DEF SagaInv, LoadLedger, Goto, NoTrace, TypeOK
<1>3. SnapshotCurrent'
  BY DEF SagaInv, LoadLedger, Goto, SnapshotCurrent, TypeOK, durable
<1>4. OwnRows'
  BY DEF SagaInv, LoadLedger, OwnRows, durable
<1>5. ResultsBacked'
  <2>1. results[r] = <<>> /\ target[r] \in Plan
    BY DEF SagaInv, LoadLedger, NoTrace, Targeted
  <2>2. Len(results[r]) <= ActionCount[target[r]] /\ Len(results[r]) = 0
    BY <2>1, ActionAssumption
  <2>3. ASSUME NEW o \in Request, o # r, pc'[o] = "execute"
        PROVE  pc[o] = "execute"
    BY <2>3 DEF LoadLedger, Goto, TypeOK
  <2>4. UNCHANGED <<results, mine, ledger, target>>
    BY DEF LoadLedger, durable
  <2>5. \A o \in Request, k \in Key : Visible(o, k)' = Visible(o, k)
    BY <2>4 DEF Visible
  <2>6. ASSUME NEW o \in Request, o # r, pc'[o] = "execute"
        PROVE  (/\ Len(results[o]) <= ActionCount[target[o]]
                /\ \A i \in 1 .. Len(results[o]) :
                     /\ results[o][i] \in SuccessStatus \union FailureStatus
                     /\ i < Len(results[o]) => results[o][i] \in SuccessStatus
                     /\ results[o][i] \in SuccessStatus =>
                          Visible(o, <<target[o], i>>) = "succeeded")'
    BY <2>3, <2>4, <2>6 DEF SagaInv, ResultsBacked, Visible
  <2>7. Len(results'[r]) <= ActionCount[target'[r]] /\ Len(results'[r]) = 0
    BY <2>2, <2>4
  <2> QED
    BY <2>6, <2>7 DEF ResultsBacked
<1>6. SagaPrefix' /\ EffectsAccounted'
  BY DEF SagaInv, LoadLedger, SagaPrefix, EffectsAccounted, durable
<1> QED
  BY <1>1, <1>2, <1>3, <1>4, <1>5, <1>6 DEF SagaInv

----------------------------------------------------------------------------
(* Steps of the execution *)

\* The action a handler is about to execute is not among its own rows.
LEMMA CurrentIsNew ==
  ASSUME TypeOK, Targeted, SagaInv, NEW r \in Request, Continues(r)
  PROVE  /\ Current(r) \in Key
         /\ mine[r][Current(r)] = "none"
         /\ Visible(r, Current(r)) = ledger[Current(r)]
         /\ known[r] = ledger
         /\ Len(results[r]) + 1 <= ActionCount[target[r]]
<1>1. Current(r) \in Key
  BY CurrentKey
<1>2. Len(results[r]) \in Nat
  BY DEF TypeOK
<1>3. Current(r)[2] \notin 1 .. Len(results[r])
  BY <1>2 DEF Current
<1>4. mine[r][Current(r)] = "none"
  BY <1>1, <1>3 DEF SagaInv, OwnRows
<1>5. known[r] = ledger
  BY DEF SagaInv, SnapshotCurrent, Continues
<1>6. ActionCount[target[r]] \in Nat
  BY ActionAssumption DEF Continues, Targeted
<1> QED
  BY <1>1, <1>2, <1>4, <1>5, <1>6 DEF Visible, Continues

\* Recording one more result keeps the results backed.
LEMMA AppendBacked ==
  ASSUME TypeOK, Targeted, SagaInv, NEW r \in Request, Continues(r),
         NEW status \in SuccessStatus \union FailureStatus,
         Record(r, status), UNCHANGED <<pc, target>>,
         \A o \in Request, k \in Key :
           Visible(o, k) = "succeeded" => Visible(o, k)' = "succeeded",
         NEW key \in Key, key = Current(r),
         status \in SuccessStatus => Visible(r, key)' = "succeeded"
  PROVE  ResultsBacked'
<1> SUFFICES ASSUME NEW o \in Request, pc[o] = "execute"
             PROVE  /\ Len(results'[o]) <= ActionCount[target[o]]
                    /\ \A i \in 1 .. Len(results'[o]) :
                         /\ results'[o][i] \in SuccessStatus \union FailureStatus
                         /\ i < Len(results'[o]) => results'[o][i] \in SuccessStatus
                         /\ results'[o][i] \in SuccessStatus =>
                              Visible(o, <<target[o], i>>)' = "succeeded"
  BY DEF ResultsBacked, Visible
<1>1. target[o] \in Plan /\ ActionCount[target[o]] \in Nat
  BY ActionAssumption DEF Targeted
<1>2. results[o] \in Seq(ActionStatus) /\ Len(results[o]) \in Nat
  BY DEF TypeOK
<1>3. Len(results[o]) <= ActionCount[target[o]]
  BY DEF SagaInv, ResultsBacked
<1>4. ASSUME NEW i \in 1 .. Len(results[o])
      PROVE  /\ results[o][i] \in SuccessStatus \union FailureStatus
             /\ i < Len(results[o]) => results[o][i] \in SuccessStatus
             /\ results[o][i] \in SuccessStatus =>
                  Visible(o, <<target[o], i>>)' = "succeeded"
  <2>1. <<target[o], i>> \in Key
    BY <1>1, <1>2, <1>3, KeyMember
  <2> QED
    BY <2>1 DEF SagaInv, ResultsBacked
<1>5. CASE o # r
  BY <1>3, <1>4, <1>5 DEF Record, TypeOK
<1>6. CASE o = r
  <2>1. results'[o] = Append(results[o], status)
    BY <1>6 DEF Record, TypeOK
  <2>2. /\ Len(results'[o]) = Len(results[o]) + 1
        /\ results'[o][Len(results[o]) + 1] = status
        /\ \A i \in 1 .. Len(results[o]) : results'[o][i] = results[o][i]
    BY <1>2, <2>1 DEF SuccessStatus, FailureStatus, ActionStatus
  <2>3. \A i \in 1 .. Len(results[o]) : results[o][i] \in SuccessStatus
    <3>1. \A i \in DOMAIN results[o] : results[o][i] \notin FailureStatus
      BY <1>6 DEF Continues, HasFailure
    <3>2. DOMAIN results[o] = 1 .. Len(results[o])
      BY <1>2
    <3> QED
      BY <1>4, <3>1, <3>2
  <2>4. Len(results[o]) + 1 <= ActionCount[target[o]]
    BY <1>6, CurrentIsNew
  <2>5. key = <<target[o], Len(results[o]) + 1>>
    BY <1>6 DEF Current
  <2>6. ASSUME NEW i \in 1 .. Len(results'[o])
        PROVE  i \in 1 .. Len(results[o]) \/ i = Len(results[o]) + 1
    BY <1>2, <2>2
  <2>7. ASSUME NEW i \in 1 .. Len(results'[o])
        PROVE  /\ results'[o][i] \in SuccessStatus \union FailureStatus
               /\ i < Len(results'[o]) => results'[o][i] \in SuccessStatus
               /\ results'[o][i] \in SuccessStatus =>
                    Visible(o, <<target[o], i>>)' = "succeeded"
    <3>1. CASE i \in 1 .. Len(results[o])
      BY <1>4, <2>2, <2>3, <3>1
    <3>2. CASE i = Len(results[o]) + 1
      <4>1. results'[o][i] = status /\ ~ (i < Len(results'[o]))
        BY <1>2, <2>2, <3>2
      <4>2. status \in SuccessStatus =>
              Visible(o, <<target[o], i>>)' = "succeeded"
        BY <1>6, <2>5, <3>2 DEF Visible
      <4> QED
        BY <4>1, <4>2
    <3> QED
      BY <2>6, <3>1, <3>2
  <2> QED
    BY <2>2, <2>4, <2>7
<1> QED
  BY <1>5, <1>6

\* Steps that only record a result.
LEMMA RecordKeeps ==
  ASSUME TypeOK, Targeted, SagaInv, NEW r \in Request, Continues(r),
         NEW status \in SuccessStatus \union FailureStatus,
         Record(r, status),
         status \in SuccessStatus => ledger[Current(r)] = "succeeded",
         UNCHANGED <<pc, target, ledger, effects, lost, runLock, known, mine>>
  PROVE  SagaInv'
<1> DEFINE key == Current(r)
<1>1. key \in Key /\ Visible(r, key) = ledger[key]
  BY CurrentIsNew
<1>2. UNCHANGED <<ledger, mine>>
  OBVIOUS
<1>3. \A o \in Request, k \in Key : Visible(o, k) = "succeeded" =>
                                        Visible(o, k)' = "succeeded"
  BY <1>2 DEF Visible
<1>4. PICK k \in Key : k = key
  BY <1>1
<1>5. status \in SuccessStatus => Visible(r, k)' = "succeeded"
  BY <1>1, <1>2, <1>4 DEF Visible
<1>6. ResultsBacked'
  BY <1>3, <1>4, <1>5, AppendBacked
<1>7. NoTrace'
  BY DEF SagaInv, NoTrace, Record, Continues, TypeOK
<1>8. OwnRows'
  <2> SUFFICES ASSUME NEW o \in Request, NEW q \in Key, mine[o][q] # "none"
               PROVE  q[2] \in 1 .. Len(results'[o])
    BY DEF SagaInv, OwnRows
  <2>1. q[2] \in 1 .. Len(results[o])
    BY DEF SagaInv, OwnRows
  <2>2. results[o] \in Seq(ActionStatus)
    BY DEF TypeOK
  <2>3. results'[o] = results[o] \/ results'[o] = Append(results[o], status)
    BY DEF Record, TypeOK
  <2>4. Len(results[o]) \in Nat /\ Len(results'[o]) \in Nat
        /\ Len(results[o]) <= Len(results'[o])
    BY <2>2, <2>3 DEF ActionStatus
  <2> QED
    BY <2>1, <2>4
<1>9. RunLockHeld' /\ SnapshotCurrent' /\ SagaPrefix' /\ EffectsAccounted'
  BY DEF SagaInv, RunLockHeld, SnapshotCurrent, SagaPrefix, EffectsAccounted
<1> QED
  BY <1>6, <1>7, <1>8, <1>9 DEF SagaInv

LEMMA ReplayKeeps ==
  ASSUME TypeOK, Targeted, SagaInv, NEW r \in Request, ReplayAction(r)
  PROVE  SagaInv'
<1>1. Continues(r)
  BY DEF ReplayAction
<1>2. Current(r) \in Key /\ known[r] = ledger
      /\ Visible(r, Current(r)) = ledger[Current(r)]
  BY <1>1, CurrentIsNew
<1>3. ledger[Current(r)] \in {"succeeded", "failed"}
  BY <1>2 DEF ReplayAction, TypeOK, LedgerStatus
<1>4. Record(r, ledger[Current(r)])
  BY <1>2, <1>3 DEF ReplayAction
<1>5. ledger[Current(r)] \in SuccessStatus \union FailureStatus
      /\ (ledger[Current(r)] \in SuccessStatus => ledger[Current(r)] = "succeeded")
  BY <1>3 DEF SuccessStatus, FailureStatus
<1>6. UNCHANGED <<pc, target, ledger, effects, lost, runLock, known, mine>>
  BY DEF ReplayAction, durable, locks
<1> QED
  BY <1>1, <1>4, <1>5, <1>6, RecordKeeps

LEMMA LimitKeeps ==
  ASSUME TypeOK, Targeted, SagaInv, NEW r \in Request, LimitAction(r)
  PROVE  SagaInv'
<1>1. Continues(r) /\ Record(r, "rate_limited")
  BY DEF LimitAction
<1>2. "rate_limited" \in SuccessStatus \union FailureStatus
      /\ "rate_limited" \notin SuccessStatus
  BY DEF SuccessStatus, FailureStatus
<1>3. UNCHANGED <<pc, target, ledger, effects, lost, runLock, known, mine>>
  BY DEF LimitAction, locks
<1> QED
  BY <1>1, <1>2, <1>3, RecordKeeps

\* The provider is called: one more row of its own, one more effect.
LEMMA InvokeKeeps ==
  ASSUME TypeOK, Targeted, SagaInv, NEW r \in Request, InvokeAction(r)
  PROVE  SagaInv'
<1>1. PICK k \in Key : k = Current(r)
  BY CurrentIsNew DEF InvokeAction
<1>2. PICK outcome \in {"succeeded", "failed"} :
        /\ Record(r, outcome)
        /\ mine' = [mine EXCEPT ![r][k] = outcome]
        /\ effects' = [effects EXCEPT ![k] = IF outcome = "succeeded"
                                             THEN @ + 1 ELSE @]
  BY <1>1 DEF InvokeAction
<1>3. Continues(r) /\ KeyFree(r, k)
  BY <1>1 DEF InvokeAction
<1>4. mine[r][k] = "none" /\ ledger[k] = "none"
  BY <1>1, CurrentIsNew DEF InvokeAction, NotRecorded
<1>5. UNCHANGED <<pc, target, ledger, lost, runLock, known>>
  BY DEF InvokeAction, locks
<1>6. mine'[r][k] = outcome
      /\ \A o \in Request, q \in Key : o # r \/ q # k => mine'[o][q] = mine[o][q]
  BY <1>2 DEF TypeOK
<1>7. ResultsBacked'
  <2>1. \A o \in Request, q \in Key : Visible(o, q) = "succeeded" =>
                                          Visible(o, q)' = "succeeded"
    BY <1>4, <1>5, <1>6 DEF Visible
  <2>2. outcome \in SuccessStatus => Visible(r, k)' = "succeeded"
    BY <1>6 DEF Visible, SuccessStatus
  <2>3. outcome \in SuccessStatus \union FailureStatus
    BY DEF SuccessStatus, FailureStatus
  <2> QED
    BY <1>1, <1>2, <1>3, <1>5, <2>1, <2>2, <2>3, AppendBacked
<1>8. NoTrace'
  <2> SUFFICES ASSUME NEW o \in Request, pc[o] # "execute"
               PROVE  mine'[o] = mine[o] /\ results'[o] = results[o]
    BY <1>5 DEF SagaInv, NoTrace
  <2>1. o # r
    BY <1>3 DEF Continues
  <2> QED
    BY <2>1, <1>2 DEF Record, TypeOK
<1>9. OwnRows'
  <2> SUFFICES ASSUME NEW o \in Request, NEW q \in Key, mine'[o][q] # "none"
               PROVE  /\ q[1] = target[o]
                      /\ q[2] \in 1 .. Len(results'[o])
                      /\ ledger[q] = "none"
    BY <1>5 DEF OwnRows
  <2>1. results[o] \in Seq(ActionStatus)
    BY DEF TypeOK
  <2>2. results'[o] = IF o = r THEN Append(results[o], outcome) ELSE results[o]
    BY <1>2 DEF Record, TypeOK
  <2>3. /\ Len(results[o]) \in Nat
        /\ Len(results'[o]) = IF o = r THEN Len(results[o]) + 1
                                       ELSE Len(results[o])
    BY <2>1, <2>2 DEF ActionStatus, SuccessStatus, FailureStatus
  <2>4. CASE o = r /\ q = k
    BY <1>1, <1>4, <2>3, <2>4 DEF Current
  <2>5. CASE o # r \/ q # k
    <3>1. mine[o][q] # "none"
      BY <1>6, <2>5
    <3>2. q[1] = target[o] /\ q[2] \in 1 .. Len(results[o]) /\ ledger[q] = "none"
      BY <3>1 DEF SagaInv, OwnRows
    <3> QED
      BY <2>3, <3>2
  <2> QED
    BY <2>4, <2>5
<1>10. EffectsAccounted'
  <2> SUFFICES ASSUME NEW q \in Key
               PROVE  effects'[q] = lost[q]
                        + (IF ledger[q] = "succeeded" THEN 1 ELSE 0)
                        + (IF \E o \in Request : mine'[o][q] = "succeeded"
                           THEN 1 ELSE 0)
    BY <1>5 DEF EffectsAccounted
  <2>1. effects[q] = lost[q]
                       + (IF ledger[q] = "succeeded" THEN 1 ELSE 0)
                       + (IF \E o \in Request : mine[o][q] = "succeeded"
                          THEN 1 ELSE 0)
    BY DEF SagaInv, EffectsAccounted
  <2>2. CASE q # k
    BY <1>2, <1>6, <2>1, <2>2 DEF TypeOK
  <2>3. CASE q = k
    <3>1. ~ \E o \in Request : mine[o][k] = "succeeded"
      BY <1>3, <1>4 DEF KeyFree
    <3>2. (\E o \in Request : mine'[o][k] = "succeeded") <=> outcome = "succeeded"
      BY <1>6, <3>1
    <3>3. effects'[k] = IF outcome = "succeeded" THEN effects[k] + 1 ELSE effects[k]
      BY <1>2 DEF TypeOK
    <3> QED
      BY <1>4, <2>1, <2>3, <3>1, <3>2, <3>3 DEF TypeOK
  <2> QED
    BY <2>2, <2>3
<1>11. RunLockHeld' /\ SnapshotCurrent' /\ SagaPrefix'
  BY <1>5 DEF SagaInv, RunLockHeld, SnapshotCurrent, SagaPrefix
<1> QED
  BY <1>7, <1>8, <1>9, <1>10, <1>11 DEF SagaInv

----------------------------------------------------------------------------
(* The end of a transaction *)

\* What every ending does to the sessions.
LEMMA EndingKeeps ==
  ASSUME TypeOK, SagaInv, NEW r \in Request,
         Unlock(r), CloseSession(r)
  PROVE  /\ RunLockHeld'
         /\ NoTrace'
         /\ mine'[r] = NoRows
         /\ \A o \in Request \ {r} :
              /\ pc'[o] = pc[o]
              /\ target'[o] = target[o]
              /\ known'[o] = known[o]
              /\ mine'[o] = mine[o]
              /\ results'[o] = results[o]
         /\ pc'[r] = "done"
<1>1. /\ mine'[r] = NoRows /\ results'[r] = <<>> /\ pc'[r] = "done"
      /\ \A o \in Request \ {r} :
           /\ pc'[o] = pc[o]
           /\ target'[o] = target[o]
           /\ known'[o] = known[o]
           /\ mine'[o] = mine[o]
           /\ results'[o] = results[o]
  BY DEF CloseSession, Goto, TypeOK
<1>2. RunLockHeld'
  BY <1>1, RequestAssumption DEF SagaInv, Unlock, RunLockHeld
<1>3. NoTrace'
  BY <1>1 DEF SagaInv, NoTrace
<1> QED
  BY <1>1, <1>2, <1>3

LEMMA RollbackKeeps ==
  ASSUME TypeOK, Targeted, SagaInv, NEW r \in Request, Rollback(r)
  PROVE  SagaInv'
<1>1. Unlock(r) /\ CloseSession(r) /\ UNCHANGED <<ledger, effects>>
  BY DEF Rollback
<1>2. /\ RunLockHeld' /\ NoTrace' /\ mine'[r] = NoRows /\ pc'[r] = "done"
      /\ \A o \in Request \ {r} :
           /\ pc'[o] = pc[o]
           /\ target'[o] = target[o]
           /\ known'[o] = known[o]
           /\ mine'[o] = mine[o]
           /\ results'[o] = results[o]
  BY <1>1, EndingKeeps
<1>3. SnapshotCurrent' /\ SagaPrefix'
  BY <1>1, <1>2 DEF SagaInv, SnapshotCurrent, SagaPrefix
<1>4. OwnRows'
  BY <1>1, <1>2 DEF SagaInv, OwnRows, NoRows
<1>5. ResultsBacked'
  BY <1>1, <1>2 DEF SagaInv, ResultsBacked, Visible
<1>6. EffectsAccounted'
  <2> SUFFICES ASSUME NEW q \in Key
               PROVE  effects[q] = lost'[q]
                        + (IF ledger[q] = "succeeded" THEN 1 ELSE 0)
                        + (IF \E o \in Request : mine'[o][q] = "succeeded"
                           THEN 1 ELSE 0)
    BY <1>1 DEF EffectsAccounted
  <2>1. effects[q] = lost[q]
                       + (IF ledger[q] = "succeeded" THEN 1 ELSE 0)
                       + (IF \E o \in Request : mine[o][q] = "succeeded"
                          THEN 1 ELSE 0)
    BY DEF SagaInv, EffectsAccounted
  <2>2. lost'[q] = IF mine[r][q] = "succeeded" THEN lost[q] + 1 ELSE lost[q]
    BY DEF Rollback
  <2>3. mine'[r][q] = "none"
    BY <1>2 DEF NoRows
  <2>4. CASE mine[r][q] = "succeeded"
    <3>1. pc[r] = "execute"
      BY <2>4, NoRowsOutside DEF SagaInv
    <3>2. \A o \in Request \ {r} : mine[o][q] = "none"
      BY <3>1, OthersHaveNoRows DEF SagaInv
    <3>3. ~ \E o \in Request : mine'[o][q] = "succeeded"
      BY <1>2, <2>3, <3>2
    <3> QED
      BY <2>1, <2>2, <2>4, <3>3 DEF TypeOK
  <2>5. CASE mine[r][q] # "succeeded"
    <3>1. (\E o \in Request : mine'[o][q] = "succeeded")
            <=> (\E o \in Request : mine[o][q] = "succeeded")
      BY <1>2, <2>3, <2>5
    <3> QED
      BY <2>1, <2>2, <2>5, <3>1
  <2> QED
    BY <2>4, <2>5
<1> QED
  BY <1>2, <1>3, <1>4, <1>5, <1>6 DEF SagaInv

\* A commit by a handler that has executed nothing leaves the ledger alone.
LEMMA CommitOutside ==
  ASSUME TypeOK, SagaInv, NEW r \in Request, pc[r] # "execute",
         ledger' = [k \in Key |->
                      IF mine[r][k] = "none" THEN ledger[k] ELSE mine[r][k]]
  PROVE  ledger' = ledger
BY NoRowsOutside DEF SagaInv, TypeOK

\* The rows of a committing handler extend the saga.
LEMMA CommitPrefix ==
  ASSUME TypeOK, Targeted, SagaInv, NEW r \in Request,
         ledger' = [k \in Key |->
                      IF mine[r][k] = "none" THEN ledger[k] ELSE mine[r][k]]
  PROVE  SagaPrefix'
<1> SUFFICES ASSUME NEW p \in Plan, NEW j \in 1 .. ActionCount[p],
                    ledger'[<<p, j>>] # "none",
                    NEW i \in 1 .. j - 1
             PROVE  ledger'[<<p, i>>] = "succeeded"
  BY DEF SagaPrefix
<1>1. ActionCount[p] \in Nat
  BY ActionAssumption
<1>2. i \in 1 .. ActionCount[p]
  BY <1>1
<1>3. <<p, i>> \in Key /\ <<p, j>> \in Key
  BY <1>2, KeyMember
<1>4. CASE mine[r][<<p, j>>] = "none"
  <2>1. ledger[<<p, j>>] # "none"
    BY <1>3, <1>4
  <2>2. ledger[<<p, i>>] = "succeeded"
    BY <2>1 DEF SagaInv, SagaPrefix
  <2>3. mine[r][<<p, i>>] = "none"
    BY <1>3, <2>2 DEF SagaInv, OwnRows
  <2> QED
    BY <1>3, <2>2, <2>3
<1>5. CASE mine[r][<<p, j>>] # "none"
  <2>1. pc[r] = "execute"
    BY <1>3, <1>5, NoRowsOutside DEF SagaInv
  <2>2. p = target[r] /\ j \in 1 .. Len(results[r])
    BY <1>3, <1>5 DEF SagaInv, OwnRows
  <2>3. Len(results[r]) \in Nat
    BY DEF TypeOK
  <2>4. i \in 1 .. Len(results[r]) /\ i < Len(results[r])
    BY <2>2, <2>3
  <2>5. Visible(r, <<p, i>>) = "succeeded"
    BY <2>1, <2>2, <2>4 DEF SagaInv, ResultsBacked
  <2> QED
    BY <1>3, <2>5 DEF Visible
<1> QED
  BY <1>4, <1>5

LEMMA CommitKeeps ==
  ASSUME TypeOK, Targeted, SagaInv, NEW r \in Request, NEW rows, NEW status,
         Commit(r, rows, status)
  PROVE  SagaInv'
<1>1. /\ Unlock(r) /\ CloseSession(r) /\ UNCHANGED <<effects, lost>>
      /\ ledger' = [k \in Key |->
                      IF mine[r][k] = "none" THEN ledger[k] ELSE mine[r][k]]
  BY DEF Commit
<1>2. /\ RunLockHeld' /\ NoTrace' /\ mine'[r] = NoRows /\ pc'[r] = "done"
      /\ \A o \in Request \ {r} :
           /\ pc'[o] = pc[o]
           /\ target'[o] = target[o]
           /\ known'[o] = known[o]
           /\ mine'[o] = mine[o]
           /\ results'[o] = results[o]
  BY <1>1, EndingKeeps
<1>3. SagaPrefix'
  BY <1>1, CommitPrefix
<1>4. ASSUME NEW o \in Request, pc'[o] = "execute"
      PROVE  o # r /\ pc[o] = "execute" /\ ledger' = ledger
  <2>1. o # r /\ pc[o] = "execute"
    BY <1>2, <1>4
  <2>2. pc[r] # "execute"
    BY <2>1, OneExecutes DEF SagaInv
  <2> QED
    BY <1>1, <2>1, <2>2, CommitOutside
<1>5. SnapshotCurrent'
  BY <1>2, <1>4 DEF SagaInv, SnapshotCurrent
<1>6. OwnRows'
  <2> SUFFICES ASSUME NEW o \in Request, NEW q \in Key, mine'[o][q] # "none"
               PROVE  /\ q[1] = target'[o]
                      /\ q[2] \in 1 .. Len(results'[o])
                      /\ ledger'[q] = "none"
    BY DEF OwnRows
  <2>1. pc'[o] = "execute"
    BY <1>2 DEF NoTrace, NoRows
  <2> QED
    BY <1>2, <1>4, <2>1 DEF SagaInv, OwnRows
<1>7. ResultsBacked'
  <2>1. ASSUME NEW o \in Request, pc'[o] = "execute"
        PROVE  /\ pc[o] = "execute"
               /\ target'[o] = target[o] /\ results'[o] = results[o]
               /\ \A k \in Key : Visible(o, k)' = Visible(o, k)
    BY <1>2, <1>4, <2>1 DEF Visible
  <2>2. ASSUME NEW o \in Request, pc'[o] = "execute",
               NEW i \in 1 .. Len(results[o])
        PROVE  <<target[o], i>> \in Key
    <3>1. target[o] \in Plan /\ ActionCount[target[o]] \in Nat
      BY <2>1, <2>2, ActionAssumption DEF Targeted
    <3>2. Len(results[o]) \in Nat /\ Len(results[o]) <= ActionCount[target[o]]
      BY <2>1, <2>2 DEF SagaInv, ResultsBacked, TypeOK
    <3> QED
      BY <3>1, <3>2, KeyMember
  <2> QED
    BY <2>1, <2>2 DEF SagaInv, ResultsBacked, Visible
<1>8. EffectsAccounted'
  <2> SUFFICES ASSUME NEW q \in Key
               PROVE  effects[q] = lost[q]
                        + (IF ledger'[q] = "succeeded" THEN 1 ELSE 0)
                        + (IF \E o \in Request : mine'[o][q] = "succeeded"
                           THEN 1 ELSE 0)
    BY <1>1 DEF EffectsAccounted
  <2>1. effects[q] = lost[q]
                       + (IF ledger[q] = "succeeded" THEN 1 ELSE 0)
                       + (IF \E o \in Request : mine[o][q] = "succeeded"
                          THEN 1 ELSE 0)
    BY DEF SagaInv, EffectsAccounted
  <2>2. mine'[r][q] = "none"
    BY <1>2 DEF NoRows
  <2>3. CASE mine[r][q] = "none"
    <3>1. ledger'[q] = ledger[q]
      BY <1>1, <2>3
    <3>2. (\E o \in Request : mine'[o][q] = "succeeded")
            <=> (\E o \in Request : mine[o][q] = "succeeded")
      BY <1>2, <2>2, <2>3
    <3> QED
      BY <2>1, <3>1, <3>2 DEF TypeOK
  <2>4. CASE mine[r][q] # "none"
    <3>1. ledger[q] = "none" /\ ledger'[q] = mine[r][q]
      BY <1>1, <2>4 DEF SagaInv, OwnRows
    <3>2. pc[r] = "execute"
      BY <2>4, NoRowsOutside DEF SagaInv
    <3>3. \A o \in Request \ {r} : mine[o][q] = "none"
      BY <3>2, OthersHaveNoRows DEF SagaInv
    <3>4. ~ \E o \in Request : mine'[o][q] = "succeeded"
      BY <1>2, <2>2, <3>3
    <3>5. (\E o \in Request : mine[o][q] = "succeeded")
            <=> mine[r][q] = "succeeded"
      BY <3>3
    <3> QED
      BY <2>1, <3>1, <3>4, <3>5 DEF TypeOK
  <2> QED
    BY <2>3, <2>4
<1> QED
  BY <1>2, <1>3, <1>5, <1>6, <1>7, <1>8 DEF SagaInv

----------------------------------------------------------------------------
(* The invariant is preserved *)

LEMMA SagaStep ==
  TypeOK /\ Targeted /\ SagaInv /\ [Next]_vars => SagaInv'
<1> SUFFICES ASSUME TypeOK, Targeted, SagaInv, [Next]_vars PROVE SagaInv'
  OBVIOUS
<1>1. ASSUME NEW r \in Request, NEW k \in Kinds, NEW p \in Plan,
             OpenRequest(r, k, p)
      PROVE  SagaInv'
  BY <1>1, QuietSteps, QuietKeeps
<1>2. ASSUME NEW r \in Request, Handle(r)
      PROVE  SagaInv'
  <2>1. CASE ListPlans(r) \/ SelectionDone(r) \/ DecidePlan(r)
               \/ \E p \in Plan : SelectRow(r, p)
    BY <2>1, QuietSteps, QuietKeeps
  <2>2. CASE LockRun(r)
    BY <2>2, LockRunKeeps
  <2>3. CASE LoadLedger(r)
    BY <2>3, LoadLedgerKeeps
  <2>4. CASE ReplayAction(r) \/ LimitAction(r) \/ InvokeAction(r)
    BY <2>4, ReplayKeeps, LimitKeeps, InvokeKeeps
  <2>5. CASE RefuseSelection(r) \/ FailReplan(r) \/ EndWithoutDecision(r)
               \/ RefuseExecution(r) \/ RejectFeedback(r)
    <3>1. Rollback(r)
      BY <2>5 DEF RefuseSelection, FailReplan, EndWithoutDecision,
                  RefuseExecution, RejectFeedback
    <3> QED
      BY <3>1, RollbackKeeps
  <2>6. CASE FinishReplan(r) \/ FinishDecline(r) \/ FinishConfirm(r)
    <3>1. \E rows, status : Commit(r, rows, status)
      BY <2>6 DEF FinishReplan, FinishDecline, FinishConfirm
    <3> QED
      BY <3>1, CommitKeeps
  <2> QED
    BY <1>2, <2>1, <2>2, <2>3, <2>4, <2>5, <2>6 DEF Handle
<1>3. ASSUME NEW r \in Request, Crash(r)
      PROVE  SagaInv'
  BY <1>3, RollbackKeeps DEF Crash
<1>4. CASE WindowExpires
  BY <1>4
     DEF WindowExpires, session, locks, SagaInv, RunLockHeld, NoTrace,
         SnapshotCurrent, OwnRows, ResultsBacked, Visible, SagaPrefix,
         EffectsAccounted
<1>5. CASE UNCHANGED vars
  BY <1>5
     DEF vars, durable, session, locks, SagaInv, RunLockHeld, NoTrace,
         SnapshotCurrent, OwnRows, ResultsBacked, Visible, SagaPrefix,
         EffectsAccounted
<1> QED
  BY <1>1, <1>2, <1>3, <1>4, <1>5 DEF Next

LEMMA SagaInvariant == Spec => [](TypeOK /\ Targeted /\ SagaInv)
<1>1. Init => TypeOK /\ Targeted /\ SagaInv
  BY InitType, InitSaga
<1>2. TypeOK /\ Targeted /\ SagaInv /\ [Next]_vars
        => (TypeOK /\ Targeted /\ SagaInv)'
  BY TypeStep, SagaStep
<1> QED
  BY <1>1, <1>2, PTL DEF Spec

----------------------------------------------------------------------------
(* The properties *)

\* The ledger a handler has read before it executes the first action is
\* still the committed ledger at the last one.
THEOREM SnapshotStaysCurrent == Spec => []SnapshotCurrent
<1>1. SagaInv => SnapshotCurrent
  BY DEF SagaInv
<1> QED
  BY <1>1, SagaInvariant, PTL

\* Every write at the provider is recorded, still in an open transaction,
\* or forgotten by a rollback, and is counted once.
THEOREM EffectsAreAccounted == Spec => []EffectsAccounted
<1>1. SagaInv => EffectsAccounted
  BY DEF SagaInv
<1> QED
  BY <1>1, SagaInvariant, PTL

\* Whatever requests take part in it, the recorded actions of a plan are a
\* prefix of the plan, and all but the last of them have succeeded.
THEOREM SagaIsPrefix == Spec => []SagaPrefix
<1>1. SagaInv => SagaPrefix
  BY DEF SagaInv
<1> QED
  BY <1>1, SagaInvariant, PTL

----------------------------------------------------------------------------
(* The handlers of ConfirmTransactions implement WriteSaga: every step is  *)
(* a step of the saga or leaves the saga's variables alone.                *)

\* Attempted, of any value of `mine'.
Tried(rows, k) ==
  IF \E r \in Request : rows[r][k] = "succeeded" THEN "succeeded"
  ELSE IF \E r \in Request : rows[r][k] = "failed" THEN "failed"
  ELSE "none"

\* The refinement mapping's value of the saga's `attempt'.
Attempts(rows) == [k \in Key |-> Tried(rows, k)]

LEMMA TriedByOne ==
  ASSUME NEW rows \in [Request -> [Key -> LedgerStatus]],
         NEW r \in Request, NEW k \in Key,
         \A o \in Request \ {r} : rows[o][k] = "none"
  PROVE  Tried(rows, k) = rows[r][k]
BY DEF Tried, LedgerStatus

LEMMA TriedByNone ==
  ASSUME NEW rows, NEW k \in Key, \A o \in Request : rows[o][k] = "none"
  PROVE  Tried(rows, k) = "none"
BY DEF Tried

LEMMA AttemptedIsTried ==
  /\ [k \in Key |-> Attempted(k)] = Attempts(mine)
  /\ [k \in Key |-> Attempted(k)]' = Attempts(mine')
BY DEF Attempted, Tried, Attempts

LEMMA SameKeys == Saga!Key = Key
BY DEF Saga!Key, Key

----------------------------------------------------------------------------
(* Steps *)

LEMMA InitImplements == Init => Saga!Init
<1> SUFFICES ASSUME Init PROVE Saga!Init
  OBVIOUS
<1>1. ASSUME NEW k \in Key
      PROVE  Tried(mine, k) = "none"
  BY TriedByNone DEF Init, NoRows
<1>2. Attempts(mine) = [k \in Key |-> "none"]
  BY <1>1 DEF Attempts
<1> QED
  BY <1>2, AttemptedIsTried, SameKeys DEF Init, NoRows, Saga!Init

LEMMA StutterImplements ==
  ASSUME UNCHANGED <<ledger, mine, effects, lost>>
  PROVE  UNCHANGED Saga!sagaVars
BY AttemptedIsTried DEF Saga!sagaVars

LEMMA InvokeImplements ==
  ASSUME TypeOK, Targeted, SagaInv, NEW r \in Request, InvokeAction(r)
  PROVE  \E k \in Key : Saga!Try(k)
<1>1. PICK k \in Key : k = Current(r)
  BY CurrentIsNew DEF InvokeAction
<1>2. PICK outcome \in {"succeeded", "failed"} :
        /\ mine' = [mine EXCEPT ![r][k] = outcome]
        /\ effects' = [effects EXCEPT ![k] = IF outcome = "succeeded"
                                             THEN @ + 1 ELSE @]
  BY <1>1 DEF InvokeAction
<1>3. Continues(r) /\ pc[r] = "execute"
  BY DEF InvokeAction, Continues
<1>4. mine[r][k] = "none" /\ ledger[k] = "none"
  BY <1>1, CurrentIsNew DEF InvokeAction, NotRecorded
<1>5. UNCHANGED <<ledger, lost>>
  BY DEF InvokeAction
<1>6. ASSUME NEW q \in Key
      PROVE  Attempts(mine)[q] = mine[r][q]
  <2>1. \A o \in Request \ {r} : mine[o][q] = "none"
    BY <1>3, OthersHaveNoRows DEF SagaInv
  <2>2. mine \in [Request -> [Key -> LedgerStatus]]
    BY DEF TypeOK
  <2> QED
    BY <2>1, <2>2, TriedByOne DEF Attempts
<1>7. ASSUME NEW q \in Key
      PROVE  Attempts(mine')[q] = mine'[r][q]
  <2>1. \A o \in Request \ {r} : mine[o][q] = "none"
    BY <1>3, OthersHaveNoRows DEF SagaInv
  <2>2. mine' \in [Request -> [Key -> LedgerStatus]]
    BY <1>2 DEF TypeOK, LedgerStatus
  <2>3. \A o \in Request \ {r} : mine'[o][q] = "none"
    BY <1>2, <2>1 DEF TypeOK
  <2> QED
    BY <2>2, <2>3, TriedByOne DEF Attempts
<1>8. Attempts(mine') = [Attempts(mine) EXCEPT ![k] = outcome]
  <2>1. mine'[r] = [mine[r] EXCEPT ![k] = outcome]
    BY <1>2 DEF TypeOK
  <2>2. \A q \in Key : Attempts(mine')[q] = IF q = k THEN outcome
                                                     ELSE Attempts(mine)[q]
    BY <1>6, <1>7, <2>1 DEF TypeOK
  <2> QED
    BY <2>2 DEF Attempts
<1>9. ASSUME NEW j \in 1 .. k[2] - 1
      PROVE  ledger[<<k[1], j>>] = "succeeded"
               \/ Attempts(mine)[<<k[1], j>>] = "succeeded"
  <2>1. k[1] = target[r] /\ k[2] = Len(results[r]) + 1
    BY <1>1 DEF Current
  <2>2. results[r] \in Seq(ActionStatus) /\ Len(results[r]) \in Nat
    BY DEF TypeOK
  <2>3. j \in 1 .. Len(results[r]) /\ DOMAIN results[r] = 1 .. Len(results[r])
    BY <2>1, <2>2
  <2>4. results[r][j] \in SuccessStatus
    BY <1>3, <2>3 DEF Continues, HasFailure, SagaInv, ResultsBacked
  <2>5. Visible(r, <<k[1], j>>) = "succeeded"
    BY <1>3, <2>1, <2>3, <2>4 DEF SagaInv, ResultsBacked
  <2>6. <<k[1], j>> \in Key
    <3>1. k[1] \in Plan /\ k[2] \in 1 .. ActionCount[k[1]]
      BY KeyParts
    <3>2. ActionCount[k[1]] \in Nat
      BY <3>1, ActionAssumption
    <3> QED
      BY <3>1, <3>2, KeyMember
  <2> QED
    BY <1>6, <2>5, <2>6 DEF Visible
<1>10. ASSUME NEW q \in Key, Attempts(mine)[q] # "none"
       PROVE  q[1] = k[1]
  BY <1>1, <1>6, <1>10 DEF Current, SagaInv, OwnRows
<1>11. Attempts(mine)[k] = "none"
  BY <1>4, <1>6
<1>12. Saga!Try(k)
  BY <1>2, <1>4, <1>5, <1>8, <1>9, <1>10, <1>11, AttemptedIsTried, SameKeys
     DEF Saga!Try, Saga!Settled, TypeOK
<1> QED
  BY <1>12

LEMMA CommitImplements ==
  ASSUME TypeOK, Targeted, SagaInv, NEW r \in Request, NEW rows, NEW status,
         Commit(r, rows, status)
  PROVE  Saga!Keep \/ UNCHANGED Saga!sagaVars
<1>1. /\ mine' = [mine EXCEPT ![r] = NoRows]
      /\ UNCHANGED <<effects, lost>>
      /\ ledger' = [k \in Key |->
                      IF mine[r][k] = "none" THEN ledger[k] ELSE mine[r][k]]
  BY DEF Commit, CloseSession
<1>2. CASE pc[r] # "execute"
  <2>1. mine' = mine
    BY <1>1, <1>2 DEF SagaInv, NoTrace, TypeOK
  <2>2. ledger' = ledger
    BY <1>1, <1>2, CommitOutside
  <2> QED
    BY <1>1, <2>1, <2>2, StutterImplements
<1>3. CASE pc[r] = "execute"
  <2>1. ASSUME NEW k \in Key
        PROVE  Attempts(mine)[k] = mine[r][k] /\ Attempts(mine')[k] = "none"
    <3>1. \A o \in Request \ {r} : mine[o][k] = "none"
      BY <1>3, OthersHaveNoRows DEF SagaInv
    <3>2. mine \in [Request -> [Key -> LedgerStatus]]
      BY DEF TypeOK
    <3>3. Tried(mine, k) = mine[r][k]
      BY <3>1, <3>2, TriedByOne
    <3>4. \A o \in Request : mine'[o][k] = "none"
      BY <1>1, <3>1, <3>2 DEF NoRows
    <3>5. Tried(mine', k) = "none"
      BY <3>4, TriedByNone
    <3> QED
      BY <3>3, <3>5 DEF Attempts
  <2>2. Attempts(mine') = [k \in Key |-> "none"]
    BY <2>1 DEF Attempts
  <2>3. ledger' = [k \in Key |-> IF Attempts(mine)[k] = "none"
                                 THEN ledger[k] ELSE Attempts(mine)[k]]
    BY <1>1, <2>1
  <2> QED
    BY <1>1, <2>2, <2>3, AttemptedIsTried, SameKeys DEF Saga!Keep
<1> QED
  BY <1>2, <1>3

LEMMA RollbackImplements ==
  ASSUME TypeOK, Targeted, SagaInv, NEW r \in Request, Rollback(r)
  PROVE  Saga!Forget \/ UNCHANGED Saga!sagaVars
<1>1. /\ mine' = [mine EXCEPT ![r] = NoRows]
      /\ UNCHANGED <<ledger, effects>>
      /\ lost' = [k \in Key |-> IF mine[r][k] = "succeeded"
                                THEN lost[k] + 1 ELSE lost[k]]
  BY DEF Rollback, CloseSession
<1>2. CASE pc[r] # "execute"
  <2>1. mine' = mine
    BY <1>1, <1>2 DEF SagaInv, NoTrace, TypeOK
  <2>2. lost' = lost
    BY <1>1, <1>2, NoRowsOutside DEF SagaInv, TypeOK
  <2> QED
    BY <1>1, <2>1, <2>2, StutterImplements
<1>3. CASE pc[r] = "execute"
  <2>1. ASSUME NEW k \in Key
        PROVE  Attempts(mine)[k] = mine[r][k] /\ Attempts(mine')[k] = "none"
    <3>1. \A o \in Request \ {r} : mine[o][k] = "none"
      BY <1>3, OthersHaveNoRows DEF SagaInv
    <3>2. mine \in [Request -> [Key -> LedgerStatus]]
      BY DEF TypeOK
    <3>3. Tried(mine, k) = mine[r][k]
      BY <3>1, <3>2, TriedByOne
    <3>4. \A o \in Request : mine'[o][k] = "none"
      BY <1>1, <3>1, <3>2 DEF NoRows
    <3>5. Tried(mine', k) = "none"
      BY <3>4, TriedByNone
    <3> QED
      BY <3>3, <3>5 DEF Attempts
  <2>2. Attempts(mine') = [k \in Key |-> "none"]
    BY <2>1 DEF Attempts
  <2>3. lost' = [k \in Key |-> IF Attempts(mine)[k] = "succeeded"
                               THEN lost[k] + 1 ELSE lost[k]]
    BY <1>1, <2>1
  <2> QED
    BY <1>1, <2>2, <2>3, AttemptedIsTried, SameKeys DEF Saga!Forget
<1> QED
  BY <1>2, <1>3

LEMMA StepImplements ==
  TypeOK /\ Targeted /\ SagaInv /\ [Next]_vars => [Saga!Next]_(Saga!sagaVars)
<1> SUFFICES ASSUME TypeOK, Targeted, SagaInv, [Next]_vars
             PROVE  Saga!Next \/ UNCHANGED Saga!sagaVars
  OBVIOUS
<1>1. ASSUME NEW r \in Request, NEW k \in Kinds, NEW p \in Plan,
             OpenRequest(r, k, p)
      PROVE  UNCHANGED Saga!sagaVars
  BY <1>1, StutterImplements DEF OpenRequest, durable
<1>2. ASSUME NEW r \in Request, Handle(r)
      PROVE  Saga!Next \/ UNCHANGED Saga!sagaVars
  <2>1. CASE ListPlans(r) \/ SelectionDone(r) \/ DecidePlan(r) \/ LockRun(r)
               \/ LoadLedger(r) \/ ReplayAction(r) \/ LimitAction(r)
               \/ \E p \in Plan : SelectRow(r, p)
    <3>1. UNCHANGED <<ledger, mine, effects, lost>>
      BY <2>1 DEF ListPlans, SelectionDone, DecidePlan, LockRun, LoadLedger,
                  ReplayAction, LimitAction, SelectRow, durable, session
    <3> QED
      BY <3>1, StutterImplements
  <2>2. CASE InvokeAction(r)
    BY <2>2, InvokeImplements, SameKeys DEF Saga!Next
  <2>3. CASE RefuseSelection(r) \/ FailReplan(r) \/ EndWithoutDecision(r)
               \/ RefuseExecution(r) \/ RejectFeedback(r)
    <3>1. Rollback(r)
      BY <2>3 DEF RefuseSelection, FailReplan, EndWithoutDecision,
                  RefuseExecution, RejectFeedback
    <3> QED
      BY <3>1, RollbackImplements DEF Saga!Next
  <2>4. CASE FinishReplan(r) \/ FinishDecline(r) \/ FinishConfirm(r)
    <3>1. \E rows, status : Commit(r, rows, status)
      BY <2>4 DEF FinishReplan, FinishDecline, FinishConfirm
    <3> QED
      BY <3>1, CommitImplements DEF Saga!Next
  <2> QED
    BY <1>2, <2>1, <2>2, <2>3, <2>4 DEF Handle
<1>3. ASSUME NEW r \in Request, Crash(r)
      PROVE  Saga!Next \/ UNCHANGED Saga!sagaVars
  BY <1>3, RollbackImplements DEF Crash, Saga!Next
<1>4. CASE WindowExpires
  BY <1>4, StutterImplements DEF WindowExpires, session
<1>5. CASE UNCHANGED vars
  BY <1>5, StutterImplements DEF vars, durable, session
<1> QED
  BY <1>1, <1>2, <1>3, <1>4, <1>5 DEF Next

\* Whatever requests are made, in whatever order they run and wherever they
\* are cut off, what they do to the provider and to the ledger is what the
\* saga allows: in order, stopping at a failure, and never again once it is
\* recorded.
THEOREM HandlersImplementSaga == Spec => ImplementsSaga
<1>1. Spec => Saga!Init /\ [][Saga!Next]_(Saga!sagaVars)
  BY InitImplements, StepImplements, SagaInvariant, PTL DEF Spec
<1> QED
  BY <1>1 DEF ImplementsSaga, Saga!Spec

============================================================================
