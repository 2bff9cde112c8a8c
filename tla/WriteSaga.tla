----------------------------- MODULE WriteSaga -----------------------------
(***************************************************************************)
(* What the execution of confirmed plans promises to the world outside the *)
(* database: the actions of a plan happen in their order, none is tried    *)
(* after one has failed, one that is recorded is never tried again, and at *)
(* most one transaction at a time is trying.  A write whose transaction is *)
(* rolled back is forgotten, and may happen again: that is the only way in *)
(* which one can.                                                          *)
(***************************************************************************)
EXTENDS Naturals

CONSTANTS
  Plan,        \* plans of a run
  ActionCount  \* number of actions of each plan

VARIABLES
  recorded,    \* the durable outcome of each action
  attempt,     \* its outcome in the transaction that is open
  effects,     \* how many times it has happened
  lost         \* how many of these are forgotten

sagaVars == <<recorded, attempt, effects, lost>>

Key == UNION {{p} \X (1 .. ActionCount[p]) : p \in Plan}

Outcome == {"none", "succeeded", "failed"}

Init ==
  /\ recorded = [k \in Key |-> "none"]
  /\ attempt = [k \in Key |-> "none"]
  /\ effects = [k \in Key |-> 0]
  /\ lost = [k \in Key |-> 0]

Settled(k) == recorded[k] = "succeeded" \/ attempt[k] = "succeeded"

\* An action is tried: it succeeds and has its effect, or it fails.
Try(k) ==
  /\ recorded[k] = "none"
  /\ attempt[k] = "none"
  /\ \A j \in 1 .. k[2] - 1 : Settled(<<k[1], j>>)
  /\ \A other \in Key : attempt[other] # "none" => other[1] = k[1]
  /\ \/ /\ attempt' = [attempt EXCEPT ![k] = "succeeded"]
        /\ effects' = [effects EXCEPT ![k] = @ + 1]
     \/ /\ attempt' = [attempt EXCEPT ![k] = "failed"]
        /\ UNCHANGED effects
  /\ UNCHANGED <<recorded, lost>>

\* The transaction commits: what it tried is recorded.
Keep ==
  /\ recorded' = [k \in Key |->
                    IF attempt[k] = "none" THEN recorded[k] ELSE attempt[k]]
  /\ attempt' = [k \in Key |-> "none"]
  /\ UNCHANGED <<effects, lost>>

\* The transaction is rolled back: what it did is forgotten, not undone.
Forget ==
  /\ lost' = [k \in Key |->
                IF attempt[k] = "succeeded" THEN lost[k] + 1 ELSE lost[k]]
  /\ attempt' = [k \in Key |-> "none"]
  /\ UNCHANGED <<recorded, effects>>

Next == (\E k \in Key : Try(k)) \/ Keep \/ Forget

Spec == Init /\ [][Next]_sagaVars

============================================================================
