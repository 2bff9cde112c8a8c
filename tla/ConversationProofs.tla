-------------------------- MODULE ConversationProofs --------------------------
(***************************************************************************)
(* What is proved of module Conversations: for any requests of any kinds,  *)
(* handled at the same time in any order, failing or lost anywhere.        *)
(***************************************************************************)
EXTENDS Conversations, ListProofs, FiniteSetTheorems, TLAPS

----------------------------------------------------------------------------
(* The numbers of turns *)

Size(c) == Cardinality(turns[c])

UserTurn(r)      == Turn(Size(SessionOf(r)) + 1, r, "user")
AssistantTurn(r) == Turn(Size(SessionOf(r)) + 2, r, "assistant")

\* A request that has turns to write, or has written some.
Writing(r) == \/ stage[r] \in {"appending", "inserting"}
              \/ stage[r] = "committing" /\ ~ Decides(r)

\* The turns of a conversation that are stored, and those of the one request
\* that may add to them: they follow on the stored ones, so that no two
\* requests can have inserted turns of the same conversation.
TurnsInv ==
  /\ \A c \in Request : IsFiniteSet(turns[c])
  /\ TurnsContiguous
  /\ \A r \in Request :
       /\ own[r] # {} => Writing(r)
       /\ own[r] \in {{}, {UserTurn(r)}, {UserTurn(r), AssistantTurn(r)}}
       /\ stage[r] = "committing" /\ ~ Decides(r) => own[r] # {}
       /\ stage[r] = "inserting" =>
            \/ own[r] = {} /\ pick[r] \in 1 .. Size(SessionOf(r)) + 1
            \/ own[r] = {UserTurn(r)} /\ pick[r] = Size(SessionOf(r)) + 2
  /\ \A r, q \in Request : own[r] # {} /\ own[q] # {} /\ r # q =>
       SessionOf(r) # SessionOf(q)

----------------------------------------------------------------------------
(* The rows of runs *)

\* A row of run r, stored or to be stored, follows its source.
Linked(x, r) ==
  /\ x.session \in Request /\ x.version > 0
  /\ IF x.source = None
     THEN x.version = 1 /\ x.session = r
     ELSE /\ Exists(x.source)
          /\ rows[x.source].session = x.session
          /\ done[x.source] <= opened[r]
          /\ x.version = rows[x.source].version
                         + (IF kind[r] = "replan" THEN 1 ELSE 0)

Plans(r) == stage[r] = "planning" \/ Writing(r)

\* A request that has not written its decision.
Deciding(r) ==
  stage[r] \in {"deciding", "declining", "redeclining", "rewriting"}

RowsInv ==
  /\ \A r \in Request : done[r] <= clock /\ opened[r] <= clock
  /\ \A u \in Request : Exists(u) =>
       /\ Linked(rows[u], u)
       /\ opened[u] < done[u] /\ ~ Decides(u)
       /\ stage[u] \in {"answering", "ended"}
  /\ \A r \in Request : Plans(r) => ~ Decides(r) /\ Linked(row[r], r)
  /\ \A r \in Request :
       Deciding(r) \/ (stage[r] = "committing" /\ Decides(r)) =>
         Decides(r) /\ about[r] \in Request /\ Exists(about[r])
  /\ \A r \in Request : stage[r] = "committing" /\ Decides(r) =>
       /\ row[r].session = rows[about[r]].session
       /\ row[r].source = rows[about[r]].source
       /\ row[r].version = rows[about[r]].version

----------------------------------------------------------------------------
(* Types *)

\* A stream has reached a node of the graph until its run is planned.
StreamOK ==
  /\ stream = [r \in Request |-> stream[r]]
  /\ \A r \in Request : stage[r] \in {"new", "planning"} =>
      /\ stream[r].at \in WorkflowNode
      /\ stream[r].status \in {"running", "failed"}

\* What a workflow makes of the status.
PlannedStatus == {"awaiting_clarification", "awaiting_confirmation", "failed"}

LEMMA OutcomesOK ==
  ASSUME NEW node \in WorkflowNode, NEW status \in {"running", "failed"},
         NEW recoveries, NEW o \in Outcomes(node, status, recoveries)
  PROVE  /\ o.next = "end" => o.status \in PlannedStatus
         /\ o.next # "end" => /\ o.next \in WorkflowNode
                              /\ o.status \in {"running", "failed"}
<1>1. CASE node \in DOMAIN Follows
  BY <1>1 DEF Outcomes, Goes, Follows, WorkflowNode
<1>2. CASE node = "generate_queries"
  BY <1>2 DEF Outcomes, Goes, Follows, WorkflowNode, PlannedStatus
<1>3. CASE node = "semantic_validator"
  BY <1>3 DEF Outcomes, Goes, Follows, WorkflowNode, PlannedStatus
<1>4. CASE node = "apply_recovery"
  BY <1>4 DEF Outcomes, Goes, Follows, WorkflowNode, PlannedStatus, RecoveryRoute
<1>5. CASE node = "final_review"
  BY <1>5 DEF Outcomes, Goes, Follows, WorkflowNode, PlannedStatus
<1>6. CASE node = "present_to_user"
  BY <1>6 DEF Outcomes, Goes, Follows, WorkflowNode, PlannedStatus
<1>7. CASE node = "wait_confirmation"
  BY <1>7 DEF Outcomes, Goes, Follows, WorkflowNode, PlannedStatus
<1> QED
  BY <1>1, <1>2, <1>3, <1>4, <1>5, <1>6, <1>7 DEF WorkflowNode

LEMMA NextStreamOK ==
  ASSUME NEW s, s.at \in WorkflowNode, s.status \in {"running", "failed"},
         NEW t \in NextStreams(s)
  PROVE  /\ t.at = "end" => t.status \in PlannedStatus
         /\ t.at # "end" => /\ t.at \in WorkflowNode
                            /\ t.status \in {"running", "failed"}
<1> DEFINE plans == IF s.at \in {"logical_planner_agent", "present_to_user"}
                    THEN BOOLEAN ELSE {FALSE}
           After(o, m) ==
             [ at |-> o.next, status |-> o.status,
               recoveries |-> IF s.at = "apply_recovery"
                              THEN s.recoveries + 1 ELSE s.recoveries,
               visits |-> Append(s.visits, [node |-> s.at, more |-> m]) ]
           Steps == Outcomes(s.at, s.status, s.recoveries)
<1>1. NextStreams(s) = UNION {{After(o, m) : m \in plans} : o \in Steps}
  BY DEF NextStreams
<1>2. PICK o \in Steps, m \in plans : t = After(o, m)
  <2> HIDE DEF After, plans, Steps
  <2> QED
    BY <1>1
<1>3. t.at = o.next /\ t.status = o.status
  BY <1>2
<1> QED
  BY <1>3, OutcomesOK

LEMMA TypeInitially == Init => TypeOK /\ StreamOK
<1> SUFFICES ASSUME Init PROVE TypeOK /\ StreamOK
  OBVIOUS
<1>1. NoRow \in Row
  BY DEF NoRow, Row, RunStatus, ConfirmedStatus
<1>2. TypeOK
  BY <1>1 DEF Init, TypeOK, Stage
<1>3. StreamOK
  BY DEF Init, StreamOK, NewStream, WorkflowNode, Follows
<1> QED
  BY <1>2, <1>3

----------------------------------------------------------------------------
(* The forms a step can have *)

IInv == TypeOK /\ StreamOK /\ TurnsInv /\ RowsInv

OpenSame == UNCHANGED <<stored, pick, own, stream, answer, clock, done>>

OpenBegin(r, k) == Ask(r, k) /\ Begin(r, k) /\ OpenSame

OpenFollowUp(r, k, u) == /\ Ask(r, k) /\ Exists(u) /\ FollowUp(r, k, u)
                         /\ OpenSame

OpenDecide(r, k, u) == Ask(r, k) /\ Exists(u) /\ Decide(r, k, u) /\ OpenSame

\* However a request ends once it has been taken up.
Closes(r) ==
  /\ Busy(r)
  /\ \E result \in {"summary", "error"} : End(r, result)
  /\ UNCHANGED <<stored, kind, about, history>>

LEMMA StepForms ==
  ASSUME NEW r \in Request,
         \/ \E k \in Kind : Open(r, k) \/ \E u \in Request : Refuse(r, k, u)
         \/ \E u \in Request : Repeat(r, u)
         \/ Progress(r)
         \/ Raise(r)
  PROVE  \/ \E k \in Kind : OpenBegin(r, k)
         \/ \E k \in Kind, u \in Request : OpenFollowUp(r, k, u)
         \/ \E k \in Kind, u \in Request : OpenDecide(r, k, u)
         \/ \E k \in Kind, u \in Request : Refuse(r, k, u)
         \/ \E u \in Request : Repeat(r, u)
         \/ RunWorkflow(r) \/ StreamNode(r) \/ PickIndex(r) \/ InsertTurn(r)
         \/ Describe(r) \/ ReadStatus(r) \/ ReadHistory(r) \/ WriteDecision(r)
         \/ Commit(r) \/ Closes(r)
<1>1. ASSUME NEW k \in Kind, Open(r, k)
      PROVE  \/ OpenBegin(r, k)
             \/ \E u \in Request : OpenFollowUp(r, k, u) \/ OpenDecide(r, k, u)
  BY <1>1 DEF Open, OpenBegin, OpenFollowUp, OpenDecide, OpenSame
<1>2. IndexTaken(r) \/ Answer(r) \/ Raise(r) => Closes(r)
  BY DEF IndexTaken, Answer, Raise, Fail, Closes, Busy
<1> QED
  BY <1>1, <1>2 DEF Progress

----------------------------------------------------------------------------
(* The next index of a conversation *)

LEMMA MaxIsTop ==
  ASSUME NEW n \in Nat
  PROVE  Max(0 .. n) = n
<1>1. \A x \in 0 .. n : (\A y \in 0 .. n : x >= y) => x = n
  OBVIOUS
<1>2. n \in 0 .. n /\ \A y \in 0 .. n : n >= y
  OBVIOUS
<1> QED
  BY <1>1, <1>2 DEF Max

LEMMA SizeIsNat ==
  ASSUME TurnsInv, NEW c \in Request
  PROVE  /\ Size(c) \in Nat
         /\ {t.index : t \in turns[c]} = 1 .. Size(c)
BY FS_CardinalityType DEF TurnsInv, Size, TurnsContiguous

LEMMA NextIndexIs ==
  ASSUME TypeOK, TurnsInv, NEW r \in Request, SessionOf(r) \in Request,
         Unsaid(r) # {}
  PROVE  \/ own[r] = {} /\ NextIndex(r) = Size(SessionOf(r)) + 1
         \/ own[r] = {UserTurn(r)} /\ NextIndex(r) = Size(SessionOf(r)) + 2
<1> DEFINE n == Size(SessionOf(r))
           Indices == {t.index : t \in Visible(r)}
<1>1. n \in Nat /\ {t.index : t \in turns[SessionOf(r)]} = 1 .. n
  BY SizeIsNat
<1>2. Indices = (1 .. n) \cup {t.index : t \in own[r]}
  <2>1. Indices = {t.index : t \in turns[SessionOf(r)]} \cup {t.index : t \in own[r]}
    BY DEF Visible
  <2> QED
    BY <2>1, <1>1
<1> HIDE DEF n
<1>3. CASE own[r] = {}
  <2>1. {0} \cup Indices = 0 .. n
    BY <1>1, <1>2, <1>3
  <2>2. Max({0} \cup Indices) = n
    BY <1>1, <2>1, MaxIsTop, Zenon
  <2> QED
    BY <1>1, <1>3, <2>2 DEF NextIndex, n
<1>4. CASE own[r] = {UserTurn(r)}
  <2>1. {t.index : t \in own[r]} = {n + 1}
    BY <1>4 DEF UserTurn, Turn, n
  <2>2. {0} \cup Indices = 0 .. n + 1
    BY <1>1, <1>2, <2>1
  <2>3. Max({0} \cup Indices) = n + 1
    BY <1>1, <2>2, MaxIsTop, n + 1 \in Nat
  <2> QED
    BY <1>1, <1>4, <2>3 DEF NextIndex, n
<1>5. own[r] # {UserTurn(r), AssistantTurn(r)}
  <2> SUFFICES ASSUME own[r] = {UserTurn(r), AssistantTurn(r)} PROVE FALSE
    OBVIOUS
  <2>1. {t.speaker : t \in own[r]} = {"user", "assistant"}
    BY DEF UserTurn, AssistantTurn, Turn
  <2>2. Unsaid(r) = {}
    BY <2>1 DEF Unsaid, Speakers
  <2> QED
    BY <2>2
<1> QED
  BY <1>3, <1>4, <1>5 DEF TurnsInv

----------------------------------------------------------------------------
(* Every step keeps the types *)

LEMMA RowIsTyped ==
  /\ NoRow \in Row
  /\ TypeOK => \A c : UserTurns(c) \in SUBSET Request \/ c \notin Request
<1>1. NoRow \in Row
  BY DEF NoRow, Row, RunStatus, ConfirmedStatus
<1>2. ASSUME TypeOK, NEW c \in Request PROVE UserTurns(c) \in SUBSET Request
  <2>1. turns[c] \in SUBSET TurnRow
    BY <1>2 DEF TypeOK
  <2> QED
    BY <2>1 DEF UserTurns, TurnRow
<1> QED
  BY <1>1, <1>2

LEMMA OpenTyped ==
  ASSUME IInv, NEW r \in Request, NEW k \in Kind, NEW u \in Request,
         OpenBegin(r, k) \/ OpenFollowUp(r, k, u) \/ OpenDecide(r, k, u)
  PROVE  TypeOK'
<1> USE DEF IInv, Ask, GoTo, OpenSame, stored
<1>1. /\ kind' \in [Request -> Kind \cup {"none"}]
      /\ opened' \in [Request -> Nat]
  BY DEF TypeOK, OpenBegin, OpenFollowUp, OpenDecide
<1>2. CASE OpenBegin(r, k)
  <2>1. FirstRow(r) \in Row
    BY RowIsTyped DEF FirstRow, Row
  <2> QED
    BY <1>1, <1>2, <2>1 DEF OpenBegin, Begin, TypeOK, Stage
<1>3. CASE OpenFollowUp(r, k, u)
  <2>1. rows[u] \in Row /\ rows[u].session \in Request
    BY <1>3 DEF OpenFollowUp, TypeOK, RowsInv, Linked
  <2>2. UserTurns(rows[u].session) \in SUBSET Request
    BY <2>1, RowIsTyped
  <2>4. rows[u].version + (IF k = "replan" THEN 1 ELSE 0) \in Nat
    BY <2>1 DEF Row
  <2>5. FollowUpRow(u, k) \in Row
    BY <2>1, <2>2, <2>4, RowIsTyped DEF FollowUpRow, Row
  <2> QED
    BY <1>1, <1>3, <2>5 DEF OpenFollowUp, FollowUp, TypeOK, Stage
<1>4. CASE OpenDecide(r, k, u)
  <2>1. rows[u].steps \in Seq(Request)
    BY DEF TypeOK, Row
  <2> QED
    BY <1>1, <1>4, <2>1 DEF OpenDecide, Decide, TypeOK, Stage
<1> QED
  BY <1>2, <1>3, <1>4

LEMMA EndTyped ==
  ASSUME TypeOK, NEW r \in Request, NEW u \in Request, NEW k \in Kind,
         Closes(r) \/ Refuse(r, k, u) \/ Repeat(r, u)
  PROVE  TypeOK'
<1> USE DEF TypeOK, GoTo, Ask, stored, history, Stage
<1>1. CASE Closes(r)
  <2>1. PICK result \in {"summary", "error"} : End(r, result)
    BY <1>1 DEF Closes
  <2>2. row' \in [Request -> Row]
    BY <2>1, RowIsTyped DEF End
  <2>3. stage' \in [Request -> Stage]
    BY <2>1 DEF End
  <2>4. answer' \in [Request -> {"none", "summary", "refused", "error"}]
    BY <2>1 DEF End
  <2>5. /\ loaded' \in [Request -> Seq(Request)]
        /\ pick' \in [Request -> Nat] /\ own' \in [Request -> SUBSET TurnRow]
    BY <2>1 DEF End
  <2> QED
    BY <1>1, <2>2, <2>3, <2>4, <2>5 DEF Closes
<1>2. CASE Refuse(r, k, u)
  BY <1>2 DEF Refuse
<1>3. CASE Repeat(r, u)
  BY <1>3 DEF Repeat, Kind
<1> QED
  BY <1>1, <1>2, <1>3

LEMMA PlanTyped ==
  ASSUME IInv, NEW r \in Request, RunWorkflow(r) \/ StreamNode(r)
  PROVE  TypeOK' /\ StreamOK'
<1> USE DEF IInv, GoTo, stored, history
<1>1. ASSUME NEW status \in RunStatus, NEW presented \in BOOLEAN,
             Planned(r, status, presented)
      PROVE  row' \in [Request -> Row]
  <2>1. row[r] \in Row
    BY DEF TypeOK
  <2>2. [row[r] EXCEPT !.status = status, !.presented = presented] \in Row
    BY <2>1 DEF Row
  <2>3. row' = [row EXCEPT ![r] =
                 [row[r] EXCEPT !.status = status, !.presented = presented]]
    BY <1>1 DEF Planned, TypeOK
  <2> QED
    BY <2>2, <2>3 DEF TypeOK
<1>2. CASE RunWorkflow(r)
  <2>0. \A result \in Results : result[1] \in RunStatus /\ result[2] \in BOOLEAN
    <3> TAKE result \in Results
    <3>1. CASE result = <<"awaiting_clarification", FALSE>>
      BY <3>1 DEF RunStatus, ConfirmedStatus
    <3>2. CASE result = <<"awaiting_confirmation", TRUE>>
      BY <3>2 DEF RunStatus, ConfirmedStatus
    <3>3. CASE result = <<"failed", TRUE>>
      BY <3>3 DEF RunStatus, ConfirmedStatus
    <3>4. CASE result = <<"failed", FALSE>>
      BY <3>4 DEF RunStatus, ConfirmedStatus
    <3> QED
      BY <3>1, <3>2, <3>3, <3>4 DEF Results
  <2>1. row' \in [Request -> Row]
    BY <1>1, <1>2, <2>0 DEF RunWorkflow
  <2> QED
    BY <1>2, <2>1 DEF RunWorkflow, TypeOK, Stage, StreamOK
<1>3. CASE StreamNode(r)
  <2>1. PICK s \in NextStreams(stream[r]) :
          /\ stream' = [stream EXCEPT ![r] = s]
          /\ IF s.at = "end"
             THEN /\ Planned(r, s.status,
                            Contains(Nodes(s.visits), "wait_confirmation"))
                  /\ GoTo(r, "appending")
             ELSE UNCHANGED <<row, stage>>
    BY <1>3 DEF StreamNode
  <2>2. /\ s.at = "end" => s.status \in RunStatus
        /\ s.at # "end" => s.at \in WorkflowNode /\ s.status \in {"running", "failed"}
    <3>1. PlannedStatus \subseteq RunStatus
      BY DEF PlannedStatus, RunStatus, ConfirmedStatus
    <3> QED
      BY <1>3, <3>1, NextStreamOK DEF StreamNode, StreamOK
  <2>3. Contains(Nodes(s.visits), "wait_confirmation") \in BOOLEAN
    BY DEF Contains
  <2>4. row' \in [Request -> Row] /\ stage' \in [Request -> Stage]
    BY <1>1, <2>1, <2>2, <2>3 DEF TypeOK, Stage
  <2>5. TypeOK'
    BY <1>3, <2>4 DEF StreamNode, TypeOK
  <2>6. StreamOK'
    BY <1>3, <2>1, <2>2 DEF StreamNode, StreamOK, TypeOK
  <2> QED
    BY <2>5, <2>6
<1> QED
  BY <1>2, <1>3

LEMMA TurnTyped ==
  ASSUME IInv, NEW r \in Request, PickIndex(r) \/ InsertTurn(r) \/ Describe(r)
  PROVE  TypeOK'
<1> USE DEF IInv, GoTo, stored, session, history
<1>1. CASE PickIndex(r)
  <2>1. SessionOf(r) \in Request
    BY <1>1 DEF PickIndex, RowsInv, Plans, Writing, Linked, SessionOf
  <2>2. NextIndex(r) \in Nat
    BY <1>1, <2>1, NextIndexIs, SizeIsNat DEF PickIndex
  <2> QED
    BY <1>1, <2>2 DEF PickIndex, TypeOK, Stage
<1>2. CASE InsertTurn(r)
  <2>1. Turn(pick[r], r, IF own[r] = {} THEN "user" ELSE "assistant") \in TurnRow
    BY DEF Turn, TurnRow, TypeOK
  <2>2. own' \in [Request -> SUBSET TurnRow]
    BY <1>2, <2>1 DEF InsertTurn, TypeOK
  <2> QED
    BY <1>2, <2>2 DEF InsertTurn, TypeOK, Stage
<1>3. CASE Describe(r)
  BY <1>3 DEF Describe, TypeOK, Stage
<1> QED
  BY <1>1, <1>2, <1>3

LEMMA DecisionRow ==
  ASSUME IInv, NEW r \in Request, WriteDecision(r)
  PROVE  /\ rows[about[r]] \in Row /\ loaded[r] \in Seq(Request)
         /\ \E status \in RunStatus, steps \in Seq(Request) :
              row' = [row EXCEPT ![r] =
                       [rows[about[r]] EXCEPT !.status = status, !.steps = steps]]
<1> USE DEF IInv
<1>1. /\ rows[about[r]] \in Row /\ loaded[r] \in Seq(Request)
  BY DEF WriteDecision, RowsInv, Deciding, TypeOK
<1> PICK old \in Row : old = rows[about[r]]
  BY <1>1
<1> PICK copy \in Seq(Request) : copy = loaded[r]
  BY <1>1
<1>2. ASSUME NEW decided \in DecidedRows(r)
      PROVE  \E status \in RunStatus, steps \in Seq(Request) :
               decided = [old EXCEPT !.status = status, !.steps = steps]
  <2>1. CASE stage[r] = "deciding"
    <3>1. PICK status \in ConfirmedStatus :
            decided = [[old EXCEPT !.steps = Append(copy, r)]
                         EXCEPT !.status = status]
      BY <1>2, <2>1 DEF DecidedRows, ConfirmedRows, Appended
    <3>2. decided = [old EXCEPT !.status = status, !.steps = Append(copy, r)]
      BY <3>1 DEF Row
    <3>3. status \in RunStatus /\ Append(copy, r) \in Seq(Request)
      BY DEF RunStatus
    <3> QED
      BY <3>2, <3>3
  <2>2. CASE stage[r] = "declining"
    <3>0. Append(old.steps, r) \in Seq(Request)
      BY DEF Row
    <3> PICK new \in Seq(Request) : new = Append(old.steps, r)
      BY <3>0
    <3>1. decided = [[old EXCEPT !.steps = new] EXCEPT !.status = "declined"]
      BY <1>2, <2>2 DEF DecidedRows, DeclinedRow, Appended
    <3>2. decided = [old EXCEPT !.status = "declined", !.steps = new]
      BY <3>1 DEF Row
    <3>3. "declined" \in RunStatus
      BY DEF RunStatus
    <3> QED
      BY <3>2, <3>3
  <2>3. CASE stage[r] = "rewriting"
    <3>1. decided = [old EXCEPT !.steps = Append(copy, r)]
      BY <1>2, <2>3 DEF DecidedRows, Appended
    <3>2. decided = [old EXCEPT !.status = old.status, !.steps = Append(copy, r)]
      BY <3>1 DEF Row
    <3>3. old.status \in RunStatus /\ Append(copy, r) \in Seq(Request)
      BY DEF Row
    <3> QED
      BY <3>2, <3>3
  <2> QED
    BY <2>1, <2>2, <2>3 DEF WriteDecision
<1>3. PICK decided \in DecidedRows(r) : row' = [row EXCEPT ![r] = decided]
  BY DEF WriteDecision
<1>4. PICK status \in RunStatus, steps \in Seq(Request) :
        decided = [old EXCEPT !.status = status, !.steps = steps]
  BY <1>2
<1>5. row' = [row EXCEPT ![r] = [old EXCEPT !.status = status, !.steps = steps]]
  BY <1>3, <1>4
<1> QED
  BY <1>5

LEMMA DecisionTyped ==
  ASSUME IInv, NEW r \in Request,
         ReadStatus(r) \/ ReadHistory(r) \/ WriteDecision(r)
  PROVE  TypeOK'
<1> USE DEF IInv, GoTo, stored, session, history
<1>1. CASE ReadStatus(r)
  BY <1>1 DEF ReadStatus, TypeOK, Stage
<1>2. CASE ReadHistory(r)
  <2>1. rows[about[r]].steps \in Seq(Request)
    BY <1>2 DEF ReadHistory, RowsInv, Deciding, TypeOK, Row
  <2> QED
    BY <1>2, <2>1 DEF ReadHistory, TypeOK, Stage
<1>3. CASE WriteDecision(r)
  <2>1. PICK status \in RunStatus, steps \in Seq(Request) :
          row' = [row EXCEPT ![r] =
                   [rows[about[r]] EXCEPT !.status = status, !.steps = steps]]
    BY <1>3, DecisionRow
  <2>2. [rows[about[r]] EXCEPT !.status = status, !.steps = steps] \in Row
    BY <1>3, DecisionRow DEF Row
  <2>3. row' \in [Request -> Row]
    BY <2>1, <2>2 DEF TypeOK
  <2> QED
    BY <1>3, <2>3 DEF WriteDecision, TypeOK, Stage
<1> QED
  BY <1>1, <1>2, <1>3

LEMMA CommitTyped ==
  ASSUME IInv, NEW r \in Request, Commit(r)
  PROVE  TypeOK'
<1> USE DEF IInv, GoTo, TypeOK
<1>1. RunOf(r) \in Request /\ row[r] \in Row
  BY DEF Commit, RunOf, RowsInv
<1>2. rows' \in [Request -> Row]
  BY <1>1 DEF Commit
<1>3. turns' \in [Request -> SUBSET TurnRow]
  <2>1. turns[SessionOf(r)] \cup own[r] \in SUBSET TurnRow \/ SessionOf(r) \notin Request
    OBVIOUS
  <2> QED
    BY <2>1 DEF Commit
<1> QED
  BY <1>2, <1>3 DEF Commit, Stage

LEMMA TypeStep ==
  ASSUME IInv, [Next]_vars
  PROVE  TypeOK'
<1>1. CASE UNCHANGED vars
  BY <1>1 DEF IInv, TypeOK, vars, stored, session, history
<1>2. ASSUME NEW r \in Request,
             \/ \E k \in Kind : Open(r, k) \/ \E u \in Request : Refuse(r, k, u)
             \/ \E u \in Request : Repeat(r, u)
             \/ Progress(r) \/ Raise(r)
      PROVE  TypeOK'
  <2>1. Kind # {}
    BY DEF Kind
  <2>2. TypeOK
    BY DEF IInv
  <2> QED
    BY <1>2, <2>1, <2>2, StepForms, OpenTyped, EndTyped, PlanTyped, TurnTyped,
       DecisionTyped, CommitTyped
<1> QED
  BY <1>1, <1>2 DEF Next

LEMMA StreamStep ==
  ASSUME IInv, [Next]_vars
  PROVE  StreamOK'
<1> USE DEF IInv, TypeOK, StreamOK
<1>1. CASE UNCHANGED vars
  BY <1>1 DEF vars
<1>2. ASSUME NEW r \in Request, NEW k \in Kind, NEW u \in Request,
             \/ OpenBegin(r, k) \/ OpenFollowUp(r, k, u)
             \/ OpenDecide(r, k, u) \/ Refuse(r, k, u) \/ Repeat(r, u)
      PROVE  StreamOK'
  BY <1>2 DEF OpenBegin, OpenFollowUp, OpenDecide, OpenSame, Ask, Begin, FollowUp,
     Decide, Refuse, Repeat, GoTo
<1>3. ASSUME NEW r \in Request,
             \/ PickIndex(r) \/ InsertTurn(r) \/ Describe(r)
             \/ ReadStatus(r) \/ ReadHistory(r)
             \/ WriteDecision(r) \/ Commit(r) \/ Closes(r)
      PROVE  StreamOK'
  BY <1>3 DEF PickIndex, InsertTurn, Describe, ReadStatus, ReadHistory,
     WriteDecision, Commit, Closes, End, GoTo, Busy
<1>4. ASSUME NEW r \in Request,
             \/ \E k \in Kind : Open(r, k) \/ \E u \in Request : Refuse(r, k, u)
             \/ \E u \in Request : Repeat(r, u)
             \/ Progress(r) \/ Raise(r)
      PROVE  StreamOK'
  <2>1. Kind # {}
    BY DEF Kind
  <2> QED
    BY <1>2, <1>3, <1>4, <2>1, StepForms, PlanTyped
<1> QED
  BY <1>1, <1>4 DEF Next

----------------------------------------------------------------------------
(* Every step keeps the chains of versions *)

LEMMA RowsOpen ==
  ASSUME IInv, NEW r \in Request, NEW k \in Kind, NEW u \in Request,
         \/ OpenBegin(r, k) \/ OpenFollowUp(r, k, u)
         \/ OpenDecide(r, k, u) \/ Refuse(r, k, u) \/ Repeat(r, u)
  PROVE  RowsInv'
<1> USE DEF IInv, TypeOK, GoTo
<1>1. /\ rows' = rows /\ done' = done /\ clock' = clock
      /\ stage[r] = "new" /\ opened' = [opened EXCEPT ![r] = clock]
      /\ \A q \in Request \ {r} : kind'[q] = kind[q] /\ stage'[q] = stage[q]
                                 /\ row'[q] = row[q] /\ about'[q] = about[q]
  BY DEF OpenBegin, OpenFollowUp, OpenDecide, OpenSame, Ask, Begin, FollowUp,
     Decide, Refuse, Repeat, stored
<1>2. \A q \in Request : done'[q] <= clock' /\ opened'[q] <= clock'
  BY <1>1 DEF RowsInv
<1>3. \A q \in Request \ {r}, x \in Row : Linked(x, q) => Linked(x, q)'
  BY <1>1 DEF Linked, Exists
<1>4. ~ Exists(r)
  BY <1>1 DEF RowsInv
<1>5. \A q \in Request : Exists(q)' =>
        /\ Linked(rows[q], q)'
        /\ opened'[q] < done'[q] /\ ~ Decides(q)'
        /\ stage'[q] \in {"answering", "ended"}
  BY <1>1, <1>3, <1>4 DEF RowsInv, Exists, Decides
<1>6. \A q \in Request \ {r} :
        /\ Plans(q)' => ~ Decides(q)' /\ Linked(row[q], q)'
        /\ Deciding(q)' \/ (stage'[q] = "committing" /\ Decides(q)') =>
             Decides(q)' /\ about'[q] \in Request /\ Exists(about[q])'
        /\ stage'[q] = "committing" /\ Decides(q)' =>
             /\ row'[q].session = rows'[about'[q]].session
             /\ row'[q].source = rows'[about'[q]].source
             /\ row'[q].version = rows'[about'[q]].version
  <2> SUFFICES ASSUME NEW q \in Request \ {r}
               PROVE  /\ Plans(q)' => ~ Decides(q)' /\ Linked(row[q], q)'
                      /\ Deciding(q)'
                           \/ (stage'[q] = "committing" /\ Decides(q)') =>
                           Decides(q)' /\ about'[q] \in Request /\ Exists(about[q])'
                      /\ stage'[q] = "committing" /\ Decides(q)' =>
                           /\ row'[q].session = rows'[about'[q]].session
                           /\ row'[q].source = rows'[about'[q]].source
                           /\ row'[q].version = rows'[about'[q]].version
    OBVIOUS
  <2>1. /\ (Plans(q)' <=> Plans(q)) /\ (Decides(q)' <=> Decides(q))
        /\ (Deciding(q)' <=> Deciding(q))
    BY <1>1 DEF Plans, Writing, Decides, Deciding
  <2>2. q \in Request /\ q # r
    OBVIOUS
  <2>3. Linked(row[q], q) => Linked(row[q], q)'
    BY <1>1, <2>2 DEF Linked, Exists
  <2>4. Plans(q)' => ~ Decides(q)' /\ Linked(row[q], q)'
    BY <2>1, <2>3 DEF RowsInv
  <2> QED
    BY <1>1, <2>1, <2>4 DEF RowsInv, Exists
<1>7. /\ Plans(r)' => ~ Decides(r)' /\ Linked(row[r], r)'
      /\ Deciding(r)' \/ (stage'[r] = "committing" /\ Decides(r)') =>
           Decides(r)' /\ about'[r] \in Request /\ Exists(about[r])'
      /\ stage'[r] # "committing"
  <2>1. CASE OpenBegin(r, k)
    <3>1. row'[r] = FirstRow(r) /\ kind'[r] = k /\ stage'[r] = "planning"
      BY <2>1 DEF OpenBegin, Begin, Ask
    <3>2. Linked(FirstRow(r), r)' /\ ~ Decides(r)'
      BY <2>1, <3>1 DEF Linked, FirstRow, NoRow, Decides, OpenBegin, Begin
    <3> QED
      BY <3>1, <3>2 DEF Linked, Exists, FirstRow, NoRow, Deciding
  <2>2. CASE OpenFollowUp(r, k, u)
    <3>1. /\ row'[r] = FollowUpRow(u, k) /\ kind'[r] = k
          /\ stage'[r] = "planning" /\ k \in {"clarify", "replan"}
          /\ Exists(u)
      BY <2>2 DEF OpenFollowUp, FollowUp, Ask
    <3>2. /\ FollowUpRow(u, k).session = rows[u].session
          /\ FollowUpRow(u, k).source = u
          /\ FollowUpRow(u, k).version =
               rows[u].version + (IF k = "replan" THEN 1 ELSE 0)
      BY DEF FollowUpRow, NoRow
    <3>3. done[u] <= opened'[r] /\ rows[u].session \in Request
      BY <1>1, <3>1 DEF RowsInv, Linked
    <3>4. rows[u].version \in Nat /\ rows[u].version > 0
      BY <3>1 DEF Row, Exists
    <3> QED
      BY <1>1, <3>1, <3>2, <3>3, <3>4, NoneAssumption DEF Linked, Exists, Decides,
         Deciding
  <2>3. CASE OpenDecide(r, k, u)
    BY <1>1, <2>3 DEF OpenDecide, Decide, Ask, Decides, Exists, Plans, Writing,
       Deciding
  <2>4. CASE Refuse(r, k, u) \/ Repeat(r, u)
    BY <2>4 DEF Refuse, Repeat, Plans, Writing, Ask, Deciding
  <2> QED
    BY <2>1, <2>2, <2>3, <2>4
<1> QED
  BY <1>2, <1>5, <1>6, <1>7 DEF RowsInv

\* A step that commits nothing: the request goes on to plan with the same
\* links, or holds a row with the links of the run it decides on.
LEMMA RowsWork ==
  ASSUME IInv, NEW r \in Request,
         UNCHANGED <<rows, done, clock, opened, kind, about>>,
         \A q \in Request \ {r} : row'[q] = row[q] /\ stage'[q] = stage[q],
         Exists(r) => stage'[r] \in {"answering", "ended"},
         Plans(r)' => /\ Plans(r)
                      /\ row'[r].session = row[r].session
                      /\ row'[r].source = row[r].source
                      /\ row'[r].version = row[r].version,
         Deciding(r)' => Deciding(r),
         stage'[r] = "committing" /\ Decides(r) =>
           /\ Deciding(r)
           /\ row'[r].session = rows[about[r]].session
           /\ row'[r].source = rows[about[r]].source
           /\ row'[r].version = rows[about[r]].version
  PROVE  RowsInv'
<1> USE DEF IInv
<1>1. \A q \in Request : /\ done'[q] <= clock' /\ opened'[q] <= clock'
                         /\ Decides(q)' <=> Decides(q)
                         /\ Exists(q)' <=> Exists(q)
  BY DEF RowsInv, Decides, Exists
<1>2. \A q \in Request : Exists(q) =>
        /\ Linked(rows[q], q)'
        /\ opened'[q] < done'[q]
        /\ stage'[q] \in {"answering", "ended"}
  BY DEF RowsInv, Linked, Exists
<1>3. \A q \in Request : Plans(q)' => ~ Decides(q) /\ Linked(row[q], q)'
  <2> TAKE q \in Request
  <2>1. CASE q # r
    <3>1. Plans(q)' <=> Plans(q)
      BY <2>1 DEF Plans, Writing, Decides
    <3>2. Linked(row[q], q) => Linked(row[q], q)'
      BY <2>1 DEF Linked, Exists
    <3> QED
      BY <3>1, <3>2 DEF RowsInv
  <2>2. CASE q = r
    <3>1. Plans(r)' => Linked(row[r], r) /\ ~ Decides(r)
      BY DEF RowsInv
    <3>2. Plans(r)' /\ Linked(row[r], r) => Linked(row[r], r)'
      BY DEF Linked, Exists
    <3> QED
      BY <2>2, <3>1, <3>2
  <2> QED
    BY <2>1, <2>2
<1>4. \A q \in Request :
        /\ Deciding(q)' \/ (stage'[q] = "committing" /\ Decides(q)) =>
             Decides(q) /\ about'[q] \in Request /\ Exists(about'[q])
        /\ stage'[q] = "committing" /\ Decides(q) =>
             /\ row'[q].session = rows'[about'[q]].session
             /\ row'[q].source = rows'[about'[q]].source
             /\ row'[q].version = rows'[about'[q]].version
  <2>1. \A q \in Request : Deciding(q)' => Deciding(q)
    BY DEF Deciding
  <2> QED
    BY <2>1 DEF RowsInv, Exists
<1> QED
  BY <1>1, <1>2, <1>3, <1>4 DEF RowsInv, Exists

LEMMA RowsPlan ==
  ASSUME IInv, NEW r \in Request,
         \/ RunWorkflow(r) \/ StreamNode(r) \/ PickIndex(r) \/ InsertTurn(r)
         \/ Describe(r) \/ ReadStatus(r) \/ ReadHistory(r) \/ WriteDecision(r)
         \/ Closes(r)
  PROVE  RowsInv'
<1> USE DEF IInv, TypeOK, GoTo, stored, session, history
<1>1. /\ UNCHANGED <<rows, done, clock, opened, kind, about>>
      /\ \A q \in Request \ {r} : row'[q] = row[q] /\ stage'[q] = stage[q]
  BY DEF RunWorkflow, StreamNode, Planned, PickIndex, InsertTurn, Describe,
     ReadStatus, ReadHistory, WriteDecision, Closes, End
<1>2. CASE RunWorkflow(r) \/ StreamNode(r)
  <2>1. /\ stage[r] = "planning" /\ stage'[r] \in {"planning", "appending"}
        /\ row'[r].session = row[r].session
        /\ row'[r].source = row[r].source
        /\ row'[r].version = row[r].version
    <3>1. row[r] \in Row
      OBVIOUS
    <3>2. ASSUME NEW status, NEW presented, Planned(r, status, presented)
          PROVE  /\ row'[r].session = row[r].session
                 /\ row'[r].source = row[r].source
                 /\ row'[r].version = row[r].version
      <4>1. row' = [row EXCEPT ![r] =
                 [row[r] EXCEPT !.status = status, !.presented = presented]]
        BY <3>2 DEF Planned
      <4> QED
        BY <3>1, <4>1 DEF Row
    <3>3. /\ stage[r] = "planning" /\ stage'[r] \in {"planning", "appending"}
          /\ row' = row \/ \E status, presented : Planned(r, status, presented)
      BY <1>2 DEF RunWorkflow, StreamNode
    <3> QED
      BY <3>2, <3>3
  <2>2. ~ Exists(r) /\ Plans(r) /\ ~ Deciding(r)'
    BY <2>1 DEF RowsInv, Plans, Deciding
  <2> QED
    BY <1>1, <2>1, <2>2, RowsWork
<1>3. CASE PickIndex(r) \/ InsertTurn(r) \/ Describe(r)
  <2>1. /\ stage[r] \in {"appending", "inserting"}
        /\ stage'[r] \in {"appending", "inserting", "committing"}
        /\ row'[r] = row[r]
    BY <1>3 DEF PickIndex, InsertTurn, Describe
  <2>2. ~ Exists(r) /\ Plans(r) /\ ~ Decides(r) /\ ~ Deciding(r)'
    BY <2>1 DEF RowsInv, Plans, Writing, Deciding
  <2> QED
    BY <1>1, <2>1, <2>2, RowsWork
<1>4. CASE WriteDecision(r)
  <2>1. Deciding(r) /\ stage'[r] = "committing" /\ ~ Deciding(r)'
    BY <1>4 DEF WriteDecision, Deciding
  <2>2. Decides(r) /\ ~ Exists(r) /\ rows[about[r]] \in Row
    BY <2>1 DEF RowsInv, Deciding
  <2>3. ~ Plans(r)'
    BY <1>1, <2>1, <2>2 DEF Plans, Writing, Decides
  <2>4. /\ row'[r].session = rows[about[r]].session
        /\ row'[r].source = rows[about[r]].source
        /\ row'[r].version = rows[about[r]].version
    <3>1. PICK status \in RunStatus, steps \in Seq(Request) :
            row' = [row EXCEPT ![r] =
                     [rows[about[r]] EXCEPT !.status = status, !.steps = steps]]
      BY <1>4, DecisionRow
    <3> QED
      BY <2>2, <3>1 DEF Row
  <2> QED
    BY <1>1, <2>1, <2>2, <2>3, <2>4, RowsWork
<1>5. CASE Closes(r)
  <2>1. stage'[r] = "ended" /\ ~ Plans(r)' /\ ~ Deciding(r)'
    BY <1>5 DEF Closes, End, Plans, Writing, Deciding
  <2> QED
    BY <1>1, <2>1, RowsWork
<1>6. CASE ReadStatus(r) \/ ReadHistory(r)
  <2>1. /\ Deciding(r) /\ stage'[r] \in {"declining", "redeclining", "rewriting"}
    BY <1>6 DEF ReadStatus, ReadHistory, Deciding
  <2>2. Decides(r) /\ ~ Exists(r) /\ ~ Plans(r)'
    BY <2>1 DEF RowsInv, Plans, Writing, Deciding
  <2> QED
    BY <1>1, <2>1, <2>2, RowsWork
<1> QED
  BY <1>2, <1>3, <1>4, <1>5, <1>6

LEMMA RowsCommit ==
  ASSUME IInv, NEW r \in Request, Commit(r)
  PROVE  RowsInv'
<1> USE DEF IInv, TypeOK, GoTo
<1>1. /\ stage[r] = "committing" /\ stage' = [stage EXCEPT ![r] = "answering"]
      /\ rows' = [rows EXCEPT ![RunOf(r)] = row[r]]
      /\ clock' = clock + 1 /\ done' = [done EXCEPT ![r] = clock + 1]
      /\ UNCHANGED <<kind, about, row, opened>>
  BY DEF Commit
<1>2. ~ Exists(r)
  BY <1>1 DEF RowsInv
<1>3. /\ RunOf(r) \in Request
      /\ ~ Decides(r) => RunOf(r) = r /\ Linked(row[r], r)
      /\ Decides(r) => /\ Exists(RunOf(r))
                       /\ row[r].session = rows[RunOf(r)].session
                       /\ row[r].source = rows[RunOf(r)].source
                       /\ row[r].version = rows[RunOf(r)].version
  BY <1>1 DEF RunOf, RowsInv, Plans, Writing
<1>4. \A q \in Request : Exists(q) =>
        /\ Exists(q)' /\ q # r /\ done'[q] = done[q]
        /\ rows'[q].session = rows[q].session
        /\ rows'[q].source = rows[q].source
        /\ rows'[q].version = rows[q].version
  BY <1>1, <1>2, <1>3 DEF Exists
<1>9. ASSUME NEW x, NEW q \in Request, x.source \in Request \cup {None}, Linked(x, q)
      PROVE  /\ x.session \in Request /\ x.version > 0
             /\ IF x.source = None
                THEN x.version = 1 /\ x.session = q
                ELSE /\ Exists(x.source)'
                     /\ rows'[x.source].session = x.session
                     /\ done'[x.source] <= opened'[q]
                     /\ x.version = rows'[x.source].version
                                    + (IF kind'[q] = "replan" THEN 1 ELSE 0)
  BY <1>1, <1>4, <1>9 DEF Linked, Exists
<1>5. \A q \in Request : done'[q] <= clock' /\ opened'[q] <= clock'
  BY <1>1 DEF RowsInv
<1>6. \A q \in Request : Exists(q)' =>
        /\ Linked(rows[q], q)'
        /\ opened'[q] < done'[q] /\ ~ Decides(q)'
        /\ stage'[q] \in {"answering", "ended"}
  <2> SUFFICES ASSUME NEW q \in Request, Exists(q)'
               PROVE  /\ Linked(rows[q], q)'
                      /\ opened'[q] < done'[q] /\ ~ Decides(q)'
                      /\ stage'[q] \in {"answering", "ended"}
    OBVIOUS
  <2>1. CASE Exists(q)
    <3>1. /\ Linked(rows[q], q) /\ opened[q] < done[q] /\ ~ Decides(q)
          /\ stage[q] \in {"answering", "ended"}
          /\ rows[q].source \in Request \cup {None}
      BY <2>1 DEF RowsInv, Row
    <3>2. Linked(rows[q], q)'
      <4>1. /\ rows'[q].session = rows[q].session
            /\ rows'[q].source = rows[q].source
            /\ rows'[q].version = rows[q].version
        BY <1>4, <2>1
      <4>2. /\ rows[q].session \in Request /\ rows[q].version > 0
            /\ IF rows[q].source = None
               THEN rows[q].version = 1 /\ rows[q].session = q
               ELSE /\ rows'[rows[q].source].version > 0
                    /\ rows'[rows[q].source].session = rows[q].session
                    /\ done'[rows[q].source] <= opened'[q]
                    /\ rows[q].version = rows'[rows[q].source].version
                                         + (IF kind'[q] = "replan" THEN 1 ELSE 0)
        <5>1. rows[q].source # None => rows[q].source \in Request
          BY <3>1
        <5> QED
          BY <1>1, <1>4, <3>1, <5>1 DEF Linked, Exists
      <4> QED
        BY <4>1, <4>2 DEF Linked, Exists
    <3> QED
      BY <1>1, <1>4, <2>1, <3>1, <3>2 DEF Decides
  <2>2. CASE ~ Exists(q)
    <3>1. q = r /\ ~ Decides(r) /\ rows'[r] = row[r]
      BY <1>1, <1>3, <2>2 DEF Exists
    <3>2. row[r].source \in Request \cup {None} /\ Linked(row[r], r)
      BY <1>3, <3>1 DEF Row
    <3>3. Linked(rows[r], r)'
      BY <1>9, <3>1, <3>2 DEF Linked
    <3>4. opened'[r] < done'[r]
      BY <1>1 DEF RowsInv
    <3> QED
      BY <1>1, <3>1, <3>3, <3>4 DEF Decides
  <2> QED
    BY <2>1, <2>2
<1>7. \A q \in Request : Plans(q)' => ~ Decides(q)' /\ Linked(row[q], q)'
  <2> TAKE q \in Request
  <2>1. Plans(q)' => Plans(q)
    BY <1>1 DEF Plans, Writing, Decides
  <2>2. Plans(q) => ~ Decides(q)' /\ Linked(row[q], q)
    BY <1>1 DEF RowsInv, Decides
  <2>3. row[q].source \in Request \cup {None}
    BY DEF Row
  <2>4. Plans(q) => Linked(row[q], q)'
    BY <1>1, <1>4, <2>2, <2>3 DEF Linked
  <2> QED
    BY <2>1, <2>2, <2>4
<1>8. \A q \in Request :
        /\ Deciding(q)' \/ (stage'[q] = "committing" /\ Decides(q)') =>
             Decides(q)' /\ about'[q] \in Request /\ Exists(about[q])'
        /\ stage'[q] = "committing" /\ Decides(q)' =>
             /\ row'[q].session = rows'[about'[q]].session
             /\ row'[q].source = rows'[about'[q]].source
             /\ row'[q].version = rows'[about'[q]].version
  <2> TAKE q \in Request
  <2>1. /\ (Decides(q)' <=> Decides(q)) /\ about'[q] = about[q]
        /\ Deciding(q)' => Deciding(q)
    BY <1>1 DEF Decides, Deciding
  <2>2. about[q] \in Request /\ Exists(about[q]) => Exists(about[q])'
    BY <1>1, <1>4 DEF Exists
  <2> QED
    BY <1>1, <1>4, <2>1, <2>2 DEF RowsInv
<1> QED
  BY <1>5, <1>6, <1>7, <1>8 DEF RowsInv

LEMMA RowsStep ==
  ASSUME IInv, [Next]_vars
  PROVE  RowsInv'
<1>1. CASE UNCHANGED vars
  BY <1>1 DEF IInv, RowsInv, vars, stored, session, history, Linked, Plans, Writing,
     Deciding, Decides, Exists
<1>2. ASSUME NEW r \in Request,
             \/ \E k \in Kind : Open(r, k) \/ \E u \in Request : Refuse(r, k, u)
             \/ \E u \in Request : Repeat(r, u)
             \/ Progress(r) \/ Raise(r)
      PROVE  RowsInv'
  <2>1. Kind # {}
    BY DEF Kind
  <2> QED
    BY <1>2, <2>1, StepForms, RowsOpen, RowsPlan, RowsCommit
<1> QED
  BY <1>1, <1>2 DEF Next

----------------------------------------------------------------------------
(* Every step keeps the numbers of turns *)

\* What TurnsInv asks of one request.
OwnOK(r) ==
  /\ own[r] # {} => Writing(r)
  /\ own[r] \in {{}, {UserTurn(r)}, {UserTurn(r), AssistantTurn(r)}}
  /\ stage[r] = "committing" /\ ~ Decides(r) => own[r] # {}
  /\ stage[r] = "inserting" =>
       \/ own[r] = {} /\ pick[r] \in 1 .. Size(SessionOf(r)) + 1
       \/ own[r] = {UserTurn(r)} /\ pick[r] = Size(SessionOf(r)) + 2

\* The step is of another request and leaves the conversation as it is.
LEMMA OwnStays ==
  ASSUME NEW q \in Request, OwnOK(q),
         /\ kind'[q] = kind[q] /\ stage'[q] = stage[q] /\ row'[q] = row[q]
         /\ pick'[q] = pick[q] /\ own'[q] = own[q],
         turns'[SessionOf(q)] = turns[SessionOf(q)]
  PROVE  OwnOK(q)'
<1>1. SessionOf(q)' = SessionOf(q) /\ Size(SessionOf(q))' = Size(SessionOf(q))
  BY DEF SessionOf, Size
<1>2. UserTurn(q)' = UserTurn(q) /\ AssistantTurn(q)' = AssistantTurn(q)
  BY <1>1 DEF UserTurn, AssistantTurn, Turn
<1> QED
  BY <1>1, <1>2 DEF OwnOK, Writing, Decides

LEMMA TurnsIdle ==
  ASSUME IInv, NEW r \in Request, turns' = turns, own'[r] = {},
         \A q \in Request \ {r} :
           /\ kind'[q] = kind[q] /\ stage'[q] = stage[q] /\ row'[q] = row[q]
           /\ pick'[q] = pick[q] /\ own'[q] = own[q],
         stage'[r] # "inserting",
         stage'[r] = "committing" => Decides(r)'
  PROVE  TurnsInv'
<1>1. /\ \A c \in Request : IsFiniteSet(turns'[c])
      /\ TurnsContiguous'
  BY DEF IInv, TurnsInv, TurnsContiguous
<1>2. ASSUME NEW q \in Request PROVE OwnOK(q)'
  <2>1. CASE q = r
    BY <2>1 DEF OwnOK
  <2>2. CASE q # r
    <3>1. OwnOK(q)
      BY DEF IInv, TurnsInv, OwnOK
    <3> QED
      BY <2>2, <3>1, OwnStays
  <2> QED
    BY <2>1, <2>2
<1>3. \A p, q \in Request : own'[p] # {} /\ own'[q] # {} /\ p # q =>
        SessionOf(p)' # SessionOf(q)'
  BY DEF IInv, TurnsInv, SessionOf
<1> QED
  BY <1>1, <1>2, <1>3 DEF TurnsInv, OwnOK

LEMMA TurnsQuiet ==
  ASSUME IInv, NEW r \in Request, NEW k \in Kind, NEW u \in Request,
         \/ OpenBegin(r, k) \/ OpenFollowUp(r, k, u) \/ OpenDecide(r, k, u)
         \/ Refuse(r, k, u) \/ Repeat(r, u) \/ RunWorkflow(r) \/ StreamNode(r)
         \/ ReadStatus(r) \/ ReadHistory(r) \/ WriteDecision(r) \/ Closes(r)
         \/ (Commit(r) /\ Decides(r))
  PROVE  TurnsInv'
<1> USE DEF IInv, TypeOK, GoTo, stored, session, history
<1>1. CASE \/ OpenBegin(r, k) \/ OpenFollowUp(r, k, u) \/ OpenDecide(r, k, u)
           \/ Refuse(r, k, u) \/ Repeat(r, u)
  <2>1. own[r] = {}
    BY <1>1 DEF OpenBegin, OpenFollowUp, OpenDecide, Refuse, Repeat, Ask, TurnsInv,
       Writing
  <2>2. /\ UNCHANGED <<turns, own, pick>>
        /\ kind' = [kind EXCEPT ![r] = kind'[r]]
        /\ stage' = [stage EXCEPT ![r] = stage'[r]]
        /\ \A q \in Request \ {r} : row'[q] = row[q]
        /\ stage'[r] \in {"planning", "deciding", "ended"}
    BY <1>1 DEF OpenBegin, OpenFollowUp, OpenDecide, OpenSame, Refuse, Repeat, Ask,
       Begin, FollowUp, Decide
  <2> QED
    BY <2>1, <2>2, TurnsIdle
<1>2. CASE \/ RunWorkflow(r) \/ StreamNode(r) \/ ReadStatus(r)
           \/ ReadHistory(r) \/ WriteDecision(r)
  <2>1. own[r] = {}
    BY <1>2 DEF RunWorkflow, StreamNode, ReadStatus, ReadHistory, WriteDecision,
       TurnsInv, Writing
  <2>2. /\ UNCHANGED <<turns, own, pick, kind>>
        /\ \A q \in Request \ {r} : row'[q] = row[q] /\ stage'[q] = stage[q]
        /\ stage'[r] # "inserting"
        /\ stage'[r] = "committing" => Decides(r)
    <3>1. WriteDecision(r) => Decides(r)
      BY DEF WriteDecision, RowsInv, Deciding
    <3> QED
      BY <1>2, <3>1 DEF RunWorkflow, StreamNode, Planned, ReadStatus, ReadHistory,
         WriteDecision
  <2> QED
    BY <2>1, <2>2, TurnsIdle DEF Decides
<1>3. CASE Closes(r)
  BY <1>3, TurnsIdle DEF Closes, End
<1>4. CASE Commit(r) /\ Decides(r)
  BY <1>4, TurnsIdle DEF Commit
<1> QED
  BY <1>1, <1>2, <1>3, <1>4

\* A step of request r that stores no turn.
LEMMA TurnsUnstored ==
  ASSUME IInv, NEW r \in Request,
         UNCHANGED <<turns, kind, row>>,
         \A q \in Request \ {r} :
           /\ stage'[q] = stage[q] /\ pick'[q] = pick[q] /\ own'[q] = own[q],
         OwnOK(r)',
         \A q \in Request \ {r} : own'[r] # {} /\ own[q] # {} =>
           SessionOf(r) # SessionOf(q)
  PROVE  TurnsInv'
<1>1. /\ \A c \in Request : IsFiniteSet(turns'[c])
      /\ TurnsContiguous'
  BY DEF IInv, TurnsInv, TurnsContiguous
<1>2. ASSUME NEW q \in Request PROVE OwnOK(q)'
  <2>1. OwnOK(q)
    BY DEF IInv, TurnsInv, OwnOK
  <2> QED
    BY <2>1, OwnStays
<1>3. \A p, q \in Request : own'[p] # {} /\ own'[q] # {} /\ p # q =>
        SessionOf(p)' # SessionOf(q)'
  BY DEF IInv, TurnsInv, SessionOf
<1> QED
  BY <1>1, <1>2, <1>3 DEF TurnsInv, OwnOK

LEMMA TurnsPicked ==
  ASSUME IInv, NEW r \in Request, PickIndex(r)
  PROVE  TurnsInv'
<1> USE DEF IInv, TypeOK, GoTo, stored, history
<1>1. SessionOf(r) \in Request /\ ~ Decides(r)
  BY DEF PickIndex, RowsInv, Plans, Writing, Linked, SessionOf
<1>2. \/ own[r] = {} /\ NextIndex(r) = Size(SessionOf(r)) + 1
      \/ own[r] = {UserTurn(r)} /\ NextIndex(r) = Size(SessionOf(r)) + 2
  BY <1>1, NextIndexIs DEF PickIndex
<1>3. Size(SessionOf(r)) \in Nat
  BY <1>1, SizeIsNat
<1>4. /\ SessionOf(r)' = SessionOf(r) /\ Size(SessionOf(r))' = Size(SessionOf(r))
      /\ UserTurn(r)' = UserTurn(r) /\ own' = own
      /\ stage'[r] = "inserting" /\ pick'[r] = NextIndex(r)
  BY DEF PickIndex, SessionOf, Size, UserTurn, Turn
<1>5. OwnOK(r)'
  BY <1>2, <1>3, <1>4 DEF OwnOK, Writing
<1>6. \A q \in Request \ {r} : own'[r] # {} /\ own[q] # {} =>
        SessionOf(r) # SessionOf(q)
  BY <1>4 DEF TurnsInv
<1> QED
  BY <1>5, <1>6, TurnsUnstored DEF PickIndex

LEMMA TurnsInserted ==
  ASSUME IInv, NEW r \in Request, InsertTurn(r)
  PROVE  TurnsInv'
<1> USE DEF IInv, TypeOK, GoTo, stored, history
<1> DEFINE n == Size(SessionOf(r))
<1>1. SessionOf(r) \in Request /\ ~ Decides(r)
  BY DEF InsertTurn, RowsInv, Plans, Writing, Linked, SessionOf
<1>2. n \in Nat /\ {t.index : t \in turns[SessionOf(r)]} = 1 .. n
  BY <1>1, SizeIsNat
<1>3. pick[r] \notin 1 .. n
  BY <1>2 DEF InsertTurn, Taken
<1>4. \/ own[r] = {} /\ pick[r] = n + 1
      \/ own[r] = {UserTurn(r)} /\ pick[r] = n + 2
  BY <1>2, <1>3 DEF InsertTurn, TurnsInv
<1>5. /\ SessionOf(r)' = SessionOf(r) /\ Size(SessionOf(r))' = n
      /\ UserTurn(r)' = UserTurn(r) /\ AssistantTurn(r)' = AssistantTurn(r)
      /\ stage'[r] = "appending"
  BY DEF InsertTurn, SessionOf, Size, UserTurn, AssistantTurn, Turn
<1>6. \/ own[r] = {} /\ own'[r] = {UserTurn(r)}
      \/ own[r] # {} /\ own'[r] = {UserTurn(r), AssistantTurn(r)}
  BY <1>4 DEF InsertTurn, UserTurn, AssistantTurn
<1>7. OwnOK(r)'
  BY <1>5, <1>6 DEF OwnOK, Writing
<1>8. ASSUME NEW q \in Request \ {r}, own[q] # {}
      PROVE  SessionOf(r) # SessionOf(q)
  <2>1. CASE own[r] = {}
    <3>1. UserTurn(q) \in own[q]
      BY <1>8 DEF TurnsInv
    <3>2. UserTurn(q).index = Size(SessionOf(q)) + 1
      BY DEF UserTurn, Turn
    <3>3. pick[r] = n + 1
      BY <1>4, <2>1
    <3> QED
      BY <3>1, <3>2, <3>3 DEF InsertTurn, Waits
  <2>2. CASE own[r] # {}
    BY <1>8, <2>2 DEF TurnsInv
  <2> QED
    BY <2>1, <2>2
<1> QED
  BY <1>7, <1>8, TurnsUnstored DEF InsertTurn

LEMMA TurnsDescribed ==
  ASSUME IInv, NEW r \in Request, Describe(r)
  PROVE  TurnsInv'
<1> USE DEF IInv, TypeOK, GoTo, stored, session, history
<1>1. ~ Decides(r)
  BY DEF Describe, RowsInv, Plans, Writing
<1>2. own[r] # {}
  <2>1. "user" \in {t.speaker : t \in own[r]}
    BY DEF Describe, Unsaid, Speakers
  <2> QED
    BY <2>1
<1>3. /\ SessionOf(r)' = SessionOf(r) /\ Size(SessionOf(r))' = Size(SessionOf(r))
      /\ UserTurn(r)' = UserTurn(r) /\ AssistantTurn(r)' = AssistantTurn(r)
      /\ stage'[r] = "committing" /\ own' = own /\ (Decides(r)' <=> Decides(r))
  BY DEF Describe, SessionOf, Size, UserTurn, AssistantTurn, Turn, Decides
<1>4. OwnOK(r)'
  BY <1>1, <1>2, <1>3 DEF OwnOK, Writing, TurnsInv
<1>5. \A q \in Request \ {r} : own'[r] # {} /\ own[q] # {} =>
        SessionOf(r) # SessionOf(q)
  BY <1>3 DEF TurnsInv
<1> QED
  BY <1>4, <1>5, TurnsUnstored DEF Describe

\* Turns that follow on those of a conversation.
LEMMA Extended ==
  ASSUME TypeOK, TurnsInv, NEW r \in Request, SessionOf(r) \in Request,
         own[r] \in {{UserTurn(r)}, {UserTurn(r), AssistantTurn(r)}}
  PROVE  LET all == turns[SessionOf(r)] \cup own[r] IN
         /\ IsFiniteSet(all)
         /\ Cardinality(all) \in Nat
         /\ Cardinality(all) > Size(SessionOf(r))
         /\ {t.index : t \in all} = 1 .. Cardinality(all)
<1> DEFINE old == turns[SessionOf(r)]
           n == Size(SessionOf(r))
           one == old \cup {UserTurn(r)}
           two == one \cup {AssistantTurn(r)}
<1>1. n \in Nat /\ n = Cardinality(old) /\ {t.index : t \in old} = 1 .. n
  BY SizeIsNat DEF Size
<1>2. IsFiniteSet(old)
  BY DEF TurnsInv
<1>3. UserTurn(r).index = n + 1 /\ AssistantTurn(r).index = n + 2
  BY DEF UserTurn, AssistantTurn, Turn
<1> HIDE DEF old, n
<1>4. UserTurn(r) \notin old
  <2>1. n + 1 \notin 1 .. n
    BY <1>1
  <2> QED
    BY <1>1, <1>3, <2>1
<1>5. IsFiniteSet(one) /\ Cardinality(one) = n + 1
  BY <1>1, <1>2, <1>4, FS_AddElement
<1>6. {t.index : t \in one} = 1 .. n + 1
  <2>1. {t.index : t \in one} = {t.index : t \in old} \cup {n + 1}
    BY <1>3
  <2> QED
    BY <1>1, <2>1
<1>7. AssistantTurn(r) \notin one
  <2>1. n + 2 \notin 1 .. n + 1
    BY <1>1
  <2> QED
    BY <1>3, <1>6, <2>1
<1>8. IsFiniteSet(two) /\ Cardinality(two) = n + 2
  <2>1. Cardinality(two) = Cardinality(one) + 1 /\ IsFiniteSet(two)
    <3> HIDE DEF one
    <3> QED
      BY <1>5, <1>7, FS_AddElement
  <2> QED
    BY <1>1, <1>5, <2>1
<1>9. {t.index : t \in two} = 1 .. n + 2
  <2>1. {t.index : t \in two} = {t.index : t \in one} \cup {n + 2}
    <3> HIDE DEF one
    <3> QED
      BY <1>3
  <2> QED
    BY <1>1, <1>6, <2>1
<1>10. old \cup own[r] = one \/ old \cup own[r] = two
  OBVIOUS
<1> HIDE DEF one, two
<1>11. /\ IsFiniteSet(old \cup own[r])
       /\ Cardinality(old \cup own[r]) \in {n + 1, n + 2}
       /\ {t.index : t \in old \cup own[r]} = 1 .. Cardinality(old \cup own[r])
  <2>1. CASE old \cup own[r] = one
    BY <1>5, <1>6, <2>1
  <2>2. CASE old \cup own[r] = two
    BY <1>8, <1>9, <2>2
  <2> QED
    BY <1>10, <2>1, <2>2
<1>12. Cardinality(old \cup own[r]) \in Nat /\ Cardinality(old \cup own[r]) > n
  BY <1>1, <1>11
<1> QED
  BY <1>11, <1>12, Zenon DEF old, n

LEMMA TurnsCommitted ==
  ASSUME IInv, NEW r \in Request, Commit(r), ~ Decides(r)
  PROVE  TurnsInv'
<1> USE DEF IInv, TypeOK, GoTo
<1> DEFINE c == SessionOf(r)
           all == turns[c] \cup own[r]
<1>1. c \in Request
  BY DEF Commit, RowsInv, Plans, Writing, Linked, SessionOf
<1>2. own[r] \in {{UserTurn(r)}, {UserTurn(r), AssistantTurn(r)}}
  BY DEF Commit, TurnsInv
<1>3. /\ IsFiniteSet(all) /\ Cardinality(all) \in Nat /\ Cardinality(all) > Size(c)
      /\ {t.index : t \in all} = 1 .. Cardinality(all)
  BY <1>1, <1>2, Extended
<1>4. /\ turns' = [turns EXCEPT ![c] = all]
      /\ own' = [own EXCEPT ![r] = {}]
      /\ stage' = [stage EXCEPT ![r] = "answering"]
      /\ UNCHANGED <<kind, row, pick>>
  BY DEF Commit
<1>5. \A d \in Request : IsFiniteSet(turns'[d])
  BY <1>1, <1>3, <1>4 DEF TurnsInv
<1>6. TurnsContiguous'
  <2> SUFFICES ASSUME NEW d \in Request
               PROVE  /\ {t.index : t \in turns'[d]} = 1 .. Cardinality(turns'[d])
                      /\ \A t \in turns'[d] : t.speaker = "assistant" =>
                           \E s \in turns'[d] : /\ s.run = t.run
                                               /\ s.speaker = "user"
                                               /\ s.index + 1 = t.index
    BY DEF TurnsContiguous
  <2>1. CASE d # c
    BY <1>4, <2>1 DEF TurnsInv, TurnsContiguous
  <2>2. CASE d = c
    <3>1. turns'[d] = all
      BY <1>1, <1>4, <2>2
    <3>2. ASSUME NEW t \in all, t.speaker = "assistant"
          PROVE  \E s \in all : /\ s.run = t.run /\ s.speaker = "user"
                                /\ s.index + 1 = t.index
      <4>1. CASE t \in turns[c]
        BY <1>1, <3>2, <4>1 DEF TurnsInv, TurnsContiguous
      <4>2. CASE t \in own[r]
        <5>1. t = AssistantTurn(r) /\ UserTurn(r) \in all
          BY <1>2, <3>2, <4>2 DEF UserTurn, Turn
        <5>2. Size(c) \in Nat
          BY <1>1, SizeIsNat
        <5>3. /\ UserTurn(r).run = t.run /\ UserTurn(r).speaker = "user"
              /\ UserTurn(r).index + 1 = t.index
          BY <5>1, <5>2 DEF UserTurn, AssistantTurn, Turn
        <5> QED
          BY <5>1, <5>3
      <4> QED
        BY <4>1, <4>2
    <3> QED
      BY <1>3, <3>1, <3>2
  <2> QED
    BY <2>1, <2>2
<1>7. ASSUME NEW q \in Request PROVE OwnOK(q)'
  <2>0. OwnOK(q)
    BY DEF TurnsInv, OwnOK
  <2>1. CASE q = r
    BY <1>4, <2>1 DEF OwnOK
  <2>2. CASE q # r /\ SessionOf(q) # c
    BY <1>4, <2>0, <2>2, OwnStays
  <2>3. CASE q # r /\ SessionOf(q) = c
    <3>1. own[q] = {}
      BY <1>2, <2>3 DEF TurnsInv
    <3>2. /\ own'[q] = {} /\ stage'[q] = stage[q] /\ pick'[q] = pick[q]
          /\ (Decides(q)' <=> Decides(q))
          /\ SessionOf(q)' = c
      BY <1>4, <2>3, <3>1 DEF Decides, SessionOf
    <3>3. turns'[c] = all
      BY <1>1, <1>4
    <3>4. Size(SessionOf(q))' = Cardinality(all)
      BY <3>2, <3>3 DEF Size
    <3>5. Size(c) \in Nat
      BY <1>1, SizeIsNat
    <3>6. stage[q] = "inserting" => pick[q] \in 1 .. Cardinality(all) + 1
      BY <1>3, <2>0, <2>3, <3>1, <3>5 DEF OwnOK
    <3>7. stage[q] = "committing" => Decides(q)
      BY <2>0, <3>1 DEF OwnOK
    <3> QED
      BY <3>2, <3>4, <3>6, <3>7 DEF OwnOK
  <2> QED
    BY <2>1, <2>2, <2>3
<1>8. \A p, q \in Request : own'[p] # {} /\ own'[q] # {} /\ p # q =>
        SessionOf(p)' # SessionOf(q)'
  BY <1>4 DEF TurnsInv, SessionOf
<1> QED
  BY <1>5, <1>6, <1>7, <1>8 DEF TurnsInv, OwnOK

LEMMA TurnsStep ==
  ASSUME IInv, [Next]_vars
  PROVE  TurnsInv'
<1>1. CASE UNCHANGED vars
  BY <1>1 DEF IInv, TurnsInv, TurnsContiguous, vars, stored, session, history,
     Writing, Decides, SessionOf, Size, UserTurn, AssistantTurn
<1>2. ASSUME NEW r \in Request,
             \/ \E k \in Kind : Open(r, k) \/ \E u \in Request : Refuse(r, k, u)
             \/ \E u \in Request : Repeat(r, u)
             \/ Progress(r) \/ Raise(r)
      PROVE  TurnsInv'
  <2>1. Kind # {}
    BY DEF Kind
  <2> QED
    BY <1>2, <2>1, StepForms, TurnsQuiet, TurnsPicked, TurnsInserted,
       TurnsDescribed, TurnsCommitted
<1> QED
  BY <1>1, <1>2 DEF Next

----------------------------------------------------------------------------
(* The requests that are over, and those that are not *)

\* A step that commits nothing changes nothing that is stored, and nothing of
\* any other request.
LEMMA UncommittedStep ==
  ASSUME IInv, NEW r \in Request, NEW k \in Kind, NEW u \in Request,
         \/ OpenBegin(r, k) \/ OpenFollowUp(r, k, u) \/ OpenDecide(r, k, u)
         \/ Refuse(r, k, u) \/ Repeat(r, u) \/ RunWorkflow(r) \/ StreamNode(r)
         \/ PickIndex(r) \/ InsertTurn(r) \/ Describe(r) \/ ReadStatus(r)
         \/ ReadHistory(r) \/ WriteDecision(r) \/ Closes(r)
  PROVE  /\ UNCHANGED <<rows, turns, done, clock>>
         /\ \A q \in Request \ {r} :
              /\ kind'[q] = kind[q] /\ about'[q] = about[q] /\ opened'[q] = opened[q]
              /\ stage'[q] = stage[q] /\ row'[q] = row[q] /\ own'[q] = own[q]
              /\ loaded'[q] = loaded[q]
         /\ stage[r] # "new" =>
              kind'[r] = kind[r] /\ about'[r] = about[r] /\ opened'[r] = opened[r]
         /\ stage[r] \in {"answering", "ended"} => stage'[r] \in {"answering", "ended"}
         /\ stage'[r] = "committing" => Describe(r) \/ WriteDecision(r)
         /\ stage'[r] = "deciding" => OpenDecide(r, k, u)
         /\ stage'[r] \in {"declining", "redeclining"} => ReadStatus(r)
         /\ stage'[r] = "rewriting" => ReadHistory(r)
<1> USE DEF IInv, TypeOK, GoTo, stored, session, history
<1>1. CASE \/ OpenBegin(r, k) \/ OpenFollowUp(r, k, u) \/ OpenDecide(r, k, u)
           \/ Refuse(r, k, u) \/ Repeat(r, u)
  BY <1>1 DEF OpenBegin, OpenFollowUp, OpenDecide, OpenSame, Refuse, Repeat, Ask,
     Begin, FollowUp, Decide
<1>2. CASE RunWorkflow(r) \/ StreamNode(r)
  BY <1>2 DEF RunWorkflow, StreamNode, Planned
<1>3. CASE PickIndex(r) \/ InsertTurn(r) \/ Describe(r)
  BY <1>3 DEF PickIndex, InsertTurn, Describe
<1>4. CASE WriteDecision(r)
  BY <1>4 DEF WriteDecision
<1>5. CASE Closes(r)
  BY <1>5 DEF Closes, End, Busy
<1>6. CASE ReadStatus(r) \/ ReadHistory(r)
  BY <1>6 DEF ReadStatus, ReadHistory
<1> QED
  BY <1>1, <1>2, <1>3, <1>4, <1>5, <1>6

\* What a commit does to the rows of runs.
LEMMA CommitRows ==
  ASSUME IInv, NEW r \in Request, Commit(r)
  PROVE  /\ RunOf(r) \in Request /\ ~ Exists(r)
         /\ rows' = [rows EXCEPT ![RunOf(r)] = row[r]]
         /\ ~ Decides(r) => RunOf(r) = r /\ Linked(row[r], r)
         /\ Decides(r) => /\ RunOf(r) = about[r] /\ Exists(about[r])
                          /\ row[r].session = rows[about[r]].session
                          /\ row[r].source = rows[about[r]].source
         /\ \A q \in Request : q = RunOf(r) => Exists(q)'
         /\ \A q \in Request : Exists(q) =>
              /\ Exists(q)' /\ q # r
              /\ rows'[q].session = rows[q].session
              /\ rows'[q].source = rows[q].source
         /\ \A q \in Request : Exists(q)' => Exists(q) \/ (q = r /\ ~ Decides(r))
<1> USE DEF IInv, TypeOK, GoTo
<1>1. ~ Exists(r)
  BY DEF Commit, RowsInv
<1>2. /\ RunOf(r) \in Request
      /\ ~ Decides(r) => RunOf(r) = r /\ Linked(row[r], r)
      /\ Decides(r) => /\ RunOf(r) = about[r] /\ Exists(about[r])
                       /\ row[r].session = rows[about[r]].session
                       /\ row[r].source = rows[about[r]].source
                       /\ row[r].version = rows[about[r]].version
  BY DEF Commit, RunOf, RowsInv, Plans, Writing
<1>3. rows' = [rows EXCEPT ![RunOf(r)] = row[r]]
  BY DEF Commit
<1>4. \A q \in Request : q = RunOf(r) => Exists(q)'
  <2>1. row[r].version > 0
    BY <1>2 DEF Exists, Linked
  <2> QED
    BY <1>2, <1>3, <2>1 DEF Exists
<1>5. \A q \in Request : Exists(q) =>
        /\ Exists(q)' /\ q # r
        /\ rows'[q].session = rows[q].session
        /\ rows'[q].source = rows[q].source
  BY <1>1, <1>2, <1>3 DEF Exists
<1>6. \A q \in Request : Exists(q)' => Exists(q) \/ (q = r /\ ~ Decides(r))
  BY <1>2, <1>3 DEF Exists
<1> QED
  BY <1>1, <1>2, <1>3, <1>4, <1>5, <1>6

\* What is known of a request that has committed stays so.
Past ==
  \A d \in Request : done[d] > 0 =>
    /\ kind'[d] = kind[d] /\ about'[d] = about[d]
    /\ opened'[d] = opened[d] /\ done'[d] = done[d]

\* A request that has committed has nothing more to do.
OverInv == \A d \in Request : done[d] > 0 => stage[d] \in {"answering", "ended"}

LEMMA PastUncommitted ==
  ASSUME IInv, OverInv, NEW r \in Request, NEW k \in Kind, NEW u \in Request,
         \/ OpenBegin(r, k) \/ OpenFollowUp(r, k, u) \/ OpenDecide(r, k, u)
         \/ Refuse(r, k, u) \/ Repeat(r, u) \/ RunWorkflow(r) \/ StreamNode(r)
         \/ PickIndex(r) \/ InsertTurn(r) \/ Describe(r) \/ ReadStatus(r)
         \/ ReadHistory(r) \/ WriteDecision(r) \/ Closes(r)
  PROVE  Past /\ OverInv'
<1>1. /\ done' = done
      /\ \A q \in Request \ {r} :
           /\ kind'[q] = kind[q] /\ about'[q] = about[q] /\ opened'[q] = opened[q]
           /\ stage'[q] = stage[q]
      /\ stage[r] # "new" =>
           kind'[r] = kind[r] /\ about'[r] = about[r] /\ opened'[r] = opened[r]
      /\ stage[r] \in {"answering", "ended"} => stage'[r] \in {"answering", "ended"}
  BY UncommittedStep
<1> QED
  BY <1>1 DEF OverInv, Past

\* A commit is later than all that was there before it.
LEMMA CommitTimes ==
  ASSUME IInv, OverInv, NEW r \in Request, Commit(r)
  PROVE  /\ Past /\ OverInv'
         /\ done[r] = 0 /\ done'[r] \in Nat /\ done'[r] > 0
         /\ \A q \in Request : /\ opened'[q] = opened[q] /\ opened[q] < done'[r]
                               /\ q # r => done'[q] = done[q] /\ done[q] < done'[r]
         /\ UNCHANGED <<kind, about, row, opened, loaded>>
         /\ stage[r] = "committing" /\ stage' = [stage EXCEPT ![r] = "answering"]
<1> USE DEF IInv, TypeOK
<1>1. /\ UNCHANGED <<kind, about, row, opened, loaded>>
      /\ stage[r] = "committing" /\ stage' = [stage EXCEPT ![r] = "answering"]
      /\ done' = [done EXCEPT ![r] = clock + 1]
  BY DEF Commit, GoTo
<1>2. done[r] = 0 /\ done'[r] = clock + 1 /\ done'[r] > 0 /\ done'[r] \in Nat
  <2>1. done[r] \in Nat /\ clock \in Nat /\ done \in [Request -> Nat]
    OBVIOUS
  <2>2. ~ (done[r] > 0)
    BY <1>1 DEF OverInv
  <2> QED
    BY <1>1, <2>1, <2>2
<1>3. \A q \in Request : /\ opened[q] <= clock /\ done[q] <= clock
                         /\ q # r => done'[q] = done[q]
  BY <1>1 DEF RowsInv
<1>4. Past /\ OverInv'
  BY <1>1, <1>2, <1>3 DEF Past, OverInv
<1>5. \A q \in Request : /\ opened'[q] = opened[q] /\ opened[q] < done'[r]
                         /\ q # r => done'[q] = done[q] /\ done[q] < done'[r]
  BY <1>1, <1>2, <1>3
<1> QED
  BY <1>1, <1>2, <1>4, <1>5

----------------------------------------------------------------------------
(* The statuses of runs *)

DecidedStatus == ConfirmedStatus \cup {"declined"}

\* A decline that has found its run declined.
Redeclining(r) == stage[r] \in {"redeclining", "rewriting"}

DeclinedBefore(r) ==
  \E e \in Request \ {r} : kind[e] = "decline" /\ Decided(e, about[r])

\* A run that is being planned has a status of planning and no decisions, a
\* declined one has a decline that is stored, and so has the run of a decline
\* that has found it declined, whatever was decided since.
StatusInv ==
  /\ \A r \in Request : Plans(r) =>
       row[r].status \in PlannedStatus /\ row[r].steps = <<>>
  /\ \A u \in Request : rows[u].status = "declined" =>
       \E e \in Request : kind[e] = "decline" /\ Decided(e, u)
  /\ \A r \in Request :
       stage[r] = "declining" \/ Redeclining(r) => kind[r] = "decline"
  /\ \A r \in Request : Redeclining(r) =>
       rows[about[r]].status \in DecidedStatus /\ DeclinedBefore(r)
  /\ \A r \in Request : stage[r] = "committing" /\ Decides(r) =>
       /\ row[r].status \in DecidedStatus
       /\ row[r].status = "declined" => kind[r] = "decline"

\* The status and the history a decision writes.
LEMMA DecisionIs ==
  ASSUME IInv, NEW r \in Request, WriteDecision(r)
  PROVE  \/ /\ stage[r] = "deciding" /\ kind[r] = "confirm"
            /\ row'[r].status \in ConfirmedStatus
            /\ row'[r].steps = Append(loaded[r], r)
         \/ /\ stage[r] = "declining"
            /\ row'[r].status = "declined"
            /\ row'[r].steps = Append(rows[about[r]].steps, r)
         \/ /\ stage[r] = "rewriting"
            /\ row'[r].status = rows[about[r]].status
            /\ row'[r].steps = Append(loaded[r], r)
<1> USE DEF IInv
<1>1. /\ rows[about[r]] \in Row /\ loaded[r] \in Seq(Request)
  BY DecisionRow
<1> PICK old \in Row : old = rows[about[r]]
  BY <1>1
<1> PICK copy \in Seq(Request) : copy = loaded[r]
  BY <1>1
<1>2. PICK decided \in DecidedRows(r) : row' = [row EXCEPT ![r] = decided]
  BY DEF WriteDecision
<1>3. row'[r] = decided
  BY <1>2 DEF TypeOK
<1>4. CASE stage[r] = "deciding"
  <2>1. PICK status \in ConfirmedStatus :
          decided = [[old EXCEPT !.steps = Append(copy, r)]
                       EXCEPT !.status = status]
    BY <1>2, <1>4 DEF DecidedRows, ConfirmedRows, Appended
  <2>2. decided.status = status /\ decided.steps = Append(copy, r)
    BY <2>1 DEF Row
  <2>3. kind[r] = "confirm"
    BY <1>4 DEF WriteDecision
  <2> QED
    BY <1>3, <1>4, <2>2, <2>3
<1>5. CASE stage[r] = "declining"
  <2>0. Append(old.steps, r) \in Seq(Request)
    BY DEF Row
  <2> PICK new \in Seq(Request) : new = Append(old.steps, r)
    BY <2>0
  <2>1. decided = [[old EXCEPT !.steps = new] EXCEPT !.status = "declined"]
    BY <1>2, <1>5 DEF DecidedRows, DeclinedRow, Appended
  <2>2. decided.status = "declined" /\ decided.steps = new
    BY <2>1 DEF Row
  <2> QED
    BY <1>3, <1>5, <2>2
<1>6. CASE stage[r] = "rewriting"
  <2>1. decided = [old EXCEPT !.steps = Append(copy, r)]
    BY <1>2, <1>6 DEF DecidedRows, Appended
  <2>2. decided.status = old.status /\ decided.steps = Append(copy, r)
    BY <2>1 DEF Row
  <2> QED
    BY <1>3, <1>6, <2>2
<1>7. stage[r] \in {"deciding", "declining", "rewriting"}
  BY DEF WriteDecision
<1> QED
  BY <1>4, <1>5, <1>6, <1>7

\* A planned run is not decided.
LEMMA PlannedRow ==
  ASSUME IInv, StatusInv,
         NEW r \in Request, NEW k \in Kind, NEW u \in Request,
         \/ OpenBegin(r, k) \/ OpenFollowUp(r, k, u) \/ OpenDecide(r, k, u)
         \/ Refuse(r, k, u) \/ Repeat(r, u) \/ RunWorkflow(r) \/ StreamNode(r)
         \/ PickIndex(r) \/ InsertTurn(r) \/ Describe(r) \/ ReadStatus(r)
         \/ ReadHistory(r) \/ WriteDecision(r) \/ Closes(r),
         Plans(r)'
  PROVE  row'[r].status \in PlannedStatus /\ row'[r].steps = <<>>
<1> USE DEF IInv, TypeOK, GoTo, stored, session, history, Plans, Writing, Decides
<1>1. CASE OpenBegin(r, k)
  <2>1. row'[r] = FirstRow(r)
    BY <1>1 DEF OpenBegin, Begin
  <2> QED
    BY <2>1 DEF FirstRow, NoRow, PlannedStatus
<1>2. CASE OpenFollowUp(r, k, u)
  <2>1. row'[r] = FollowUpRow(u, k)
    BY <1>2 DEF OpenFollowUp, FollowUp
  <2> QED
    BY <2>1 DEF FollowUpRow, NoRow, PlannedStatus
<1>3. CASE OpenDecide(r, k, u) \/ Refuse(r, k, u) \/ Repeat(r, u) \/ Closes(r)
  BY <1>3 DEF OpenDecide, Decide, Refuse, Repeat, Closes, End, Ask
<1>4. ASSUME NEW status, NEW presented, Planned(r, status, presented),
             stage[r] = "planning", status \in PlannedStatus
      PROVE  row'[r].status \in PlannedStatus /\ row'[r].steps = <<>>
  <2>1. row[r].steps = <<>> /\ row[r] \in Row
    BY <1>4 DEF StatusInv
  <2>2. row'[r] = [row[r] EXCEPT !.status = status, !.presented = presented]
    BY <1>4 DEF Planned
  <2> QED
    BY <1>4, <2>1, <2>2 DEF Row
<1>5. CASE RunWorkflow(r)
  <2>1. PICK result \in Results : Planned(r, result[1], result[2])
    BY <1>5 DEF RunWorkflow
  <2>2. result[1] \in PlannedStatus
    <3>1. CASE result = <<"awaiting_clarification", FALSE>>
      BY <3>1 DEF PlannedStatus
    <3>2. CASE result = <<"awaiting_confirmation", TRUE>>
      BY <3>2 DEF PlannedStatus
    <3>3. CASE result = <<"failed", TRUE>>
      BY <3>3 DEF PlannedStatus
    <3>4. CASE result = <<"failed", FALSE>>
      BY <3>4 DEF PlannedStatus
    <3> QED
      BY <3>1, <3>2, <3>3, <3>4 DEF Results
  <2> QED
    BY <1>4, <1>5, <2>1, <2>2 DEF RunWorkflow
<1>6. CASE StreamNode(r)
  <2>1. stage[r] = "planning"
    BY <1>6 DEF StreamNode
  <2>2. PICK s \in NextStreams(stream[r]) :
          IF s.at = "end"
          THEN /\ Planned(r, s.status,
                          Contains(Nodes(s.visits), "wait_confirmation"))
               /\ GoTo(r, "appending")
          ELSE UNCHANGED <<row, stage>>
    BY <1>6 DEF StreamNode
  <2>3. CASE s.at = "end"
    <3>3. s.status \in PlannedStatus
      BY <2>1, <2>2, <2>3, NextStreamOK DEF StreamOK
    <3> DEFINE shown == Contains(Nodes(s.visits), "wait_confirmation")
    <3>4. Planned(r, s.status, shown)
      BY <2>2, <2>3
    <3> HIDE DEF shown
    <3> QED
      BY <1>4, <2>1, <3>3, <3>4
  <2>4. CASE s.at # "end"
    BY <2>1, <2>2, <2>4 DEF StatusInv
  <2> QED
    BY <2>3, <2>4
<1>7. CASE PickIndex(r) \/ InsertTurn(r) \/ Describe(r)
  BY <1>7 DEF PickIndex, InsertTurn, Describe, StatusInv
<1>8. CASE WriteDecision(r)
  <2>1. Decides(r) /\ stage'[r] = "committing" /\ kind' = kind
    BY <1>8 DEF WriteDecision, RowsInv, Deciding
  <2> QED
    BY <2>1
<1>9. CASE ReadStatus(r) \/ ReadHistory(r)
  BY <1>9 DEF ReadStatus, ReadHistory
<1> QED
  BY <1>1, <1>2, <1>3, <1>5, <1>6, <1>7, <1>8, <1>9

LEMMA StatusUncommitted ==
  ASSUME IInv, OverInv, StatusInv,
         NEW r \in Request, NEW k \in Kind, NEW u \in Request,
         \/ OpenBegin(r, k) \/ OpenFollowUp(r, k, u) \/ OpenDecide(r, k, u)
         \/ Refuse(r, k, u) \/ Repeat(r, u) \/ RunWorkflow(r) \/ StreamNode(r)
         \/ PickIndex(r) \/ InsertTurn(r) \/ Describe(r) \/ ReadStatus(r)
         \/ ReadHistory(r) \/ WriteDecision(r) \/ Closes(r)
  PROVE  StatusInv'
<1> USE DEF IInv
<1>1. /\ UNCHANGED <<rows, turns, done, clock>>
      /\ \A q \in Request \ {r} :
           /\ kind'[q] = kind[q] /\ about'[q] = about[q] /\ opened'[q] = opened[q]
           /\ stage'[q] = stage[q] /\ row'[q] = row[q]
      /\ stage[r] # "new" => kind'[r] = kind[r] /\ about'[r] = about[r]
      /\ stage'[r] = "committing" => Describe(r) \/ WriteDecision(r)
      /\ stage'[r] \in {"declining", "redeclining"} => ReadStatus(r)
      /\ stage'[r] = "rewriting" => ReadHistory(r)
  BY UncommittedStep
<1>2. Past
  BY PastUncommitted
<1>3. \A d, v : d \in Request /\ Decided(d, v) => Decided(d, v)' /\ kind'[d] = kind[d]
  BY <1>2 DEF Past, Decided, Decides
<1>4. ASSUME NEW q \in Request, Plans(q)'
      PROVE  row'[q].status \in PlannedStatus /\ row'[q].steps = <<>>
  <2>1. CASE q # r
    <3>1. Plans(q)
      BY <1>1, <1>4, <2>1 DEF Plans, Writing, Decides
    <3> QED
      BY <1>1, <2>1, <3>1 DEF StatusInv
  <2>2. CASE q = r
    <3>1. Plans(r)'
      BY <1>4, <2>2 DEF Plans, Writing, Decides
    <3> QED
      BY <2>2, <3>1, PlannedRow
  <2> QED
    BY <2>1, <2>2
<1>5. \A v \in Request : rows'[v].status = "declined" =>
        \E e \in Request : kind'[e] = "decline" /\ Decided(e, v)'
  BY <1>1, <1>3 DEF StatusInv
<1>6. \A q \in Request :
        stage'[q] = "declining" \/ Redeclining(q)' => kind'[q] = "decline"
  <2> TAKE q \in Request
  <2>1. CASE q # r
    BY <1>1, <2>1 DEF StatusInv, Redeclining
  <2>2. CASE q = r
    <3>1. ReadStatus(r) => kind'[r] = "decline"
      BY <1>1 DEF ReadStatus
    <3>2. ReadHistory(r) => kind'[r] = "decline"
      BY <1>1 DEF ReadHistory, StatusInv, Redeclining
    <3> QED
      BY <1>1, <2>2, <3>1, <3>2 DEF Redeclining
  <2> QED
    BY <2>1, <2>2
<1>7. ASSUME NEW q \in Request, Redeclining(q)'
      PROVE  rows'[about'[q]].status \in DecidedStatus /\ DeclinedBefore(q)'
  <2> PICK v : v = about'[q]
    OBVIOUS
  <2> SUFFICES /\ rows[v].status \in DecidedStatus
               /\ \E e \in Request \ {q} : kind[e] = "decline" /\ Decided(e, v)
    <3> SUFFICES ASSUME rows[v].status \in DecidedStatus,
                        NEW e \in Request \ {q}, kind[e] = "decline", Decided(e, v)
                 PROVE  rows'[about'[q]].status \in DecidedStatus /\ DeclinedBefore(q)'
      OBVIOUS
    <3>1. Decided(e, v)' /\ kind'[e] = "decline"
      BY <1>3
    <3> QED
      BY <1>1, <3>1 DEF DeclinedBefore, Decided, Decides
  <2>1. CASE q # r \/ ReadHistory(r)
    <3>1. Redeclining(q) /\ about[q] = v
      BY <1>1, <1>7, <2>1 DEF Redeclining, ReadHistory
    <3> QED
      BY <3>1 DEF StatusInv, DeclinedBefore
  <2>2. CASE q = r /\ ReadStatus(r)
    <3>1. /\ stage[r] = "deciding" /\ about[r] = v /\ v \in Request
          /\ rows[v].status = "declined"
      BY <1>1, <1>7, <2>2 DEF ReadStatus, GoTo, TypeOK, Redeclining, RowsInv, Deciding
    <3>2. PICK e \in Request : kind[e] = "decline" /\ Decided(e, v)
      BY <3>1 DEF StatusInv
    <3>3. e # r
      BY <3>1, <3>2 DEF OverInv, Decided
    <3> QED
      BY <2>2, <3>1, <3>2, <3>3 DEF DecidedStatus
  <2> QED
    BY <1>1, <1>7, <2>1, <2>2 DEF Redeclining
<1>8. ASSUME NEW q \in Request, stage'[q] = "committing", Decides(q)'
      PROVE  /\ row'[q].status \in DecidedStatus
             /\ row'[q].status = "declined" => kind'[q] = "decline"
  <2>1. CASE q # r
    BY <1>1, <1>8, <2>1 DEF StatusInv, Decides
  <2>2. CASE q = r
    <3>1. WriteDecision(r)
      BY <1>1, <1>8, <2>2 DEF Describe, session, RowsInv, Plans, Writing, Decides
    <3>2. kind'[r] = kind[r]
      BY <3>1 DEF WriteDecision
    <3>3. CASE row'[r].status \in ConfirmedStatus /\ stage[r] = "deciding"
      BY <2>2, <3>3 DEF ConfirmedStatus, DecidedStatus
    <3>4. CASE row'[r].status = "declined" /\ stage[r] = "declining"
      BY <2>2, <3>2, <3>4 DEF StatusInv, DecidedStatus
    <3>5. CASE row'[r].status = rows[about[r]].status /\ stage[r] = "rewriting"
      BY <2>2, <3>2, <3>5 DEF StatusInv, Redeclining
    <3> QED
      BY <3>1, <3>3, <3>4, <3>5, DecisionIs
  <2> QED
    BY <2>1, <2>2
<1> QED
  BY <1>4, <1>5, <1>6, <1>7, <1>8 DEF StatusInv, Plans, Writing, Decides,
     Redeclining

LEMMA StatusCommit ==
  ASSUME IInv, OverInv, StatusInv, NEW r \in Request, Commit(r)
  PROVE  StatusInv'
<1> USE DEF IInv, TypeOK
<1>1. /\ UNCHANGED <<kind, about, row, opened, loaded>>
      /\ stage[r] = "committing" /\ stage' = [stage EXCEPT ![r] = "answering"]
      /\ Past /\ done'[r] > 0
  BY CommitTimes
<1>2. \A d, v : d \in Request /\ Decided(d, v) => Decided(d, v)'
  BY <1>1 DEF Past, Decided, Decides
<1>3. \A q \in Request : Plans(q)' =>
        row'[q].status \in PlannedStatus /\ row'[q].steps = <<>>
  BY <1>1 DEF StatusInv, Plans, Writing, Decides
<1>4. ASSUME NEW v \in Request, rows'[v].status = "declined"
      PROVE  \E e \in Request : kind'[e] = "decline" /\ Decided(e, v)'
  <2>1. CASE v # RunOf(r)
    <3>1. rows'[v] = rows[v]
      BY <2>1, CommitRows
    <3> QED
      BY <1>1, <1>2, <1>4, <3>1 DEF StatusInv
  <2>2. CASE v = RunOf(r) /\ Decides(r)
    <3>1. rows'[v] = row[r] /\ v = about[r]
      BY <2>2, CommitRows
    <3>2. kind[r] = "decline"
      BY <1>1, <1>4, <2>2, <3>1 DEF StatusInv
    <3>3. Decided(r, v)'
      BY <1>1, <3>1, <3>2 DEF Decided, Decides
    <3> QED
      BY <1>1, <3>2, <3>3
  <2>3. CASE v = RunOf(r) /\ ~ Decides(r)
    <3>1. rows'[v] = row[r]
      BY <2>3, CommitRows
    <3>2. row[r].status \in PlannedStatus
      BY <1>1, <2>3 DEF StatusInv, Plans, Writing
    <3> QED
      BY <1>4, <3>1, <3>2 DEF PlannedStatus
  <2> QED
    BY <2>1, <2>2, <2>3
<1>5. \A q \in Request :
        stage'[q] = "declining" \/ Redeclining(q)' => kind'[q] = "decline"
  BY <1>1 DEF StatusInv, Redeclining
<1>6. ASSUME NEW q \in Request, Redeclining(q)'
      PROVE  rows'[about'[q]].status \in DecidedStatus /\ DeclinedBefore(q)'
  <2> PICK v : v = about[q]
    OBVIOUS
  <2>1. Redeclining(q) /\ v \in Request /\ Exists(v) /\ about'[q] = v
    BY <1>1, <1>6 DEF Redeclining, RowsInv, Deciding
  <2>2. rows'[v].status \in DecidedStatus
    <3>1. CASE v # RunOf(r)
      <4>1. rows'[v] = rows[v]
        BY <2>1, <3>1, CommitRows
      <4> QED
        BY <2>1, <4>1 DEF StatusInv
    <3>2. CASE v = RunOf(r)
      <4>1. rows'[v] = row[r] /\ Decides(r)
        BY <2>1, <3>2, CommitRows
      <4> QED
        BY <1>1, <4>1 DEF StatusInv
    <3> QED
      BY <3>1, <3>2
  <2>3. PICK e \in Request \ {q} : kind[e] = "decline" /\ Decided(e, v)
    BY <2>1 DEF StatusInv, DeclinedBefore
  <2>4. Decided(e, v)' /\ kind'[e] = "decline"
    BY <1>1, <1>2, <2>3
  <2> QED
    BY <2>1, <2>2, <2>4 DEF DeclinedBefore, Decided, Decides
<1>7. \A q \in Request : stage'[q] = "committing" /\ Decides(q)' =>
        /\ row'[q].status \in DecidedStatus
        /\ row'[q].status = "declined" => kind'[q] = "decline"
  BY <1>1 DEF StatusInv, Decides
<1> QED
  BY <1>3, <1>4, <1>5, <1>6, <1>7 DEF StatusInv, Plans, Writing, Decides,
     Redeclining

----------------------------------------------------------------------------
(* What is said of a run *)

\* The run has something to present or to ask.
Presents(x, u) ==
  \/ x.status = "awaiting_confirmation"
  \/ x.status = "awaiting_clarification" /\ kind[u] # "replan"

SaidBy(u, speaker) ==
  \E t \in turns[rows[u].session] : t.run = u /\ t.speaker = speaker

\* Turns are of stored runs of their conversation, and a run that is about
\* to be stored has inserted all it has to say.
SaidInv ==
  /\ \A c \in Request : \A t \in turns[c] : Exists(t.run) /\ rows[t.run].session = c
  /\ \A u \in Request : Exists(u) =>
       /\ SaidBy(u, "user")
       /\ Presents(rows[u], u) => SaidBy(u, "assistant")
  /\ \A u \in Request : ~ Exists(u) => rows[u].status = "failed"
  /\ \A r \in Request : stage[r] = "committing" /\ ~ Decides(r) => Unsaid(r) = {}

LEMMA SaidUncommitted ==
  ASSUME IInv, SaidInv, NEW r \in Request, NEW k \in Kind, NEW u \in Request,
         \/ OpenBegin(r, k) \/ OpenFollowUp(r, k, u) \/ OpenDecide(r, k, u)
         \/ Refuse(r, k, u) \/ Repeat(r, u) \/ RunWorkflow(r) \/ StreamNode(r)
         \/ PickIndex(r) \/ InsertTurn(r) \/ Describe(r) \/ ReadStatus(r)
         \/ ReadHistory(r) \/ WriteDecision(r) \/ Closes(r)
  PROVE  SaidInv'
<1> USE DEF IInv
<1>1. /\ UNCHANGED <<rows, turns, done, clock>>
      /\ \A q \in Request \ {r} :
           /\ kind'[q] = kind[q] /\ stage'[q] = stage[q] /\ row'[q] = row[q]
           /\ own'[q] = own[q]
      /\ stage[r] # "new" => kind'[r] = kind[r]
      /\ stage'[r] = "committing" => Describe(r) \/ WriteDecision(r)
  BY UncommittedStep
<1>2. \A q \in Request : Exists(q) => kind'[q] = kind[q]
  BY <1>1 DEF RowsInv
<1>3. \A c \in Request : \A t \in turns'[c] : Exists(t.run)' /\ rows'[t.run].session = c
  BY <1>1 DEF SaidInv, Exists
<1>4. \A q \in Request : Exists(q)' =>
        /\ SaidBy(q, "user")'
        /\ Presents(rows[q], q)' => SaidBy(q, "assistant")'
  BY <1>1, <1>2 DEF SaidInv, Exists, SaidBy, Presents
<1>5. \A q \in Request : ~ Exists(q)' => rows'[q].status = "failed"
  BY <1>1 DEF SaidInv, Exists
<1>6. ASSUME NEW q \in Request, stage'[q] = "committing", ~ Decides(q)'
      PROVE  Unsaid(q)' = {}
  <2>1. CASE q # r
    BY <1>1, <1>6, <2>1 DEF SaidInv, Decides, Unsaid, Speakers
  <2>2. CASE q = r /\ Describe(r)
    BY <2>2 DEF Describe, Decides, Unsaid, Speakers, session
  <2>3. ~ WriteDecision(r) \/ Decides(r)'
    BY DEF WriteDecision, RowsInv, Deciding, Decides
  <2> QED
    BY <1>1, <1>6, <2>1, <2>2, <2>3
<1> QED
  BY <1>3, <1>4, <1>5, <1>6 DEF SaidInv

LEMMA SaidCommit ==
  ASSUME IInv, StatusInv, SaidInv, NEW r \in Request, Commit(r)
  PROVE  SaidInv'
<1> USE DEF IInv, TypeOK
<1>1. /\ UNCHANGED <<kind, row>>
      /\ own' = [own EXCEPT ![r] = {}]
      /\ stage[r] = "committing" /\ stage' = [stage EXCEPT ![r] = "answering"]
  BY DEF Commit, GoTo
<1>2. ASSUME NEW q \in Request, stage'[q] = "committing", ~ Decides(q)'
      PROVE  Unsaid(q)' = {}
  BY <1>1, <1>2 DEF SaidInv, Decides, Unsaid, Speakers
<1>3. \A q \in Request : ~ Exists(q)' => ~ Exists(q) /\ rows'[q] = rows[q]
  BY CommitRows
<1>4. \A q \in Request : ~ Exists(q)' => rows'[q].status = "failed"
  BY <1>3 DEF SaidInv
<1>5. CASE Decides(r)
  <2>1. turns' = turns
    BY <1>5 DEF Commit
  <2>2. \A c \in Request : \A t \in turns'[c] : Exists(t.run)' /\ rows'[t.run].session = c
    <3>1. \A c \in Request : \A t \in turns[c] :
            t.run \in Request /\ Exists(t.run) /\ rows[t.run].session = c
      BY DEF SaidInv, TurnRow
    <3>2. ASSUME NEW d \in Request, NEW t \in turns[d]
          PROVE  Exists(t.run)' /\ rows'[t.run].session = d
      <4>1. t.run \in Request /\ Exists(t.run) /\ rows[t.run].session = d
        BY <3>1
      <4> QED
        BY <4>1, CommitRows
    <3> QED
      BY <2>1, <3>2
  <2>3. ASSUME NEW q \in Request, Exists(q)'
        PROVE  /\ SaidBy(q, "user")'
               /\ Presents(rows[q], q)' => SaidBy(q, "assistant")'
    <3>1. Exists(q) /\ rows'[q].session = rows[q].session
      BY <1>5, <2>3, CommitRows
    <3>2. SaidBy(q, "user") /\ (Presents(rows[q], q) => SaidBy(q, "assistant"))
      BY <3>1 DEF SaidInv
    <3>3. SaidBy(q, "user")' /\ (SaidBy(q, "assistant") => SaidBy(q, "assistant")')
      BY <2>1, <3>1, <3>2 DEF SaidBy
    <3>4. CASE q = about[r]
      <4>1. rows'[q] = row[r]
        BY <1>5, <3>4, CommitRows
      <4>2. row[r].status \in DecidedStatus
        BY <1>1, <1>5 DEF StatusInv
      <4> QED
        BY <3>3, <4>1, <4>2 DEF Presents, DecidedStatus, ConfirmedStatus
    <3>5. CASE q # about[r]
      <4>1. rows'[q] = rows[q]
        BY <1>5, <3>5, CommitRows
      <4> QED
        BY <1>1, <3>2, <3>3, <4>1 DEF Presents
    <3> QED
      BY <3>4, <3>5
  <2> QED
    BY <1>2, <1>4, <2>2, <2>3 DEF SaidInv
<1>6. CASE ~ Decides(r)
  <2> DEFINE c == SessionOf(r)
  <2>1. c \in Request /\ c = row[r].session
    BY <1>6, CommitRows DEF Linked, SessionOf
  <2>2. turns' = [turns EXCEPT ![c] = turns[c] \cup own[r]]
    BY <1>6 DEF Commit
  <2>3. rows'[r] = row[r] /\ Exists(r)'
    BY <1>6, CommitRows
  <2>4. /\ own[r] \in {{UserTurn(r)}, {UserTurn(r), AssistantTurn(r)}}
        /\ Unsaid(r) = {}
    BY <1>1, <1>6 DEF TurnsInv, SaidInv
  <2>5. \A t \in own[r] : t.run = r
    BY <2>4 DEF UserTurn, AssistantTurn, Turn
  <2>6. ASSUME NEW d \in Request, NEW t \in turns'[d]
        PROVE  Exists(t.run)' /\ rows'[t.run].session = d
    <3>1. CASE t \in turns[d]
      <4>1. t.run \in Request /\ Exists(t.run) /\ rows[t.run].session = d
        BY <3>1 DEF SaidInv, TurnRow
      <4> QED
        BY <4>1, CommitRows
    <3>2. CASE t \notin turns[d]
      <4>1. d = c /\ t \in own[r]
        BY <2>1, <2>2, <2>6, <3>2
      <4> QED
        BY <2>1, <2>3, <2>5, <4>1
    <3> QED
      BY <3>1, <3>2
  <2>7. ASSUME NEW q \in Request, Exists(q)'
        PROVE  /\ SaidBy(q, "user")'
               /\ Presents(rows[q], q)' => SaidBy(q, "assistant")'
    <3>1. CASE q = r
      <4>1. turns'[rows'[r].session] = turns[c] \cup own[r]
        BY <2>1, <2>2, <2>3
      <4>2. UserTurn(r) \in own[r] /\ UserTurn(r).run = r /\ UserTurn(r).speaker = "user"
        BY <2>4 DEF UserTurn, Turn
      <4>3. SaidBy(r, "user")'
        BY <4>1, <4>2 DEF SaidBy
      <4>4. ASSUME Presents(rows[r], r)' PROVE SaidBy(r, "assistant")'
        <5>1. "assistant" \in Speakers(r)
          BY <1>1, <2>3, <4>4 DEF Presents, Speakers
        <5>2. \E t \in own[r] : t.speaker = "assistant"
          <6>1. "assistant" \in {t.speaker : t \in own[r]}
            BY <2>4, <5>1 DEF Unsaid
          <6> QED
            BY <6>1
        <5> QED
          BY <2>5, <4>1, <5>2 DEF SaidBy
      <4> QED
        BY <3>1, <4>3, <4>4
    <3>2. CASE q # r
      <4>1. Exists(q) /\ rows'[q] = rows[q] /\ rows[q].session \in Request
        <5>1. Exists(q) /\ rows'[q] = rows[q]
          BY <1>6, <2>7, <3>2, CommitRows
        <5>2. Linked(rows[q], q)
          BY <5>1 DEF RowsInv
        <5> QED
          BY <5>1, <5>2 DEF Linked
      <4>2. turns[rows[q].session] \subseteq turns'[rows'[q].session]
        BY <2>1, <2>2, <4>1
      <4>3. SaidBy(q, "user") /\ (Presents(rows[q], q) => SaidBy(q, "assistant"))
        BY <4>1 DEF SaidInv
      <4> QED
        BY <1>1, <4>1, <4>2, <4>3 DEF SaidBy, Presents
    <3> QED
      BY <3>1, <3>2
  <2> QED
    BY <1>2, <1>4, <2>6, <2>7 DEF SaidInv
<1> QED
  BY <1>5, <1>6

----------------------------------------------------------------------------
(* What a plan has heard *)

\* The row of run u, stored or to be stored, has heard every run of its
\* conversation that was stored when its request was opened.
Heard(x, u) ==
  x.source # None =>
    \A q \in Request :
      Exists(q) /\ rows[q].session = x.session /\ done[q] <= opened[u] => q \in x.heard

\* A conversation begins with the run it is named after.
HeardInv ==
  /\ \A u \in Request : Exists(u) =>
       /\ Exists(rows[u].session) /\ done[rows[u].session] <= done[u]
       /\ Heard(rows[u], u)
  /\ \A r \in Request : Plans(r) => Heard(row[r], r)
  /\ \A r \in Request : stage[r] = "committing" /\ Decides(r) =>
       row[r].heard = rows[about[r]].heard

LEMMA HeardUncommitted ==
  ASSUME IInv, SaidInv, HeardInv, NEW r \in Request, NEW k \in Kind, NEW u \in Request,
         \/ OpenBegin(r, k) \/ OpenFollowUp(r, k, u) \/ OpenDecide(r, k, u)
         \/ Refuse(r, k, u) \/ Repeat(r, u) \/ RunWorkflow(r) \/ StreamNode(r)
         \/ PickIndex(r) \/ InsertTurn(r) \/ Describe(r) \/ ReadStatus(r)
         \/ ReadHistory(r) \/ WriteDecision(r) \/ Closes(r)
  PROVE  HeardInv'
<1> USE DEF IInv
<1>1. /\ UNCHANGED <<rows, turns, done, clock>>
      /\ \A q \in Request \ {r} :
           /\ kind'[q] = kind[q] /\ about'[q] = about[q] /\ opened'[q] = opened[q]
           /\ stage'[q] = stage[q] /\ row'[q] = row[q]
      /\ stage[r] # "new" =>
           kind'[r] = kind[r] /\ about'[r] = about[r] /\ opened'[r] = opened[r]
      /\ stage[r] \in {"answering", "ended"} => stage'[r] \in {"answering", "ended"}
      /\ stage'[r] = "committing" => Describe(r) \/ WriteDecision(r)
  BY UncommittedStep
<1>3. \A q \in Request : opened'[q] = opened[q] \/ (q = r /\ stage[r] = "new")
  BY <1>1
<1>4. \A q \in Request : Exists(q)' =>
        /\ Exists(rows[q].session)' /\ done'[rows'[q].session] <= done'[q]
        /\ Heard(rows[q], q)'
  <2> SUFFICES ASSUME NEW q \in Request, Exists(q)'
               PROVE  /\ Exists(rows[q].session)' /\ done'[rows'[q].session] <= done'[q]
                      /\ Heard(rows[q], q)'
    OBVIOUS
  <2>1. Exists(q) /\ opened'[q] = opened[q]
    BY <1>1, <1>3 DEF Exists, RowsInv
  <2> QED
    BY <1>1, <2>1 DEF HeardInv, Exists, Heard
<1>5. ASSUME NEW q \in Request, Plans(q)' PROVE Heard(row[q], q)'
  <2>1. CASE q # r
    <3>1. Plans(q)
      BY <1>1, <1>5, <2>1 DEF Plans, Writing, Decides
    <3> QED
      BY <1>1, <2>1, <3>1 DEF HeardInv, Heard, Exists
  <2>2. CASE q = r /\ Plans(r) /\ row'[r].session = row[r].session
             /\ row'[r].source = row[r].source /\ row'[r].heard = row[r].heard
    <3>1. stage[r] # "new"
      BY <2>2 DEF Plans, Writing
    <3> QED
      BY <1>1, <2>2, <3>1 DEF HeardInv, Heard, Exists
  <2>3. CASE q = r /\ OpenBegin(r, k)
    BY <2>3 DEF OpenBegin, Begin, FirstRow, NoRow, Heard, TypeOK
  <2>4. CASE q = r /\ OpenFollowUp(r, k, u)
    <3>1. /\ row'[r] = FollowUpRow(u, k) /\ Exists(u)
      BY <2>4 DEF OpenFollowUp, FollowUp, TypeOK
    <3>2. /\ row'[r].session = rows[u].session
          /\ row'[r].heard = UserTurns(rows[u].session)
      BY <3>1 DEF FollowUpRow, NoRow
    <3>3. \A p \in Request : Exists(p) /\ rows[p].session = rows[u].session =>
            p \in UserTurns(rows[u].session)
      BY DEF SaidInv, SaidBy, UserTurns
    <3> QED
      BY <1>1, <2>4, <3>2, <3>3 DEF Heard, Exists
  <2>5. CASE q = r /\ (RunWorkflow(r) \/ StreamNode(r))
    <3>1. row[r] \in Row
      BY DEF TypeOK
    <3>2. ASSUME NEW status, NEW presented, Planned(r, status, presented)
          PROVE  /\ row'[r].session = row[r].session
                 /\ row'[r].source = row[r].source
                 /\ row'[r].heard = row[r].heard
      <4>1. row' = [row EXCEPT ![r] =
                 [row[r] EXCEPT !.status = status, !.presented = presented]]
        BY <3>2 DEF Planned
      <4> QED
        BY <3>1, <4>1 DEF Row, TypeOK
    <3>3. /\ stage[r] = "planning"
          /\ row' = row \/ \E status, presented : Planned(r, status, presented)
      BY <2>5 DEF RunWorkflow, StreamNode
    <3>4. Plans(r)
      BY <3>3 DEF Plans
    <3> QED
      BY <2>2, <2>5, <3>2, <3>3, <3>4
  <2>6. CASE q = r /\ (PickIndex(r) \/ InsertTurn(r) \/ Describe(r))
    <3>1. row' = row /\ stage[r] \in {"appending", "inserting"}
      BY <2>6 DEF PickIndex, InsertTurn, Describe, session
    <3> QED
      BY <2>2, <2>6, <3>1 DEF Plans, Writing
  <2>7. CASE q = r /\ (\/ OpenDecide(r, k, u) \/ Refuse(r, k, u) \/ Repeat(r, u)
                      \/ ReadStatus(r) \/ ReadHistory(r) \/ WriteDecision(r)
                      \/ Closes(r))
    <3>1. WriteDecision(r) => Decides(r)'
      BY <1>1 DEF WriteDecision, RowsInv, Deciding, Decides
    <3>2. ~ Plans(r)'
      BY <2>7, <3>1 DEF OpenDecide, Decide, Refuse, Repeat, ReadStatus, ReadHistory,
         WriteDecision, Closes, End, GoTo, Plans, Writing, TypeOK
    <3> QED
      BY <1>5, <2>7, <3>2
  <2> QED
    BY <2>1, <2>3, <2>4, <2>5, <2>6, <2>7
<1>6. ASSUME NEW q \in Request, stage'[q] = "committing", Decides(q)'
      PROVE  row'[q].heard = rows'[about'[q]].heard
  <2>1. CASE q # r
    BY <1>1, <1>6, <2>1 DEF HeardInv, Decides
  <2>2. CASE q = r /\ Describe(r)
    BY <1>6, <2>2 DEF Describe, session, RowsInv, Plans, Writing, Decides
  <2>3. CASE q = r /\ WriteDecision(r)
    <3>1. PICK status \in RunStatus, steps \in Seq(Request) :
            row' = [row EXCEPT ![r] =
                     [rows[about[r]] EXCEPT !.status = status, !.steps = steps]]
      BY <2>3, DecisionRow
    <3>2. row'[r].heard = rows[about[r]].heard
      <4>1. /\ rows[about[r]] \in Row
            /\ row'[r] = [rows[about[r]] EXCEPT !.status = status, !.steps = steps]
        BY <2>3, <3>1, DecisionRow DEF TypeOK
      <4> QED
        BY <4>1 DEF Row
    <3> QED
      BY <2>3, <3>2 DEF WriteDecision, stored
  <2> QED
    BY <1>1, <1>6, <2>1, <2>2, <2>3
<1> QED
  BY <1>4, <1>5, <1>6 DEF HeardInv

LEMMA HeardCommit ==
  ASSUME IInv, SaidInv, HeardInv, NEW r \in Request, Commit(r)
  PROVE  HeardInv'
<1> USE DEF IInv, TypeOK
<1>1. /\ UNCHANGED <<kind, about, row, opened>>
      /\ stage[r] = "committing" /\ stage' = [stage EXCEPT ![r] = "answering"]
      /\ done' = [done EXCEPT ![r] = clock + 1]
  BY DEF Commit, GoTo
<1>3. \A q \in Request : opened[q] <= clock /\ done[q] <= clock
  BY DEF RowsInv
<1>4. \A q \in Request : Exists(q) =>
        /\ Exists(q)' /\ q # r /\ done'[q] = done[q]
        /\ rows'[q].session = rows[q].session
        /\ rows'[q].source = rows[q].source
        /\ rows'[q].heard = rows[q].heard
  <2> TAKE q \in Request
  <2> SUFFICES ASSUME Exists(q)
               PROVE  /\ Exists(q)' /\ q # r /\ done'[q] = done[q]
                      /\ rows'[q].session = rows[q].session
                      /\ rows'[q].source = rows[q].source
                      /\ rows'[q].heard = rows[q].heard
    OBVIOUS
  <2>1. /\ Exists(q)' /\ q # r
        /\ rows'[q].session = rows[q].session
        /\ rows'[q].source = rows[q].source
    BY CommitRows
  <2>2. rows'[q].heard = rows[q].heard
    <3>1. RunOf(r) = q => Decides(r) /\ about[r] = q
      BY <2>1, CommitRows
    <3>2. RunOf(r) = q => row[r].heard = rows[q].heard
      BY <1>1, <3>1 DEF HeardInv
    <3> QED
      BY <3>2, CommitRows
  <2> QED
    BY <1>1, <2>1, <2>2
\* What is stored by this step is stored after every request was opened.
<1> DEFINE HeardNext(x, q) ==
      x.source # None =>
        \A p \in Request :
          Exists(p)' /\ rows'[p].session = x.session /\ done'[p] <= opened'[q]
            => p \in x.heard
<1>5. ASSUME NEW x, NEW q \in Request, Heard(x, q)
      PROVE  HeardNext(x, q)
  <2> SUFFICES ASSUME x.source # None, NEW p \in Request, Exists(p)',
                      rows'[p].session = x.session, done'[p] <= opened'[q]
               PROVE  p \in x.heard
    OBVIOUS
  <2>1. Exists(p) \/ p = r
    BY CommitRows
  <2>2. p # r
    BY <1>1, <1>3
  <2> QED
    BY <1>1, <1>4, <1>5, <2>1, <2>2 DEF Heard
<1>6. ASSUME NEW q \in Request, Plans(q)' PROVE Heard(row[q], q)'
  <2>1. Plans(q)
    BY <1>1, <1>6 DEF Plans, Writing, Decides
  <2>2. Heard(row[q], q)
    BY <2>1 DEF HeardInv
  <2>3. HeardNext(row[q], q)
    <3> HIDE DEF HeardNext
    <3> QED
      BY <1>5, <2>2
  <2> QED
    BY <1>1, <2>3 DEF Heard
<1>7. \A q \in Request : Exists(q)' =>
        /\ rows'[rows'[q].session].version > 0
        /\ done'[rows'[q].session] <= done'[q]
        /\ Heard(rows[q], q)'
  <2> SUFFICES ASSUME NEW q \in Request, Exists(q)'
               PROVE  /\ rows'[rows'[q].session].version > 0
                      /\ done'[rows'[q].session] <= done'[q]
                      /\ Heard(rows[q], q)'
    OBVIOUS
  <2>1. CASE Exists(q)
    <3>1. /\ Exists(rows[q].session) /\ rows[q].session \in Request
          /\ done[rows[q].session] <= done[q] /\ Heard(rows[q], q)
      BY <2>1 DEF HeardInv, RowsInv, Linked
    <3>2. HeardNext(rows[q], q)
      <4> HIDE DEF HeardNext
      <4> QED
        BY <1>5, <3>1
    <3>3. Heard(rows[q], q)'
      BY <1>4, <2>1, <3>2 DEF Heard
    <3>4. \A c \in Request : Exists(c) => rows'[c].version > 0 /\ done'[c] = done[c]
      BY <1>4 DEF Exists
    <3> QED
      BY <1>4, <2>1, <3>1, <3>3, <3>4
  <2>2. CASE ~ Exists(q)
    <3>1. q = r /\ ~ Decides(r) /\ rows'[r] = row[r] /\ Linked(row[r], r)
      BY <2>2, CommitRows
    <3>2. Heard(row[r], r)
      BY <1>1, <3>1 DEF HeardInv, Plans, Writing
    <3>3. HeardNext(row[r], r)
      <4> HIDE DEF HeardNext
      <4> QED
        BY <1>5, <3>2
    <3>4. Heard(rows[r], r)'
      BY <3>1, <3>3 DEF Heard
    <3>5. done'[r] = clock + 1 /\ rows'[r].version > 0
      BY <1>1, <3>1 DEF Linked
    <3>6. CASE row[r].source = None
      <4>1. row[r].session = r
        BY <3>1, <3>6 DEF Linked
      <4> QED
        BY <3>1, <3>4, <3>5, <4>1
    <3>7. CASE row[r].source # None
      <4> DEFINE s == row[r].source
                 c == row[r].session
      <4>1. s \in Request /\ Exists(s) /\ rows[s].session = c /\ c \in Request
        BY <3>1, <3>7 DEF Linked, Row
      <4>2. Exists(c)
        BY <4>1 DEF HeardInv
      <4>3. rows'[c].version > 0 /\ done'[c] = done[c]
        BY <1>4, <4>1, <4>2 DEF Exists
      <4>4. done'[c] <= done'[r]
        BY <1>3, <3>5, <4>1, <4>3
      <4> QED
        BY <3>1, <3>4, <4>3, <4>4
    <3> QED
      BY <3>1, <3>6, <3>7
  <2> QED
    BY <2>1, <2>2
<1>8. \A q \in Request : stage'[q] = "committing" /\ Decides(q)' =>
        row'[q].heard = rows'[about'[q]].heard
  <2> TAKE q \in Request
  <2>1. Decides(q)' <=> Decides(q)
    BY <1>1 DEF Decides
  <2>2. stage[q] = "committing" /\ Decides(q) => about[q] \in Request /\ Exists(about[q])
    BY DEF RowsInv
  <2> QED
    BY <1>1, <1>4, <2>1, <2>2 DEF HeardInv
<1> QED
  BY <1>6, <1>7, <1>8 DEF HeardInv, Exists

----------------------------------------------------------------------------
(* The history of decisions *)

\* A decision of run u that was stored after d may have written a history
\* without d.
Overlapped(d, u) ==
  \E q \in Request : Decided(q, u) /\ done[d] < done[q] /\ CanMiss(q, d)

\* The same of a decline alone.
Hidden(c, u) ==
  \E q \in Request : /\ kind[q] = "decline" /\ Decided(q, u)
                     /\ done[c] < done[q] /\ CanMiss(q, c)

\* A request that will write the history it has read before.
Copying(r) == \/ stage[r] = "deciding" /\ kind[r] = "confirm"
              \/ stage[r] = "rewriting"

\* What a history lacks has been lost to a decision before; or, if it is
\* still to be stored, it will be lost to the one that stores it.
StepsInv ==
  /\ \A d, u \in Request : Decided(d, u) =>
       Contains(rows[u].steps, d) \/ Overlapped(d, u)
  /\ \A q, d \in Request : Copying(q) /\ Decided(d, about[q]) =>
       Contains(loaded[q], d) \/ Overlapped(d, about[q]) \/ CanMiss(q, d)
  /\ \A q, d \in Request :
       stage[q] = "committing" /\ Decides(q) /\ Decided(d, about[q]) =>
         Contains(row[q].steps, d) \/ Overlapped(d, about[q]) \/ CanMiss(q, d)
  /\ \A r \in Request : stage[r] = "committing" /\ Decides(r) =>
       Contains(row[r].steps, r)
  /\ \A r, q \in Request :
       stage[r] = "committing" /\ Decides(r) /\ stage[q] = "committing"
       /\ Decides(q) /\ about[r] = about[q] => r = q
  /\ \A d \in Request : Decides(d) /\ done[d] > 0 =>
       about[d] \in Request /\ Exists(about[d])

\* What has overlapped a decision that is stored stays so.
LEMMA PastKept ==
  ASSUME Past, NEW d \in Request, NEW v
  PROVE  /\ Decided(d, v) => Decided(d, v)' /\ kind'[d] = kind[d]
         /\ done[d] > 0 => /\ Overlapped(d, v) => Overlapped(d, v)'
                           /\ Hidden(d, v) => Hidden(d, v)'
                           /\ \A q \in Request :
                                kind'[q] = kind[q] /\ about'[q] = about[q]
                                /\ opened'[q] = opened[q] =>
                                  (CanMiss(q, d) => CanMiss(q, d)')
<1>1. \A e, w : e \in Request /\ Decided(e, w) =>
        /\ Decided(e, w)' /\ kind'[e] = kind[e] /\ done'[e] = done[e]
        /\ about'[e] = about[e] /\ opened'[e] = opened[e]
  BY DEF Past, Decided, Decides
<1>2. ASSUME done[d] > 0, NEW q \in Request, kind'[q] = kind[q],
             about'[q] = about[q], opened'[q] = opened[q], CanMiss(q, d)
      PROVE  CanMiss(q, d)'
  <2>1. opened'[q] < done'[d]
    BY <1>2 DEF CanMiss, Past
  <2>2. CASE kind[q] = "confirm"
    BY <1>2, <2>1, <2>2 DEF CanMiss
  <2>3. CASE kind[q] # "confirm"
    <3> PICK w : w = about[q]
      OBVIOUS
    <3>1. PICK e \in Request \ {q} : /\ kind[e] = "decline" /\ Decided(e, w)
                                     /\ done[e] < done[d]
      BY <1>2, <2>3 DEF CanMiss
    <3>2. /\ kind'[e] = "decline" /\ Decided(e, w)' /\ done'[e] < done'[d]
      BY <1>1, <1>2, <3>1 DEF Past
    <3>3. kind'[q] = "decline" /\ about'[q] = w
      BY <1>2, <2>3 DEF CanMiss
    <3>4. Decided(e, about[q])'
      BY <3>2, <3>3 DEF Decided, Decides
    <3> QED
      BY <2>1, <3>2, <3>3, <3>4 DEF CanMiss
  <2> QED
    BY <2>2, <2>3
<1>3. ASSUME done[d] > 0, NEW q \in Request, Decided(q, v), done[d] < done[q],
             CanMiss(q, d)
      PROVE  Decided(q, v)' /\ done'[d] < done'[q] /\ CanMiss(q, d)'
  BY <1>1, <1>2, <1>3 DEF Past
<1>4. ASSUME done[d] > 0, Overlapped(d, v) PROVE Overlapped(d, v)'
  BY <1>3, <1>4 DEF Overlapped
<1>5. ASSUME done[d] > 0, Hidden(d, v) PROVE Hidden(d, v)'
  BY <1>1, <1>3, <1>5 DEF Hidden
<1> QED
  BY <1>1, <1>2, <1>4, <1>5

\* A history that will be written again is taken from the row of the run.
LEMMA CopyTaken ==
  ASSUME IInv, NEW r \in Request, NEW k \in Kind, NEW u \in Request,
         \/ OpenBegin(r, k) \/ OpenFollowUp(r, k, u) \/ OpenDecide(r, k, u)
         \/ Refuse(r, k, u) \/ Repeat(r, u) \/ RunWorkflow(r) \/ StreamNode(r)
         \/ PickIndex(r) \/ InsertTurn(r) \/ Describe(r) \/ ReadStatus(r)
         \/ ReadHistory(r) \/ WriteDecision(r) \/ Closes(r),
         Copying(r)'
  PROVE  about'[r] \in Request /\ loaded'[r] = rows[about'[r]].steps
<1> USE DEF IInv, TypeOK
<1>1. OpenDecide(r, k, u) \/ ReadHistory(r)
  BY UncommittedStep DEF Copying
<1>2. CASE OpenDecide(r, k, u)
  BY <1>2 DEF OpenDecide, Decide
<1>3. CASE ReadHistory(r)
  BY <1>3 DEF ReadHistory, RowsInv, Deciding
<1> QED
  BY <1>1, <1>2, <1>3

\* A decision is written to the run that it was opened on.
LEMMA Deciders ==
  ASSUME IInv, NEW r \in Request, NEW k \in Kind, NEW u \in Request,
         \/ OpenBegin(r, k) \/ OpenFollowUp(r, k, u) \/ OpenDecide(r, k, u)
         \/ Refuse(r, k, u) \/ Repeat(r, u) \/ RunWorkflow(r) \/ StreamNode(r)
         \/ PickIndex(r) \/ InsertTurn(r) \/ Describe(r) \/ ReadStatus(r)
         \/ ReadHistory(r) \/ WriteDecision(r) \/ Closes(r),
         stage'[r] = "committing", Decides(r)'
  PROVE  /\ WriteDecision(r) /\ Decides(r) /\ about[r] \in Request
         /\ about'[r] = about[r] /\ kind'[r] = kind[r] /\ opened'[r] = opened[r]
         /\ rows[about[r]].steps \in Seq(Request) /\ loaded[r] \in Seq(Request)
<1> USE DEF IInv
<1>1. WriteDecision(r)
  BY UncommittedStep DEF Describe, session, RowsInv, Plans, Writing, Decides
<1>2. /\ Decides(r) /\ about[r] \in Request
      /\ about'[r] = about[r] /\ kind'[r] = kind[r] /\ opened'[r] = opened[r]
  BY <1>1 DEF WriteDecision, RowsInv, Deciding, history
<1> QED
  BY <1>1, <1>2 DEF TypeOK, Row

LEMMA StepsUncommitted ==
  ASSUME IInv, OverInv, StepsInv,
         NEW r \in Request, NEW k \in Kind, NEW u \in Request,
         \/ OpenBegin(r, k) \/ OpenFollowUp(r, k, u) \/ OpenDecide(r, k, u)
         \/ Refuse(r, k, u) \/ Repeat(r, u) \/ RunWorkflow(r) \/ StreamNode(r)
         \/ PickIndex(r) \/ InsertTurn(r) \/ Describe(r) \/ ReadStatus(r)
         \/ ReadHistory(r) \/ WriteDecision(r) \/ Closes(r)
  PROVE  StepsInv'
<1> USE DEF IInv
<1>1. /\ UNCHANGED <<rows, turns, done, clock>>
      /\ \A q \in Request \ {r} :
           /\ kind'[q] = kind[q] /\ about'[q] = about[q] /\ opened'[q] = opened[q]
           /\ stage'[q] = stage[q] /\ row'[q] = row[q] /\ loaded'[q] = loaded[q]
  BY UncommittedStep
<1>2. Past
  BY PastUncommitted
<1>3. \A d, v : d \in Request /\ Decided(d, v)' =>
        /\ Decided(d, v) /\ done[d] > 0
        /\ Overlapped(d, v) => Overlapped(d, v)'
  BY <1>1, <1>2, PastKept DEF Past, Decided, Decides
<1>4. \A d \in Request, v \in Request : Decided(d, v)' =>
        Contains(rows'[v].steps, d) \/ Overlapped(d, v)'
  BY <1>1, <1>3 DEF StepsInv
<1>5. ASSUME NEW q \in Request, q # r, NEW d \in Request, done[d] > 0, CanMiss(q, d)
      PROVE  CanMiss(q, d)'
  BY <1>1, <1>2, <1>5, PastKept
<1>6. ASSUME NEW q \in Request, NEW d \in Request, NEW v, v = about'[q],
             Copying(q)', Decided(d, v)'
      PROVE  Contains(loaded'[q], d) \/ Overlapped(d, v)' \/ CanMiss(q, d)'
  <2>1. CASE q # r
    <3>1. Copying(q) /\ v = about[q] /\ Decided(d, v) /\ done[d] > 0
      BY <1>1, <1>3, <1>6, <2>1 DEF Copying
    <3>2. Contains(loaded[q], d) \/ Overlapped(d, v) \/ CanMiss(q, d)
      BY <3>1 DEF StepsInv
    <3> QED
      BY <1>1, <1>3, <1>5, <1>6, <2>1, <3>1, <3>2
  <2>2. CASE q = r
    <3>1. Copying(r)'
      BY <1>6, <2>2 DEF Copying
    <3>2. v \in Request /\ loaded'[r] = rows[v].steps
      BY <1>6, <2>2, <3>1, CopyTaken
    <3> QED
      BY <1>1, <1>4, <1>6, <2>2, <3>2
  <2> QED
    BY <2>1, <2>2
<1>7. ASSUME NEW q \in Request, NEW d \in Request, NEW v, v = about'[q],
             stage'[q] = "committing", Decides(q)', Decided(d, v)'
      PROVE  Contains(row'[q].steps, d) \/ Overlapped(d, v)' \/ CanMiss(q, d)'
  <2>1. CASE q # r
    <3>1. /\ stage[q] = "committing" /\ Decides(q) /\ v = about[q]
          /\ Decided(d, v) /\ done[d] > 0
      BY <1>1, <1>3, <1>7, <2>1 DEF Decides
    <3>2. Contains(row[q].steps, d) \/ Overlapped(d, v) \/ CanMiss(q, d)
      BY <3>1 DEF StepsInv
    <3> QED
      BY <1>1, <1>3, <1>5, <1>7, <2>1, <3>1, <3>2
  <2>2. CASE q = r
    <3>1. stage'[r] = "committing" /\ Decides(r)'
      BY <1>7, <2>2 DEF Decides
    <3>2. /\ WriteDecision(r) /\ v = about[r] /\ v \in Request
          /\ about'[r] = about[r] /\ kind'[r] = kind[r] /\ opened'[r] = opened[r]
          /\ rows[v].steps \in Seq(Request) /\ loaded[r] \in Seq(Request)
      BY <1>7, <2>2, <3>1, Deciders
    <3>3. Decided(d, v) /\ done[d] > 0
      BY <1>3, <1>7
    <3>4. CASE Copying(r) /\ row'[r].steps = Append(loaded[r], r)
      <4>1. Contains(loaded[r], d) \/ Overlapped(d, v) \/ CanMiss(r, d)
        BY <3>2, <3>3, <3>4 DEF StepsInv
      <4>2. Contains(loaded[r], d) => Contains(row'[r].steps, d)
        BY <3>2, <3>4, ListContains
      <4>3. CanMiss(r, d) => CanMiss(r, d)'
        BY <1>2, <3>2, <3>3, PastKept
      <4> QED
        BY <1>3, <1>7, <2>2, <4>1, <4>2, <4>3
    <3>5. CASE row'[r].steps = Append(rows[about[r]].steps, r)
      <4>1. Contains(rows[v].steps, d) \/ Overlapped(d, v)
        BY <3>2, <3>3 DEF StepsInv
      <4>2. Contains(rows[v].steps, d) => Contains(row'[r].steps, d)
        BY <3>2, <3>5, ListContains
      <4> QED
        BY <1>3, <1>7, <2>2, <4>1, <4>2
    <3> QED
      BY <3>2, <3>4, <3>5, DecisionIs DEF Copying
  <2> QED
    BY <2>1, <2>2
<1>8. ASSUME NEW q \in Request, stage'[q] = "committing", Decides(q)'
      PROVE  Contains(row'[q].steps, q)
  <2>1. CASE q # r
    BY <1>1, <1>8, <2>1 DEF StepsInv, Decides
  <2>2. CASE q = r
    <3>1. stage'[r] = "committing" /\ Decides(r)'
      BY <1>8, <2>2 DEF Decides
    <3>2. /\ WriteDecision(r) /\ loaded[r] \in Seq(Request)
          /\ rows[about[r]].steps \in Seq(Request)
      BY <3>1, Deciders
    <3>3. PICK list \in Seq(Request) : row'[r].steps = Append(list, r)
      BY <3>2, DecisionIs
    <3> QED
      BY <2>2, <3>3, ListContains
  <2> QED
    BY <2>1, <2>2
<1>9. \A p, q \in Request :
        stage'[p] = "committing" /\ Decides(p)' /\ stage'[q] = "committing"
        /\ Decides(q)' /\ about'[p] = about'[q] => p = q
  <2> SUFFICES ASSUME NEW p \in Request, NEW q \in Request,
                      stage'[p] = "committing", Decides(p)',
                      stage'[q] = "committing", Decides(q)',
                      about'[p] = about'[q]
               PROVE  p = q
    BY DEF Decides
  <2>1. p # r /\ q # r => p = q
    BY <1>1 DEF StepsInv, Decides
  <2>2. CASE stage'[r] = "committing" /\ Decides(r)'
    <3>1. WriteDecision(r) /\ about'[r] = about[r]
      BY <2>2, Deciders
    <3>2. \A c \in Request \ {r} :
            ~ (stage[c] = "committing" /\ Decides(c) /\ about[c] = about[r])
      BY <3>1 DEF WriteDecision, RowIsFree
    <3> QED
      BY <1>1, <2>1, <3>1, <3>2 DEF Decides
  <2>3. CASE ~ (stage'[r] = "committing" /\ Decides(r)')
    BY <2>1, <2>3 DEF Decides
  <2> QED
    BY <2>2, <2>3
<1>10. \A d \in Request : Decides(d)' /\ done'[d] > 0 =>
         about'[d] \in Request /\ Exists(about[d])'
  BY <1>1, <1>2 DEF StepsInv, Decides, Exists, Past
<1>11. \A q, d \in Request : Copying(q)' /\ Decided(d, about[q])' =>
         Contains(loaded'[q], d) \/ Overlapped(d, about[q])' \/ CanMiss(q, d)'
  BY <1>6 DEF Decided, Overlapped, Decides
<1>12. \A q, d \in Request :
         stage'[q] = "committing" /\ Decides(q)' /\ Decided(d, about[q])' =>
           Contains(row'[q].steps, d) \/ Overlapped(d, about[q])' \/ CanMiss(q, d)'
  BY <1>7 DEF Decided, Overlapped, Decides
<1>13. \A q \in Request : stage'[q] = "committing" /\ Decides(q)' =>
         Contains(row'[q].steps, q)
  BY <1>8
<1> QED
  BY <1>4, <1>10, <1>11, <1>12, <1>13, <1>9, Zenon DEF StepsInv

\* Whoever still holds a history that was read before a decision is stored
\* may miss that decision.
LEMMA CopyMisses ==
  ASSUME IInv, OverInv, StatusInv, NEW r \in Request, Commit(r),
         NEW q \in Request, Copying(q)
  PROVE  CanMiss(q, r)'
<1>1. /\ UNCHANGED <<kind, about>> /\ Past
      /\ \A p \in Request : /\ opened'[p] = opened[p] /\ opened[p] < done'[r]
                            /\ p # r => done'[p] = done[p] /\ done[p] < done'[r]
      /\ done[r] = 0
  BY CommitTimes
<1>2. CASE kind[q] = "confirm"
  BY <1>1, <1>2 DEF CanMiss
<1>3. CASE stage[q] = "rewriting"
  <2> PICK v : v = about[q]
    OBVIOUS
  <2>1. kind[q] = "decline"
    BY <1>3 DEF StatusInv, Redeclining
  <2>2. PICK e \in Request \ {q} : kind[e] = "decline" /\ Decided(e, v)
    BY <1>3 DEF StatusInv, Redeclining, DeclinedBefore
  <2>3. Decided(e, v)' /\ done'[e] < done'[r]
    BY <1>1, <2>2, PastKept DEF Decided
  <2>4. Decided(e, about[q])'
    BY <1>1, <2>3 DEF Decided, Decides
  <2> QED
    BY <1>1, <2>1, <2>2, <2>3, <2>4 DEF CanMiss
<1> QED
  BY <1>2, <1>3 DEF Copying

LEMMA StepsCommit ==
  ASSUME IInv, OverInv, StatusInv, StepsInv, NEW r \in Request, Commit(r)
  PROVE  StepsInv'
<1> USE DEF IInv, TypeOK
<1>1. /\ UNCHANGED <<kind, about, row, opened, loaded>>
      /\ stage[r] = "committing" /\ stage' = [stage EXCEPT ![r] = "answering"]
      /\ Past /\ done[r] = 0 /\ done'[r] > 0
      /\ \A q \in Request : q # r => done'[q] = done[q] /\ done[q] < done'[r]
  BY CommitTimes
<1>2. ASSUME NEW d \in Request, NEW v, Decided(d, v)', d # r
      PROVE  Decided(d, v) /\ done[d] > 0
  BY <1>1, <1>2 DEF Decided, Decides
<1>3. \A v \in Request : Decided(r, v)' => Decides(r) /\ about[r] = v
  BY <1>1 DEF Decided, Decides
<1>4. ASSUME NEW d \in Request, NEW v, done[d] > 0
      PROVE  /\ Overlapped(d, v) => Overlapped(d, v)'
             /\ \A q \in Request : CanMiss(q, d) => CanMiss(q, d)'
  BY <1>1, <1>4, PastKept
<1>7. ASSUME NEW d \in Request, NEW v \in Request, Decided(d, v)'
      PROVE  Contains(rows'[v].steps, d) \/ Overlapped(d, v)'
  <2>1. CASE v # RunOf(r)
    <3>1. rows'[v] = rows[v]
      BY <2>1, CommitRows
    <3>2. d # r
      BY <1>3, <1>7, <2>1 DEF RunOf
    <3>3. Decided(d, v) /\ done[d] > 0
      BY <1>2, <1>7, <3>2
    <3> QED
      BY <1>4, <3>1, <3>3 DEF StepsInv
  <2>2. CASE v = RunOf(r) /\ Decides(r)
    <3>1. rows'[v] = row[r] /\ v = about[r]
      BY <2>2, CommitRows
    <3>2. CASE d = r
      BY <1>1, <2>2, <3>1, <3>2 DEF StepsInv
    <3>3. CASE d # r
      <4>1. Decided(d, v) /\ done[d] > 0
        BY <1>2, <1>7, <3>3
      <4>2. Contains(row[r].steps, d) \/ Overlapped(d, v) \/ CanMiss(r, d)
        BY <1>1, <2>2, <3>1, <4>1 DEF StepsInv
      <4>3. ASSUME CanMiss(r, d) PROVE Overlapped(d, v)'
        <5>1. Decided(r, v)'
          BY <1>1, <2>2, <3>1 DEF Decided, Decides
        <5>2. done'[d] < done'[r] /\ CanMiss(r, d)'
          BY <1>1, <1>4, <3>3, <4>1, <4>3
        <5> QED
          BY <5>1, <5>2 DEF Overlapped
      <4> QED
        BY <1>4, <3>1, <4>1, <4>2, <4>3
    <3> QED
      BY <3>2, <3>3
  <2>3. CASE v = RunOf(r) /\ ~ Decides(r)
    <3>1. v = r /\ ~ Exists(r)
      BY <2>3, CommitRows
    <3>2. d # r
      BY <1>3, <1>7, <2>3, <3>1
    <3>3. Decided(d, r)
      BY <1>2, <1>7, <3>1, <3>2
    <3> QED
      BY <3>1, <3>3 DEF StepsInv, Decided
  <2> QED
    BY <2>1, <2>2, <2>3
<1>8. ASSUME NEW q \in Request, NEW d \in Request, NEW v, v = about'[q],
             Copying(q)', Decided(d, v)'
      PROVE  Contains(loaded'[q], d) \/ Overlapped(d, v)' \/ CanMiss(q, d)'
  <2>1. Copying(q) /\ v = about[q]
    BY <1>1, <1>8 DEF Copying
  <2>2. CASE d = r
    BY <2>1, <2>2, CopyMisses
  <2>3. CASE d # r
    <3>1. Decided(d, v) /\ done[d] > 0
      BY <1>2, <1>8, <2>3
    <3>2. Contains(loaded[q], d) \/ Overlapped(d, v) \/ CanMiss(q, d)
      BY <2>1, <3>1 DEF StepsInv
    <3> QED
      BY <1>1, <1>4, <3>1, <3>2
  <2> QED
    BY <2>2, <2>3
<1>9. ASSUME NEW q \in Request, NEW d \in Request, NEW v, v = about'[q],
             stage'[q] = "committing", Decides(q)', Decided(d, v)'
      PROVE  Contains(row'[q].steps, d) \/ Overlapped(d, v)' \/ CanMiss(q, d)'
  <2>1. /\ stage[q] = "committing" /\ q # r /\ Decides(q)
        /\ v = about[q] /\ v \in Request
    BY <1>1, <1>9 DEF RowsInv, Decides
  <2>2. d # r
    BY <1>1, <1>3, <1>9, <2>1 DEF StepsInv
  <2>3. Decided(d, v) /\ done[d] > 0
    BY <1>2, <1>9, <2>2
  <2>4. Contains(row[q].steps, d) \/ Overlapped(d, v) \/ CanMiss(q, d)
    BY <2>1, <2>3 DEF StepsInv
  <2> QED
    BY <1>1, <1>4, <2>3, <2>4
<1>10. \A q \in Request : stage'[q] = "committing" /\ Decides(q)' =>
         Contains(row'[q].steps, q)
  BY <1>1 DEF StepsInv, Decides
<1>11. \A p, q \in Request :
         stage'[p] = "committing" /\ Decides(p)' /\ stage'[q] = "committing"
         /\ Decides(q)' /\ about'[p] = about'[q] => p = q
  BY <1>1 DEF StepsInv, Decides
<1>12. \A d \in Request : Decides(d)' /\ done'[d] > 0 =>
         about'[d] \in Request /\ Exists(about[d])'
  <2> TAKE d \in Request
  <2>1. Decides(d) /\ (done[d] > 0 \/ d = r) => about[d] \in Request /\ Exists(about[d])
    BY <1>1 DEF StepsInv, RowsInv
  <2>2. \A v \in Request : Exists(v) => Exists(v)'
    BY CommitRows
  <2>3. (Decides(d)' <=> Decides(d)) /\ about'[d] = about[d]
    BY <1>1 DEF Decides
  <2> QED
    BY <1>1, <2>1, <2>2, <2>3 DEF Exists
<1>13. \A q, d \in Request : Copying(q)' /\ Decided(d, about[q])' =>
         Contains(loaded'[q], d) \/ Overlapped(d, about[q])' \/ CanMiss(q, d)'
  BY <1>8 DEF Decided, Overlapped, Decides
<1>14. \A q, d \in Request :
         stage'[q] = "committing" /\ Decides(q)' /\ Decided(d, about[q])' =>
           Contains(row'[q].steps, d) \/ Overlapped(d, about[q])' \/ CanMiss(q, d)'
  BY <1>9 DEF Decided, Overlapped, Decides
<1> QED
  BY <1>7, <1>10, <1>11, <1>12, <1>13, <1>14, Zenon DEF StepsInv

----------------------------------------------------------------------------
(* The theorems *)

LEMMA Initially == Init => IInv
<1> SUFFICES ASSUME Init PROVE IInv
  OBVIOUS
<1>1. TypeOK /\ StreamOK
  BY TypeInitially
<1>2. \A c \in Request : IsFiniteSet(turns[c]) /\ turns[c] = {}
                         /\ Cardinality(turns[c]) = 0
  BY FS_EmptySet DEF Init
<1>3. TurnsContiguous
  BY <1>2 DEF TurnsContiguous
<1>4. TurnsInv
  BY <1>2, <1>3 DEF Init, TurnsInv
<1>5. RowsInv
  BY DEF Init, RowsInv, Deciding, Exists, NoRow, Plans, Writing
<1> QED
  BY <1>1, <1>4, <1>5 DEF IInv

LEMMA Invariance == Spec => []IInv
<1>1. IInv /\ [Next]_vars => IInv'
  BY TypeStep, StreamStep, TurnsStep, RowsStep DEF IInv
<1> QED
  BY Initially, <1>1, PTL DEF Spec

HistoryInv == OverInv /\ StatusInv /\ SaidInv /\ HeardInv /\ StepsInv

LEMMA HistoryInitially == Init => HistoryInv
<1> SUFFICES ASSUME Init PROVE HistoryInv
  OBVIOUS
<1>1. SaidInv
  BY DEF Init, SaidInv, Exists, NoRow
<1>2. HeardInv
  BY DEF Init, HeardInv, Exists, NoRow, Plans, Writing
<1>3. StepsInv
  BY DEF Init, StepsInv, Copying, Decided
<1>4. OverInv /\ StatusInv
  BY DEF Init, OverInv, StatusInv, NoRow, Plans, Writing, Redeclining
<1> QED
  BY <1>1, <1>2, <1>3, <1>4 DEF HistoryInv

LEMMA HistoryStep ==
  ASSUME IInv, HistoryInv, [Next]_vars
  PROVE  HistoryInv'
<1> USE DEF HistoryInv
<1>1. CASE UNCHANGED vars
  <2> USE <1>1 DEF vars, stored, session, history, Exists, Decides
  <2>1. SaidInv'
    BY DEF SaidInv, SaidBy, Presents, Unsaid, Speakers
  <2>2. HeardInv'
    BY DEF HeardInv, Heard, Plans, Writing
  <2>3. StepsInv'
    BY DEF StepsInv, Copying, Decided, Overlapped, CanMiss
  <2>4. OverInv' /\ StatusInv'
    BY DEF OverInv, StatusInv, Plans, Writing, Redeclining, DeclinedBefore, Decided
  <2> QED
    BY <2>1, <2>2, <2>3, <2>4
<1>2. ASSUME NEW r \in Request,
             \/ \E k \in Kind : Open(r, k) \/ \E u \in Request : Refuse(r, k, u)
             \/ \E u \in Request : Repeat(r, u)
             \/ Progress(r) \/ Raise(r)
      PROVE  HistoryInv'
  <2>1. Kind # {}
    BY DEF Kind
  <2> QED
    BY <1>2, <2>1, StepForms, PastUncommitted, CommitTimes, StatusUncommitted,
       StatusCommit, SaidUncommitted, SaidCommit, HeardUncommitted, HeardCommit,
       StepsUncommitted, StepsCommit
<1> QED
  BY <1>1, <1>2 DEF Next

LEMMA HistoryInvariance == Spec => [](IInv /\ HistoryInv)
<1>1. IInv /\ HistoryInv /\ [Next]_vars => HistoryInv'
  BY HistoryStep
<1> QED
  BY Invariance, HistoryInitially, <1>1, PTL DEF Spec

\* Whatever the requests, every row, stored or about to be, every turn and
\* every index picked for a turn is of the kind the schema has.
THEOREM TypesAreKept == Spec => []TypeOK
<1>1. IInv => TypeOK
  BY DEF IInv
<1> QED
  BY Invariance, <1>1, PTL

\* The turns of every conversation are numbered without a gap or a
\* repetition and those of one run stand together, for any number of
\* requests that append at the same time, fail or are lost: the unique key
\* on the index is enough, although the index is picked without a lock.
THEOREM TurnsAreContiguous == Spec => []TurnsContiguous
<1>1. IInv => TurnsContiguous
  BY DEF IInv, TurnsInv
<1> QED
  BY Invariance, <1>1, PTL

\* Versions form a chain: a stored run follows a run of its conversation
\* that was stored when its request was opened, with the version the kind
\* of the request gives it, whatever else is decided or planned meanwhile.
THEOREM VersionsAreChained == Spec => []LineageSound
<1>1. IInv => LineageSound
  <2> SUFFICES ASSUME IInv, NEW u \in Request, Exists(u)
               PROVE  LET s == rows[u].source IN
                      IF s = None
                      THEN rows[u].version = 1 /\ rows[u].session = u
                      ELSE /\ Exists(s)
                           /\ rows[s].session = rows[u].session
                           /\ done[s] <= opened[u] /\ opened[u] < done[u]
                           /\ rows[u].version = rows[s].version
                                 + (IF kind[u] = "replan" THEN 1 ELSE 0)
    BY DEF LineageSound
  <2>1. Linked(rows[u], u) /\ opened[u] < done[u]
    BY DEF IInv, RowsInv
  <2> QED
    BY <2>1 DEF Linked
<1> QED
  BY Invariance, <1>1, PTL

\* A run is stored with what was said about it: its user's turn, the plans
\* or the question it has come to, and nothing of a run that was rolled back
\* (service.py:415-422), whatever else fails around it.
THEOREM RunsAndTurnsTogether == Spec => []RunsAreSaid
<1>1. IInv /\ HistoryInv => RunsAreSaid
  <2> SUFFICES ASSUME IInv, HistoryInv, NEW u \in Request
               PROVE  LET said(speaker) ==
                            {c \in Request : \E t \in turns[c] :
                               t.run = u /\ t.speaker = speaker}
                      IN /\ said("user") = IF Exists(u) THEN {rows[u].session} ELSE {}
                         /\ rows[u].status = "awaiting_confirmation" \/
                            (rows[u].status = "awaiting_clarification"
                               /\ kind[u] # "replan")
                              => said("assistant") = {rows[u].session}
    BY DEF RunsAreSaid
  <2> DEFINE said(speaker) == {c \in Request : \E t \in turns[c] :
                                 t.run = u /\ t.speaker = speaker}
  <2>1. \A c \in Request : \A t \in turns[c] : t.run = u =>
          Exists(u) /\ rows[u].session = c
    BY DEF HistoryInv, SaidInv
  <2>2. CASE Exists(u)
    <3>1. rows[u].session \in Request
      BY <2>2 DEF IInv, RowsInv, Linked
    <3>2. \A speaker : SaidBy(u, speaker) => said(speaker) = {rows[u].session}
      BY <2>1, <3>1 DEF SaidBy
    <3>3. SaidBy(u, "user") /\ (Presents(rows[u], u) => SaidBy(u, "assistant"))
      BY <2>2 DEF HistoryInv, SaidInv
    <3> QED
      BY <2>2, <3>2, <3>3 DEF Presents
  <2>3. CASE ~ Exists(u)
    <3>1. rows[u].status = "failed"
      BY <2>3 DEF HistoryInv, SaidInv
    <3> QED
      BY <2>1, <2>3, <3>1
  <2> QED
    BY <2>2, <2>3
<1> QED
  BY HistoryInvariance, <1>1, PTL

\* A follow-up plans with every turn before its own that was stored when it
\* was opened: what it has missed was said by a request it overlapped.
THEOREM NothingStoredIsMissed == Spec => []IntentComplete
<1>1. IInv /\ HistoryInv => IntentComplete
  <2> SUFFICES ASSUME IInv, HistoryInv, NEW u \in Request, Exists(u),
                      NEW q \in Request, NEW t \in turns[rows[u].session],
                      t.run = q, done[q] <= opened[u]
               PROVE  q \in rows[u].heard
    BY DEF IntentComplete
  <2>1. /\ Linked(rows[u], u) /\ opened[u] < done[u] /\ rows[u].session \in Request
        /\ opened[u] \in Nat /\ done[u] \in Nat /\ done[q] \in Nat
    BY DEF IInv, RowsInv, Linked, TypeOK
  <2>2. Exists(q) /\ rows[q].session = rows[u].session
    BY <2>1 DEF HistoryInv, SaidInv
  <2>3. CASE rows[u].source = None
    <3>1. rows[q].session = u
      BY <2>1, <2>2, <2>3 DEF Linked
    <3>2. done[u] <= done[q]
      BY <2>2, <3>1 DEF HistoryInv, HeardInv
    <3> QED
      BY <2>1, <3>2
  <2>4. CASE rows[u].source # None
    BY <2>2, <2>4 DEF HistoryInv, HeardInv, Heard
  <2> QED
    BY <2>3, <2>4
<1> QED
  BY HistoryInvariance, <1>1, PTL

\* A stored decision stays in the history of its run, unless a confirm, or a
\* decline of a run that had been declined before, overlapped it and has
\* written the history it had read without a lock (service.py:598, 992): no
\* other request, and no other order of two decisions, takes a step away.
THEOREM DecisionsAreKept == Spec => []StepsKept
<1>1. IInv /\ HistoryInv => StepsKept
  <2> SUFFICES ASSUME IInv, HistoryInv, NEW d \in Request, Decided(d, about[d]),
                      ~ Contains(rows[about[d]].steps, d)
               PROVE  \E q \in Request : Overwrites(q, d)
    BY DEF StepsKept
  <2>1. about[d] \in Request
    BY DEF HistoryInv, StepsInv, Decided
  <2>2. Overlapped(d, about[d])
    BY <2>1 DEF HistoryInv, StepsInv
  <2> QED
    BY <2>2 DEF Overlapped, Overwrites
<1> QED
  BY HistoryInvariance, <1>1, PTL

----------------------------------------------------------------------------
(* What one node adds to the stages *)

\* The stages of a run that is neither decided nor executed, in the order of
\* the graph.
Full == <<"understanding_request", "planning_queries",
          "searching_activities", "searching_dining", "checking_availability",
          "building_itinerary", "checking_route_time", "reviewing_plan",
          "ready_for_confirmation">>

Public == {"understanding_request", "planning_queries",
           "searching_activities", "searching_dining", "checking_availability",
           "building_itinerary", "checking_route_time", "reviewing_plan",
           "ready_for_confirmation"}

LEMMA AppendUniqueIn ==
  ASSUME NEW list \in Seq(Public), NEW x \in Public
  PROVE  AppendUnique(list, x) \in Seq(Public)
BY DEF AppendUnique

\* ExtendUnique adds one item after the other.
LEMMA ExtendFold ==
  ASSUME NEW list \in Seq(Public), NEW items \in Seq(Public)
  PROVE  \E g \in [0 .. Len(items) -> Seq(Public)] :
           /\ g[0] = list
           /\ \A m \in 0 .. Len(items) - 1 : g[m + 1] = AppendUnique(g[m], items[m + 1])
           /\ ExtendUnique(list, items) = g[Len(items)]
<1> DEFINE n == Len(items)
           B == Seq(Public)
           Is(iter) == iter = [s \in SUBSET (1 .. n) |->
                          IF s = {} THEN list
                          ELSE AppendUnique(iter[s \ {Max(s)}], items[Max(s)])]
           fold == CHOOSE iter : Is(iter)
           next == [p \in (1 .. n) \X B |-> AppendUnique(p[2], items[p[1]])]
           g == [m \in 0 .. n |-> fold[1 .. m]]
<1>0. n \in Nat /\ DOMAIN items = 1 .. n /\ list \in B
  OBVIOUS
<1>1. ExtendUnique(list, items) = fold[1 .. n]
  BY <1>0 DEF ExtendUnique, FoldLeft, MapThenFoldSet
<1>2. ASSUME NEW x \in B, NEW i \in 1 .. n PROVE AppendUnique(x, items[i]) \in B
  BY AppendUniqueIn
<1>3. next \in [(1 .. n) \X B -> B]
  <2> HIDE DEF B, n
  <2> QED
    BY <1>2
<1>4. PICK iter \in [SUBSET (1 .. n) -> B] : Folds(n, list, next, iter)
  <2> HIDE DEF n, next, B
  <2> QED
    BY <1>0, <1>3, FoldingExists
<1>5. Is(iter)
  <2>1. ASSUME NEW s \in SUBSET (1 .. n), s # {}
        PROVE  next[<<Max(s), iter[s \ {Max(s)}]>>]
                 = AppendUnique(iter[s \ {Max(s)}], items[Max(s)])
    <3>1. Max(s) \in 1 .. n /\ s \ {Max(s)} \in SUBSET (1 .. n)
      BY <1>0, <2>1, MaxOf
    <3>2. iter[s \ {Max(s)}] \in B
      BY <3>1
    <3> HIDE DEF B
    <3> QED
      BY <3>1, <3>2
  <2> HIDE DEF next, B, n
  <2> QED
    BY <1>4, <2>1 DEF Folds
<1>6. Is(fold)
  <2> HIDE DEF Is
  <2> QED
    BY <1>5
<1>7. /\ fold[1 .. 0] = list
      /\ \A m \in 0 .. n - 1 : fold[1 .. m + 1] = AppendUnique(fold[1 .. m], items[m + 1])
  <2> HIDE DEF fold
  <2>1. 1 .. 0 = {} /\ {} \in SUBSET (1 .. n)
    OBVIOUS
  <2>2. fold[1 .. 0] = list
    BY <1>6, <2>1
  <2>3. ASSUME NEW m \in 0 .. n - 1
        PROVE  fold[1 .. m + 1] = AppendUnique(fold[1 .. m], items[m + 1])
    <3>1. /\ 1 .. m + 1 \in SUBSET (1 .. n) /\ 1 .. m + 1 # {}
          /\ Max(1 .. m + 1) = m + 1
          /\ (1 .. m + 1) \ {m + 1} = 1 .. m
      BY <1>0, LastOfInterval
    <3> QED
      BY <1>6, <3>1
  <2> QED
    BY <2>2, <2>3
<1>8. /\ g[0] = list /\ ExtendUnique(list, items) = g[n]
      /\ \A m \in 0 .. n - 1 : g[m + 1] = AppendUnique(g[m], items[m + 1])
      /\ g = [m \in 0 .. n |-> g[m]]
  <2> HIDE DEF fold
  <2> QED
    BY <1>0, <1>1, <1>7
<1>9. \A m \in 0 .. n : g[m] \in B
  <2> HIDE DEF g, n, B
  <2>1. ASSUME NEW m \in 0 .. n - 1, g[m] \in B PROVE g[m + 1] \in B
    BY <1>0, <1>2, <1>8, <2>1, m + 1 \in 1 .. n
  <2> QED
    BY <1>0, <1>8, <2>1, StepsStay
<1> HIDE DEF g
<1> QED
  BY <1>8, <1>9

LEMMA SearchesAdded ==
  ASSUME NEW list \in Seq(Public)
  PROVE  /\ ExtendUnique(list, <<>>) = list
         /\ ExtendUnique(list, SearchStage)
              = AppendUnique(AppendUnique(list, "searching_activities"),
                             "searching_dining")
         /\ ExtendUnique(list, SearchStage) \in Seq(Public)
<1>1. ExtendUnique(list, <<>>) = list
  <2> DEFINE items == <<>>
  <2>1. items \in Seq(Public) /\ Len(items) = 0
    OBVIOUS
  <2> HIDE DEF items
  <2>2. ExtendUnique(list, items) = list
    BY <2>1, ExtendFold
  <2> QED
    BY <2>2 DEF items
<1>2. /\ SearchStage \in Seq(Public) /\ Len(SearchStage) = 2
      /\ SearchStage[1] = "searching_activities"
      /\ SearchStage[2] = "searching_dining"
  BY DEF SearchStage, Public
<1>3. PICK g \in [0 .. 2 -> Seq(Public)] :
        /\ g[0] = list
        /\ \A m \in 0 .. 2 - 1 : g[m + 1] = AppendUnique(g[m], SearchStage[m + 1])
        /\ ExtendUnique(list, SearchStage) = g[2]
  BY <1>2, ExtendFold
<1>4. g[1] = AppendUnique(g[0], SearchStage[1]) /\ g[2] = AppendUnique(g[1], SearchStage[2])
  BY <1>3, 0 \in 0 .. 2 - 1, 1 \in 0 .. 2 - 1, 0 + 1 = 1, 1 + 1 = 2
<1>5. g[2] \in Seq(Public)
  BY 2 \in 0 .. 2
<1> QED
  BY <1>1, <1>2, <1>3, <1>4, <1>5

\* What one more node adds to a history of stages.
AddStage(list, node, nodes) ==
  IF node \in DOMAIN StageOf THEN AppendUnique(list, StageOf[node])
                             ELSE ExtendUnique(list, SearchStages(nodes))

LEMMA AddStageIn ==
  ASSUME NEW list \in Seq(Public), NEW node, NEW nodes
  PROVE  AddStage(list, node, nodes) \in Seq(Public)
<1>1. node \in DOMAIN StageOf => StageOf[node] \in Public
  BY DEF StageOf, Public
<1>2. ExtendUnique(list, SearchStages(nodes)) \in Seq(Public)
  BY SearchesAdded DEF SearchStages
<1> QED
  BY <1>1, <1>2, AppendUniqueIn DEF AddStage

\* A history of stages is made node by node.
LEMMA StageFold ==
  ASSUME NEW W, NEW nodes \in Seq(W)
  PROVE  \E g \in [0 .. Len(nodes) -> Seq(Public)] :
           /\ g[0] = <<>>
           /\ \A m \in 0 .. Len(nodes) - 1 : g[m + 1] = AddStage(g[m], nodes[m + 1], nodes)
           /\ StageHistory(nodes) = g[Len(nodes)]
<1> DEFINE n == Len(nodes)
           B == Seq(Public)
           Is(iter) == iter = [s \in SUBSET (1 .. n) |->
                          IF s = {} THEN <<>>
                          ELSE AddStage(iter[s \ {Max(s)}], nodes[Max(s)], nodes)]
           fold == CHOOSE iter : Is(iter)
           next == [p \in (1 .. n) \X B |-> AddStage(p[2], nodes[p[1]], nodes)]
           g == [m \in 0 .. n |-> fold[1 .. m]]
<1>0. n \in Nat /\ DOMAIN nodes = 1 .. n /\ <<>> \in B
  OBVIOUS
<1>1. StageHistory(nodes) = fold[1 .. n]
  BY <1>0 DEF StageHistory, AddStage, FoldLeft, MapThenFoldSet
<1>2. ASSUME NEW x \in B, NEW i \in 1 .. n PROVE AddStage(x, nodes[i], nodes) \in B
  BY AddStageIn
<1>3. next \in [(1 .. n) \X B -> B]
  <2> HIDE DEF B, n
  <2> QED
    BY <1>2
<1>4. PICK iter \in [SUBSET (1 .. n) -> B] : Folds(n, <<>>, next, iter)
  <2> HIDE DEF n, next, B
  <2> QED
    BY <1>0, <1>3, FoldingExists
<1>5. Is(iter)
  <2>1. ASSUME NEW s \in SUBSET (1 .. n), s # {}
        PROVE  next[<<Max(s), iter[s \ {Max(s)}]>>]
                 = AddStage(iter[s \ {Max(s)}], nodes[Max(s)], nodes)
    <3>1. Max(s) \in 1 .. n /\ s \ {Max(s)} \in SUBSET (1 .. n)
      BY <1>0, <2>1, MaxOf
    <3>2. iter[s \ {Max(s)}] \in B
      BY <3>1
    <3> HIDE DEF B
    <3> QED
      BY <3>1, <3>2
  <2> HIDE DEF next, B, n
  <2> QED
    BY <1>4, <2>1 DEF Folds
<1>6. Is(fold)
  <2> HIDE DEF Is
  <2> QED
    BY <1>5
<1>7. /\ fold[1 .. 0] = <<>>
      /\ \A m \in 0 .. n - 1 : fold[1 .. m + 1] = AddStage(fold[1 .. m], nodes[m + 1], nodes)
  <2> HIDE DEF fold
  <2>1. 1 .. 0 = {} /\ {} \in SUBSET (1 .. n)
    OBVIOUS
  <2>2. fold[1 .. 0] = <<>>
    BY <1>6, <2>1
  <2>3. ASSUME NEW m \in 0 .. n - 1
        PROVE  fold[1 .. m + 1] = AddStage(fold[1 .. m], nodes[m + 1], nodes)
    <3>1. /\ 1 .. m + 1 \in SUBSET (1 .. n) /\ 1 .. m + 1 # {}
          /\ Max(1 .. m + 1) = m + 1
          /\ (1 .. m + 1) \ {m + 1} = 1 .. m
      BY <1>0, LastOfInterval
    <3> QED
      BY <1>6, <3>1
  <2> QED
    BY <2>2, <2>3
<1>8. /\ g[0] = <<>> /\ StageHistory(nodes) = g[n]
      /\ \A m \in 0 .. n - 1 : g[m + 1] = AddStage(g[m], nodes[m + 1], nodes)
      /\ g = [m \in 0 .. n |-> g[m]]
  <2> HIDE DEF fold
  <2> QED
    BY <1>0, <1>1, <1>7
<1>9. \A m \in 0 .. n : g[m] \in B
  <2> HIDE DEF g, n, B
  <2>1. ASSUME NEW m \in 0 .. n - 1, g[m] \in B PROVE g[m + 1] \in B
    BY <1>0, <1>2, <1>8, <2>1, m + 1 \in 1 .. n
  <2> QED
    BY <1>0, <1>8, <2>1, StepsStay
<1> HIDE DEF g
<1> QED
  BY <1>8, <1>9

\* All that is sent after what was sent.
SendAll(sent, new) == FoldLeft(Send, sent, new)

\* Snapshots are sent one after the other.
LEMMA SendFold ==
  ASSUME NEW S, NEW sent \in Seq(S), NEW new \in Seq(S)
  PROVE  \E g \in [0 .. Len(new) -> Seq(S)] :
           /\ g[0] = sent
           /\ \A m \in 0 .. Len(new) - 1 : g[m + 1] = Send(g[m], new[m + 1])
           /\ SendAll(sent, new) = g[Len(new)]
<1> DEFINE n == Len(new)
           B == Seq(S)
           Is(iter) == iter = [s \in SUBSET (1 .. n) |->
                          IF s = {} THEN sent
                          ELSE Send(iter[s \ {Max(s)}], new[Max(s)])]
           fold == CHOOSE iter : Is(iter)
           next == [p \in (1 .. n) \X B |-> Send(p[2], new[p[1]])]
           g == [m \in 0 .. n |-> fold[1 .. m]]
<1>0. n \in Nat /\ DOMAIN new = 1 .. n /\ sent \in B
  OBVIOUS
<1>1. SendAll(sent, new) = fold[1 .. n]
  BY <1>0 DEF SendAll, FoldLeft, MapThenFoldSet
<1>2. ASSUME NEW x \in B, NEW i \in 1 .. n PROVE Send(x, new[i]) \in B
  <2>1. new[i] \in S
    BY <1>0
  <2> QED
    BY <2>1 DEF Send
<1>3. next \in [(1 .. n) \X B -> B]
  <2> HIDE DEF B, n
  <2> QED
    BY <1>2
<1>4. PICK iter \in [SUBSET (1 .. n) -> B] : Folds(n, sent, next, iter)
  <2> HIDE DEF n, next, B
  <2> QED
    BY <1>0, <1>3, FoldingExists
<1>5. Is(iter)
  <2>1. ASSUME NEW s \in SUBSET (1 .. n), s # {}
        PROVE  next[<<Max(s), iter[s \ {Max(s)}]>>]
                 = Send(iter[s \ {Max(s)}], new[Max(s)])
    <3>1. Max(s) \in 1 .. n /\ s \ {Max(s)} \in SUBSET (1 .. n)
      BY <1>0, <2>1, MaxOf
    <3>2. iter[s \ {Max(s)}] \in B
      BY <3>1
    <3> HIDE DEF B
    <3> QED
      BY <3>1, <3>2
  <2> HIDE DEF next, B, n
  <2> QED
    BY <1>4, <2>1 DEF Folds
<1>6. Is(fold)
  <2> HIDE DEF Is
  <2> QED
    BY <1>5
<1>7. /\ fold[1 .. 0] = sent
      /\ \A m \in 0 .. n - 1 : fold[1 .. m + 1] = Send(fold[1 .. m], new[m + 1])
  <2> HIDE DEF fold
  <2>1. 1 .. 0 = {} /\ {} \in SUBSET (1 .. n)
    OBVIOUS
  <2>2. fold[1 .. 0] = sent
    BY <1>6, <2>1
  <2>3. ASSUME NEW m \in 0 .. n - 1
        PROVE  fold[1 .. m + 1] = Send(fold[1 .. m], new[m + 1])
    <3>1. /\ 1 .. m + 1 \in SUBSET (1 .. n) /\ 1 .. m + 1 # {}
          /\ Max(1 .. m + 1) = m + 1
          /\ (1 .. m + 1) \ {m + 1} = 1 .. m
      BY <1>0, LastOfInterval
    <3> QED
      BY <1>6, <3>1
  <2> QED
    BY <2>2, <2>3
<1>8. /\ g[0] = sent /\ SendAll(sent, new) = g[n]
      /\ \A m \in 0 .. n - 1 : g[m + 1] = Send(g[m], new[m + 1])
      /\ g = [m \in 0 .. n |-> g[m]]
  <2> HIDE DEF fold
  <2> QED
    BY <1>0, <1>1, <1>7
<1>9. \A m \in 0 .. n : g[m] \in B
  <2> HIDE DEF g, n, B
  <2>1. ASSUME NEW m \in 0 .. n - 1, g[m] \in B PROVE g[m + 1] \in B
    BY <1>0, <1>2, <1>8, <2>1, m + 1 \in 1 .. n
  <2> QED
    BY <1>0, <1>8, <2>1, StepsStay
<1> HIDE DEF g
<1> QED
  BY <1>8, <1>9

LEMMA SendsIn ==
  ASSUME NEW S, NEW sent \in Seq(S), NEW new \in Seq(S)
  PROVE  /\ SendAll(sent, new) \in Seq(S)
         /\ Len(new) = 1 => SendAll(sent, new) = Send(sent, new[1])
         /\ Len(new) = 2 =>
              SendAll(sent, new) = Send(Send(sent, new[1]), new[2])
<1>1. PICK g \in [0 .. Len(new) -> Seq(S)] :
        /\ g[0] = sent
        /\ \A m \in 0 .. Len(new) - 1 : g[m + 1] = Send(g[m], new[m + 1])
        /\ SendAll(sent, new) = g[Len(new)]
  BY SendFold, SMTT(60)
<1>2. CASE Len(new) = 1
  <2>1. g[1] = Send(g[0], new[1])
    BY <1>1, <1>2, 0 \in 0 .. 1 - 1, 0 + 1 = 1
  <2> QED
    BY <1>1, <1>2, <2>1
<1>3. CASE Len(new) = 2
  <2>1. g[1] = Send(g[0], new[1]) /\ g[2] = Send(g[1], new[2])
    BY <1>1, <1>3, 0 \in 0 .. 2 - 1, 0 + 1 = 1, 1 \in 0 .. 2 - 1, 1 + 1 = 2
  <2> QED
    BY <1>1, <1>3, <2>1
<1>4. g[Len(new)] \in Seq(S)
  OBVIOUS
<1> QED
  BY <1>1, <1>2, <1>3, <1>4

\* What is sent for one more node.
SentBy(sent, visits, i) == SendAll(sent, Reported(SubSeq(visits, 1, i)))

\* What is reported of a list of nodes is a list.
LEMMA ReportedIsList ==
  ASSUME NEW visits
  PROVE  Reported(visits) \in Seq({Reported(visits)[j] : j \in DOMAIN Reported(visits)})
<1> DEFINE snap == Snapshot("running", Nodes(visits), FALSE, PlansTold(visits))
           one == <<snap>>
           two == [i \in DOMAIN SearchStage |-> Truncated(snap, SearchStage[i])]
<1>1. Reported(visits) = IF Last(Nodes(visits)) = "execute_searches" THEN two ELSE one
  BY DEF Reported, Milestones
<1>2. two \in Seq({two[j] : j \in DOMAIN two})
  <2>1. DOMAIN SearchStage = 1 .. 2 /\ 2 \in Nat
    BY DEF SearchStage
  <2>2. two = [i \in 1 .. 2 |-> two[i]] /\ DOMAIN two = 1 .. 2
    BY <2>1
  <2> HIDE DEF two
  <2>3. two \in [1 .. 2 -> {two[j] : j \in DOMAIN two}]
    BY <2>2
  <2> QED
    BY <2>1, <2>3
<1>3. one \in Seq({one[j] : j \in DOMAIN one})
  <2> HIDE DEF snap
  <2>1. DOMAIN one = 1 .. 1 /\ one[1] = snap
    OBVIOUS
  <2>2. snap \in {one[j] : j \in DOMAIN one}
    BY <2>1
  <2> QED
    BY <2>2
<1> HIDE DEF one, two
<1> QED
  BY <1>1, <1>2, <1>3

\* The positions of a list.
Order(visits) == [i \in DOMAIN visits |-> i]

\* What a stream sends it sends node by node.
LEMMA SentRuns ==
  ASSUME NEW V, NEW visits \in Seq(V), NEW S,
         \A i \in 1 .. Len(visits) : Reported(SubSeq(visits, 1, i)) \in Seq(S)
  PROVE  \E g \in [0 .. Len(Order(visits)) -> Seq(S)] :
           /\ g[0] = <<>>
           /\ \A m \in 0 .. Len(Order(visits)) - 1 : g[m + 1] = SentBy(g[m], visits, Order(visits)[m + 1])
           /\ Sent(visits) = g[Len(Order(visits))]
<1> DEFINE n == Len(Order(visits))
           B == Seq(S)
           Is(iter) == iter = [s \in SUBSET DOMAIN Order(visits) |->
                          IF s = {} THEN <<>>
                          ELSE SentBy(iter[s \ {Max(s)}], visits, Order(visits)[Max(s)])]
           fold == CHOOSE iter : Is(iter)
           next == [p \in (1 .. n) \X B |-> SentBy(p[2], visits, Order(visits)[p[1]])]
           g == [m \in 0 .. n |-> fold[1 .. m]]
<1>0. n \in Nat /\ DOMAIN Order(visits) = 1 .. n /\ <<>> \in B
  BY DEF Order
<1>1. Sent(visits) = fold[1 .. n]
  <2>1. Sent(visits) = fold[DOMAIN Order(visits)]
    BY DEF Sent, SentBy, SendAll, Order, FoldLeft, MapThenFoldSet
  <2> HIDE DEF fold
  <2> QED
    BY <1>0, <2>1
<1>2. ASSUME NEW x \in B, NEW i \in 1 .. n PROVE SentBy(x, visits, Order(visits)[i]) \in B
  <2>1. Reported(SubSeq(visits, 1, Order(visits)[i])) \in Seq(S)
    BY <1>0 DEF Order
  <2> QED
    BY <2>1, SendsIn DEF SentBy
<1>3. next \in [(1 .. n) \X B -> B]
  <2> HIDE DEF B, n
  <2> QED
    BY <1>2
<1>4. PICK iter \in [SUBSET (1 .. n) -> B] : Folds(n, <<>>, next, iter)
  <2> HIDE DEF n, next, B
  <2> QED
    BY <1>0, <1>3, FoldingExists
<1>5. Is(iter)
  <2>1. ASSUME NEW s \in SUBSET (1 .. n), s # {}
        PROVE  next[<<Max(s), iter[s \ {Max(s)}]>>]
                 = SentBy(iter[s \ {Max(s)}], visits, Order(visits)[Max(s)])
    <3>1. Max(s) \in 1 .. n /\ s \ {Max(s)} \in SUBSET (1 .. n)
      BY <1>0, <2>1, MaxOf
    <3>2. iter[s \ {Max(s)}] \in B
      BY <3>1
    <3> HIDE DEF B
    <3> QED
      BY <3>1, <3>2
  <2> HIDE DEF next, B, n
  <2> QED
    BY <1>0, <1>4, <2>1 DEF Folds
<1>6. Is(fold)
  <2> HIDE DEF Is
  <2> QED
    BY <1>5
<1>7. /\ fold[1 .. 0] = <<>>
      /\ \A m \in 0 .. n - 1 : fold[1 .. m + 1] = SentBy(fold[1 .. m], visits, Order(visits)[m + 1])
  <2> HIDE DEF fold
  <2>1. 1 .. 0 = {} /\ {} \in SUBSET (1 .. n)
    OBVIOUS
  <2>2. fold[1 .. 0] = <<>>
    BY <1>0, <1>6, <2>1
  <2>3. ASSUME NEW m \in 0 .. n - 1
        PROVE  fold[1 .. m + 1] = SentBy(fold[1 .. m], visits, Order(visits)[m + 1])
    <3>1. /\ 1 .. m + 1 \in SUBSET (1 .. n) /\ 1 .. m + 1 # {}
          /\ Max(1 .. m + 1) = m + 1
          /\ (1 .. m + 1) \ {m + 1} = 1 .. m
      BY <1>0, LastOfInterval
    <3> QED
      BY <1>0, <1>6, <3>1
  <2> QED
    BY <2>2, <2>3
<1>8. /\ g[0] = <<>> /\ Sent(visits) = g[n]
      /\ \A m \in 0 .. n - 1 : g[m + 1] = SentBy(g[m], visits, Order(visits)[m + 1])
      /\ g = [m \in 0 .. n |-> g[m]]
  <2> HIDE DEF fold
  <2> QED
    BY <1>0, <1>1, <1>7
<1>9. \A m \in 0 .. n : g[m] \in B
  <2> HIDE DEF g, n, B
  <2>1. ASSUME NEW m \in 0 .. n - 1, g[m] \in B PROVE g[m + 1] \in B
    BY <1>0, <1>2, <1>8, <2>1, m + 1 \in 1 .. n
  <2> QED
    BY <1>0, <1>8, <2>1, StepsStay
<1> HIDE DEF g
<1> QED
  BY <1>8, <1>9

LEMMA SentFold ==
  ASSUME NEW V, NEW visits \in Seq(V)
  PROVE  \E g : /\ g[0] = <<>>
                /\ \A m \in 0 .. Len(visits) - 1 : g[m + 1] = SentBy(g[m], visits, m + 1)
                /\ Sent(visits) = g[Len(visits)]
<1> DEFINE new(i) == Reported(SubSeq(visits, 1, i))
           S == UNION {{new(i)[j] : j \in DOMAIN new(i)} : i \in 1 .. Len(visits)}
<1>1. ASSUME NEW i \in 1 .. Len(visits) PROVE new(i) \in Seq(S)
  <2> DEFINE T == {new(i)[j] : j \in DOMAIN new(i)}
  <2>1. new(i) \in Seq(T)
    BY ReportedIsList
  <2>2. T \subseteq S
    OBVIOUS
  <2> HIDE DEF T, S, new
  <2> QED
    BY <2>1, <2>2
<1>2. \A i \in 1 .. Len(visits) : Reported(SubSeq(visits, 1, i)) \in Seq(S)
  <2> HIDE DEF S
  <2> QED
    BY <1>1
<1> HIDE DEF S
<1>3. PICK g \in [0 .. Len(visits) -> Seq(S)] :
        /\ g[0] = <<>>
        /\ \A m \in 0 .. Len(visits) - 1 : g[m + 1] = SentBy(g[m], visits, m + 1)
        /\ Sent(visits) = g[Len(visits)]
  <2> DEFINE order == Order(visits)
  <2>1. Len(order) = Len(visits) /\ \A i \in 1 .. Len(visits) : order[i] = i
    BY DEF Order
  <2>2. PICK g \in [0 .. Len(order) -> Seq(S)] :
        /\ g[0] = <<>>
        /\ \A m \in 0 .. Len(order) - 1 : g[m + 1] = SentBy(g[m], visits, order[m + 1])
        /\ Sent(visits) = g[Len(order)]
    BY <1>2, SentRuns
  <2>3. ASSUME NEW m \in 0 .. Len(visits) - 1
        PROVE  g[m + 1] = SentBy(g[m], visits, m + 1)
    BY <2>1, <2>2, m + 1 \in 1 .. Len(visits)
  <2> QED
    BY <2>1, <2>2, <2>3
<1> QED
  BY <1>3

\* One more node: what it reports is sent after all that was sent before.
LEMMA SentAppend ==
  ASSUME NEW V, NEW visits \in Seq(V), NEW v \in V
  PROVE  Sent(Append(visits, v))
           = SendAll(Sent(visits), Reported(Append(visits, v)))
<1> DEFINE more == Append(visits, v)
           n == Len(visits)
<1>0. n \in Nat /\ more \in Seq(V) /\ Len(more) = n + 1
  OBVIOUS
<1>1. \A i \in 1 .. n : SubSeq(more, 1, i) = SubSeq(visits, 1, i)
  OBVIOUS
<1>2. SubSeq(more, 1, n + 1) = more
  OBVIOUS
<1> HIDE DEF more, n
<1>3. PICK g : /\ g[0] = <<>>
               /\ \A m \in 0 .. n - 1 : g[m + 1] = SentBy(g[m], visits, m + 1)
               /\ Sent(visits) = g[n]
  BY SentFold DEF n
<1>4. PICK h : /\ h[0] = <<>>
               /\ \A m \in 0 .. Len(more) - 1 : h[m + 1] = SentBy(h[m], more, m + 1)
               /\ Sent(more) = h[Len(more)]
  BY <1>0, SentFold
<1>5. ASSUME NEW m \in 0 .. n - 1, g[m] = h[m] PROVE g[m + 1] = h[m + 1]
  <2>1. m + 1 \in 1 .. n /\ m \in 0 .. (n + 1) - 1
    BY <1>0
  <2> QED
    BY <1>0, <1>1, <1>3, <1>4, <1>5, <2>1 DEF SentBy
<1>6. \A m \in 0 .. n : g[m] = h[m]
  <2>1. g[0] = h[0] /\ n \in Nat
    BY <1>0, <1>3, <1>4
  <2> QED
    BY <1>5, <2>1, SameSteps
<1>7. h[n + 1] = SentBy(h[n], more, n + 1) /\ h[n] = g[n]
  BY <1>0, <1>4, <1>6, n \in 0 .. n, n \in 0 .. (n + 1) - 1
<1> QED
  BY <1>0, <1>2, <1>3, <1>4, <1>7 DEF SentBy, more

\* A node that adds a stage of its own, or comes when the searches have run,
\* adds it after the others.
LEMMA HistoryAppend ==
  ASSUME NEW W, NEW nodes \in Seq(W), NEW x \in W,
         \/ \A i \in DOMAIN nodes : nodes[i] \in DOMAIN StageOf
         \/ Contains(nodes, "execute_searches")
  PROVE  /\ StageHistory(Append(nodes, x))
              = AddStage(StageHistory(nodes), x, Append(nodes, x))
         /\ StageHistory(nodes) \in Seq(Public)
<1> DEFINE more == Append(nodes, x)
           n == Len(nodes)
<1>0. /\ n \in Nat /\ more \in Seq(W) /\ Len(more) = n + 1 /\ more[n + 1] = x
      /\ \A i \in 1 .. n : more[i] = nodes[i]
      /\ DOMAIN nodes = 1 .. n
  OBVIOUS
<1> HIDE DEF more
<1>1. ASSUME NEW i \in 1 .. n, NEW list
      PROVE  AddStage(list, nodes[i], nodes) = AddStage(list, more[i], more)
  <2>1. CASE nodes[i] \in DOMAIN StageOf
    BY <1>0, <2>1 DEF AddStage
  <2>2. CASE Contains(nodes, "execute_searches")
    <3>1. Contains(more, "execute_searches")
      BY <1>0, <2>2 DEF Contains, n
    <3> QED
      BY <1>0, <2>2, <3>1 DEF AddStage, SearchStages
  <2> QED
    BY <1>0, <2>1, <2>2
<1>2. PICK g \in [0 .. n -> Seq(Public)] :
        /\ g[0] = <<>>
        /\ \A m \in 0 .. n - 1 : g[m + 1] = AddStage(g[m], nodes[m + 1], nodes)
        /\ StageHistory(nodes) = g[n]
  BY StageFold DEF n
<1> HIDE DEF n
<1>3. PICK h \in [0 .. Len(more) -> Seq(Public)] :
        /\ h[0] = <<>>
        /\ \A m \in 0 .. Len(more) - 1 : h[m + 1] = AddStage(h[m], more[m + 1], more)
        /\ StageHistory(more) = h[Len(more)]
  BY <1>0, StageFold
<1>4. ASSUME NEW m \in 0 .. n - 1, g[m] = h[m] PROVE g[m + 1] = h[m + 1]
  <2>1. m + 1 \in 1 .. n /\ m \in 0 .. (n + 1) - 1
    BY <1>0
  <2> QED
    BY <1>0, <1>1, <1>2, <1>3, <1>4, <2>1
<1>5. \A m \in 0 .. n : g[m] = h[m]
  <2>1. g[0] = h[0] /\ n \in Nat
    BY <1>0, <1>2, <1>3
  <2> QED
    BY <1>4, <2>1, SameSteps
<1>6. h[n + 1] = AddStage(h[n], x, more) /\ h[n] = g[n]
  BY <1>0, <1>3, <1>5, n \in 0 .. n, n \in 0 .. (n + 1) - 1
<1>7. g[n] \in Seq(Public)
  BY <1>0, n \in 0 .. n
<1> QED
  BY <1>0, <1>2, <1>3, <1>6, <1>7 DEF more

----------------------------------------------------------------------------
(* Stages in order *)

\* The first k stages.
Upto(k) == [i \in 1 .. k |-> Full[i]]

\* How many stages have been reached once a node has run for the first time,
\* and when it runs again.
StandsAt ==
  [ initialize                    |-> 1,
    parse_intent                  |-> 1,
    load_memory                   |-> 1,
    generate_queries              |-> 2,
    execute_searches              |-> 4,
    populate_candidate_blackboard |-> 4,
    pre_flight_check_availability |-> 5,
    logical_planner_agent         |-> 6,
    route_and_time_engine         |-> 7,
    semantic_validator            |-> 8,
    apply_recovery                |-> 8,
    final_review                  |-> 8,
    present_to_user               |-> 8,
    wait_confirmation             |-> 9 ]

Climbed(node, k) == IF StandsAt[node] > k THEN StandsAt[node] ELSE k

\* How many there are when a node is about to run: on the first pass those of
\* the nodes before it, after a recovery all but the last.
Reached ==
  [ initialize                    |-> {0},
    parse_intent                  |-> {1},
    load_memory                   |-> {1},
    generate_queries              |-> {1, 8},
    execute_searches              |-> {2, 8},
    populate_candidate_blackboard |-> {4, 8},
    pre_flight_check_availability |-> {4, 8},
    logical_planner_agent         |-> {5, 8},
    route_and_time_engine         |-> {6, 8},
    semantic_validator            |-> {7, 8},
    apply_recovery                |-> {8},
    final_review                  |-> {8},
    present_to_user               |-> {8},
    wait_confirmation             |-> {8},
    end                           |-> {2, 8, 9} ]

Snap  == [stages : Seq(Public), plans : Nat]
Visit == [node : WorkflowNode, more : BOOLEAN]

\* Both searches have been shown.
BothShown(sent) ==
  \E j \in 1 .. Len(sent) - 1 :
    /\ Last(sent[j].stages) = "searching_activities"
    /\ Last(sent[j + 1].stages) = "searching_dining"

\* What StreamAdvances says of one list of snapshots.
Advances(sent) ==
  \A i \in DOMAIN sent : LET shown == sent[i].stages IN
    /\ i > 1 => \/ IsPrefix(sent[i - 1].stages, shown)
                \/ /\ Last(shown) = "searching_activities"
                   /\ Contains(sent[i - 1].stages, "reviewing_plan")
    /\ Contains(shown, "checking_availability") =>
         \E j \in 1 .. i - 2 :
           /\ Last(sent[j].stages) = "searching_activities"
           /\ Last(sent[j + 1].stages) = "searching_dining"
    /\ ~Contains(shown, Executing)

\* What has been sent when k stages have been reached and the last snapshot
\* shows l of them.
SentWell(sent, k, l) ==
  /\ sent \in Seq(Snap)
  /\ Advances(sent)
  /\ IF k = 0 THEN sent = <<>> ELSE sent # <<>> /\ Last(sent).stages = Upto(l)
  /\ k >= 4 => BothShown(sent)

VisitedWell(nodes, k) ==
  /\ StageHistory(nodes) = Upto(k)
  /\ IF k < 4 THEN \A i \in DOMAIN nodes : nodes[i] \in DOMAIN StageOf
              ELSE Contains(nodes, "execute_searches")
  /\ k = 9 <=> Contains(nodes, "wait_confirmation")

\* Right after the searches the snapshot of the second of them is the last;
\* at any other time the last one shows all that has been reached.
ShownOf(at, k) == IF at = "populate_candidate_blackboard" THEN 4 ELSE k

Watched(s) ==
  /\ s.visits \in Seq(Visit)
  /\ s.at \in DOMAIN Reached
  /\ s.at # "end" => s.status \in {"running", "failed"}
  /\ \E k \in Reached[s.at] :
       /\ VisitedWell(Nodes(s.visits), k)
       /\ SentWell(Sent(s.visits), k, ShownOf(s.at, k))
       /\ s.at = "end" =>
            /\ s.status \in {"awaiting_clarification", "awaiting_confirmation",
                             "failed"}
            /\ s.status = "awaiting_confirmation" => k = 9

LEMMA FullStages ==
  /\ Len(Full) = 9
  /\ \A i \in 1 .. 9 : Full[i] \in Public
  /\ \A i, j \in 1 .. 9 : Full[i] = Full[j] => i = j
  /\ \A i \in 1 .. 9 : Full[i] # Executing
<1>1. /\ Full[1] = "understanding_request" /\ Full[2] = "planning_queries"
      /\ Full[3] = "searching_activities" /\ Full[4] = "searching_dining"
      /\ Full[5] = "checking_availability" /\ Full[6] = "building_itinerary"
      /\ Full[7] = "checking_route_time" /\ Full[8] = "reviewing_plan"
      /\ Full[9] = "ready_for_confirmation" /\ Len(Full) = 9
  BY DEF Full
<1>2. \A i \in 1 .. 9 : i \in {1, 2, 3, 4, 5, 6, 7, 8, 9}
  OBVIOUS
<1>3. \A i \in 1 .. 9 : Full[i] \in Public /\ Full[i] # Executing
  BY <1>1, <1>2 DEF Public, Executing
<1>4. ASSUME NEW i \in 1 .. 9, NEW j \in 1 .. 9, Full[i] = Full[j] PROVE i = j
  BY <1>1, <1>2, <1>4
<1> QED
  BY <1>1, <1>3, <1>4

LEMMA UptoIs ==
  ASSUME NEW k \in 0 .. 9
  PROVE  /\ Upto(k) \in Seq(Public) /\ Len(Upto(k)) = k
         /\ \A i \in 1 .. k : Upto(k)[i] = Full[i]
         /\ \A j \in 1 .. 9 : Contains(Upto(k), Full[j]) <=> j <= k
         /\ ~ Contains(Upto(k), Executing)
         /\ k > 0 => Last(Upto(k)) = Full[k]
<1>1. Upto(k) \in [1 .. k -> Public] /\ \A i \in 1 .. k : Upto(k)[i] = Full[i]
  BY FullStages DEF Upto
<1>2. Upto(k) \in Seq(Public) /\ Len(Upto(k)) = k
  BY <1>1
<1>3. ASSUME NEW j \in 1 .. 9
      PROVE  Contains(Upto(k), Full[j]) <=> j <= k
  BY <1>1, <1>2, FullStages DEF Contains
<1>4. ~ Contains(Upto(k), Executing)
  BY <1>1, <1>2, FullStages DEF Contains
<1> QED
  BY <1>1, <1>2, <1>3, <1>4 DEF Last

\* A stage that is there is not added, and the next one is.
LEMMA UptoGrows ==
  ASSUME NEW k \in 0 .. 9, NEW j \in 1 .. 9, j <= k + 1
  PROVE  AppendUnique(Upto(k), Full[j]) = Upto(IF j > k THEN j ELSE k)
<1>0. /\ Upto(k) \in Seq(Public) /\ Len(Upto(k)) = k
      /\ \A i \in 1 .. k : Upto(k)[i] = Full[i]
      /\ Contains(Upto(k), Full[j]) <=> j <= k
  BY UptoIs
<1>1. CASE j <= k
  <2>1. (IF j > k THEN j ELSE k) = k
    BY <1>1
  <2> QED
    BY <1>0, <1>1, <2>1 DEF AppendUnique
<1>2. CASE j = k + 1
  <2>1. AppendUnique(Upto(k), Full[j]) = Append(Upto(k), Full[j])
    BY <1>0, <1>2 DEF AppendUnique
  <2>2. /\ Upto(k) \in Seq(Public) /\ Len(Upto(k)) = k
        /\ Upto(j) \in Seq(Public) /\ Len(Upto(j)) = j
        /\ \A i \in 1 .. k : Upto(k)[i] = Full[i]
        /\ \A i \in 1 .. j : Upto(j)[i] = Full[i]
    <3>1. j \in 0 .. 9
      OBVIOUS
    <3>2. /\ Upto(j) \in Seq(Public) /\ Len(Upto(j)) = j
          /\ \A i \in 1 .. j : Upto(j)[i] = Full[i]
      BY <3>1, UptoIs
    <3> QED
      BY <1>0, <3>2
  <2>3. Append(Upto(k), Full[j]) = Upto(j)
    <3> PICK s \in Seq(Public), t \in Seq(Public) : s = Upto(k) /\ t = Upto(j)
      BY <2>2
    <3> PICK x \in Public : x = Full[j]
      BY FullStages
    <3>1. Len(Append(s, x)) = Len(t) /\ \A i \in 1 .. Len(t) : Append(s, x)[i] = t[i]
      BY <1>2, <2>2
    <3>2. Append(s, x) \in Seq(Public)
      OBVIOUS
    <3>3. Append(s, x) = t
      BY <3>1, <3>2
    <3> QED
      BY <3>3
  <2> QED
    BY <1>2, <2>1, <2>3
<1> QED
  BY <1>1, <1>2

\* The first stages are a prefix of more of them.
LEMMA UptoPrefix ==
  ASSUME NEW k \in 0 .. 9, NEW m \in k .. 9
  PROVE  IsPrefix(Upto(k), Upto(m)) /\ SubSeq(Upto(m), 1, k) = Upto(k)
<1>1. /\ Upto(k) \in Seq(Public) /\ Len(Upto(k)) = k
      /\ Upto(m) \in Seq(Public) /\ Len(Upto(m)) = m
      /\ \A i \in 1 .. k : Upto(k)[i] = Full[i]
      /\ \A i \in 1 .. m : Upto(m)[i] = Full[i]
  <2>1. m \in 0 .. 9
    OBVIOUS
  <2>2. /\ Upto(m) \in Seq(Public) /\ Len(Upto(m)) = m
        /\ \A i \in 1 .. m : Upto(m)[i] = Full[i]
    BY <2>1, UptoIs
  <2>3. /\ Upto(k) \in Seq(Public) /\ Len(Upto(k)) = k
        /\ \A i \in 1 .. k : Upto(k)[i] = Full[i]
    BY UptoIs
  <2> QED
    BY <2>2, <2>3
<1> PICK s \in Seq(Public), t \in Seq(Public) : s = Upto(k) /\ t = Upto(m)
  BY <1>1
<1>2. SubSeq(t, 1, k) = s
  <2>1. SubSeq(t, 1, k) \in Seq(Public) /\ Len(SubSeq(t, 1, k)) = k
    BY <1>1
  <2>2. \A i \in 1 .. k : SubSeq(t, 1, k)[i] = s[i]
    BY <1>1
  <2> QED
    BY <1>1, <2>1, <2>2
<1>3. SubSeq(s, 1, k) = s
  <2>1. SubSeq(s, 1, k) \in Seq(Public) /\ Len(SubSeq(s, 1, k)) = k
    BY <1>1
  <2>2. \A i \in 1 .. k : SubSeq(s, 1, k)[i] = s[i]
    BY <1>1
  <2> QED
    BY <1>1, <2>1, <2>2
<1> QED
  BY <1>1, <1>2, <1>3 DEF IsPrefix

LEMMA ReachedIs ==
  ASSUME NEW node \in DOMAIN Reached, NEW k \in Reached[node]
  PROVE  k \in 0 .. 9
BY DEF Reached

\* What a node adds to the stages that have been reached when it runs.
LEMMA StageClimbs ==
  ASSUME NEW node \in WorkflowNode, NEW k \in Reached[node], NEW nodes,
         Contains(nodes, "execute_searches") <=>
           (k >= 4 \/ node = "execute_searches")
  PROVE  /\ AddStage(Upto(k), node, nodes) = Upto(Climbed(node, k))
         /\ Climbed(node, k) \in 1 .. 9
<1> USE DEF Reached, StandsAt, Climbed
<1>0. /\ Full[1] = "understanding_request" /\ Full[2] = "planning_queries"
      /\ Full[3] = "searching_activities" /\ Full[4] = "searching_dining"
      /\ Full[5] = "checking_availability" /\ Full[6] = "building_itinerary"
      /\ Full[7] = "checking_route_time" /\ Full[8] = "reviewing_plan"
      /\ Full[9] = "ready_for_confirmation"
  BY DEF Full
<1>1. CASE node \in DOMAIN StageOf
  <2>1. \E j \in 1 .. 9 : /\ StageOf[node] = Full[j] /\ j <= k + 1
                          /\ j = StandsAt[node]
    BY <1>0, <1>1 DEF StageOf
  <2>2. k \in 0 .. 9
    BY <1>1 DEF StageOf
  <2> HIDE DEF Reached, StandsAt
  <2>3. PICK j \in 1 .. 9 : /\ StageOf[node] = Full[j] /\ j <= k + 1
                            /\ j = StandsAt[node]
    BY <2>1
  <2>4. AppendUnique(Upto(k), Full[j]) = Upto(IF j > k THEN j ELSE k)
    BY <2>2, <2>3, UptoGrows
  <2> QED
    BY <1>1, <2>2, <2>3, <2>4 DEF AddStage
<1>2. CASE node \in {"execute_searches", "populate_candidate_blackboard"}
  <2>1. /\ k \in {2, 4, 8} /\ node \notin DOMAIN StageOf
        /\ SearchStages(nodes) = SearchStage
        /\ Climbed(node, k) = IF k = 2 THEN 4 ELSE k
    BY <1>2 DEF StageOf, SearchStages
  <2> HIDE DEF Reached, StandsAt, Climbed
  <2>2. Upto(k) \in Seq(Public)
    BY <2>1, UptoIs, k \in 0 .. 9
  <2>3. AddStage(Upto(k), node, nodes)
          = AppendUnique(AppendUnique(Upto(k), Full[3]), Full[4])
    BY <1>0, <2>1, <2>2, SearchesAdded DEF AddStage
  <2>4. CASE k = 2
    <3>1. AppendUnique(Upto(2), Full[3]) = Upto(3)
      BY UptoGrows
    <3>2. AppendUnique(Upto(3), Full[4]) = Upto(4)
      BY UptoGrows
    <3> QED
      BY <2>1, <2>3, <2>4, <3>1, <3>2
  <2>5. CASE k # 2
    <3>1. AppendUnique(Upto(k), Full[3]) = Upto(k)
      BY <2>1, <2>5, UptoGrows
    <3>2. AppendUnique(Upto(k), Full[4]) = Upto(k)
      BY <2>1, <2>5, UptoGrows
    <3> QED
      BY <2>1, <2>3, <2>5, <3>1, <3>2
  <2> QED
    BY <2>4, <2>5
<1> QED
  BY <1>1, <1>2 DEF WorkflowNode, Follows, StageOf

\* The graph leads from what has been reached to what the next node expects.
LEMMA OutcomeClimbs ==
  ASSUME NEW node \in WorkflowNode, NEW k \in Reached[node],
         NEW status \in {"running", "failed"}, NEW recoveries,
         NEW o \in Outcomes(node, status, recoveries)
  PROVE  /\ o.next \in DOMAIN Reached
         /\ Climbed(node, k) \in Reached[o.next]
         /\ o.next # "end" => o.status \in {"running", "failed"}
         /\ o.next = "end" =>
              /\ o.status \in {"awaiting_clarification", "awaiting_confirmation",
                               "failed"}
              /\ o.status = "awaiting_confirmation" => Climbed(node, k) = 9
<1> USE DEF Reached, StandsAt, Climbed, Goes
<1>1. CASE node \in DOMAIN Follows
  BY <1>1 DEF Outcomes, Follows
<1>2. CASE node = "generate_queries"
  BY <1>2 DEF Outcomes, Follows
<1>3. CASE node = "semantic_validator"
  BY <1>3 DEF Outcomes, Follows
<1>4. CASE node = "apply_recovery"
  BY <1>4 DEF Outcomes, Follows, RecoveryRoute
<1>5. CASE node = "final_review"
  BY <1>5 DEF Outcomes, Follows
<1>6. CASE node = "present_to_user"
  BY <1>6 DEF Outcomes, Follows
<1>7. CASE node = "wait_confirmation"
  BY <1>7 DEF Outcomes, Follows
<1> QED
  BY <1>1, <1>2, <1>3, <1>4, <1>5, <1>6, <1>7 DEF WorkflowNode

----------------------------------------------------------------------------
(* What is sent *)

LEMMA SendKeeps ==
  ASSUME NEW sent \in Seq(Snap), Advances(sent), NEW x \in Snap, NEW m \in 1 .. 9,
         x.stages = Upto(m),
         sent # <<>> => \E l \in 1 .. 9 : /\ Last(sent).stages = Upto(l)
                                          /\ l <= m \/ (m = 3 /\ l = 8),
         m >= 5 => BothShown(sent)
  PROVE  /\ Send(sent, x) \in Seq(Snap) /\ Advances(Send(sent, x))
         /\ Send(sent, x) # <<>> /\ Last(Send(sent, x)).stages = Upto(m)
         /\ BothShown(sent) => BothShown(Send(sent, x))
<1>1. CASE sent # <<>> /\ Last(sent) = x
  BY <1>1 DEF Send
<1>2. CASE ~ (sent # <<>> /\ Last(sent) = x)
  <2> DEFINE new == Append(sent, x)
             n == Len(sent)
  <2>1. Send(sent, x) = new
    BY <1>2 DEF Send
  <2>2. /\ n \in Nat /\ new \in Seq(Snap) /\ Len(new) = n + 1
        /\ \A i \in 1 .. n : new[i] = sent[i]
        /\ new[n + 1] = x
        /\ DOMAIN sent = 1 .. n /\ DOMAIN new = 1 .. n + 1
        /\ sent # <<>> <=> n >= 1
    OBVIOUS
  <2>3. n >= 1 => Last(sent) = sent[n]
    BY DEF Last
  <2>4. Last(new) = x
    BY <2>2 DEF Last
  <2>5. BothShown(sent) => BothShown(new)
    <3> SUFFICES ASSUME BothShown(sent) PROVE BothShown(new)
      OBVIOUS
    <3>1. PICK j \in 1 .. n - 1 : /\ Last(sent[j].stages) = "searching_activities"
                                  /\ Last(sent[j + 1].stages) = "searching_dining"
      BY DEF BothShown
    <3> HIDE DEF new, n
    <3>2. j \in 1 .. Len(new) - 1 /\ new[j] = sent[j] /\ new[j + 1] = sent[j + 1]
      BY <2>2
    <3> QED
      BY <3>1, <3>2 DEF BothShown
  <2> HIDE DEF new, n
  <2>6. ASSUME NEW i \in 1 .. n + 1
        PROVE  /\ i > 1 => \/ IsPrefix(new[i - 1].stages, new[i].stages)
                           \/ /\ Last(new[i].stages) = "searching_activities"
                              /\ Contains(new[i - 1].stages, "reviewing_plan")
               /\ Contains(new[i].stages, "checking_availability") =>
                    \E j \in 1 .. i - 2 :
                      /\ Last(new[j].stages) = "searching_activities"
                      /\ Last(new[j + 1].stages) = "searching_dining"
               /\ ~Contains(new[i].stages, Executing)
    <3>1. CASE i <= n
      <4>1. i \in 1 .. n /\ new[i] = sent[i] /\ (i > 1 => new[i - 1] = sent[i - 1])
        BY <2>2, <3>1
      <4>2. /\ i > 1 => \/ IsPrefix(sent[i - 1].stages, sent[i].stages)
                        \/ /\ Last(sent[i].stages) = "searching_activities"
                           /\ Contains(sent[i - 1].stages, "reviewing_plan")
            /\ Contains(sent[i].stages, "checking_availability") =>
                 \E j \in 1 .. i - 2 :
                   /\ Last(sent[j].stages) = "searching_activities"
                   /\ Last(sent[j + 1].stages) = "searching_dining"
            /\ ~Contains(sent[i].stages, Executing)
        BY <2>2, <4>1 DEF Advances
      <4>3. \A j \in 1 .. i - 2 : new[j] = sent[j] /\ new[j + 1] = sent[j + 1]
        BY <2>2, <4>1
      <4> QED
        BY <4>1, <4>2, <4>3
    <3>2. CASE i = n + 1
      <4>0. new[i] = x /\ new[i].stages = Upto(m) /\ m \in 0 .. 9
        BY <2>2, <3>2
      <4>1. i > 1 => \/ IsPrefix(new[i - 1].stages, new[i].stages)
                     \/ /\ Last(new[i].stages) = "searching_activities"
                        /\ Contains(new[i - 1].stages, "reviewing_plan")
        <5> SUFFICES ASSUME i > 1
                     PROVE  \/ IsPrefix(new[i - 1].stages, new[i].stages)
                            \/ /\ Last(new[i].stages) = "searching_activities"
                               /\ Contains(new[i - 1].stages, "reviewing_plan")
          OBVIOUS
        <5>1. n >= 1 /\ new[i - 1] = Last(sent)
          BY <2>2, <2>3, <3>2
        <5>2. PICK l \in 1 .. 9 : /\ Last(sent).stages = Upto(l)
                                  /\ l <= m \/ (m = 3 /\ l = 8)
          BY <2>2, <5>1
        <5>3. CASE l <= m
          <6>1. l \in 0 .. 9 /\ m \in l .. 9
            BY <5>3
          <6>2. IsPrefix(Upto(l), Upto(m))
            BY <6>1, UptoPrefix
          <6> QED
            BY <4>0, <5>1, <5>2, <6>2
        <5>4. CASE m = 3 /\ l = 8
          <6>1. Last(Upto(3)) = Full[3] /\ Contains(Upto(8), Full[8])
            BY UptoIs, 3 \in 0 .. 9, 8 \in 0 .. 9, 8 \in 1 .. 9
          <6>2. Full[3] = "searching_activities" /\ Full[8] = "reviewing_plan"
            BY DEF Full
          <6> QED
            BY <4>0, <5>1, <5>2, <5>4, <6>1, <6>2
        <5> QED
          BY <5>2, <5>3, <5>4
      <4>2. Contains(new[i].stages, "checking_availability") =>
              \E j \in 1 .. i - 2 :
                /\ Last(new[j].stages) = "searching_activities"
                /\ Last(new[j + 1].stages) = "searching_dining"
        <5> SUFFICES ASSUME Contains(Upto(m), "checking_availability")
                     PROVE  \E j \in 1 .. i - 2 :
                              /\ Last(new[j].stages) = "searching_activities"
                              /\ Last(new[j + 1].stages) = "searching_dining"
          BY <4>0
        <5>1. Full[5] = "checking_availability"
          BY DEF Full
        <5>2. Contains(Upto(m), Full[5]) <=> 5 <= m
          BY <4>0, UptoIs, 5 \in 1 .. 9
        <5>3. BothShown(sent)
          BY <5>1, <5>2
        <5>4. PICK j \in 1 .. n - 1 :
                /\ Last(sent[j].stages) = "searching_activities"
                /\ Last(sent[j + 1].stages) = "searching_dining"
          BY <5>3 DEF BothShown, n
        <5>5. j \in 1 .. i - 2 /\ new[j] = sent[j] /\ new[j + 1] = sent[j + 1]
          BY <2>2, <3>2
        <5> QED
          BY <5>4, <5>5
      <4>3. ~Contains(new[i].stages, Executing)
        BY <4>0, UptoIs
      <4> QED
        BY <4>1, <4>2, <4>3
    <3> QED
      BY <2>2, <3>1, <3>2
  <2>7. Advances(new)
    BY <2>2, <2>6 DEF Advances
  <2>8. new # <<>>
    BY <2>2
  <2> QED
    BY <2>1, <2>2, <2>4, <2>5, <2>7, <2>8
<1> QED
  BY <1>1, <1>2

\* The two searches of one node are shown one right after the other.
LEMMA SearchesShown ==
  ASSUME NEW sent \in Seq(Snap), sent # <<>>, Last(sent).stages = Upto(3),
         NEW x \in Snap, x.stages = Upto(4)
  PROVE  BothShown(Send(sent, x))
<1>1. /\ Last(Upto(3)) = Full[3] /\ Last(Upto(4)) = Full[4]
      /\ Len(Upto(3)) = 3 /\ Len(Upto(4)) = 4
  <2>1. 3 \in 0 .. 9 /\ 3 > 0 /\ 4 \in 0 .. 9 /\ 4 > 0
    OBVIOUS
  <2>2. Last(Upto(3)) = Full[3] /\ Len(Upto(3)) = 3
    BY <2>1, UptoIs
  <2>3. Last(Upto(4)) = Full[4] /\ Len(Upto(4)) = 4
    BY <2>1, UptoIs
  <2> QED
    BY <2>2, <2>3
<1>2. Full[3] = "searching_activities" /\ Full[4] = "searching_dining"
  BY DEF Full
<1>3. Send(sent, x) = Append(sent, x)
  <2>0. Len(Upto(3)) = 3 /\ Len(Upto(4)) = 4
    BY <1>1
  <2>1. Upto(3) # Upto(4)
    BY ONLY <2>0
  <2>2. Last(sent) # x
    BY <2>1
  <2> QED
    BY <2>2 DEF Send
<1> DEFINE new == Append(sent, x)
           n == Len(sent)
<1>4. /\ n \in Nat /\ n >= 1 /\ Len(new) = n + 1
      /\ new[n] = Last(sent) /\ new[n + 1] = x
  BY DEF Last
<1> HIDE DEF new, n
<1>5. /\ n \in 1 .. Len(new) - 1
      /\ Last(new[n].stages) = "searching_activities"
      /\ Last(new[n + 1].stages) = "searching_dining"
  BY <1>1, <1>2, <1>4
<1>6. BothShown(new)
  BY <1>5 DEF BothShown
<1> QED
  BY <1>3, <1>6 DEF new

LEMMA PairIsList ==
  ASSUME NEW z, NEW S, z \in [1 .. 2 -> S]
  PROVE  z \in Seq(S)
OBVIOUS

\* The node that has been run last reports what has been reached, the
\* searches one after the other.
LEMMA ReportedIs ==
  ASSUME NEW visits, NEW k \in 1 .. 9, StageHistory(Nodes(visits)) = Upto(k),
         k = 9 <=> Contains(Nodes(visits), "wait_confirmation"),
         PlansTold(visits) \in Nat,
         Last(Nodes(visits)) = "execute_searches" => k >= 4
  PROVE  /\ Reported(visits) \in Seq(Snap)
         /\ IF Last(Nodes(visits)) = "execute_searches"
            THEN /\ Len(Reported(visits)) = 2
                 /\ Reported(visits)[1].stages = Upto(3)
                 /\ Reported(visits)[2].stages = Upto(4)
            ELSE /\ Len(Reported(visits)) = 1
                 /\ Reported(visits)[1].stages = Upto(k)
<1> DEFINE nodes == Nodes(visits)
           current == CurrentStage("running", nodes, FALSE)
           snap == Snapshot("running", nodes, FALSE, PlansTold(visits))
<1>0. /\ k \in 0 .. 9 /\ Upto(k) \in Seq(Public) /\ Len(Upto(k)) = k
      /\ \A i \in 1 .. k : Upto(k)[i] = Full[i]
      /\ Last(Upto(k)) = Full[k]
  <2>1. k \in 0 .. 9 /\ k > 0
    OBVIOUS
  <2> QED
    BY <2>1, UptoIs
<1>1. current = Full[k]
  <2>1. Full[9] = "ready_for_confirmation"
    BY DEF Full
  <2> QED
    BY <1>0, <2>1 DEF CurrentStage, ExecutedStatus
<1>2. AppendUnique(Upto(k), Full[k]) = Upto(k)
  <2>1. k <= k + 1 /\ (IF k > k THEN k ELSE k) = k
    OBVIOUS
  <2> QED
    BY <1>0, <2>1, UptoGrows
<1>3. snap = [stages |-> Upto(k), plans |-> PlansTold(visits)]
  <2> HIDE DEF current, nodes
  <2>1. snap = [stages |-> AppendUnique(StageHistory(nodes), current),
                plans |-> PlansTold(visits)]
    BY DEF Snapshot, current
  <2> QED
    BY <1>1, <1>2, <2>1 DEF nodes
<1>4. snap \in Snap
  <2> HIDE DEF snap
  <2> QED
    BY <1>0, <1>3 DEF Snap
<1>5. CASE Last(nodes) = "execute_searches"
  <2> DEFINE two == [i \in DOMAIN SearchStage |-> Truncated(snap, SearchStage[i])]
  <2>1. Reported(visits) = two
    BY <1>5 DEF Reported, Milestones
  <2>2. /\ DOMAIN SearchStage = 1 .. 2 /\ SearchStage[1] = Full[3]
        /\ SearchStage[2] = Full[4]
    BY DEF SearchStage, Full
  <2> HIDE DEF snap, nodes
  <2>3. ASSUME NEW j \in 3 .. 4
        PROVE  Truncated(snap, Full[j]) = [snap EXCEPT !.stages = Upto(j)]
    <3>1. j \in 1 .. k /\ j \in 0 .. 9 /\ k \in j .. 9
      BY <1>5 DEF nodes
    <3>2. DOMAIN snap.stages = 1 .. k /\ \A i \in 1 .. k : snap.stages[i] = Full[i]
      BY <1>0, <1>3
    <3>3. \A i \in 1 .. k : Full[i] = Full[j] => i = j
      BY <3>1, FullStages
    <3>4. (CHOOSE i \in DOMAIN snap.stages : snap.stages[i] = Full[j]) = j
      BY <3>1, <3>2, <3>3
    <3>5. SubSeq(Upto(k), 1, j) = Upto(j)
      BY <3>1, UptoPrefix
    <3>6. snap.stages = Upto(k)
      BY <1>3
    <3> QED
      BY <3>4, <3>5, <3>6 DEF Truncated
  <2>4. /\ Len(two) = 2 /\ DOMAIN two = 1 .. 2
        /\ two = [i \in 1 .. 2 |-> two[i]]
        /\ two[1] = Truncated(snap, Full[3])
        /\ two[2] = Truncated(snap, Full[4])
    BY <2>2
  <2> HIDE DEF two
  <2>5. /\ two[1] = [snap EXCEPT !.stages = Upto(3)]
        /\ two[2] = [snap EXCEPT !.stages = Upto(4)]
    BY <2>3, <2>4, 3 \in 3 .. 4, 4 \in 3 .. 4
  <2>6. Upto(3) \in Seq(Public) /\ Upto(4) \in Seq(Public)
    BY UptoIs, 3 \in 0 .. 9, 4 \in 0 .. 9
  <2>7. /\ two[1] \in Snap /\ two[1].stages = Upto(3)
        /\ two[2] \in Snap /\ two[2].stages = Upto(4)
    BY <1>4, <2>5, <2>6 DEF Snap
  <2>8. two \in Seq(Snap)
    <3>1. \A i \in 1 .. 2 : two[i] \in Snap
      BY <2>7
    <3>2. two \in [1 .. 2 -> Snap]
      BY <2>4, <3>1
    <3> QED
      BY <3>2, PairIsList
  <2> QED
    BY <1>5, <2>1, <2>4, <2>7, <2>8 DEF nodes
<1>6. CASE Last(nodes) # "execute_searches"
  <2>1. Reported(visits) = <<snap>>
    BY <1>6 DEF Reported, Milestones
  <2> HIDE DEF snap
  <2> QED
    BY <1>3, <1>4, <1>6, <2>1
<1> QED
  BY <1>5, <1>6

----------------------------------------------------------------------------
(* A stream, node by node *)

LEMMA NodesOf ==
  ASSUME NEW visits \in Seq(Visit), NEW v \in Visit
  PROVE  /\ Nodes(visits) \in Seq(WorkflowNode)
         /\ Nodes(Append(visits, v)) = Append(Nodes(visits), v.node)
         /\ v.node \in WorkflowNode
         /\ PlansTold(Append(visits, v)) \in Nat
<1>1. \A i \in DOMAIN visits : visits[i].node \in WorkflowNode
  <2> TAKE i \in DOMAIN visits
  <2>1. visits[i] \in Visit
    OBVIOUS
  <2> QED
    BY <2>1 DEF Visit
<1>2. v.node \in WorkflowNode
  BY DEF Visit
<1> DEFINE n == Len(visits)
           nodes == Nodes(visits)
           more == Append(visits, v)
<1>3. n \in Nat /\ DOMAIN visits = 1 .. n
  OBVIOUS
<1>4. nodes \in [1 .. n -> WorkflowNode]
  BY <1>1, <1>3 DEF Nodes
<1>5. nodes \in Seq(WorkflowNode) /\ Len(nodes) = n
  <2> HIDE DEF nodes, n
  <2> QED
    BY <1>3, <1>4
<1>6. /\ Len(more) = n + 1 /\ DOMAIN more = 1 .. n + 1
      /\ \A i \in 1 .. n : more[i] = visits[i]
      /\ more[n + 1] = v
  OBVIOUS
<1>7. Nodes(more) = Append(nodes, v.node)
  <2> DEFINE left == Nodes(more)
             right == Append(nodes, v.node)
  <2>1. /\ DOMAIN left = 1 .. n + 1 /\ left[n + 1] = v.node
        /\ \A i \in 1 .. n : left[i] = visits[i].node
        /\ left = [i \in 1 .. n + 1 |-> left[i]]
    <3> HIDE DEF more, n
    <3> QED
      BY <1>3, <1>6 DEF Nodes
  <2>2. \A i \in 1 .. n : nodes[i] = visits[i].node
    BY <1>3 DEF Nodes
  <2> HIDE DEF nodes, n, left, right
  <2>3. /\ right[n + 1] = v.node
        /\ \A i \in 1 .. n : right[i] = nodes[i]
        /\ right = [i \in 1 .. n + 1 |-> right[i]]
    <3> PICK s \in Seq(WorkflowNode), w \in WorkflowNode : s = nodes /\ w = v.node
      BY <1>2, <1>5
    <3>1. /\ Append(s, w)[Len(s) + 1] = w
          /\ \A i \in 1 .. Len(s) : Append(s, w)[i] = s[i]
          /\ Append(s, w) = [i \in 1 .. Len(s) + 1 |-> Append(s, w)[i]]
      OBVIOUS
    <3>2. Len(s) = n /\ right = Append(s, w)
      BY <1>5 DEF right
    <3>3. n \in Nat
      BY <1>3
    <3> HIDE DEF right
    <3> QED
      BY <3>1, <3>2, <3>3
  <2>4. \A i \in 1 .. n + 1 : left[i] = right[i]
    <3> TAKE i \in 1 .. n + 1
    <3>1. i \in 1 .. n \/ i = n + 1
      BY <1>3
    <3> QED
      BY <2>1, <2>2, <2>3, <3>1
  <2>5. left = right
    BY <2>1, <2>3, <2>4
  <2> QED
    BY <2>5 DEF left, right
<1>8. PlansTold(more) \in Nat
  <2> DEFINE told == {i \in DOMAIN more : more[i].more}
  <2>1. IsFiniteSet(1 .. n + 1)
    BY <1>3, FS_Interval
  <2>2. told \subseteq 1 .. n + 1
    BY <1>6
  <2> HIDE DEF told
  <2>3. Cardinality(told) \in Nat
    BY <2>1, <2>2, FS_Subset, FS_CardinalityType
  <2> QED
    BY <2>3 DEF PlansTold, told
<1> QED
  BY <1>2, <1>5, <1>7, <1>8

LEMMA VisitedStep ==
  ASSUME NEW nodes \in Seq(WorkflowNode), NEW node \in WorkflowNode,
         NEW k \in Reached[node], VisitedWell(nodes, k)
  PROVE  /\ VisitedWell(Append(nodes, node), Climbed(node, k))
         /\ Climbed(node, k) \in 1 .. 9
         /\ Last(Append(nodes, node)) = node
         /\ node = "execute_searches" => k \in {2, 8}
         /\ Climbed(node, k) >= 5 => k >= 4
         /\ k <= Climbed(node, k)
<1> DEFINE more == Append(nodes, node)
           m == Climbed(node, k)
<1>1. \A x : Contains(more, x) <=> Contains(nodes, x) \/ x = node
  BY ListContains
<1>2. /\ k \in 0 .. 9
      /\ node = "execute_searches" => k \in {2, 8}
      /\ m >= 5 => k >= 4
      /\ m >= 4 <=> k >= 4 \/ node = "execute_searches"
      /\ m = 9 <=> k = 9 \/ node = "wait_confirmation"
      /\ k <= m
      /\ m < 4 => node \in DOMAIN StageOf
  BY DEF WorkflowNode, Follows, Reached, Climbed, StandsAt, StageOf
<1>3. Contains(nodes, "execute_searches") <=> k >= 4
  <2>1. CASE k < 4
    <3>1. \A i \in DOMAIN nodes : nodes[i] \in DOMAIN StageOf
      BY <2>1 DEF VisitedWell
    <3>2. "execute_searches" \notin DOMAIN StageOf
      BY DEF StageOf
    <3>3. ~ Contains(nodes, "execute_searches")
      <4> SUFFICES ASSUME NEW i \in 1 .. Len(nodes), nodes[i] = "execute_searches"
                   PROVE  FALSE
        BY DEF Contains
      <4>1. i \in DOMAIN nodes
        OBVIOUS
      <4>2. nodes[i] \in DOMAIN StageOf
        BY <3>1, <4>1
      <4> QED
        BY <3>2, <4>2
    <3> QED
      BY <1>2, <2>1, <3>3
  <2>2. CASE ~ (k < 4)
    BY <1>2, <2>2 DEF VisitedWell
  <2> QED
    BY <2>1, <2>2
<1>4. StageHistory(more) = AddStage(Upto(k), node, more)
  BY HistoryAppend DEF VisitedWell
<1>5. /\ AddStage(Upto(k), node, more) = Upto(m) /\ m \in 1 .. 9
  <2>1. Contains(more, "execute_searches") <=> (k >= 4 \/ node = "execute_searches")
    BY <1>1, <1>3
  <2> QED
    BY <2>1, StageClimbs
<1>6. Last(more) = node
  <2>1. Len(more) = Len(nodes) + 1 /\ more[Len(nodes) + 1] = node
    OBVIOUS
  <2> HIDE DEF more
  <2> QED
    BY <2>1 DEF Last
<1>7. m < 4 => \A i \in DOMAIN more : more[i] \in DOMAIN StageOf
  <2> SUFFICES ASSUME m < 4, NEW i \in DOMAIN more
               PROVE  more[i] \in DOMAIN StageOf
    OBVIOUS
  <2>1. k < 4
    <3>1. m \in 1 .. 9 /\ k \in 0 .. 9 /\ k <= m
      BY <1>2, <1>5
    <3> HIDE DEF m
    <3> QED
      BY <3>1
  <2>2. \A j \in DOMAIN nodes : nodes[j] \in DOMAIN StageOf
    BY <2>1 DEF VisitedWell
  <2>3. (i \in DOMAIN nodes /\ more[i] = nodes[i]) \/ more[i] = node
    OBVIOUS
  <2> QED
    BY <1>2, <2>2, <2>3
<1>8. m >= 4 => Contains(more, "execute_searches")
  BY <1>1, <1>2, <1>3
<1>9. m = 9 <=> Contains(more, "wait_confirmation")
  BY <1>1, <1>2 DEF VisitedWell
<1> HIDE DEF more, m
<1>10. VisitedWell(more, m)
  BY <1>4, <1>5, <1>7, <1>8, <1>9 DEF VisitedWell
<1> QED
  BY <1>2, <1>5, <1>6, <1>10 DEF more, m

\* What is sent for one more node.
LEMMA SentStep ==
  ASSUME NEW node \in WorkflowNode, NEW k \in Reached[node], NEW m \in 1 .. 9,
         NEW sent, SentWell(sent, k, ShownOf(node, k)),
         k <= m, m >= 5 => k >= 4,
         node = "execute_searches" => k \in {2, 8} /\ m >= 4,
         node # "execute_searches" => (m >= 4 => k >= 4),
         NEW new \in Seq(Snap),
         IF node = "execute_searches"
         THEN Len(new) = 2 /\ new[1].stages = Upto(3) /\ new[2].stages = Upto(4)
         ELSE Len(new) = 1 /\ new[1].stages = Upto(m)
  PROVE  SentWell(SendAll(sent, new), m,
                  IF node = "execute_searches" THEN 4 ELSE m)
<1> DEFINE l == ShownOf(node, k)
<1>0. k \in 0 .. 9 /\ l \in 0 .. 9
  BY DEF Reached, WorkflowNode, Follows, ShownOf
<1>1. /\ sent \in Seq(Snap) /\ Advances(sent)
      /\ k = 0 => sent = <<>>
      /\ k # 0 => sent # <<>> /\ Last(sent).stages = Upto(l)
      /\ k >= 4 => BothShown(sent)
  BY DEF SentWell
<1>2. /\ node = "execute_searches" => l = k
      /\ l <= m
      /\ k # 0 => l \in 1 .. 9
  BY <1>0 DEF ShownOf, Reached
<1> HIDE DEF l
<1>3. CASE node = "execute_searches"
  <2>0. new[1] \in Snap /\ new[2] \in Snap
    <3>1. Len(new) = 2
      BY <1>3
    <3>2. 1 \in DOMAIN new /\ 2 \in DOMAIN new
      BY <3>1
    <3> QED
      BY <3>2
  <2>1. /\ k # 0 /\ l \in 1 .. 9 /\ (l <= 3 \/ l = 8)
        /\ new[1] \in Snap /\ new[2] \in Snap
        /\ 3 \in 1 .. 9 /\ 4 \in 1 .. 9
    <3>1. k = 2 \/ k = 8
      BY <1>3
    <3>2. l = k
      BY <1>2, <1>3
    <3> QED
      BY <2>0, <3>1, <3>2
  <2> PICK x \in Snap, y \in Snap : x = new[1] /\ y = new[2]
    BY <2>1
  <2> DEFINE first == Send(sent, x)
  <2>2. /\ first \in Seq(Snap) /\ Advances(first) /\ first # <<>>
        /\ Last(first).stages = Upto(3)
        /\ BothShown(sent) => BothShown(first)
    <3>1. \E i \in 1 .. 9 : Last(sent).stages = Upto(i) /\ (i <= 3 \/ (3 = 3 /\ i = 8))
      BY <1>1, <2>1
    <3>2. x.stages = Upto(3) /\ ~ (3 >= 5)
      BY <1>3
    <3> QED
      BY <1>1, <2>1, <3>1, <3>2, SendKeeps
  <2> HIDE DEF first
  <2>3. /\ Send(first, y) \in Seq(Snap) /\ Advances(Send(first, y))
        /\ Send(first, y) # <<>>
        /\ Last(Send(first, y)).stages = Upto(4)
    <3>1. \E i \in 1 .. 9 : Last(first).stages = Upto(i) /\ (i <= 4 \/ (4 = 3 /\ i = 8))
      BY <2>1, <2>2
    <3>2. y.stages = Upto(4) /\ ~ (4 >= 5)
      BY <1>3
    <3> QED
      BY <2>1, <2>2, <3>1, <3>2, SendKeeps
  <2>4. BothShown(Send(first, y))
    <3>1. y.stages = Upto(4)
      BY <1>3
    <3> QED
      BY <2>2, <3>1, SearchesShown
  <2>5. SendAll(sent, new) = Send(first, y)
    BY <1>1, <1>3, SendsIn DEF first
  <2> QED
    BY <1>3, <2>3, <2>4, <2>5 DEF SentWell
<1>4. CASE node # "execute_searches"
  <2>1. new[1] \in Snap
    BY <1>4
  <2> PICK x \in Snap : x = new[1]
    BY <2>1
  <2>2. sent # <<>> => \E i \in 1 .. 9 : /\ Last(sent).stages = Upto(i)
                                         /\ i <= m \/ (m = 3 /\ i = 8)
    BY <1>1, <1>2
  <2>3. m >= 5 => BothShown(sent)
    BY <1>1
  <2>4. x.stages = Upto(m)
    BY <1>4
  <2>5. /\ Send(sent, x) \in Seq(Snap) /\ Advances(Send(sent, x))
        /\ Send(sent, x) # <<>> /\ Last(Send(sent, x)).stages = Upto(m)
        /\ BothShown(sent) => BothShown(Send(sent, x))
    BY <1>1, <2>2, <2>3, <2>4, SendKeeps
  <2>6. SendAll(sent, new) = Send(sent, x)
    BY <1>1, <1>4, SendsIn
  <2>7. m >= 4 => BothShown(Send(sent, x))
    BY <1>1, <1>4, <2>5
  <2> QED
    BY <1>4, <2>5, <2>6, <2>7 DEF SentWell
<1> QED
  BY <1>3, <1>4

\* What comes next is the blackboard right after the searches, and only then.
LEMMA SearchesNext ==
  ASSUME NEW node \in WorkflowNode, NEW status, NEW recoveries,
         NEW o \in Outcomes(node, status, recoveries)
  PROVE  o.next = "populate_candidate_blackboard" <=> node = "execute_searches"
<1>1. CASE node \in DOMAIN Follows
  BY <1>1 DEF Outcomes, Goes, Follows, WorkflowNode
<1>2. CASE node = "generate_queries"
  BY <1>2 DEF Outcomes, Goes, Follows, WorkflowNode
<1>3. CASE node = "semantic_validator"
  BY <1>3 DEF Outcomes, Goes, Follows, WorkflowNode
<1>4. CASE node = "apply_recovery"
  BY <1>4 DEF Outcomes, Goes, Follows, WorkflowNode, RecoveryRoute
<1>5. CASE node = "final_review"
  BY <1>5 DEF Outcomes, Goes, Follows, WorkflowNode
<1>6. CASE node = "present_to_user"
  BY <1>6 DEF Outcomes, Goes, Follows, WorkflowNode
<1>7. CASE node = "wait_confirmation"
  BY <1>7 DEF Outcomes, Goes, Follows, WorkflowNode
<1> QED
  BY <1>1, <1>2, <1>3, <1>4, <1>5, <1>6, <1>7 DEF WorkflowNode

LEMMA NextVisit ==
  ASSUME NEW s, NEW t \in NextStreams(s)
  PROVE  \E o \in Outcomes(s.at, s.status, s.recoveries), m \in BOOLEAN :
           /\ t.at = o.next /\ t.status = o.status
           /\ t.visits = Append(s.visits, [node |-> s.at, more |-> m])
<1> DEFINE plans == IF s.at \in {"logical_planner_agent", "present_to_user"}
                    THEN BOOLEAN ELSE {FALSE}
           After(o, m) ==
             [ at |-> o.next, status |-> o.status,
               recoveries |-> IF s.at = "apply_recovery"
                              THEN s.recoveries + 1 ELSE s.recoveries,
               visits |-> Append(s.visits, [node |-> s.at, more |-> m]) ]
           Ways == Outcomes(s.at, s.status, s.recoveries)
<1>1. NextStreams(s) = UNION {{After(o, m) : m \in plans} : o \in Ways}
  BY DEF NextStreams
<1>2. PICK o \in Ways, m \in plans : t = After(o, m)
  <2> HIDE DEF After, plans, Ways
  <2> QED
    BY <1>1
<1>3. m \in BOOLEAN
  OBVIOUS
<1> QED
  BY <1>2, <1>3

LEMMA WatchedFirst == Watched(NewStream)
<1>0. Len(<<>>) = 0 /\ <<>> \in Seq(Visit) /\ <<>> \in Seq(WorkflowNode)
  OBVIOUS
<1>1. Nodes(<<>>) = <<>> /\ <<>> \in Seq(Visit)
  <2> DEFINE z == Nodes(<<>>)
  <2>1. z \in [1 .. 0 -> WorkflowNode]
    BY DEF Nodes
  <2> HIDE DEF z
  <2>2. z \in Seq(WorkflowNode) /\ Len(z) = 0
    BY <2>1
  <2>3. z = <<>>
    BY <2>2
  <2> QED
    BY <1>0, <2>3 DEF z
<1>2. StageHistory(<<>>) = <<>>
  <2>1. PICK g \in [0 .. 0 -> Seq(Public)] :
          g[0] = <<>> /\ StageHistory(<<>>) = g[0]
    BY <1>0, StageFold
  <2> QED
    BY <2>1
<1>3. Sent(<<>>) = <<>>
  <2>1. PICK g : g[0] = <<>> /\ Sent(<<>>) = g[0]
    BY <1>0, SentFold
  <2> QED
    BY <2>1
<1>4. Upto(0) = <<>>
  BY DEF Upto
<1>5. \A x : ~ Contains(<<>>, x)
  BY DEF Contains
<1>6. VisitedWell(<<>>, 0)
  BY <1>2, <1>4, <1>5 DEF VisitedWell
<1>7. SentWell(<<>>, 0, 0)
  BY DEF SentWell, Advances
<1>8. /\ NewStream.visits = <<>> /\ NewStream.at = "initialize"
      /\ NewStream.status = "running"
  BY DEF NewStream
<1>9. /\ "initialize" \in DOMAIN Reached /\ 0 \in Reached["initialize"]
      /\ ShownOf("initialize", 0) = 0
  BY DEF Reached, ShownOf
<1> HIDE DEF Reached
<1> QED
  BY <1>1, <1>3, <1>6, <1>7, <1>8, <1>9 DEF Watched

LEMMA WatchedStep ==
  ASSUME NEW s, Watched(s), s.at \in WorkflowNode, NEW t \in NextStreams(s)
  PROVE  Watched(t)
<1>1. PICK o \in Outcomes(s.at, s.status, s.recoveries), m \in BOOLEAN :
        /\ t.at = o.next /\ t.status = o.status
        /\ t.visits = Append(s.visits, [node |-> s.at, more |-> m])
  BY NextVisit
<1> PICK node \in WorkflowNode : node = s.at
  OBVIOUS
<1> PICK visits \in Seq(Visit) : visits = s.visits
  BY DEF Watched
<1>2. node # "end" /\ s.status \in {"running", "failed"}
  <2>1. s.at # "end"
    BY DEF WorkflowNode, Follows
  <2> QED
    BY <2>1 DEF Watched
<1>3. PICK k \in Reached[node] : /\ VisitedWell(Nodes(visits), k)
                                 /\ SentWell(Sent(visits), k, ShownOf(node, k))
  BY DEF Watched
<1> DEFINE v == [node |-> node, more |-> m]
           more == Append(visits, v)
           c == Climbed(node, k)
<1>4. /\ v \in Visit /\ v.node = node /\ t.visits = more /\ more \in Seq(Visit)
  BY <1>1 DEF Visit
<1>5. /\ Nodes(visits) \in Seq(WorkflowNode)
      /\ Nodes(more) = Append(Nodes(visits), node)
      /\ PlansTold(more) \in Nat
  BY <1>4, NodesOf
<1> PICK nodes \in Seq(WorkflowNode) : nodes = Nodes(visits)
  BY <1>5
<1>6. /\ VisitedWell(Append(nodes, node), c)
      /\ c \in 1 .. 9
      /\ Last(Append(nodes, node)) = node
      /\ node = "execute_searches" => k \in {2, 8}
      /\ c >= 5 => k >= 4
      /\ k <= c
  BY <1>3, VisitedStep
<1>7. /\ node = "execute_searches" => c >= 4
      /\ node # "execute_searches" => (c >= 4 => k >= 4)
  BY DEF WorkflowNode, Follows, Reached, Climbed, StandsAt
<1>8. /\ o.next \in DOMAIN Reached /\ c \in Reached[o.next]
      /\ o.next # "end" => o.status \in {"running", "failed"}
      /\ o.next = "end" =>
           /\ o.status \in {"awaiting_clarification", "awaiting_confirmation",
                            "failed"}
           /\ o.status = "awaiting_confirmation" => c = 9
  BY <1>2, OutcomeClimbs
<1>9. ShownOf(o.next, c) = IF node = "execute_searches" THEN 4 ELSE c
  BY SearchesNext DEF ShownOf
<1> HIDE DEF v, more, c
<1>10. /\ VisitedWell(Nodes(more), c) /\ Last(Nodes(more)) = node
  BY <1>5, <1>6
<1>11. /\ Reported(more) \in Seq(Snap)
       /\ IF node = "execute_searches"
          THEN /\ Len(Reported(more)) = 2
               /\ Reported(more)[1].stages = Upto(3)
               /\ Reported(more)[2].stages = Upto(4)
          ELSE /\ Len(Reported(more)) = 1
               /\ Reported(more)[1].stages = Upto(c)
  <2>1. /\ StageHistory(Nodes(more)) = Upto(c)
        /\ c = 9 <=> Contains(Nodes(more), "wait_confirmation")
    BY <1>10 DEF VisitedWell
  <2>2. Last(Nodes(more)) = "execute_searches" => c >= 4
    BY <1>7, <1>10
  <2> QED
    BY <1>5, <1>6, <1>10, <2>1, <2>2, ReportedIs
<1>12. Sent(more) = SendAll(Sent(visits), Reported(more))
  BY <1>4, SentAppend DEF more
<1>13. SentWell(Sent(more), c, IF node = "execute_searches" THEN 4 ELSE c)
  <2>1. /\ SentWell(Sent(visits), k, ShownOf(node, k)) /\ k <= c
        /\ c >= 5 => k >= 4
        /\ node = "execute_searches" => k \in {2, 8} /\ c >= 4
        /\ node # "execute_searches" => (c >= 4 => k >= 4)
    BY <1>3, <1>6, <1>7
  <2> PICK new \in Seq(Snap) : new = Reported(more)
    BY <1>11
  <2> PICK sent : sent = Sent(visits)
    OBVIOUS
  <2>2. SentWell(SendAll(sent, new), c, IF node = "execute_searches" THEN 4 ELSE c)
    BY <1>6, <1>11, <2>1, SentStep
  <2> QED
    BY <1>12, <2>2
<1>14. SentWell(Sent(more), c, ShownOf(o.next, c))
  BY <1>9, <1>13
<1> QED
  BY <1>1, <1>4, <1>8, <1>10, <1>14 DEF Watched

----------------------------------------------------------------------------
(* What clients are shown on the way *)

\* Every stream is well, and is at its end once its run is written down,
\* with the status of the run.
WatchInv ==
  /\ \A r \in Request : Watched(stream[r])
  /\ \A r \in Request : kind[r] = "stream" /\ Writing(r) =>
       stream[r].at = "end" /\ row[r].status = stream[r].status

LEMMA WatchNode ==
  ASSUME IInv, WatchInv, NEW r \in Request, StreamNode(r)
  PROVE  WatchInv'
<1> USE DEF IInv, GoTo, stored, history
<1>1. /\ stage[r] = "planning" /\ kind[r] = "stream"
      /\ UNCHANGED <<kind, about, loaded, pick, own, answer>>
  BY DEF StreamNode
<1>2. PICK s \in NextStreams(stream[r]) :
        /\ stream' = [stream EXCEPT ![r] = s]
        /\ IF s.at = "end"
           THEN /\ Planned(r, s.status,
                           Contains(Nodes(s.visits), "wait_confirmation"))
                /\ GoTo(r, "appending")
           ELSE UNCHANGED <<row, stage>>
  BY DEF StreamNode
<1>3. Watched(s)
  <2>1. Watched(stream[r]) /\ stream[r].at \in WorkflowNode
    BY <1>1 DEF WatchInv, StreamOK
  <2> PICK z : z = stream[r]
    OBVIOUS
  <2> QED
    BY <1>2, <2>1, WatchedStep
<1>4. stream'[r] = s /\ \A q \in Request \ {r} : stream'[q] = stream[q]
  BY <1>2 DEF StreamOK
<1>5. \A q \in Request : Watched(stream'[q])
  BY <1>3, <1>4 DEF WatchInv
<1>6. ASSUME NEW q \in Request, kind'[q] = "stream", Writing(q)'
      PROVE  stream'[q].at = "end" /\ row'[q].status = stream'[q].status
  <2>1. CASE q # r
    <3>1. stage'[q] = stage[q] /\ row'[q] = row[q] /\ kind'[q] = kind[q]
      BY <1>1, <1>2, <2>1 DEF Planned, TypeOK
    <3>2. Writing(q) /\ kind[q] = "stream"
      BY <1>6, <3>1 DEF Writing, Decides
    <3> QED
      BY <1>4, <2>1, <3>1, <3>2 DEF WatchInv
  <2>2. CASE q = r /\ s.at = "end"
    <3>1. row' = [row EXCEPT ![r] = [row[r] EXCEPT !.status = s.status,
                    !.presented = Contains(Nodes(s.visits), "wait_confirmation")]]
      BY <1>2, <2>2 DEF Planned, TypeOK
    <3>2. row[r] \in Row /\ row \in [Request -> Row]
      BY DEF TypeOK
    <3>3. row'[r].status = s.status
      BY <3>1, <3>2 DEF Row
    <3> QED
      BY <1>4, <2>2, <3>3
  <2>3. CASE q = r /\ s.at # "end"
    <3>1. stage'[r] = "planning"
      BY <1>1, <1>2, <2>3
    <3> QED
      BY <1>6, <2>3, <3>1 DEF Writing
  <2> QED
    BY <2>1, <2>2, <2>3
<1> QED
  BY <1>5, <1>6 DEF WatchInv, Writing, Decides

LEMMA WatchQuiet ==
  ASSUME IInv, WatchInv, NEW r \in Request, NEW k \in Kind, NEW u \in Request,
         \/ OpenBegin(r, k) \/ OpenFollowUp(r, k, u) \/ OpenDecide(r, k, u)
         \/ Refuse(r, k, u) \/ Repeat(r, u) \/ RunWorkflow(r)
         \/ PickIndex(r) \/ InsertTurn(r) \/ Describe(r) \/ ReadStatus(r)
         \/ ReadHistory(r) \/ WriteDecision(r) \/ Closes(r) \/ Commit(r)
  PROVE  WatchInv'
<1> USE DEF IInv, TypeOK, GoTo, stored, session, history
<1>1. /\ \A q \in Request \ {r} :
           /\ stage'[q] = stage[q] /\ row'[q] = row[q] /\ kind'[q] = kind[q]
           /\ stream'[q] = stream[q]
      /\ stream'[r] = stream[r] \/ stream'[r] = NewStream
      /\ kind'[r] = "stream" /\ Writing(r)' =>
           /\ kind[r] = "stream" /\ Writing(r)
           /\ row'[r] = row[r] /\ stream'[r] = stream[r]
  <2> USE DEF Writing, Decides, StreamOK
  <2>1. CASE \/ OpenBegin(r, k) \/ OpenFollowUp(r, k, u) \/ OpenDecide(r, k, u)
             \/ Refuse(r, k, u) \/ Repeat(r, u)
    BY <2>1 DEF OpenBegin, OpenFollowUp, OpenDecide, OpenSame, Refuse, Repeat, Ask,
       Begin, FollowUp, Decide
  <2>2. CASE RunWorkflow(r)
    BY <2>2 DEF RunWorkflow, Planned
  <2>3. CASE PickIndex(r) \/ InsertTurn(r) \/ Describe(r)
    BY <2>3 DEF PickIndex, InsertTurn, Describe
  <2>4. CASE WriteDecision(r)
    <3>1. kind[r] = "confirm" \/ kind[r] = "decline"
      BY <2>4 DEF WriteDecision, RowsInv, Deciding
    <3> QED
      BY <2>4, <3>1 DEF WriteDecision
  <2>7. CASE ReadStatus(r) \/ ReadHistory(r)
    BY <2>7 DEF ReadStatus, ReadHistory
  <2>5. CASE Closes(r)
    BY <2>5 DEF Closes, End, Busy
  <2>6. CASE Commit(r)
    BY <2>6 DEF Commit
  <2> QED
    BY <2>1, <2>2, <2>3, <2>4, <2>5, <2>6, <2>7
<1>2. \A q \in Request : Watched(stream'[q])
  BY <1>1, WatchedFirst DEF WatchInv
<1>3. \A q \in Request : kind'[q] = "stream" /\ Writing(q)' =>
        stream'[q].at = "end" /\ row'[q].status = stream'[q].status
  <2> TAKE q \in Request
  <2> HAVE kind'[q] = "stream" /\ Writing(q)'
  <2>1. /\ kind[q] = "stream" /\ Writing(q)
        /\ row'[q] = row[q] /\ stream'[q] = stream[q]
    <3>1. CASE q = r
      BY <1>1, <3>1
    <3>2. CASE q # r
      BY <1>1, <3>2 DEF Writing, Decides
    <3> QED
      BY <3>1, <3>2
  <2> QED
    BY <2>1 DEF WatchInv
<1> QED
  BY <1>2, <1>3 DEF WatchInv, Writing, Decides

LEMMA WatchStep ==
  ASSUME IInv, WatchInv, [Next]_vars
  PROVE  WatchInv'
<1>1. CASE UNCHANGED vars
  BY <1>1 DEF WatchInv, vars, stored, session, history, Writing, Decides
<1>2. ASSUME NEW r \in Request,
             \/ \E k \in Kind : Open(r, k) \/ \E u \in Request : Refuse(r, k, u)
             \/ \E u \in Request : Repeat(r, u)
             \/ Progress(r) \/ Raise(r)
      PROVE  WatchInv'
  <2>1. Kind # {}
    BY DEF Kind
  <2> QED
    BY <1>2, <2>1, StepForms, WatchNode, WatchQuiet
<1> QED
  BY <1>1, <1>2 DEF Next

LEMMA WatchInvariance == Spec => []WatchInv
<1>1. Init => WatchInv
  BY WatchedFirst DEF Init, WatchInv, Writing
<1>2. IInv /\ WatchInv /\ [Next]_vars => WatchInv'
  BY WatchStep
<1> QED
  BY Invariance, <1>1, <1>2, PTL DEF Spec

\* A stream never takes back what it has shown, but for a search that is
\* repeated, shows both searches before anything that follows from them, and
\* never an execution, whatever path a workflow takes through its nodes
\* (progress.py:176-197).
THEOREM StreamsAdvance == Spec => []StreamAdvances
<1>1. WatchInv => StreamAdvances
  <2> SUFFICES ASSUME WatchInv, NEW r \in Request
               PROVE  Advances(Sent(stream[r].visits))
    BY DEF StreamAdvances, Advances
  <2>1. Watched(stream[r])
    BY DEF WatchInv
  <2> QED
    BY <2>1 DEF Watched, SentWell
<1> QED
  BY WatchInvariance, <1>1, PTL

\* The last progress event of a stream, made from the workflow's state
\* (progress.py:136-150), agrees with the snapshot that is made from the
\* row of its run once that is stored (progress.py:78-101).
THEOREM StreamsAgree == Spec => []StreamAgrees
<1>1. IInv /\ WatchInv => StreamAgrees
  <2> SUFFICES ASSUME IInv, WatchInv, NEW r \in Request, kind[r] = "stream",
                      stage[r] \in {"appending", "inserting", "committing"}
               PROVE  Last(Sent(stream[r].visits)).stages =
                        Snapshot(row[r].status, Nodes(stream[r].visits), FALSE, 0).stages
    BY DEF StreamAgrees
  <2>1. Writing(r)
    BY DEF Writing, Decides
  <2>2. /\ Watched(stream[r]) /\ stream[r].at = "end"
        /\ row[r].status = stream[r].status
    BY <2>1 DEF WatchInv
  <2> PICK nodes : nodes = Nodes(stream[r].visits)
    OBVIOUS
  <2> PICK status : status = row[r].status
    OBVIOUS
  <2> PICK sent : sent = Sent(stream[r].visits)
    OBVIOUS
  <2>3. PICK k \in Reached["end"] :
          /\ VisitedWell(nodes, k) /\ SentWell(sent, k, k)
          /\ status \in {"awaiting_clarification", "awaiting_confirmation",
                         "failed"}
          /\ status = "awaiting_confirmation" => k = 9
    BY <2>2 DEF Watched, ShownOf
  <2>4. k \in {2, 8, 9}
    BY <2>3 DEF Reached
  <2>5. StageHistory(nodes) = Upto(k) /\ (k = 9 <=> Contains(nodes, "wait_confirmation"))
    BY <2>3 DEF VisitedWell
  <2>6. Last(sent).stages = Upto(k)
    BY <2>3, <2>4 DEF SentWell
  <2>7. k \in 0 .. 9 /\ k \in 1 .. 9 /\ k > 0 /\ k <= k + 1
        /\ (IF k > k THEN k ELSE k) = k
    BY <2>4
  <2>8. Last(Upto(k)) = Full[k]
    BY <2>7, UptoIs
  <2>9. CurrentStage(status, nodes, FALSE) = Full[k]
    <3>1. Full[9] = "ready_for_confirmation"
      BY DEF Full
    <3> QED
      BY <2>3, <2>5, <2>8, <3>1 DEF CurrentStage, ExecutedStatus
  <2>10. AppendUnique(Upto(k), Full[k]) = Upto(k)
    BY <2>7, UptoGrows
  <2>11. Snapshot(status, nodes, FALSE, 0).stages = Upto(k)
    BY <2>5, <2>9, <2>10 DEF Snapshot
  <2> QED
    BY <2>6, <2>11
<1> QED
  BY Invariance, WatchInvariance, <1>1, PTL

----------------------------------------------------------------------------
(* What is shown of decisions *)

Confirmed(list) == \E d \in Request : kind[d] = "confirm" /\ Contains(list, d)

ConfirmStored(u) == \E d \in Request : kind[d] = "confirm" /\ Decided(d, u)

\* A history names decisions on its run that have been stored and, while it
\* is about to be stored, the one that is being made; and a status that
\* tells of an execution has come from a confirm.
ShownInv ==
  /\ \A u, d \in Request : Contains(rows[u].steps, d) => Decided(d, u)
  /\ \A u \in Request : rows[u].status \in ExecutedStatus => ConfirmStored(u)
  /\ \A q, d \in Request : Copying(q) /\ Contains(loaded[q], d) =>
       Decided(d, about[q])
  /\ \A q, d \in Request :
       stage[q] = "committing" /\ Decides(q) /\ Contains(row[q].steps, d) =>
         d = q \/ Decided(d, about[q])
  /\ \A q \in Request :
       stage[q] = "committing" /\ Decides(q) /\ row[q].status \in ExecutedStatus =>
         kind[q] = "confirm" \/ ConfirmStored(about[q])

\* A history without a confirm is that of a run that has none, or each of its
\* confirms has been hidden by a decline, or will be by the one that is made.
HiddenInv ==
  /\ \A u, c \in Request : kind[c] = "confirm" /\ Decided(c, u) =>
       Confirmed(rows[u].steps) \/ Hidden(c, u)
  /\ \A q, c \in Request :
       stage[q] = "rewriting" /\ kind[c] = "confirm" /\ Decided(c, about[q]) =>
         Confirmed(loaded[q]) \/ Hidden(c, about[q]) \/ CanMiss(q, c)
  /\ \A q, c \in Request :
       stage[q] = "committing" /\ Decides(q) /\ kind[c] = "confirm"
       /\ Decided(c, about[q]) =>
         Confirmed(row[q].steps) \/ Hidden(c, about[q]) \/ CanMiss(q, c)

LEMMA ShownUncommitted ==
  ASSUME IInv, OverInv, ShownInv,
         NEW r \in Request, NEW k \in Kind, NEW u \in Request,
         \/ OpenBegin(r, k) \/ OpenFollowUp(r, k, u) \/ OpenDecide(r, k, u)
         \/ Refuse(r, k, u) \/ Repeat(r, u) \/ RunWorkflow(r) \/ StreamNode(r)
         \/ PickIndex(r) \/ InsertTurn(r) \/ Describe(r) \/ ReadStatus(r)
         \/ ReadHistory(r) \/ WriteDecision(r) \/ Closes(r)
  PROVE  ShownInv'
<1> USE DEF IInv
<1>1. /\ UNCHANGED <<rows, turns, done, clock>>
      /\ \A q \in Request \ {r} :
           /\ kind'[q] = kind[q] /\ about'[q] = about[q] /\ opened'[q] = opened[q]
           /\ stage'[q] = stage[q] /\ row'[q] = row[q] /\ loaded'[q] = loaded[q]
  BY UncommittedStep
<1>2. Past
  BY PastUncommitted
<1>3. \A d, v : d \in Request /\ Decided(d, v) => Decided(d, v)' /\ kind'[d] = kind[d]
  BY <1>2 DEF Past, Decided, Decides
<1>4. \A v, d \in Request : Contains(rows'[v].steps, d) => Decided(d, v)'
  BY <1>1, <1>3 DEF ShownInv
<1>5. ASSUME NEW v, ConfirmStored(v) PROVE ConfirmStored(v)'
  BY <1>3, <1>5 DEF ConfirmStored
<1>6. ASSUME NEW q \in Request, NEW d \in Request, NEW v, v = about'[q],
             Copying(q)', Contains(loaded'[q], d)
      PROVE  Decided(d, v)'
  <2>1. CASE q # r
    BY <1>1, <1>3, <1>6, <2>1 DEF ShownInv, Copying
  <2>2. CASE q = r
    <3>1. Copying(r)'
      BY <1>6, <2>2 DEF Copying
    <3>2. v \in Request /\ loaded'[r] = rows[v].steps
      BY <1>6, <2>2, <3>1, CopyTaken
    <3> QED
      BY <1>1, <1>4, <1>6, <2>2, <3>2
  <2> QED
    BY <2>1, <2>2
<1>7. ASSUME stage'[r] = "committing", Decides(r)'
      PROVE  /\ WriteDecision(r) /\ about[r] \in Request
             /\ about'[r] = about[r] /\ kind'[r] = kind[r]
             /\ rows[about[r]].steps \in Seq(Request) /\ loaded[r] \in Seq(Request)
  BY <1>7, Deciders
<1>8. ASSUME NEW q \in Request, NEW d \in Request, NEW v, v = about'[q],
             stage'[q] = "committing", Decides(q)', Contains(row'[q].steps, d)
      PROVE  d = q \/ Decided(d, v)'
  <2>1. CASE q # r
    BY <1>1, <1>3, <1>8, <2>1 DEF ShownInv, Decides
  <2>2. CASE q = r
    <3>1. /\ WriteDecision(r) /\ v = about[r] /\ v \in Request
          /\ rows[v].steps \in Seq(Request) /\ loaded[r] \in Seq(Request)
      BY <1>7, <1>8, <2>2 DEF Decides
    <3>2. CASE Copying(r) /\ row'[r].steps = Append(loaded[r], r)
      <4>1. Contains(loaded[r], d) \/ d = r
        BY <1>8, <2>2, <3>1, <3>2, ListContains
      <4>2. Contains(loaded[r], d) => Decided(d, v)
        BY <3>1, <3>2 DEF ShownInv
      <4> QED
        BY <1>3, <2>2, <4>1, <4>2
    <3>3. CASE row'[r].steps = Append(rows[about[r]].steps, r)
      <4>1. Contains(rows[v].steps, d) \/ d = r
        BY <1>8, <2>2, <3>1, <3>3, ListContains
      <4>2. Contains(rows[v].steps, d) => Decided(d, v)
        BY <3>1 DEF ShownInv
      <4> QED
        BY <1>3, <2>2, <4>1, <4>2
    <3> QED
      BY <3>1, <3>2, <3>3, DecisionIs DEF Copying
  <2> QED
    BY <2>1, <2>2
<1>9. ASSUME NEW q \in Request, NEW v, v = about'[q],
             stage'[q] = "committing", Decides(q)', row'[q].status \in ExecutedStatus
      PROVE  kind'[q] = "confirm" \/ ConfirmStored(v)'
  <2>1. CASE q # r
    <3>1. kind[q] = "confirm" \/ ConfirmStored(v)
      BY <1>1, <1>9, <2>1 DEF ShownInv, Decides
    <3> QED
      BY <1>1, <1>5, <2>1, <3>1
  <2>2. CASE q = r
    <3>1. WriteDecision(r) /\ v = about[r] /\ v \in Request /\ kind'[r] = kind[r]
      BY <1>7, <1>9, <2>2 DEF Decides
    <3>2. kind[r] = "confirm" \/ row'[r].status \in {"declined", rows[v].status}
      BY <3>1, DecisionIs
    <3>3. rows[v].status \in ExecutedStatus => ConfirmStored(v)
      BY <3>1 DEF ShownInv
    <3> QED
      BY <1>5, <1>9, <2>2, <3>1, <3>2, <3>3 DEF ExecutedStatus
  <2> QED
    BY <2>1, <2>2
<1>11. \A q, d \in Request : Copying(q)' /\ Contains(loaded'[q], d) =>
         Decided(d, about[q])'
  BY <1>6 DEF Decided, Decides
<1>12. \A q, d \in Request :
         stage'[q] = "committing" /\ Decides(q)' /\ Contains(row'[q].steps, d) =>
           d = q \/ Decided(d, about[q])'
  BY <1>8 DEF Decided, Decides
<1>13. \A v \in Request : rows'[v].status \in ExecutedStatus => ConfirmStored(v)'
  BY <1>1, <1>5 DEF ShownInv
<1>14. \A q \in Request :
         stage'[q] = "committing" /\ Decides(q)' /\ row'[q].status \in ExecutedStatus =>
           kind'[q] = "confirm" \/ ConfirmStored(about[q])'
  <2> SUFFICES ASSUME NEW q \in Request, stage'[q] = "committing", Decides(q)',
                      row'[q].status \in ExecutedStatus
               PROVE  kind'[q] = "confirm" \/ ConfirmStored(about[q])'
    OBVIOUS
  <2> PICK v : v = about'[q]
    OBVIOUS
  <2>1. kind'[q] = "confirm" \/ ConfirmStored(v)'
    BY <1>9
  <2> QED
    BY <2>1 DEF ConfirmStored, Decided
<1> QED
  BY <1>4, <1>11, <1>12, <1>13, <1>14, Zenon DEF ShownInv

LEMMA ShownCommit ==
  ASSUME IInv, OverInv, StatusInv, ShownInv, NEW r \in Request, Commit(r)
  PROVE  ShownInv'
<1> USE DEF IInv, TypeOK
<1>1. /\ UNCHANGED <<kind, about, row, opened, loaded>>
      /\ stage[r] = "committing" /\ stage' = [stage EXCEPT ![r] = "answering"]
      /\ Past /\ done[r] = 0 /\ done'[r] > 0
  BY CommitTimes
<1>2. \A d, v : d \in Request /\ Decided(d, v) => Decided(d, v)'
  BY <1>1 DEF Past, Decided, Decides
<1>3. \A v : ConfirmStored(v) => ConfirmStored(v)'
  BY <1>1, <1>2 DEF ConfirmStored
<1>4. ASSUME NEW v, Decides(r), about[r] = v PROVE Decided(r, v)'
  BY <1>1, <1>4 DEF Decided, Decides
<1>5. \A v \in Request : v = RunOf(r) /\ ~ Decides(r) =>
        /\ rows'[v] = row[r]
        /\ row[r].steps = <<>> /\ row[r].status \in PlannedStatus
  <2>1. ~ Decides(r) => row[r].steps = <<>> /\ row[r].status \in PlannedStatus
    BY <1>1 DEF StatusInv, Plans, Writing
  <2> QED
    BY <2>1, CommitRows
<1>6. \A v \in Request : v # RunOf(r) => rows'[v] = rows[v]
  <2>1. rows' = [rows EXCEPT ![RunOf(r)] = row[r]]
    BY CommitRows
  <2> QED
    BY <2>1
<1>7. ASSUME NEW v \in Request, NEW d \in Request, Contains(rows'[v].steps, d)
      PROVE  Decided(d, v)'
  <2>1. CASE v # RunOf(r)
    <3>1. rows'[v] = rows[v]
      BY <1>6, <2>1
    <3>2. Contains(rows[v].steps, d)
      BY <1>7, <3>1
    <3>3. Decided(d, v)
      BY <3>2 DEF ShownInv
    <3> QED
      BY <1>2, <3>3
  <2>2. CASE v = RunOf(r) /\ Decides(r)
    <3>1. rows'[v] = row[r] /\ v = about[r]
      BY <2>2, CommitRows
    <3> QED
      BY <1>1, <1>2, <1>4, <1>7, <2>2, <3>1 DEF ShownInv
  <2>3. CASE v = RunOf(r) /\ ~ Decides(r)
    <3>1. ~ Contains(<<>>, d)
      BY DEF Contains
    <3> QED
      BY <1>5, <1>7, <2>3, <3>1
  <2> QED
    BY <2>1, <2>2, <2>3
<1>8. ASSUME NEW v \in Request, rows'[v].status \in ExecutedStatus
      PROVE  ConfirmStored(v)'
  <2>1. CASE v # RunOf(r)
    <3>1. rows'[v] = rows[v]
      BY <1>6, <2>1
    <3> QED
      BY <1>3, <1>8, <3>1 DEF ShownInv
  <2>2. CASE v = RunOf(r) /\ Decides(r)
    <3>1. rows'[v] = row[r] /\ v = about[r]
      BY <2>2, CommitRows
    <3>2. kind[r] = "confirm" \/ ConfirmStored(v)
      BY <1>1, <1>8, <2>2, <3>1 DEF ShownInv
    <3>3. kind[r] = "confirm" => ConfirmStored(v)'
      BY <1>1, <1>4, <2>2, <3>1 DEF ConfirmStored
    <3> QED
      BY <1>3, <3>2, <3>3
  <2>3. CASE v = RunOf(r) /\ ~ Decides(r)
    BY <1>5, <1>8, <2>3 DEF PlannedStatus, ExecutedStatus
  <2> QED
    BY <2>1, <2>2, <2>3
<1>9. ASSUME NEW q \in Request, NEW v, v = about'[q]
      PROVE  /\ v = about[q] /\ (Decides(q)' <=> Decides(q))
             /\ Copying(q)' => Copying(q)
             /\ stage'[q] = "committing" => stage[q] = "committing"
  BY <1>1, <1>9 DEF Decides, Copying
<1>10. ASSUME NEW q \in Request, NEW d \in Request, NEW v, v = about'[q],
             Copying(q)', Contains(loaded'[q], d)
      PROVE  Decided(d, v)'
  BY <1>1, <1>2, <1>9, <1>10 DEF ShownInv
<1>11. ASSUME NEW q \in Request, NEW d \in Request, NEW v, v = about'[q],
              stage'[q] = "committing", Decides(q)', Contains(row'[q].steps, d)
       PROVE  d = q \/ Decided(d, v)'
  BY <1>1, <1>2, <1>9, <1>11 DEF ShownInv
<1>12. ASSUME NEW q \in Request, NEW v, v = about'[q],
              stage'[q] = "committing", Decides(q)', row'[q].status \in ExecutedStatus
       PROVE  kind'[q] = "confirm" \/ ConfirmStored(v)'
  BY <1>1, <1>3, <1>9, <1>12 DEF ShownInv
<1>13. \A v, d \in Request : Contains(rows'[v].steps, d) => Decided(d, v)'
  BY <1>7
<1>14. \A v \in Request : rows'[v].status \in ExecutedStatus => ConfirmStored(v)'
  BY <1>8
<1>15. \A q, d \in Request : Copying(q)' /\ Contains(loaded'[q], d) =>
         Decided(d, about[q])'
  BY <1>10 DEF Decided, Decides
<1>16. \A q, d \in Request :
         stage'[q] = "committing" /\ Decides(q)' /\ Contains(row'[q].steps, d) =>
           d = q \/ Decided(d, about[q])'
  BY <1>11 DEF Decided, Decides
<1>17. \A q \in Request :
         stage'[q] = "committing" /\ Decides(q)' /\ row'[q].status \in ExecutedStatus =>
           kind'[q] = "confirm" \/ ConfirmStored(about[q])'
  <2> SUFFICES ASSUME NEW q \in Request, stage'[q] = "committing", Decides(q)',
                      row'[q].status \in ExecutedStatus
               PROVE  kind'[q] = "confirm" \/ ConfirmStored(about[q])'
    OBVIOUS
  <2> PICK v : v = about'[q]
    OBVIOUS
  <2>1. kind'[q] = "confirm" \/ ConfirmStored(v)'
    BY <1>12
  <2> QED
    BY <2>1 DEF ConfirmStored, Decided
<1> QED
  BY <1>13, <1>14, <1>15, <1>16, <1>17, Zenon DEF ShownInv

LEMMA HiddenUncommitted ==
  ASSUME IInv, OverInv, ShownInv, HiddenInv,
         NEW r \in Request, NEW k \in Kind, NEW u \in Request,
         \/ OpenBegin(r, k) \/ OpenFollowUp(r, k, u) \/ OpenDecide(r, k, u)
         \/ Refuse(r, k, u) \/ Repeat(r, u) \/ RunWorkflow(r) \/ StreamNode(r)
         \/ PickIndex(r) \/ InsertTurn(r) \/ Describe(r) \/ ReadStatus(r)
         \/ ReadHistory(r) \/ WriteDecision(r) \/ Closes(r)
  PROVE  HiddenInv'
<1> USE DEF IInv
<1>1. /\ UNCHANGED <<rows, turns, done, clock>>
      /\ \A q \in Request \ {r} :
           /\ kind'[q] = kind[q] /\ about'[q] = about[q] /\ opened'[q] = opened[q]
           /\ stage'[q] = stage[q] /\ row'[q] = row[q] /\ loaded'[q] = loaded[q]
  BY UncommittedStep
<1>2. Past
  BY PastUncommitted
<1>3. ASSUME NEW c \in Request, NEW v, kind'[c] = "confirm", Decided(c, v)'
      PROVE  /\ kind[c] = "confirm" /\ Decided(c, v) /\ done[c] > 0
             /\ Hidden(c, v) => Hidden(c, v)'
             /\ \A q \in Request \ {r} : CanMiss(q, c) => CanMiss(q, c)'
  <2>1. done[c] > 0 /\ kind[c] = "confirm" /\ Decided(c, v)
    BY <1>1, <1>2, <1>3 DEF Past, Decided, Decides
  <2> QED
    BY <1>1, <1>2, <2>1, PastKept
\* A history that names a confirm goes on to do so.
<1>4. ASSUME NEW v, NEW list, Confirmed(list),
             \A d \in Request : Contains(list, d) => Decided(d, v)
      PROVE  Confirmed(list)'
  <2>1. PICK d \in Request : kind[d] = "confirm" /\ Contains(list, d)
    BY <1>4 DEF Confirmed
  <2>2. kind'[d] = "confirm"
    BY <1>2, <1>4, <2>1 DEF Past, Decided
  <2> QED
    BY <2>1, <2>2 DEF Confirmed
<1>5. ASSUME NEW v \in Request, NEW c \in Request, kind'[c] = "confirm", Decided(c, v)'
      PROVE  Confirmed(rows[v].steps)' \/ Hidden(c, v)'
  <2> PICK list : list = rows[v].steps
    OBVIOUS
  <2>1. Confirmed(list) \/ Hidden(c, v)
    BY <1>3, <1>5 DEF HiddenInv
  <2>2. Confirmed(list) => Confirmed(list)'
    BY <1>4 DEF ShownInv
  <2> QED
    BY <1>1, <1>3, <1>5, <2>1, <2>2 DEF Confirmed
<1>6. ASSUME NEW q \in Request, NEW c \in Request, NEW v, v = about'[q],
             stage'[q] = "rewriting", kind'[c] = "confirm", Decided(c, v)'
      PROVE  Confirmed(loaded[q])' \/ Hidden(c, v)' \/ CanMiss(q, c)'
  <2>1. CASE q # r
    <3>1. stage[q] = "rewriting" /\ v = about[q] /\ loaded'[q] = loaded[q]
      BY <1>1, <1>6, <2>1
    <3> PICK list : list = loaded[q]
      OBVIOUS
    <3>2. Confirmed(list) \/ Hidden(c, v) \/ CanMiss(q, c)
      BY <1>3, <1>6, <3>1 DEF HiddenInv
    <3>3. \A d \in Request : Contains(list, d) => Decided(d, v)
      BY <3>1 DEF ShownInv, Copying
    <3>4. Confirmed(list) => Confirmed(list)'
      BY <1>4, <3>3
    <3> QED
      BY <1>3, <1>6, <2>1, <3>1, <3>2, <3>4 DEF Confirmed
  <2>2. CASE q = r
    <3>1. Copying(r)'
      BY <1>6, <2>2 DEF Copying
    <3>2. v \in Request /\ loaded'[r] = rows[v].steps
      BY <1>6, <2>2, <3>1, CopyTaken
    <3>3. Confirmed(rows[v].steps)' \/ Hidden(c, v)'
      BY <1>5, <1>6, <3>2
    <3> QED
      BY <1>1, <2>2, <3>2, <3>3 DEF Confirmed
  <2> QED
    BY <2>1, <2>2
<1>7. ASSUME NEW q \in Request, NEW c \in Request, NEW v, v = about'[q],
             stage'[q] = "committing", Decides(q)', kind'[c] = "confirm",
             Decided(c, v)'
      PROVE  Confirmed(row[q].steps)' \/ Hidden(c, v)' \/ CanMiss(q, c)'
  <2>1. CASE q # r
    <3>1. /\ stage[q] = "committing" /\ Decides(q) /\ v = about[q]
          /\ row'[q] = row[q] /\ kind'[q] = kind[q]
      BY <1>1, <1>7, <2>1 DEF Decides
    <3> PICK list : list = row[q].steps
      OBVIOUS
    <3>2. Confirmed(list) \/ Hidden(c, v) \/ CanMiss(q, c)
      BY <1>3, <1>7, <3>1 DEF HiddenInv
    <3>3. Confirmed(list) => Confirmed(list)'
      <4> SUFFICES ASSUME NEW d \in Request, kind[d] = "confirm", Contains(list, d)
                   PROVE  kind'[d] = "confirm"
        BY DEF Confirmed
      <4>1. d = q \/ Decided(d, v)
        BY <3>1 DEF ShownInv
      <4> QED
        BY <1>2, <3>1, <4>1 DEF Past, Decided
    <3> QED
      BY <1>3, <1>7, <2>1, <3>1, <3>2, <3>3 DEF Confirmed
  <2>2. CASE q = r
    <3>1. stage'[r] = "committing" /\ Decides(r)'
      BY <1>7, <2>2 DEF Decides
    <3>2. /\ WriteDecision(r) /\ v = about[r] /\ v \in Request
          /\ about'[r] = about[r] /\ kind'[r] = kind[r] /\ opened'[r] = opened[r]
          /\ rows[v].steps \in Seq(Request) /\ loaded[r] \in Seq(Request)
      BY <1>7, <2>2, <3>1, Deciders
    <3>3. CASE kind[r] = "confirm"
      <4>1. PICK list \in Seq(Request) : row'[r].steps = Append(list, r)
        BY <3>2, DecisionIs
      <4>2. Contains(row'[r].steps, r)
        BY <4>1, ListContains
      <4> QED
        BY <2>2, <3>2, <3>3, <4>2 DEF Confirmed
    <3>4. CASE row'[r].steps = Append(rows[about[r]].steps, r)
      <4>1. Confirmed(rows[v].steps)' \/ Hidden(c, v)'
        BY <1>5, <1>7, <3>2
      <4>2. \A d \in Request : Contains(rows[v].steps, d) => Contains(row'[r].steps, d)
        BY <3>2, <3>4, ListContains
      <4>3. Confirmed(rows[v].steps)' => Confirmed(row[r].steps)'
        BY <1>1, <4>2 DEF Confirmed
      <4> QED
        BY <2>2, <4>1, <4>3
    <3>5. CASE stage[r] = "rewriting" /\ row'[r].steps = Append(loaded[r], r)
      <4> PICK list \in Seq(Request) : list = loaded[r]
        BY <3>2
      <4>1. Confirmed(list) \/ Hidden(c, v) \/ CanMiss(r, c)
        BY <1>3, <1>7, <3>2, <3>5 DEF HiddenInv
      <4>2. \A d \in Request : Contains(list, d) => Contains(row'[r].steps, d)
        BY <3>5, ListContains
      <4>3. \A d \in Request : Contains(list, d) => Decided(d, v)
        BY <3>2, <3>5 DEF ShownInv, Copying
      <4>4. Confirmed(list) => Confirmed(list)'
        BY <1>4, <4>3
      <4>5. Confirmed(list)' => Confirmed(row[r].steps)'
        BY <4>2 DEF Confirmed
      <4>6. CanMiss(r, c) => CanMiss(r, c)'
        BY <1>2, <1>3, <1>7, <3>2, PastKept
      <4> QED
        BY <1>3, <1>7, <2>2, <4>1, <4>4, <4>5, <4>6
    <3> QED
      BY <3>2, <3>3, <3>4, <3>5, DecisionIs
  <2> QED
    BY <2>1, <2>2
<1>8. \A v, c \in Request : kind'[c] = "confirm" /\ Decided(c, v)' =>
        Confirmed(rows[v].steps)' \/ Hidden(c, v)'
  BY <1>5
<1>9. \A q, c \in Request :
        stage'[q] = "rewriting" /\ kind'[c] = "confirm" /\ Decided(c, about[q])' =>
          Confirmed(loaded[q])' \/ Hidden(c, about[q])' \/ CanMiss(q, c)'
  BY <1>6 DEF Decided, Decides, Hidden
<1>10. \A q, c \in Request :
         stage'[q] = "committing" /\ Decides(q)' /\ kind'[c] = "confirm"
         /\ Decided(c, about[q])' =>
           Confirmed(row[q].steps)' \/ Hidden(c, about[q])' \/ CanMiss(q, c)'
  BY <1>7 DEF Decided, Decides, Hidden
<1> QED
  BY <1>8, <1>9, <1>10, Zenon DEF HiddenInv

LEMMA HiddenCommit ==
  ASSUME IInv, HistoryInv, HiddenInv, NEW r \in Request, Commit(r)
  PROVE  HiddenInv'
<1> USE DEF IInv, TypeOK
<1>1. /\ UNCHANGED <<kind, about, row, opened, loaded>>
      /\ stage[r] = "committing" /\ stage' = [stage EXCEPT ![r] = "answering"]
      /\ Past /\ done[r] = 0 /\ done'[r] > 0
      /\ \A q \in Request : q # r => done'[q] = done[q] /\ done[q] < done'[r]
  BY CommitTimes DEF HistoryInv
<1>2. ASSUME NEW c \in Request, NEW v, Decided(c, v)', c # r
      PROVE  /\ Decided(c, v) /\ done[c] > 0
             /\ Hidden(c, v) => Hidden(c, v)'
             /\ \A q \in Request : CanMiss(q, c) => CanMiss(q, c)'
  <2>1. done[c] > 0 /\ Decided(c, v)
    BY <1>1, <1>2 DEF Decided, Decides
  <2> QED
    BY <1>1, <2>1, PastKept
<1>3. \A list : Confirmed(list)' <=> Confirmed(list)
  BY <1>1 DEF Confirmed
<1>4. \A v : Decided(r, v)' => Decides(r) /\ about[r] = v
  BY <1>1 DEF Decided, Decides
<1>5. ASSUME NEW v \in Request, NEW c \in Request, kind'[c] = "confirm", Decided(c, v)'
      PROVE  Confirmed(rows[v].steps)' \/ Hidden(c, v)'
  <2>1. CASE v # RunOf(r)
    <3>1. rows'[v] = rows[v]
      BY <2>1, CommitRows
    <3>2. c # r
      BY <1>4, <1>5, <2>1 DEF RunOf
    <3>3. Confirmed(rows[v].steps) \/ Hidden(c, v)
      BY <1>1, <1>2, <1>5, <3>2 DEF HiddenInv
    <3> QED
      BY <1>1, <1>2, <1>5, <3>1, <3>2, <3>3 DEF Confirmed
  <2>2. CASE v = RunOf(r) /\ Decides(r)
    <3>1. rows'[v] = row[r] /\ v = about[r]
      BY <2>2, CommitRows
    <3>2. CASE kind[r] = "confirm"
      <4>1. Contains(row[r].steps, r)
        BY <1>1, <2>2 DEF HistoryInv, StepsInv
      <4> QED
        BY <1>1, <3>1, <3>2, <4>1 DEF Confirmed
    <3>3. CASE kind[r] = "decline"
      <4>1. c # r
        BY <1>1, <1>5, <3>3
      <4>2. Confirmed(row[r].steps) \/ Hidden(c, v) \/ CanMiss(r, c)
        BY <1>1, <1>2, <1>5, <2>2, <3>1, <4>1 DEF HiddenInv
      <4>3. Confirmed(row[r].steps) => Confirmed(rows[v].steps)'
        BY <1>1, <3>1 DEF Confirmed
      <4>4. ASSUME CanMiss(r, c) PROVE Hidden(c, v)'
        <5>1. Decided(r, v)'
          BY <1>1, <2>2, <3>1 DEF Decided, Decides
        <5>2. done'[c] < done'[r] /\ CanMiss(r, c)'
          BY <1>1, <1>2, <1>5, <4>1, <4>4
        <5> QED
          BY <1>1, <3>3, <5>1, <5>2 DEF Hidden
      <4> QED
        BY <1>2, <1>5, <4>1, <4>2, <4>3, <4>4
    <3> QED
      BY <2>2, <3>2, <3>3 DEF Decides
  <2>3. CASE v = RunOf(r) /\ ~ Decides(r)
    <3>1. v = r /\ ~ Exists(r)
      BY <2>3, CommitRows
    <3>2. c # r
      BY <1>4, <1>5, <2>3, <3>1
    <3>3. Decided(c, r)
      BY <1>2, <1>5, <3>1, <3>2
    <3> QED
      BY <3>1, <3>3 DEF HistoryInv, StepsInv, Decided
  <2> QED
    BY <2>1, <2>2, <2>3
<1>6. ASSUME NEW q \in Request, NEW c \in Request, NEW v, v = about'[q],
             stage'[q] = "rewriting", kind'[c] = "confirm", Decided(c, v)'
      PROVE  Confirmed(loaded[q])' \/ Hidden(c, v)' \/ CanMiss(q, c)'
  <2>1. stage[q] = "rewriting" /\ v = about[q] /\ Copying(q)
    BY <1>1, <1>6 DEF Copying
  <2>2. CASE c = r
    BY <2>1, <2>2, CopyMisses DEF HistoryInv
  <2>3. CASE c # r
    <3>1. Confirmed(loaded[q]) \/ Hidden(c, v) \/ CanMiss(q, c)
      BY <1>1, <1>2, <1>6, <2>1, <2>3 DEF HiddenInv
    <3> QED
      BY <1>1, <1>2, <1>6, <2>3, <3>1 DEF Confirmed
  <2> QED
    BY <2>2, <2>3
<1>7. ASSUME NEW q \in Request, NEW c \in Request, NEW v, v = about'[q],
             stage'[q] = "committing", Decides(q)', kind'[c] = "confirm",
             Decided(c, v)'
      PROVE  Confirmed(row[q].steps)' \/ Hidden(c, v)' \/ CanMiss(q, c)'
  <2>1. stage[q] = "committing" /\ q # r /\ Decides(q) /\ v = about[q]
    BY <1>1, <1>7 DEF Decides
  <2>2. c # r
    BY <1>1, <1>4, <1>7, <2>1 DEF HistoryInv, StepsInv
  <2>3. Confirmed(row[q].steps) \/ Hidden(c, v) \/ CanMiss(q, c)
    BY <1>1, <1>2, <1>7, <2>1, <2>2 DEF HiddenInv
  <2> QED
    BY <1>1, <1>2, <1>7, <2>2, <2>3 DEF Confirmed
<1>8. \A v, c \in Request : kind'[c] = "confirm" /\ Decided(c, v)' =>
        Confirmed(rows[v].steps)' \/ Hidden(c, v)'
  BY <1>5
<1>9. \A q, c \in Request :
        stage'[q] = "rewriting" /\ kind'[c] = "confirm" /\ Decided(c, about[q])' =>
          Confirmed(loaded[q])' \/ Hidden(c, about[q])' \/ CanMiss(q, c)'
  BY <1>6 DEF Decided, Decides, Hidden
<1>10. \A q, c \in Request :
         stage'[q] = "committing" /\ Decides(q)' /\ kind'[c] = "confirm"
         /\ Decided(c, about[q])' =>
           Confirmed(row[q].steps)' \/ Hidden(c, about[q])' \/ CanMiss(q, c)'
  BY <1>7 DEF Decided, Decides, Hidden
<1> QED
  BY <1>8, <1>9, <1>10, Zenon DEF HiddenInv

LEMMA ShownStep ==
  ASSUME IInv, HistoryInv, ShownInv, HiddenInv, [Next]_vars
  PROVE  ShownInv' /\ HiddenInv'
<1>1. CASE UNCHANGED vars
  <2> USE <1>1 DEF vars, stored, session, history
  <2>1. ShownInv'
    BY DEF ShownInv, ConfirmStored, Copying, Decided, Decides
  <2>2. HiddenInv'
    BY DEF HiddenInv, Confirmed, Hidden, CanMiss, Decided, Decides
  <2> QED
    BY <2>1, <2>2
<1>2. ASSUME NEW r \in Request,
             \/ \E k \in Kind : Open(r, k) \/ \E u \in Request : Refuse(r, k, u)
             \/ \E u \in Request : Repeat(r, u)
             \/ Progress(r) \/ Raise(r)
      PROVE  ShownInv' /\ HiddenInv'
  <2>1. Kind # {}
    BY DEF Kind
  <2>2. OverInv /\ StatusInv
    BY DEF HistoryInv
  <2> QED
    BY <1>2, <2>1, <2>2, StepForms, ShownUncommitted, ShownCommit,
       HiddenUncommitted, HiddenCommit
<1> QED
  BY <1>1, <1>2 DEF Next

LEMMA ShownInvariance == Spec => [](ShownInv /\ HiddenInv)
<1>1. Init => ShownInv /\ HiddenInv
  BY DEF Init, ShownInv, HiddenInv, NoRow, Copying, Contains, Decided,
     ExecutedStatus
<1>2. IInv /\ HistoryInv /\ ShownInv /\ HiddenInv /\ [Next]_vars =>
        ShownInv' /\ HiddenInv'
  BY ShownStep
<1> QED
  BY HistoryInvariance, <1>1, <1>2, PTL DEF Spec

\* A run that has only been asked for shows its queries.
LEMMA OneStage == Last(StageHistory(<<"generate_queries">>)) = "planning_queries"
<1> DEFINE nodes == <<"generate_queries">>
<1>1. nodes \in Seq({"generate_queries"}) /\ Len(nodes) = 1
      /\ nodes[1] = "generate_queries"
  OBVIOUS
<1> HIDE DEF nodes
<1>2. PICK g \in [0 .. Len(nodes) -> Seq(Public)] :
        /\ g[0] = <<>>
        /\ \A m \in 0 .. Len(nodes) - 1 : g[m + 1] = AddStage(g[m], nodes[m + 1], nodes)
        /\ StageHistory(nodes) = g[Len(nodes)]
  BY <1>1, StageFold
<1>3. g[0 + 1] = AddStage(g[0], nodes[0 + 1], nodes)
  <2>1. 0 \in 0 .. Len(nodes) - 1
    BY <1>1
  <2> QED
    BY <1>2, <2>1
<1>4. StageHistory(nodes) = AddStage(<<>>, "generate_queries", nodes)
  BY <1>1, <1>2, <1>3
<1>5. /\ "generate_queries" \in DOMAIN StageOf
      /\ StageOf["generate_queries"] = "planning_queries"
  BY DEF StageOf
<1>6. ~ Contains(<<>>, "planning_queries")
  BY DEF Contains
<1>7. StageHistory(nodes) = Append(<<>>, "planning_queries")
  BY <1>4, <1>5, <1>6 DEF AddStage, AppendUnique
<1>8. Last(Append(<<>>, "planning_queries")) = "planning_queries"
  BY DEF Last
<1> QED
  BY <1>7, <1>8 DEF nodes

\* A run is shown as executing only if a confirm of it has been stored, and
\* then it is, unless each of its confirms has been overlapped by a decline
\* that had found the run declined and has written the history it had read
\* (service.py:598, 987-1001): neither a confirm nor a decline that changes
\* the status ever hides an execution (progress.py:200-217).
THEOREM ExecutionsAreShown == Spec => []ExecutionShown
<1>1. ASSUME IInv, ShownInv, HiddenInv PROVE ExecutionShown
  <2> SUFFICES ASSUME NEW u \in Request, Exists(u)
               PROVE  /\ PublicStage(u) = Executing =>
                           {c \in Request : kind[c] = "confirm" /\ Decided(c, u)} # {}
                      /\ \A c \in {c \in Request : kind[c] = "confirm"
                                                   /\ Decided(c, u)} :
                           \/ PublicStage(u) = Executing
                           \/ \E q \in Request :
                                kind[q] = "decline" /\ Overwrites(q, c)
    BY DEF ExecutionShown
  <2> DEFINE status == rows[u].status
             executed == \E d \in Request : /\ kind[d] = "confirm"
                                            /\ Contains(rows[u].steps, d)
             nodes == IF rows[u].presented THEN <<"wait_confirmation">>
                                           ELSE <<"generate_queries">>
  <2>1. PublicStage(u) = CurrentStage(status, nodes, executed)
    BY DEF PublicStage
  <2>2. PublicStage(u) = Executing <=> executed \/ status \in ExecutedStatus
    <3>1. Contains(<<"wait_confirmation">>, "wait_confirmation")
      BY DEF Contains
    <3>2. Last(StageHistory(<<"generate_queries">>)) # Executing
      BY OneStage DEF Executing
    <3>3. Executing # "ready_for_confirmation"
      BY DEF Executing
    <3>4. nodes = <<"wait_confirmation">> \/ nodes = <<"generate_queries">>
      OBVIOUS
    <3> HIDE DEF nodes, executed, status
    <3> QED
      BY <2>1, <3>1, <3>2, <3>3, <3>4 DEF CurrentStage
  <2>3. ASSUME executed \/ status \in ExecutedStatus
        PROVE  \E c \in Request : kind[c] = "confirm" /\ Decided(c, u)
    <3>1. CASE executed
      BY <3>1, <1>1 DEF ShownInv
    <3>2. CASE status \in ExecutedStatus
      BY <3>2, <1>1 DEF ShownInv, ConfirmStored
    <3> QED
      BY <2>3, <3>1, <3>2
  <2>4. ASSUME NEW c \in Request, kind[c] = "confirm", Decided(c, u)
        PROVE  executed \/ \E q \in Request : kind[q] = "decline" /\ Overwrites(q, c)
    <3>1. Confirmed(rows[u].steps) \/ Hidden(c, u)
      BY <1>1, <2>4 DEF HiddenInv
    <3>2. about[c] = u
      BY <2>4 DEF Decided
    <3> QED
      BY <3>1, <3>2 DEF Confirmed, Hidden, Overwrites
  <2> HIDE DEF executed, status
  <2> QED
    BY <2>2, <2>3, <2>4
<1> QED
  BY HistoryInvariance, ShownInvariance, <1>1, PTL

===============================================================================
