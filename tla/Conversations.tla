--------------------------- MODULE Conversations ---------------------------
(***************************************************************************)
(* The requests of the demo service about the runs of a conversation: a    *)
(* first request (answered at once or as a stream of events), follow-ups   *)
(* that clarify a run or plan it anew, and decisions on the plans of a     *)
(* run.                                                                    *)
(*                                                                         *)
(* A request that plans creates one run, known here by the request, in one *)
(* transaction: it reads the conversation when it is opened, the workflow  *)
(* takes its time, and only then are the run's turns numbered and written. *)
(* Requests are handled at the same time at READ COMMITTED; any of them    *)
(* may fail or be lost at any point.  Plans, actions and the execution of  *)
(* a decision are the subject of ConfirmTransactions.                      *)
(***************************************************************************)
EXTENDS DemoProgress

CONSTANTS
  Request,    \* the requests clients send
  Mixes,      \* what each request may be, in every mix of requests
  None        \* no run

Kind == {"start", "stream", "clarify", "replan", "confirm", "decline"}

ASSUME MixAssumption == Mixes \subseteq [Request -> SUBSET Kind]
ASSUME NoneAssumption == None \notin Request

VARIABLES
  rows,      \* committed agent_runs, by the request that created the run
  turns,     \* committed conversation_turns of the conversation begun by it
  kind,      \* what each request is
  about,     \* the run it is about
  stage,     \* how far it has got
  row,       \* the run row its transaction will commit
  loaded,    \* steps of the run as its session has read them
  pick,      \* the turn index it is about to insert
  own,       \* turns it has inserted and not committed
  stream,    \* what its client has been told on the way
  answer,    \* what its client was told in the end
  clock,     \* history: number of commits
  opened,    \* history: the clock when it was opened
  done       \* history: the clock when it committed, 0 for never

stored  == <<rows, turns>>
session == <<kind, about, row, loaded, pick, own>>
history == <<clock, opened, done>>
vars    == <<stored, session, stage, stream, answer, history>>

\* What feedback makes of the run's status.
ConfirmedStatus == {"completed", "partially_completed", "failed", "skipped"}

RunStatus == {"awaiting_clarification", "awaiting_confirmation", "declined"}
               \cup ConfirmedStatus

\* The statuses of a run that may be planned anew.
ReplanStatus == {"awaiting_confirmation", "declined", "completed", "failed"}

\* A run with no row has version 0.  `presented' says that its workflow got
\* as far as wait_confirmation, `heard' whose turns its intent is made of,
\* `steps' are the decisions in continuation_history.
NoRow == [ session |-> None, source |-> None, version |-> 0,
           status |-> "failed", presented |-> FALSE, heard |-> {},
           steps |-> <<>> ]

Exists(u) == rows[u].version > 0

Begins(r)  == kind[r] \in {"start", "stream"}
Decides(r) == kind[r] \in {"confirm", "decline"}

\* The run a request writes, and the conversation of that run.
RunOf(r)     == IF Decides(r) THEN about[r] ELSE r
SessionOf(r) == row[r].session

Init ==
  /\ rows = [u \in Request |-> NoRow]
  /\ turns = [c \in Request |-> {}]
  /\ kind = [r \in Request |-> "none"]
  /\ about = [r \in Request |-> None]
  /\ stage = [r \in Request |-> "new"]
  /\ row = [r \in Request |-> NoRow]
  /\ loaded = [r \in Request |-> <<>>]
  /\ pick = [r \in Request |-> 0]
  /\ own = [r \in Request |-> {}]
  /\ stream = [r \in Request |-> NewStream]
  /\ answer = [r \in Request |-> "none"]
  /\ clock = 0
  /\ opened = [r \in Request |-> 0]
  /\ done = [r \in Request |-> 0]

GoTo(r, s) == stage' = [stage EXCEPT ![r] = s]

\* Mutant of End: a lost transaction keeps the turns it has inserted.
KeepTurns(r, result) ==
  /\ GoTo(r, "ended")
  /\ answer' = [answer EXCEPT ![r] = result]
  /\ stream' = [stream EXCEPT ![r] = NewStream]
  /\ loaded' = [loaded EXCEPT ![r] = <<>>]
  /\ UNCHANGED <<row, pick, own>>

\* The transaction is over and what is left of it is rolled back.
End(r, result) ==
  /\ GoTo(r, "ended")
  /\ answer' = [answer EXCEPT ![r] = result]
  /\ row' = [row EXCEPT ![r] = NoRow]
  /\ stream' = [stream EXCEPT ![r] = NewStream]
  /\ loaded' = [loaded EXCEPT ![r] = <<>>]
  /\ pick' = [pick EXCEPT ![r] = 0]
  /\ own' = [own EXCEPT ![r] = {}]

\* With an answer of status 500, or with the last event of a stream.
Fail(r) == End(r, "error") /\ UNCHANGED <<stored, kind, about, history>>

----------------------------------------------------------------------------
(* Opening a request *)

\* The rows a new run starts from.
FirstRow(r) ==
  [NoRow EXCEPT !.session = r, !.version = 1]

\* Mutant of UserTurns: only the request that began the conversation.
FirstTurn(c) == {t.run : t \in {t \in turns[c] : t.index = 1}}

\* The user's turns that are there when the request is opened.
UserTurns(c) == {t.run : t \in {t \in turns[c] : t.speaker = "user"}}

\* Mutant of FollowUpRow: every follow-up makes a new version.
NewVersionRow(u, k) ==
  [NoRow EXCEPT !.session = rows[u].session, !.source = u,
     !.version = rows[u].version + 1,
     !.heard = UserTurns(rows[u].session)]

FollowUpRow(u, k) ==
  [NoRow EXCEPT !.session = rows[u].session, !.source = u,
     !.version = rows[u].version + (IF k = "replan" THEN 1 ELSE 0),
     !.heard = UserTurns(rows[u].session)]

Begin(r, k) ==
  /\ k \in {"start", "stream"}
  /\ row' = [row EXCEPT ![r] = FirstRow(r)]
  /\ UNCHANGED <<about, loaded>>
  /\ GoTo(r, "planning")

\* A replan starts from one of the plans of the source run, decided or not.
FollowUp(r, k, u) ==
  /\ \/ k = "clarify" /\ rows[u].status = "awaiting_clarification"
     \/ /\ k = "replan"
        /\ rows[u].status \in ReplanStatus
        /\ rows[u].presented
  /\ row' = [row EXCEPT ![r] = FollowUpRow(u, k)]
  /\ about' = [about EXCEPT ![r] = u]
  /\ UNCHANGED loaded
  /\ GoTo(r, "planning")

Decide(r, k, u) ==
  /\ k \in {"confirm", "decline"}
  /\ rows[u].presented
  /\ about' = [about EXCEPT ![r] = u]
  /\ loaded' = [loaded EXCEPT ![r] = rows[u].steps]
  /\ UNCHANGED row
  /\ GoTo(r, "deciding")

Ask(r, k) ==
  /\ stage[r] = "new"
  /\ \E mix \in Mixes :
       /\ k \in mix[r]
       /\ \A q \in Request : kind[q] \in mix[q] \cup {"none"}
  /\ kind' = [kind EXCEPT ![r] = k]
  /\ opened' = [opened EXCEPT ![r] = clock]

Open(r, k) ==
  /\ Ask(r, k)
  /\ \/ Begin(r, k)
     \/ \E u \in Request : Exists(u) /\ (FollowUp(r, k, u) \/ Decide(r, k, u))
  /\ UNCHANGED <<stored, pick, own, stream, answer, clock, done>>

\* The run is not there (or not yet), or its status does not allow the
\* request; or, for one that names a plan, the plan does not.
Refuse(r, k, u) ==
  /\ Ask(r, k)
  /\ \/ k = "clarify" /\ rows[u].status # "awaiting_clarification"
     \/ k \in {"replan", "confirm", "decline"}
  /\ GoTo(r, "ended")
  /\ answer' = [answer EXCEPT ![r] = "refused"]
  /\ UNCHANGED <<stored, about, row, loaded, pick, own, stream, clock, done>>

\* The decisions of a run that are stored.
Decided(d, u) == Decides(d) /\ about[d] = u /\ done[d] > 0

\* A confirm that finds its plan executed is answered without doing more.
Repeat(r, u) ==
  /\ Ask(r, "confirm")
  /\ \E d \in Request : kind[d] = "confirm" /\ Decided(d, u)
  /\ GoTo(r, "ended")
  /\ about' = [about EXCEPT ![r] = u]
  /\ answer' = [answer EXCEPT ![r] = "summary"]
  /\ UNCHANGED <<stored, row, loaded, pick, own, stream, clock, done>>

----------------------------------------------------------------------------
(* The workflow *)

\* Mutant of Planned: the status is only in the workflow's state.
PlannedInState(r, status, presented) ==
  row' = [row EXCEPT ![r].status = "running", ![r].presented = presented]

\* What a finished workflow leaves in the row: a run that failed in review
\* or presentation has still passed wait_confirmation.
Planned(r, status, presented) ==
  row' = [row EXCEPT ![r].status = status, ![r].presented = presented]

Results ==
  {<<"awaiting_clarification", FALSE>>, <<"awaiting_confirmation", TRUE>>,
   <<"failed", TRUE>>, <<"failed", FALSE>>}

\* A request that is answered at once: what the nodes do is not seen.
RunWorkflow(r) ==
  /\ stage[r] = "planning"
  /\ kind[r] \in {"start", "clarify", "replan"}
  /\ \E result \in Results : Planned(r, result[1], result[2])
  /\ GoTo(r, "appending")
  /\ UNCHANGED <<stored, kind, about, loaded, pick, own, stream, answer,
                 history>>

\* A streamed one: node by node, each followed by the events for its state.
StreamNode(r) ==
  /\ stage[r] = "planning"
  /\ kind[r] = "stream"
  /\ \E s \in NextStreams(stream[r]) :
       /\ stream' = [stream EXCEPT ![r] = s]
       /\ IF s.at = "end"
          THEN /\ Planned(r, s.status,
                         Contains(Nodes(s.visits), "wait_confirmation"))
               /\ GoTo(r, "appending")
          ELSE UNCHANGED <<row, stage>>
  /\ UNCHANGED <<stored, kind, about, loaded, pick, own, answer, history>>

----------------------------------------------------------------------------
(* The turns of the conversation *)

Turn(i, r, speaker) == [index |-> i, run |-> r, speaker |-> speaker]

\* Mutant of Speakers: a question to the user is not recorded.
PlansOnly(r) ==
  {"user"} \cup
  IF row[r].status = "awaiting_confirmation" THEN {"assistant"} ELSE {}

\* After the user's turn comes the assistant's: a question or the plans.  A
\* run that failed has neither, and a replan never asks.
Speakers(r) ==
  {"user"} \cup
  IF \/ row[r].status = "awaiting_confirmation"
     \/ row[r].status = "awaiting_clarification" /\ kind[r] # "replan"
  THEN {"assistant"} ELSE {}

Unsaid(r) == Speakers(r) \ {t.speaker : t \in own[r]}

\* The next index: the maximum this transaction can see, plus one.
Visible(r) == turns[SessionOf(r)] \cup own[r]
NextIndex(r) == 1 + Max({0} \cup {t.index : t \in Visible(r)})

PickIndex(r) ==
  /\ stage[r] = "appending"
  /\ Unsaid(r) # {}
  /\ pick' = [pick EXCEPT ![r] = NextIndex(r)]
  /\ GoTo(r, "inserting")
  /\ UNCHANGED <<stored, kind, about, row, loaded, own, stream, answer, history>>

\* The unique key (session_id, turn_index): an INSERT waits for a
\* transaction that has inserted the same index, and fails if it commits.
Waits(r) ==
  \E q \in Request \ {r} :
    /\ SessionOf(q) = SessionOf(r)
    /\ \E t \in own[q] : t.index = pick[r]

\* Mutant of Taken: the index is not unique.
NeverTaken(r) == FALSE

Taken(r) == \E t \in turns[SessionOf(r)] : t.index = pick[r]

InsertTurn(r) ==
  /\ stage[r] = "inserting"
  /\ ~Waits(r)
  /\ ~Taken(r)
  /\ own' = [own EXCEPT ![r] = @ \cup
               {Turn(pick[r], r, IF own[r] = {} THEN "user" ELSE "assistant")}]
  /\ GoTo(r, "appending")
  /\ UNCHANGED <<stored, kind, about, row, loaded, pick, stream, answer,
                 history>>

IndexTaken(r) ==
  /\ stage[r] = "inserting"
  /\ Taken(r)
  /\ Fail(r)

\* Metadata and snapshots follow the turns.
Describe(r) ==
  /\ stage[r] = "appending"
  /\ Unsaid(r) = {}
  /\ GoTo(r, "committing")
  /\ UNCHANGED <<stored, session, stream, answer, history>>

----------------------------------------------------------------------------
(* Decisions *)

\* update_status reads the run first: a status that is "declined" already, by
\* an earlier decline of this plan or another, is not written again.
ReadStatus(r) ==
  /\ stage[r] = "deciding"
  /\ kind[r] = "decline"
  /\ GoTo(r, IF rows[about[r]].status = "declined" THEN "redeclining"
                                                  ELSE "declining")
  /\ UNCHANGED <<stored, session, stream, answer, history>>

\* With no UPDATE sent there is no lock, and the run is read as it is.
ReadHistory(r) ==
  /\ stage[r] = "redeclining"
  /\ loaded' = [loaded EXCEPT ![r] = rows[about[r]].steps]
  /\ GoTo(r, "rewriting")
  /\ UNCHANGED <<stored, kind, about, row, pick, own, stream, answer, history>>

Appended(copy, r) == [rows[about[r]] EXCEPT !.steps = Append(copy, r)]

\* A confirm writes the whole metadata from the copy it loaded when it was
\* opened, and then the status.
ConfirmedRows(r) ==
  {[Appended(loaded[r], r) EXCEPT !.status = status] :
     status \in ConfirmedStatus}

\* A decline that writes the status takes the row's lock by it, and then
\* reads the run again.
DeclinedRow(r) ==
  [Appended(rows[about[r]].steps, r) EXCEPT !.status = "declined"]

\* Mutant of DecidedRows: a decline writes the metadata before the status.
DeclineFromCopy(r) ==
  CASE stage[r] = "deciding"  -> ConfirmedRows(r)
    [] stage[r] = "declining" ->
         {[Appended(loaded[r], r) EXCEPT !.status = "declined"]}
    [] stage[r] = "rewriting" -> {Appended(loaded[r], r)}

\* A decline that does not leaves the status as it finds it by then.
DecidedRows(r) ==
  CASE stage[r] = "deciding"  -> ConfirmedRows(r)
    [] stage[r] = "declining" -> {DeclinedRow(r)}
    [] stage[r] = "rewriting" -> {Appended(loaded[r], r)}

RowIsFree(r) ==
  \A q \in Request \ {r} : ~(/\ stage[q] = "committing"
                             /\ Decides(q)
                             /\ about[q] = about[r])

\* The first UPDATE of the run's row; the row stays locked to the commit.
WriteDecision(r) ==
  /\ \/ stage[r] = "deciding" /\ kind[r] = "confirm"
     \/ stage[r] \in {"declining", "rewriting"}
  /\ RowIsFree(r)
  /\ \E decided \in DecidedRows(r) : row' = [row EXCEPT ![r] = decided]
  /\ GoTo(r, "committing")
  /\ UNCHANGED <<stored, kind, about, loaded, pick, own, stream, answer,
                 history>>

----------------------------------------------------------------------------
(* The end of a request *)

Commit(r) ==
  /\ stage[r] = "committing"
  /\ rows' = [rows EXCEPT ![RunOf(r)] = row[r]]
  /\ turns' = IF Decides(r) THEN turns
              ELSE [turns EXCEPT ![SessionOf(r)] = @ \cup own[r]]
  /\ own' = [own EXCEPT ![r] = {}]
  /\ clock' = clock + 1
  /\ done' = [done EXCEPT ![r] = clock + 1]
  /\ stream' = [stream EXCEPT ![r] = NewStream]
  /\ GoTo(r, "answering")
  /\ UNCHANGED <<kind, about, row, loaded, pick, answer, opened>>

\* The summary is built from what is stored, after the commit.
Answer(r) ==
  /\ stage[r] = "answering"
  /\ End(r, "summary")
  /\ UNCHANGED <<stored, kind, about, history>>

Busy(r) == stage[r] \notin {"new", "ended"}

\* Something raises (a node, a query, or the summary after the commit), or
\* the process is lost, or the client of a stream is gone: whoever still
\* waits for an answer gets an error.
Raise(r) == Busy(r) /\ Fail(r)

Progress(r) ==
  \/ RunWorkflow(r) \/ StreamNode(r) \/ PickIndex(r) \/ InsertTurn(r)
  \/ IndexTaken(r) \/ Describe(r) \/ ReadStatus(r) \/ ReadHistory(r)
  \/ WriteDecision(r) \/ Commit(r) \/ Answer(r)

Next ==
  \E r \in Request :
    \/ \E k \in Kind : Open(r, k) \/ \E u \in Request : Refuse(r, k, u)
    \/ \E u \in Request : Repeat(r, u)
    \/ Progress(r)
    \/ Raise(r)

Spec == Init /\ [][Next]_vars

\* A handler that can go on does: its thread runs, and the database wakes
\* an INSERT or UPDATE when the transaction it waits for has ended.
FairSpec == Spec /\ \A r \in Request : WF_vars(Progress(r))

----------------------------------------------------------------------------
(* Types *)

Stage == {"new", "planning", "appending", "inserting", "deciding",
          "declining", "redeclining", "rewriting", "committing", "answering",
          "ended"}

Row == [ session : Request \cup {None}, source : Request \cup {None},
         version : Nat, status : RunStatus, presented : BOOLEAN,
         heard : SUBSET Request, steps : Seq(Request) ]

TurnRow == [index : Nat, run : Request, speaker : {"user", "assistant"}]

TypeOK ==
  /\ rows \in [Request -> Row]
  /\ turns \in [Request -> SUBSET TurnRow]
  /\ kind \in [Request -> Kind \cup {"none"}]
  /\ about \in [Request -> Request \cup {None}]
  /\ stage \in [Request -> Stage]
  /\ row \in [Request -> Row]
  /\ loaded \in [Request -> Seq(Request)]
  /\ pick \in [Request -> Nat]
  /\ own \in [Request -> SUBSET TurnRow]
  /\ answer \in [Request -> {"none", "summary", "refused", "error"}]
  /\ clock \in Nat
  /\ opened \in [Request -> Nat]
  /\ done \in [Request -> Nat]

----------------------------------------------------------------------------
(* Properties *)

\* The turns of a conversation are numbered 1, 2, ... without a gap or a
\* repetition, and those of one run stand together, the user's first,
\* however follow-ups on the same conversation overlap, fail or are lost
\* (ConversationTurnRepository.append takes the maximum plus one unlocked).
TurnsContiguous ==
  \A c \in Request :
    /\ {t.index : t \in turns[c]} = 1 .. Cardinality(turns[c])
    /\ \A t \in turns[c] : t.speaker = "assistant" =>
         \E s \in turns[c] : /\ s.run = t.run
                            /\ s.speaker = "user"
                            /\ s.index + 1 = t.index

\* A run and what was said about it are stored together or not at all: each
\* stored run of a conversation has its user's turn there and no other run
\* has one, and the assistant has presented what the run has come to, but
\* for a replan that ended in a question.
RunsAreSaid ==
  \A u \in Request :
    LET said(speaker) == {c \in Request :
                            \E t \in turns[c] : t.run = u /\ t.speaker = speaker}
    IN /\ said("user") = IF Exists(u) THEN {rows[u].session} ELSE {}
       /\ rows[u].status = "awaiting_confirmation" \/
          (rows[u].status = "awaiting_clarification" /\ kind[u] # "replan")
            => said("assistant") = {rows[u].session}

\* Versions form a chain: a run that follows another is of its conversation,
\* was opened when the other was stored, and has its version if it clarifies
\* it and the next one if it plans it anew (build_*_plan_version_metadata).
LineageSound ==
  \A u \in Request : Exists(u) =>
    LET s == rows[u].source IN
    IF s = None
    THEN rows[u].version = 1 /\ rows[u].session = u
    ELSE /\ Exists(s)
         /\ rows[s].session = rows[u].session
         /\ done[s] <= opened[u] /\ opened[u] < done[u]
         /\ rows[u].version =
              rows[s].version + (IF kind[u] = "replan" THEN 1 ELSE 0)

\* A follow-up plans with every earlier user turn of its conversation that
\* was there when it was opened; the only turns before its own that it can
\* have missed are of requests it overlapped (the texts are read long
\* before its own turn is numbered).
IntentComplete ==
  \A u \in Request : Exists(u) => \A q \in Request :
    /\ \E t, own_ \in turns[rows[u].session] :
         /\ t.run = q /\ t.speaker = "user"
         /\ own_.run = u /\ own_.speaker = "user"
         /\ t.index < own_.index
    /\ done[q] <= opened[u]
    => q \in rows[u].heard

\* q may write the history of its run as it was before d had committed: q was
\* opened by then, and it is a confirm, or a decline of a run that had been
\* declined before d.
CanMiss(q, d) ==
  /\ opened[q] < done[d]
  /\ \/ kind[q] = "confirm"
     \/ /\ kind[q] = "decline"
        /\ \E e \in Request \ {q} : /\ kind[e] = "decline"
                                   /\ Decided(e, about[q])
                                   /\ done[e] < done[d]

Overwrites(q, d) ==
  Decided(q, about[d]) /\ done[d] < done[q] /\ CanMiss(q, d)

\* The step a decision has recorded in continuation_history stays, unless one
\* of two kinds of decision overlaps it and commits after it: a confirm, or a
\* decline of a run that had been declined already (both write the history
\* from a copy read without a lock; any other decline locks the row first).
StepsKept ==
  \A d \in Request :
    Decided(d, about[d]) /\ ~Contains(rows[about[d]].steps, d) =>
      \E q \in Request : Overwrites(q, d)

\* The stage as the run's row tells it (the plan that is selected tells it too,
\* if it has been executed).
PublicStage(u) ==
  CurrentStage(rows[u].status, IF rows[u].presented THEN <<"wait_confirmation">>
                                              ELSE <<"generate_queries">>,
               \E d \in Request : /\ kind[d] = "confirm"
                                  /\ Contains(rows[u].steps, d))

\* A run is shown as executing only when a confirm of it has committed, and
\* from then on whatever is decided about it, a decline or another confirm:
\* only a repeated decline, one of a run that had been declined before the
\* confirm committed, can hide the execution by overlapping it, and then only
\* in the row.
ExecutionShown ==
  \A u \in Request : Exists(u) =>
    LET Confirms == {c \in Request : kind[c] = "confirm" /\ Decided(c, u)}
        Hides(q, c) == kind[q] = "decline" /\ Overwrites(q, c)
    IN /\ PublicStage(u) = Executing => Confirms # {}
       /\ \A c \in Confirms :
            PublicStage(u) = Executing \/ \E q \in Request : Hides(q, c)

\* What a stream shows only ever grows, except that a repeated search takes
\* it back to the searches; both searches are shown before what follows
\* them, and an execution never is.
StreamAdvances ==
  \A r \in Request : LET sent == Sent(stream[r].visits) IN
    \A i \in DOMAIN sent : LET shown == sent[i].stages IN
      /\ i > 1 => \/ IsPrefix(sent[i - 1].stages, shown)
                 \/ /\ Last(shown) = "searching_activities"
                    /\ Contains(sent[i - 1].stages, "reviewing_plan")
      /\ Contains(shown, "checking_availability") =>
           \E j \in 1 .. i - 2 :
             /\ Last(sent[j].stages) = "searching_activities"
             /\ Last(sent[j + 1].stages) = "searching_dining"
      /\ ~Contains(shown, Executing)

\* The last progress event of a stream says what the run's own snapshot will
\* say once it is stored: the same stages, whatever the status has become.
\* (A run that failed in review or presentation is shown as ready, too.)
StreamAgrees ==
  \A r \in Request :
    kind[r] = "stream" /\ stage[r] \in {"appending", "inserting", "committing"} =>
      Last(Sent(stream[r].visits)).stages =
        Snapshot(row[r].status, Nodes(stream[r].visits), FALSE, 0).stages

\* Every request that is taken up comes to an end, whoever else fails or is
\* lost while it waits for a turn index or a row.
RequestsEnd == \A r \in Request : stage[r] # "new" ~> stage[r] = "ended"

============================================================================
