# WeekendPilot: TLA+ models, checks and proofs

WeekendPilot plans a weekend outing from a sentence, shows the user one or more
reviewed plans, and, once the user has confirmed one, reserves tables, buys
tickets and sends messages through write tools.  This directory holds the
formal models kept beside the code: TLA+ modules, TLC configurations that check
them on small instances, and proofs that TLAPS checks for every instance.
All paths below are relative to `src/backend/app/` unless they start with
`src/`.

Contents

1. The system: components, state, operations, what is hard
2. The modules and how they correspond to the code
3. What each run checks, with its bounds
4. Fairness
5. What disagrees with the documents
6. What is proved, and the argument
7. What is only model-checked, and what is not modelled
8. Plan

## 1. The system

### Components

| component | state it keeps | operations | talks to |
|---|---|---|---|
| HTTP API (`api/demo.py`, `api/memory.py`) | none; one database session per request (`db/session.py`) | start, clarify, replan, confirm, decline, feedback, memory controls; an exception of the service becomes an answer after a rollback | demo service |
| demo service (`demo/service.py`) | run metadata: continuation history, version numbers, clarification | resolves the plan of a request, selects it, drives confirmation, execution and feedback, commits | everything below |
| planning workflow (`workflow/`) | the graph's state: drafts, review, recovery attempts, exclusions, status | sixteen nodes with a recovery loop | agents, gateway, plan persistence |
| agents (`agents/`) | none | planner (with or without a language model), validator, recovery policy | review gate, generator |
| planning (`planning/`) | none | intent parsing, queries, enrichment, pairing into drafts | gateway reads |
| review gate (`review/`) | none | verdict on each draft and on the run | workflow |
| plan persistence (`plans/`, `repositories/plans.py`) | table `plans`: status, selected, document | store reviewed drafts, select one | demo service, workflow |
| confirmation (`confirmation/`) | the decision inside the plan's document | confirm, decline | demo service, workflow |
| execution (`execution/`) | the execution summary inside the plan's document | run the confirmed actions in order, replay, stop at the first failure | gateway |
| tool gateway (`tool_gateway/`) | tables `action_ledger` and `tool_events`, the Redis cache | idempotent writes, cached reads, rate limits, failure injection | providers, Redis |
| feedback (`feedback/`) | feedback in plan and run, memory candidates | status and summary of an execution | memory |
| memory governance (`memory_control/`, `repositories/memory.py`) | table `memory_items` and the governance document in each row | list, create, update, activate, disable, suppress (also DELETE), expire, mark as candidate | feedback writes candidates, planning reads |
| Redis runtime (`runtime/`) | counters, cache, locks, progress stream | fixed-window limiter, lease locks | gateway |
| streaming (`demo/streaming.py`, `demo/progress.py`) | none | progress events of a run being planned | frontend |
| observability (`observability/`) | a trace file | projections of stored rows | none |
| benchmark (`benchmark/`) | reports | harness that confirms by itself, graders, gates | workflow |
| frontend (`src/frontend`) | the chat thread | consumes streams and summaries | HTTP API |

`PROJECT.json` lists every component with its sources, the modules that model
it, and why the others are left out.

### What is hard, and what makes it correct

*Transactions.*  Every request is one PostgreSQL transaction at READ COMMITTED
in one SQLAlchemy session.  Rows are loaded without `FOR UPDATE`; the only locks
are those that flushed UPDATEs take; the identity map keeps serving what the
session loaded first.  In the middle of the transaction the gateway calls a
provider whose effects no rollback undoes.  Confirming, declining and replanning
requests on the same run meet in `plans`, `agent_runs` and `action_ledger`.
Correct means: at most one execution of a run at a time; what a handler read of
the ledger stays true while it uses it; no write repeats except when a rollback
has forgotten it; actions in order, none after a failure; what plan and run
report is what the ledger says; no deadlock.

*The recovery loop.*  When no draft survives the review the graph goes back, to
the planner without the first pair or to the queries with a wider search.
Correct means: the loop ends, within its attempts and within a known number of
nodes; an excluded pair stays out; only reviewed drafts of the last enrichment
are shown; a run gives up only with nothing to show; the answer and the rows say
the same.

*Governed memory.*  Three parties meet in `memory_items`: the user's requests,
the feedback writer inside the transaction of a confirm, and the planning runs.
Each reads rows without a lock and writes later, and an expiry passes without
anybody writing.  Correct means: an item has the status its user gave it; what
feedback inferred or the user turned off has no influence on a plan; nothing
stale has primary influence; the summary shown after a confirm is what its
commit did; two confirms do not wait for each other.

*Evidence.*  What a plan rests on are the answers of read tools, asked one after
the other through injection, rate limit, cache and provider; each answer may
fail, be refused or be malformed, and a second search starts with the events and
the cache of the first.  The counter of the rate limit is shared by all runs of
a user and is incremented and given its expiry in two requests to Redis.
Correct means: what the cache answers is what the provider last said of the same
call; a draft is let through only if the last search bears it out; generator,
gate and recovery policy judge the same answers alike; a window lets no more
calls through than its limit, whoever dies.

*Conversations and streams.*  Follow-ups read a conversation when they are
opened, plan for a long time, and number their turns by an unlocked maximum plus
one; decisions rewrite a run's history from a copy that may be old; a stream
reports a run that may still be rolled back.  Correct means: turns are numbered without
gaps; a run and what was said about it are stored together; versions form
chains; a follow-up misses only what overlapped it; what a stream has shown last
is what the stored run shows.

## 2. The modules

| module | what it models |
|---|---|
| `PlanLifecycle` | one row of `plans`, as values: what selection, confirmation, declination, execution summary and feedback make of a row. No state. |
| `ConfirmTransactions` | confirm, decline and replan requests on one run: sessions, row locks, the provider, the Redis counter, commits, rollbacks and crashes. EXTENDS `PlanLifecycle`. |
| `WriteSaga` | abstract specification: what the execution promises to the outside world. `ConfirmTransactions` INSTANCEs it as `Saga`. |
| `ConfirmInvariant` | the inductive invariant of `ConfirmTransactions`, in named parts. |
| `RecoveryPolicy` | pure operators: which pairs become drafts, the gate's verdict, the recovery decision and its route. |
| `PlanningWorkflow` | one run of the graph from the request to its result. EXTENDS `PlanLifecycle` and `RecoveryPolicy`. |
| `MemoryGovernance` | the memory items of one user: the user's requests, the feedback of confirms, the reads of planning runs. |
| `RateLimiter` | abstract specification: the fixed-window counter of one key and its clients. |
| `ItineraryDrafts` | pure operators: pairing, order, timeline, add-on and proposed actions of drafts. |
| `ReviewGate` | pure operators: every check of the final review. EXTENDS `ItineraryDrafts`. |
| `EvidenceCollection` | one run from its first search to the reviewed drafts, with a second search, while other runs of the user use the limiter. EXTENDS `RateLimiter` and `ReviewGate`, INSTANCEs `RecoveryPolicy` as `Policy`. |
| `DemoProgress` | the public stages of a run's progress, and the stream of them, node by node. |
| `Conversations` | every request about the runs of a conversation: start, stream, clarify, replan, confirm, decline. EXTENDS `DemoProgress`. |
| `Lists` | pure operators that several components share: a set in an order, a list of which some positions are kept. |
| `MCConfirm`, `MCPlanning`, `MCMemory`, `MCEvidence`, `MCConversation` | instances for TLC: symmetry and constant functions. |
| `ConfirmProofs`, `SagaProofs`, `ConfirmationProofs` | the theorems about `ConfirmTransactions`, among them that it implements `WriteSaga` (`SagaProofs`). |
| `ListProofs` | lemmas about lists for the other proofs: orders of finite sets, kept positions, lists of lists, folds. |
| `MemoryProofs`, `PlanningProofs`, `EvidenceProofs`, `ConversationProofs` | the inductive invariants of `MemoryGovernance`, `PlanningWorkflow`, `RateLimiter` with `EvidenceCollection`, and `Conversations`, and the theorems about them. |

Some operators carry the comment "Mutant of X": each is a plausible mistake in
the code behind X, and shows (listed in `PROJECT.json`) that the property it is
paired with can fail.

### ConfirmTransactions and the code

Durable state: `plan` (committed rows), `runStatus`, `ledger` (status by
idempotency key; a key is a plan and a position, as in
`HumanConfirmationService._confirmed_actions`), `rateCount` (Redis), `effects`
(what happened at the provider) and the history variable `lost` (effects whose
ledger row was rolled back).  A request's session: `pc`, `target`, `seen` (its
identity map of plans), `runSeen`, `todo` (UPDATEs of a flush still to be sent),
`known` (the ledger rows read at the start of the execution), `mine` (ledger
rows inserted and not committed), `results`.

An action of the module is what a handler does between two points at which
another transaction can come between: a statement that may wait for a lock, a
statement that reads committed data, a call of the provider.

| action | code |
|---|---|
| `OpenRequest` | `confirm_run`, `decline_run`, `replan_run` load run and plan; `_resolve_plan` |
| `ListPlans`, `SelectRow`, `SelectionDone`, `RefuseSelection` | `PlanRepository.select_for_run`: list the rows, assign, flush row by row in primary-key order |
| `EndWithoutDecision` | replay of a stored summary, and the 404/409 answers |
| `DecidePlan` | `HumanConfirmationService.confirm_plan` / `decline_plan`: whole document and status, `selected` not in the UPDATE |
| `LockRun` | `_append_continuation_history`, whose flush locks the run's row |
| `LoadLedger`, `RefuseExecution` | `_load_executable_plan` and `list_for_run_by_idempotency_key` |
| `ReplayAction`, `LimitAction`, `InvokeAction` | one pass of `_execute_or_replay_actions` with `ToolGateway._invoke_write` inside it |
| `FinishConfirm`, `RejectFeedback` | `_persist_execution`, feedback writer, run status, `commit`; or the writer's error and the rollback |
| `FinishDecline`, `FinishReplan`, `FailReplan` | the ends of the other handlers |
| `Crash`, `WindowExpires` | the environment: a lost connection, the expiry of the Redis key |

Columns matter: SQLAlchemy writes only those that differ from the loaded row, so
`FlushSelection` leaves the others at what the table holds by then, and
`FlushDocument` overwrites the whole JSON document.  Initial rows are those the
workflow leaves (`HandOver` of `PlanningWorkflow` checks that they are).

### PlanningWorkflow and the code

One action per node of `workflow/graph.py`, with the edge taken; nodes that only
add data nothing here depends on share `StraightNode`.  What a node finds is
chosen from everything it can find: `PreFlightCheckAvailability` offers any list
of usable pairs in any order with any verdict of `GateVerdict` that a usable
pair can have; `LogicalPlannerAgent` lets a planner model keep any of the drafts
in any order (other answers are dropped by the adapter).  Evidence is abstracted
to what `_dining_is_usable`, `_build_ordered_pairs` and the gate tell apart.
`Raise` is possible at every node: `start_run` then rolls back, the benchmark
harness (whose runs confirm by themselves) keeps reading in its transaction.
The execution inside a run is any prefix of successes with at most one failure;
how it comes about is the subject of `ConfirmTransactions`.

### MemoryGovernance and the code

`items` is the committed table by key (the type is always "preference"; the
unique key is user, type and key).  A request has `stage`, `order` (what it asks
for, within the bound `Sent`) and `loaded`, the row its session read.  The
feedback of a run has `writer`, `todo` (the candidates still to be persisted),
`seen`, `pending` (rows written and locked in its open transaction) and
`summary`.  `influence` is what a planning run made of each item; `asked` is a
history variable.

| action | code |
|---|---|
| `LoadCreate`, `ApplyCreate` | `MemoryUserControlService.create_item`: look the key up, then INSERT and commit |
| `LoadChange`, `ApplyChange` | `update_item` and `apply_action`: read the row, answer at once if nothing changes, else UPDATE and commit; `delete_item` is the control `suppress` |
| `FeedbackRead`, `FeedbackCreate`, `FeedbackUpdate` | one turn of the loop in `_persist_memory_candidates`; a failed INSERT is swallowed there and leaves a session that can do nothing more |
| `FeedbackCommit`, `FeedbackRollback` | the end of `confirm_run`, seen from the memory table |
| `LoadMemory` | node `load_memory` and what `apply_memory_query_policy` makes of the rows |
| `Lapse` | the expiry dates pass |

`Updated` is the ORM's UPDATE: only the columns in which the wanted row differs
from the loaded one are sent, so the row may end up with columns of two writers.
`WithEvent` is the append to the control events: the list belongs to the loaded
document too, so the ORM sees a difference only when the document had no list.
Confidences are three classes, since the policy only compares them with 0.5 and
0.8; `Before` is the order in which the extraction takes activity and dining.
The feedback of a confirm is here a transaction of its own: what else the
confirm does is the subject of `ConfirmTransactions`, which leaves memory out;
the two share no rows.  Confirms of one run are serialised by that run's row, so
different `Run`s stand for confirms of different runs of one user.

### EvidenceCollection and the code

A run has `request` and `injector` (the failure profile), `todo` (the planned
calls still to be made), `events` (its rows of `tool_events`; they keep number,
call, status and answer), `cache`, `collection` (what searches found, by kind),
`enriched`, `routes`, `drafts`, `reviewed`, and `level` and `since` of a second
search.  A call is a tool, the places it is about, and the candidate it belongs
to.  The variables of `RateLimiter` are those of the user's counter.

| action or operator | code |
|---|---|
| `Increment`, `SetExpiry`, `Return`, `Die`, `WindowEnds` | `FixedWindowRateLimiter.allow` in two requests to Redis and its answer; a dead client, the key's expiry |
| `InitialCalls`, `EnrichmentCalls`, `RouteCalls` | `DeterministicQueryPlanner`, the templates of the mock world and of amap, `CandidateEnricher`'s tool order and route matrix |
| `Inject`, `AskLimiter`, `Refused`, `CacheHit`, `ProviderAnswers`, `ProviderFails` | `ToolGateway._invoke_read`, in its order; each ends in `Record` (`_record_result`) and in what the node makes of the result |
| `SkipCall` | a route whose coordinates are missing: a failed entry, no event |
| `Collect`, `Attach`, `Entered` | `QueryPlanExecutor` and `CandidateEnricher` taking a result |
| `PreFlightCheckAvailability`, `LogicalPlannerAgent`, `SemanticValidator`, `ApplyRecovery` | the nodes, seen from the evidence |
| `Drafts`, `OrderedPairs`, `WriteActions`, ... | `DeterministicItineraryGenerator`: usable pairs, sort key, timeline, add-on, proposed actions, message |
| `Checks`, `ReviewedDraft`, ... | `FinalReviewGate._review_draft`, check by check |
| `Others`, `Crash` | other runs of the user; the end of the process |

The details and the abstract policy meet in `ReviewAgrees`: `Summary` maps two
enriched candidates to the `Evidence` of `RecoveryPolicy`, and the drafts and
verdicts must be those that `PlanningWorkflow` assumes.

### Conversations and the code

Requests are named; a planning request names the run it creates and a first
request also the conversation.  `rows` and `turns` are committed; `row`, `own`,
`pick` and `loaded` are a request's session (`loaded` is the history of the run it
decides on, as it has read it); `stream` is the state of the workflow as the
stream has reported it.  `clock`, `opened` and `done` are a
history of commits that the properties speak of.

| action | code |
|---|---|
| `Open` (`Begin`, `FollowUp`, `Decide`), `Refuse`, `Repeat` | the beginnings of `start_run`, `start_run_stream`, `clarify_run`, `replan_run`, `confirm_run`, `decline_run`: source run, its status, turns and metadata are read here |
| `RunWorkflow`, `StreamNode` | the workflow, at once or node by node with `build_live_demo_progress_milestones` and the suppression of repeated snapshots |
| `PickIndex`, `InsertTurn`, `IndexTaken` | `ConversationTurnRepository.append`: SELECT, then an INSERT that waits for, or fails on, the unique key |
| `Describe`, `Commit`, `Answer` | metadata and snapshots of turns, `commit`, `build_summary` after it |
| `ReadStatus`, `ReadHistory` | a decline's `update_status`: on a run that is declined already it sends no UPDATE, so nothing is locked and the run is only read again |
| `WriteDecision` | `_append_continuation_history` and the status: a confirm from the copy it loaded when it was opened; a decline that writes the status from the row this has locked and reloaded; any other decline from the copy of `ReadHistory`, leaving the status it finds |
| `Raise` | an exception anywhere, a lost process or client |
| `Snapshot`, `Truncated`, `Milestones`, `Sent` | `demo/progress.py` and `demo/streaming.py` |

## 3. The runs

| run | instance | shows |
|---|---|---|
| `confirm` | 2 plans (two actions, the first rate limited; one action), 3 requests of any kind, 2 open at a time, 1 crash, limit 1, any subset of keys refused by the provider; 306 thousand states | type, saga, accounting and exclusion invariants, the refinement of `WriteSaga`, and that only confirmed plans are written |
| `confirm_live` | same plans, 2 requests, no crash; 38 thousand states | every request is answered: no deadlock between plan rows and the run's row |
| `duplicate_write` | one plan of three actions, 2 confirms one after the other | violation, see section 5 |
| `decline_race` | 2 plans, a confirm and a decline at once | violation |
| `decline_after_replan` | 3 requests one at a time | violation |
| `double_selection` | 3 plans, 2 requests at once | violation |
| `planning` | 3 pairs, 2 drafts at most, 2 recovery attempts, index up to 1, plans of up to 2 actions; 1.4 million states | recovery accounting, exclusion, reviewed plans, nothing safe withheld, hand-over, at most 27 nodes, and that every run ends |
| `memory` | the 2 supported keys, 2 requests out of 11 kinds, feedback of 2 confirms with any candidates, 1 planning run; 574 thousand states | the user's decisions hold, no embrace of locks, influence only as asked and not stale, true summaries |
| `memory_events` | 2 requests, 1 confirm | violation, see section 5 |
| `memory_overwrite` | the same | violation |
| `conversation` | 4 requests in three mixes: a streamed first one and two follow-ups; a first one and two that may clarify, replan, confirm or (one of them) decline; a first one and three decisions, at least two of them declines; 1 recovery; 210 thousand states | turns, versions, intents and histories fit together, the stream tells the truth, every request ends |
| `evidence` | 4 places, 2 profiles, 2 failure profiles, a rival run, limit 2, 3 surprises; 499 thousand states | the cache is faithful, drafts let through are backed by events, generator, gate and policy agree, the limiter holds |

Why the bounds are enough.  Two plans make selection, the resolution of a
named plan and the lock order between rows possible; two actions give a prefix
and a rest; a third request finds what two others left; two open handlers are a
race (a third could only wait behind the same two locks); one crash loses any
one transaction at any point.  A rate limit of one is exhausted by the first
reservation.  Three pairs with two drafts make a third pair that a wider search
can bring in, and let an excluded pair come back in second place; two attempts is
the code's limit, and the index reaches past the last plan when only one is stored.  Of memory, two requests are enough
to bring a row into existence and change it around a feedback transaction, or to
change it twice; two confirms race for a row and for locks; and one planning run
reads at any point.  `Sent` bounds what requests ask for to the contents that
put the first key's row into every status, with and without a trusted confidence
and an expiry, and the second key's row into use.  In `evidence` a surprise is a provider that does not give
its usual answer or fails, an entry of the cache that expires, a step that
begins a call of the other run, or the end of a window; three of them spoil
every answer about one place, or the search and what follows it, and a limit of
two is used up by the run's own searches.  The park is found as an activity and
as a restaurant, one restaurant has no coordinates, and one listing names the
same place twice.  In `conversation` the second and third requests overlap in
every way, and one may follow the run the other has created: clarify then
replan, replan then confirm, two confirms, a decline between load and commit of
a confirm.  A decline of a run declined already needs one decision before it, and
one beside it that it can overwrite: three decisions, a decline, and a decline
that overlaps a decline or a confirm.  `Mixes` says which requests may be what;
`MaxOpen`,
`MaxCrashes`, `Surprises`, `MaxIndex`, `ActionBound`, `StepCap` are bounds of the
models and appear only in guards and types.  `CHECK_DEADLOCK FALSE` is set because the
systems do stop: when all requests are answered, when the run has ended, when a
request finds no row to change.
`RequestsEnd` is the property that rules deadlock out.

Requests are interchangeable in `confirm` and `memory` (there also the runs):
SYMMETRY is used there and in no run that checks liveness.

## 4. Fairness

`ConfirmTransactions!Fairness` is weak fairness of each handler: a request that
has started runs in its own thread, its statements return, and PostgreSQL wakes
a waiter when the row is free.  Nothing makes clients send requests, handlers
crash or the Redis window expire.  `PlanningWorkflow!FairSpec` is weak fairness
of the next node: the runner invokes one node after the other in one thread.
`Raise` is not fair.  `Conversations!FairSpec` is weak fairness of each handler's
`Progress`: its thread runs on, and the database wakes an INSERT or UPDATE when
the transaction it waits for has ended, as it does when that one commits, fails
or is lost.  `Raise` and the requests themselves are not fair.
`MemoryGovernance` and `EvidenceCollection` state no fairness: nothing they
promise must eventually happen (a window may stay open, a call may never
return).

## 5. What disagrees with the documents

* `duplicate_write`: after a failed action the execution lists the rest as
  `skipped_due_to_prior_failure`; the feedback writer knows no such status
  (`feedback/writer.py:34`) and raises; the rollback takes the ledger rows of
  the actions that did happen with it, and the next confirm repeats them.
  `src/docs/specs/121-execution-safety-ledger-hardening-v0.md:182` excludes it.
* `decline_race` and `decline_after_replan`: a plan that has been executed ends
  up declined, against the comment-like message `demo/service.py:585`; once by a
  race between a load without lock and a whole-document UPDATE, once because
  selection makes an executed plan selected again.
* `double_selection`: two selections leave two plans selected, against
  `src/docs/specs/013-reviewed-plan-persistence-selection.md:51`.

* `memory_events`: a control event is lost when the row's document already holds
  one, with no other party involved: `_rebuild_metadata`
  (`memory_control/service.py:282`) copies one level, the append goes into the
  loaded list, and the UPDATE has no `metadata_json`.
  `src/docs/specs/119-memory-crud-governance-v0.md:160` requires an event for
  every operation.
* `memory_overwrite`: feedback overwrites value, confidence and document of a
  row that the user takes out of "candidate" between its read and its UPDATE
  (`feedback/writer.py:474`), against
  `src/docs/specs/097-sensitive-memory-feedback-candidate-v0.md:106`.  The
  status stays the user's (`StatusIsAsked`), so an active item can have
  the value the tags inferred and the user's request did not ask for.

Not run, because they follow at once from reading an action: a failed INSERT of
a candidate is swallowed so that other keys continue "degraded"
(`src/docs/specs/097-sensitive-memory-feedback-candidate-v0.md:249`), but its
transaction is aborted and the confirm fails (`FeedbackCreate`); and an update by
feedback replaces the document of a candidate, with the control events in it.

Not disagreements, but worth knowing; each follows from a model or was met while
writing it:

* Recovery.  Without a planner model a `replace_candidate` recovery can never
  lead to a plan, because it happens only when all drafts are blocked and the
  generator drafts the same pairs again (`SafeDraftIsPresented`).  Whatever the
  budget, a replacement and an expansion each happen at most once, and a run has
  at most 27 nodes; the runner sets no recursion limit of its own.
* Evidence.  "No usable route" also stands for "no usable pair", so a run all of
  whose tickets are gone stops instead of searching further.  Opening hours of
  activities and restaurants are fetched and never used.  Of a place with a
  table and a closed queue the generator makes a draft, which the gate blocks
  and recovery answers by stopping.  Amap can find one place as activity and
  restaurant; nothing keeps it from being drafted with itself.  A second search
  may be answered from the cache of the first, and a malformed answer is cached
  as well.
* Histories.  A confirm writes the whole metadata from the copy it loaded when it
  was opened.  A decline of a run that is declined already, repeated or of the
  run's other plan, does the same from a copy it has read without a lock, because
  its status UPDATE is not sent (`demo/service.py:598`).  The step of a decision
  that commits in between is lost, and no other request and no other order of
  two decisions loses one (`StepsKept`).  So such a decline can take the
  execution out of the row of a run that was confirmed beside it; the plan that
  is selected still tells of it, if it is the one that was executed.  In every
  other case a run that was confirmed and then declined is shown as executing
  (`ExecutionShown`, whose `PublicStage` is what the row alone tells).
* Conversations.  Two follow-ups that insert the same turn index end with one
  answer of status 500.  A replan that ends in a question records no turn of the
  assistant.  A follow-up that overlaps another does not know what it said.
* Streams.  Stages shown are taken back by a repeated search; an error event can
  follow the commit, when the summary raises; what was shown of a run can be
  rolled back; a run that failed in review or presentation is shown as ready for
  confirmation, because the node has been passed.

## 6. What is proved

For any sets of plans, requests and any bounds, under the assumptions the
modules state on their constants (plans are numbers, `None` is neither a plan
nor a request, counts and limits are natural numbers):

| theorem | module | says |
|---|---|---|
| `TypeCorrect` | `ConfirmProofs` | `TypeOK` |
| `SnapshotStaysCurrent` | `SagaProofs` | `SnapshotCurrent`: the ledger read before the loop is the committed one until the handler ends |
| `EffectsAreAccounted` | `SagaProofs` | `EffectsAccounted`: every write is committed, in the open execution, or forgotten by a rollback |
| `SagaIsPrefix` | `SagaProofs` | `SagaPrefix`: a ledger row only after all earlier actions succeeded |
| `HandlersImplementSaga` | `SagaProofs` | `ImplementsSaga`: every step is a `Try`, `Keep`, `Forget` or a stutter of `WriteSaga` |
| `ExclusiveExecution` | `ConfirmationProofs` | `ExecutionIsExclusive`, the inductive invariant itself |
| `OnlyConfirmedWrites` | `ConfirmationProofs` | `WritesAreConfirmed` |
| `MemoryTypeCorrect` | `MemoryProofs` | `TypeOK` of `MemoryGovernance` |
| `UserDecidesStatus` | `MemoryProofs` | `StatusIsAsked` |
| `MemoryLocksOrdered` | `MemoryProofs` | `NoEmbrace` |
| `OnlyAskedInfluence` | `MemoryProofs` | `InfluenceIsAsked` |
| `PrimaryNotStale` | `MemoryProofs` | `PrimaryIsCurrent` |
| `SummaryTold` | `MemoryProofs` | `SummaryIsTrue` |
| `SummariesAreBacked` | `ConfirmationProofs` | `SummaryBacked` |
| `CompletedRunsAreBacked` | `ConfirmationProofs` | `CompletedRunBacked` |
| `TypesAreKept`, `ExcludedPairsStayOut`, `StoredPlansAreReviewed`, `RunsAreHandedOver`, `RecoveryIsAccounted`, `GraphIsBounded` | `PlanningProofs` | `TypeOK`, `ExcludedStaysOut`, `PlansAreReviewed`, `HandOver`, `RecoveryAccounted`, `StepsBounded` |
| `SafeDraftsArePresented` | `PlanningProofs` | `SafeDraftIsPresented`: who gives up had nothing safe, and no replacement helps without a planner model |
| `LimiterIsCorrect` | `EvidenceProofs` | what `RateLimiter` promises, of its own specification |
| `EvidenceUsesLimiter` | `EvidenceProofs` | a run implements `LimiterSpec`: every step is a step of the limiter or a stutter |
| `SearchesAreBounded`, `EndlessRefusalsHaveACause` | `EvidenceProofs` | `GrantsBounded`, `EndlessOnlyByDeath`, for any number of runs that share the key |
| `CacheIsFaithful` | `EvidenceProofs` | `CacheFaithful` |
| `EvidenceIsTypeCorrect` | `EvidenceProofs` | `TypeOK` of `EvidenceCollection` |
| `DraftsAreBacked` | `EvidenceProofs` | `EvidenceBacked`: a draft let through rests on answers recorded since the last search began |
| `GateFollowsPolicy` | `EvidenceProofs` | `ReviewAgrees`: generator and gate in detail decide as the policy of `RecoveryPolicy` does |
| `TypesAreKept`, `TurnsAreContiguous`, `VersionsAreChained` | `ConversationProofs` | `TypeOK`, `TurnsContiguous`, `LineageSound` |
| `RunsAndTurnsTogether`, `NothingStoredIsMissed`, `DecisionsAreKept` | `ConversationProofs` | `RunsAreSaid`, `IntentComplete`, `StepsKept` |
| `StreamsAdvance`, `StreamsAgree`, `ExecutionsAreShown` | `ConversationProofs` | `StreamAdvances`, `StreamAgrees`, `ExecutionShown` |

The assumptions are those a module states on its constants.  In
`EvidenceCollection` they say what the code can count on: bounds are natural
numbers, a request has one of the two profiles, listings name places, the rules
of the failure injector are about tools that exist, and a malformed answer is
none of the well-formed ones.  Nothing is assumed of the number or the order of
listings, of coordinates, prices, categories or answers.

The argument.  None of the three saga properties is inductive: that a snapshot
stays current depends on no other handler committing ledger rows, which depends
on locks.  `ExecutionIsExclusive` (module `ConfirmInvariant`) says why: the run's
row is locked exactly by the handler in its execution part (`RunLockHeld`), so at
most one handler has ledger rows of its own (`NoTrace`, `OwnRows`); therefore
`ledger` cannot change under it (`SnapshotCurrent`), each of its results is
backed by a row (`ResultsBacked`), and committing them extends a prefix
(`SagaPrefix`) and moves each effect from "open" to "committed"
(`EffectsAccounted`).  `ConfirmationLocked` adds that "confirmed" is never a
stored status: whoever sees it holds the plan's row.  TLC checks the whole
invariant in run `confirm` before it is proved.  The proofs go action by action;
steps that touch neither ledger, locks nor sessions share one lemma.  The
refinement proof uses the invariant to show that the `attempt` of the abstract
saga belongs to one plan.

What plan and run report (`SummaryInv` in `ConfirmationProofs`): a row agrees
with itself and with the ledger wherever it is, in the table or in a session
that may write it back long after (`RowsSound`); that stays true because ledger
rows are only added (`LedgerIsExtended`, from `OwnRows`).  A failure among the
results is in the ledger or will be (`FailuresRecorded`), so an outcome is
recorded when its handler commits (`OutcomeIsRecorded`), and one that completes
the run has only successes, since the feedback writer accepts nothing skipped.

For memory the theorems hold for any list of keys without repetition, any
requests, runs and contents (`KeyAssumption`, `NoRowAssumption`,
`SentAssumption`).  `StatusIsAsked` alone is not inductive: a commit may bring in
a row written long before.  `MemoryInv` adds what makes it so.  Feedback has read
a candidate if it has read anything (`SeenFits`), so its UPDATE never contains
the status, and what it has pending has the status of the committed row
(`PendingFits`), which nobody else can change while it holds the lock; a change
by the user does send the status, because a control that would not change it
has been answered before (`LoadedFits`).  `InOrder` (keys to come are behind keys
written) gives `NoEmbrace`; `SummaryFits` with the locks gives `SummaryIsTrue`.
The two influence properties need `StatusIsAsked` and the lifecycle resolved at
the time of reading.

For planning they hold for any finite set of pairs, any number of drafts and any
budget of recoveries.  `Standing` says what rows, status and selection are when
each node starts, which is what `HandOver` says of the end; `DraftsInv` follows
the drafts from the planner to the presentation (different pairs, all offered by
the last enrichment, none excluded; the review is about them), which gives
`PlansAreReviewed`.  The recovery state is counted along the loop: the
validator's decision finds no room for a second replacement or expansion, so
the number of nodes is a function of node, exclusions and level.
That nothing safe is withheld is a matter of every round (`GivingUp`): a round
begins and recovers with nothing safe among the drafts (`Presenting`); without a
planner model the drafts are all that was generated but for excluded pairs
(`AllDrafted`); and then a replacement leaves drafts all known to be blocked, on
which the policy stops, because it has replaced before (`InVain`).

For the limiter: counts given in one window are different and at most the
counter (`CountsInOrder`), and a counter that does not expire has an owner who
still owes the expiry (`ExpiryIsOwed`).  The refinement carries both over to
the runs.  The cache holds, for each key, the last answer of the provider to
that call (`EntriesAreAnswers`).

For a run's evidence `EvidenceInv` joins these with what a run knows (`Known`).
The rows of the event table are of their types and numbered by their places
(`RowsTyped`); what is still to be asked is about what was found (`ToAsk`) and no
question is put twice (`AskedOnce`, `RoutesOnce`).  So what a candidate or a
route holds was said by a row of this search (`Backed`), and conversely, because
nothing is asked twice, what a row says of a table or a queue is what its
restaurant holds (`Heard`).  Drafts and reviews are functions of that (`Made`).
`DraftsAreBacked` goes from each check of the gate to the row it was made from.
`GateFollowsPolicy` compares two algorithms: the sort of all usable pairs by
their keys is an order of a finite set (`ListProofs`), so each pair the policy
calls usable is drafted once, and each check of the gate that can fail a draft
is one of the cases of the policy's verdict.

For conversations the key is `TurnsInv`: a request's own turns start right after
the stored ones (`own[r]` is the user's turn at the size of the conversation
plus one, and perhaps the assistant's), so two requests that had inserted turns
of one conversation would have inserted the same index: the unique key
serialises a conversation from the first INSERT to the commit, although nothing
locks it.  `RowsInv` says how a row follows its source when it is opened, and
that decisions leave that part alone; `SaidInv` and `HeardInv` follow what was
said and heard from a session to the tables.

What a client sees of a run is computed by folds over the nodes it has passed.
`ListProofs` turns a fold into the function of its intermediate results
(`FoldingExists`), so that one more node is one more step of the stages
(`HistoryAppend`) and of what has been sent (`SentAppend`).  The graph keeps the
stages a prefix of one list of nine (`Upto`): `Reached` says how many of them there
can be before each node, on the first pass and after a recovery, and `Watched`,
that a stream has sent all of them, both searches one after the other, and
nothing out of order.  The last snapshot is therefore the prefix that the row's
own snapshot shows (`StreamsAgree`); only a repeated search goes back, since it
is the only node that reports a prefix shorter than the one reached.

`DecisionsAreKept` rests on what a session that decides has read.  A request that
has committed has nothing more to do (`OverInv`), so what has overlapped it stays
so (`PastKept`).  `StatusInv` says which declines copy: a declined run has a
decline that is stored, so a request is `redeclining` or `rewriting` only if
another decline of its run had been stored when it read the status.  `StepsInv` then holds at
three places: each stored decision is in the history of its run or `Overlapped`;
what a session's copy lacks is overlapped or can be missed by it (`CanMiss`); and
so is what the row lacks that a session is about to commit.  The commit turns what
can be missed into what is overlapped; a decline that locks the row first lacks
nothing, since it reads after the lock (`CopyMisses`).
`ExecutionsAreShown` needs `ShownInv` (a history names only decisions on its run
that were stored, and a status that tells of an execution came from a confirm)
and `HiddenInv`, the same three places for histories without any confirm: a
confirm's own row names it, so only a decline's can hide one.

## 7. What is only model-checked, and what is not modelled

Only model-checked:

* Liveness (`RequestsEnd` of both systems, `RunEnds`): out of the prover's reach.
* How the systems fit together, beyond what they share: `HandOver` is proved of
  `PlanningWorkflow` in terms of the same `AwaitingPlans` and `UnselectedPlans`
  from which `ConfirmTransactions` starts, and `ReviewAgrees` of
  `EvidenceCollection` in terms of the same `RecoveryPolicy` that
  `PlanningWorkflow` runs; no theorem is about a composition of two of them.

Every invariant that a passing run checks, and the refinement of `WriteSaga`, is
a theorem.

Pairwise waiting is all that `NoEmbrace` excludes; longer cycles are excluded by
the same order, which is proved as part of the invariant (`InOrder`).

Abstracted inside the models: who confirmed and when, wording, traces, timing,
agent metadata; the content of plans and payloads.  `pending` ledger rows are
invisible to other transactions and left out.  In `ConfirmTransactions` the new
run that replan creates appears only as success or failure (`Conversations` has
it), in `Conversations` the plans of a run only as `presented`.  In
`PlanningWorkflow` scoring is any order of pairs and evidence is what gate and
generator tell apart (`EvidenceCollection` has both in detail).  In
`EvidenceCollection`: texts, slots, prices and tags but two; minutes and meters
are a short and a long value; the queue's id is its place; latency and trace
ids; refusals of an unknown tool or provider, which the planner never names.  In
`Conversations`: the texts of turns, the merging of intents field by field (an
intent is the set of turns it was made of), labels and counts of progress.
In `MemoryGovernance`: validation and canonical form of values, texts,
provenance, minimization events (which share the fate of control events); the
query policy beyond the tier of an item and whether the user's own input already
speaks of its dimension; `LoadMemory` is one step because it is one SELECT.

Tool events are written by the run's planning transaction and by the one
execution that holds the run's row (`ExecutionIsExclusive`), so their sequence
numbers, a count of rows, cannot collide; for one transaction that is proved
(`EvidenceIsTypeCorrect`).

Not modelled: the intent parser (text to request); observability (projections of
stored rows and a best-effort trace file); the benchmark's graders and gates
(comparisons of stored results with thresholds, without a state); the
language-model client (one HTTP call; what it may answer is in
`PlanningWorkflow`); the frontend; the lock manager and progress stream of the
Redis runtime, which nothing calls; migrations.

## 8. Plan

Done, in the order of importance to the system: confirmation and execution, the
planning workflow, memory governance, the read path with drafts and review,
conversations and streams; proofs of every safety property the runs check.

Left: the frontend's reducer as the consumer of a stream (`ChatThread`), which
would turn the notes on streams in section 5 into properties of what the user
sees; the graders and gates as operators against their stated contracts; the
lease lock, once something uses it; a larger `conversation` (two conversations
of one user, a fourth request).
