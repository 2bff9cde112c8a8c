-------------------------- MODULE MemoryGovernance --------------------------
(***************************************************************************)
(* The memory items of one user, and the three parties that touch them:    *)
(*                                                                         *)
(*  - the user's own requests (create, update, control; a DELETE is the    *)
(*    control `suppress'), each a transaction that reads a row without     *)
(*    locking it and then writes it;                                       *)
(*  - the feedback writer, which leaves candidates in the transaction of   *)
(*    the confirm that executed a plan, key by key, and so holds the rows  *)
(*    it wrote until that transaction ends;                                *)
(*  - the planning runs, which let the governed rows shape their queries.  *)
(*                                                                         *)
(* PostgreSQL runs at READ COMMITTED: a read sees what is committed, an    *)
(* UPDATE waits for the row's lock and is then applied to the row as it is *)
(* now.  The ORM sends only the columns that differ from what its session  *)
(* has loaded.                                                             *)
(*                                                                         *)
(* A memory_type is always "preference".  The texts, which neither party   *)
(* writes any more, and the provenance columns are left out.               *)
(***************************************************************************)
EXTENDS Naturals, Sequences, FiniteSets, Functions

CONSTANTS
  KeyOrder,   \* the supported keys, in the order the extraction takes them
  Request,    \* requests of the user to the memory API
  Run,        \* runs whose confirm writes feedback
  Planning,   \* runs that plan with the memory
  Sent,       \* bound: what the user's requests may ask for
  NoRow       \* no row of a key

Key        == Range(KeyOrder)
Status     == {"active", "expired", "disabled", "ignored", "candidate"}
\* Below 0.5, from 0.5, from 0.8.
Confidence == {"low", "middle", "high"}
Expiry     == {"never", "soon"}
\* What the user writes, and what the tags of a selected plan say.
Value      == {"own", "tags"}

\* metadata_json: an empty document, or one with the list of control events.
Document == [ full : BOOLEAN, events : SUBSET Request ]

Row == [ status : Status, value : Value, confidence : Confidence,
         expires : Expiry, doc : Document ]

Order ==
       [ kind : {"create"}, key : Key, status : Status,
         confidence : Confidence, expires : Expiry ]
  \cup [ kind : {"update"}, key : Key, confidence : Confidence,
         expires : Expiry ]
  \cup [ kind : {"control"}, key : Key, status : Status ]

ASSUME NoRowAssumption == NoRow \notin Row
ASSUME SentAssumption  == Sent \subseteq Order
ASSUME KeyAssumption   == KeyOrder \in Seq(STRING) /\ IsInjective(KeyOrder)

VARIABLES
  items,      \* committed rows of memory_items
  late,       \* every expires_at is past
  stage,      \* how far a request is
  order,      \* what a request asks for
  loaded,     \* the row a request has read
  writer,     \* how far the feedback of a run is
  todo,       \* keys the run's feedback has still to write
  seen,       \* the row it has read for the first of them
  pending,    \* rows written in its open transaction, and locked by it
  summary,    \* memory_candidate_summary
  influence,  \* of each item on a planning run
  asked       \* history: the status the user last got a row into

requestVars == <<stage, order, loaded>>
writerVars  == <<writer, todo, seen, pending, summary>>
vars == <<items, late, requestVars, writerVars, influence, asked>>

EmptyDocument == [ full |-> FALSE, events |-> {} ]
EmptySummary  == [ created |-> {}, updated |-> {}, skipped |-> {} ]

\* The tags of a plan give candidates for some of the keys, in their order.
Before(k, l) == \E i, j \in DOMAIN KeyOrder :
                  i < j /\ KeyOrder[i] = k /\ KeyOrder[j] = l

SomeKeys == UNION { [ 1 .. n -> Key ] : n \in 0 .. Len(KeyOrder) }

\* Mutant of KeyLists: the keys in any order.
AnyOrder == { list \in SomeKeys : IsInjective(list) }

KeyLists == { list \in SomeKeys : \A i, j \in DOMAIN list :
                                    i < j => Before(list[i], list[j]) }

Init ==
  /\ items = [ k \in Key |-> NoRow ]
  /\ late = FALSE
  /\ stage = [ r \in Request |-> "idle" ]
  /\ order \in [ Request -> Sent ]
  /\ loaded = [ r \in Request |-> NoRow ]
  /\ writer = [ w \in Run |-> "read" ]
  /\ todo \in [ Run -> KeyLists ]
  /\ seen = [ w \in Run |-> NoRow ]
  /\ pending = [ w \in Run |-> [ k \in Key |-> NoRow ] ]
  /\ summary = [ w \in Run |-> EmptySummary ]
  /\ influence = [ p \in Planning |-> [ k \in Key |-> "unread" ] ]
  /\ asked = [ k \in Key |-> "nothing" ]

Exists(k)   == items[k] # NoRow
Unlocked(k) == \A w \in Run : pending[w][k] = NoRow

\* Mutant of Updated: all columns are sent, as the session has them.
WholeRow(now, old, new) == new

\* The UPDATE that makes `old', as it was loaded, into `new', applied to the
\* row as it is now: a column that does not differ is not in it.
Updated(now, old, new) ==
  LET Column(n, o, c) == IF n = o THEN c ELSE n
  IN  [ status     |-> Column(new.status, old.status, now.status),
        value      |-> Column(new.value, old.value, now.value),
        confidence |-> Column(new.confidence, old.confidence, now.confidence),
        expires    |-> Column(new.expires, old.expires, now.expires),
        doc        |-> Column(new.doc, old.doc, now.doc) ]

-----------------------------------------------------------------------------
(* The user's requests. *)

\* The document with one more event.  The copy is one level deep: the event
\* goes into the very list that the loaded document holds, and the two are
\* equal when the ORM compares them.  Only the first event makes a new list.
WithEvent(doc, r) ==
  IF doc.full THEN doc ELSE [ full |-> TRUE, events |-> {r} ]

\* The row a request wants, made of the row it has loaded.
Wanted(r) ==
  LET o == order[r]
      old == loaded[r]
  IN  CASE o.kind = "control" ->
             [ old EXCEPT !.status = o.status, !.doc = WithEvent(@, r) ]
        [] o.kind = "update" ->
             [ old EXCEPT !.value = "own", !.confidence = o.confidence,
                          !.expires = o.expires, !.doc = WithEvent(@, r) ]
        [] o.kind = "create" ->
             [ status |-> o.status, value |-> "own",
               confidence |-> o.confidence, expires |-> o.expires,
               doc |-> WithEvent(EmptyDocument, r) ]

\* The row is as the request would have it: nothing is written.
AlreadySo(o, row) ==
  CASE o.kind = "control" -> row.status = o.status
    [] o.kind = "update"  -> /\ row.value = "own"
                             /\ row.confidence = o.confidence
                             /\ row.expires = o.expires

\* The row is read, and the request answered if that is enough to do so.
LoadCreate(r) ==
  /\ stage[r] = "idle"
  /\ order[r].kind = "create"
  /\ stage' = [ stage EXCEPT ![r] = IF Exists(order[r].key) THEN "refused"
                                                            ELSE "loaded" ]
  /\ UNCHANGED <<items, late, order, loaded, writerVars, influence, asked>>

LoadChange(r) ==
  LET row == items[order[r].key]
  IN  /\ stage[r] = "idle"
      /\ order[r].kind # "create"
      /\ row # NoRow
      /\ IF AlreadySo(order[r], row)
         THEN /\ stage' = [ stage EXCEPT ![r] = "kept" ]
              /\ UNCHANGED loaded
         ELSE /\ stage' = [ stage EXCEPT ![r] = "loaded" ]
              /\ loaded' = [ loaded EXCEPT ![r] = row ]
      /\ UNCHANGED <<items, late, order, writerVars, influence, asked>>

\* INSERT and commit; the unique key refuses a second row.
ApplyCreate(r) ==
  LET k == order[r].key
  IN  /\ stage[r] = "loaded"
      /\ order[r].kind = "create"
      /\ Unlocked(k)
      /\ IF Exists(k)
         THEN /\ stage' = [ stage EXCEPT ![r] = "refused" ]
              /\ UNCHANGED <<items, asked>>
         ELSE /\ stage' = [ stage EXCEPT ![r] = "applied" ]
              /\ items' = [ items EXCEPT ![k] = Wanted(r) ]
              /\ asked' = [ asked EXCEPT ![k] = order[r].status ]
      /\ UNCHANGED <<late, order, loaded, writerVars, influence>>

\* UPDATE and commit.
ApplyChange(r) ==
  LET k == order[r].key
  IN  /\ stage[r] = "loaded"
      /\ order[r].kind # "create"
      /\ Unlocked(k)
      /\ stage' = [ stage EXCEPT ![r] = "applied" ]
      /\ items' = [ items EXCEPT ![k] = Updated(@, loaded[r], Wanted(r)) ]
      /\ loaded' = [ loaded EXCEPT ![r] = NoRow ]
      /\ asked' = IF order[r].kind = "control"
                  THEN [ asked EXCEPT ![k] = order[r].status ]
                  ELSE asked
      /\ UNCHANGED <<late, order, writerVars, influence>>

-----------------------------------------------------------------------------
(* The feedback writer, in the transaction of a confirm. *)

\* Mutant of CandidateRow: the status of old rows, not normalised.
LegacyRow ==
  [ status |-> "archived", value |-> "tags", confidence |-> "middle",
    expires |-> "never", doc |-> EmptyDocument ]

CandidateRow ==
  [ status |-> "candidate", value |-> "tags", confidence |-> "middle",
    expires |-> "never", doc |-> EmptyDocument ]

\* The first key of the list is dealt with, and is in the summary.
NextKey(w, noted) ==
  /\ todo' = [ todo EXCEPT ![w] = Tail(@) ]
  /\ summary' = [ summary EXCEPT ![w] = noted ]
  /\ writer' = [ writer EXCEPT ![w] = "read" ]
  /\ seen' = [ seen EXCEPT ![w] = NoRow ]

\* A row that is not a candidate is the user's: its key is skipped.
FeedbackRead(w) ==
  /\ writer[w] = "read"
  /\ todo[w] # <<>>
  /\ LET k   == Head(todo[w])
         row == items[k]
     IN  IF row # NoRow /\ row.status # "candidate"
         THEN NextKey(w, [ summary[w] EXCEPT !.skipped = @ \cup {k} ])
         ELSE /\ writer' = [ writer EXCEPT ![w] = "write" ]
              /\ seen' = [ seen EXCEPT ![w] = row ]
              /\ UNCHANGED <<todo, summary>>
  /\ UNCHANGED <<items, late, requestVars, pending, influence, asked>>

\* Mutant of FeedbackCreate: no unique key refuses the second row.
CreateUnchecked(w) ==
  LET k == Head(todo[w])
  IN  /\ writer[w] = "write"
      /\ seen[w] = NoRow
      /\ Unlocked(k)
      /\ pending' = [ pending EXCEPT ![w][k] = CandidateRow ]
      /\ NextKey(w, [ summary[w] EXCEPT !.created = @ \cup {k} ])
      /\ UNCHANGED <<items, late, requestVars, influence, asked>>

\* A key that another transaction has meanwhile given a row fails the INSERT,
\* and with it everything the session would still do: the exception is
\* caught, the confirm cannot commit any more.
FeedbackCreate(w) ==
  LET k == Head(todo[w])
  IN  /\ writer[w] = "write"
      /\ seen[w] = NoRow
      /\ Unlocked(k)
      /\ IF Exists(k)
         THEN /\ writer' = [ writer EXCEPT ![w] = "broken" ]
              /\ UNCHANGED <<todo, summary, seen, pending>>
         ELSE /\ pending' = [ pending EXCEPT ![w][k] = CandidateRow ]
              /\ NextKey(w, [ summary[w] EXCEPT !.created = @ \cup {k} ])
      /\ UNCHANGED <<items, late, requestVars, influence, asked>>

FeedbackUpdate(w) ==
  LET k == Head(todo[w])
  IN  /\ writer[w] = "write"
      /\ seen[w] # NoRow
      /\ Unlocked(k)
      /\ pending' = [ pending EXCEPT
                        ![w][k] = Updated(items[k], seen[w], CandidateRow) ]
      /\ NextKey(w, [ summary[w] EXCEPT !.updated = @ \cup {k} ])
      /\ UNCHANGED <<items, late, requestVars, influence, asked>>

\* What a transaction has written is in the table once it commits.
WithPending(w) ==
  [ k \in Key |-> IF pending[w][k] = NoRow THEN items[k] ELSE pending[w][k] ]

FeedbackCommit(w) ==
  /\ writer[w] = "read"
  /\ todo[w] = <<>>
  /\ writer' = [ writer EXCEPT ![w] = "committed" ]
  /\ items' = WithPending(w)
  /\ pending' = [ pending EXCEPT ![w] = [ k \in Key |-> NoRow ] ]
  /\ UNCHANGED <<late, requestVars, todo, seen, summary, influence, asked>>

\* The confirm fails, for a reason of its own or for the broken session.
FeedbackRollback(w) ==
  /\ writer[w] \in {"read", "write", "broken"}
  /\ writer' = [ writer EXCEPT ![w] = "rolled_back" ]
  /\ seen' = [ seen EXCEPT ![w] = NoRow ]
  /\ pending' = [ pending EXCEPT ![w] = [ k \in Key |-> NoRow ] ]
  /\ UNCHANGED <<items, late, requestVars, todo, summary, influence, asked>>

-----------------------------------------------------------------------------
(* The planning runs. *)

\* Mutant of LifecycleState: expires_at is not looked at.
PersistedStatus(row) == row.status

LifecycleState(row) ==
  IF row.status = "active" /\ row.expires = "soon" /\ late
  THEN "expired" ELSE row.status

\* Mutant of Governable: all rows of the user (list_for_user).
Listed(k) == Exists(k)

Governable(k) == Exists(k) /\ items[k].status \in {"active", "expired"}

MemoryTier(confidence, expired) ==
  CASE ~expired /\ confidence = "high"   -> "trusted"
    [] ~expired /\ confidence = "middle" -> "advisory"
    [] expired /\ confidence = "high"    -> "advisory"
    [] OTHER                             -> "weak"

\* What a run makes of the items it has loaded; `said' are the keys whose
\* dimension the user's own input already speaks of.
Influence(k, said) ==
  IF ~Governable(k) \/ k \in said THEN "none"
  ELSE LET tier == MemoryTier(items[k].confidence,
                              LifecycleState(items[k]) = "expired")
       IN  CASE tier = "trusted"  -> "primary"
             [] tier = "advisory" -> "advisory"
             [] tier = "weak"     -> "none"

\* load_memory reads all rows and resolves their lifecycle in one go; what
\* generate_queries makes of them depends on nothing else that can change.
LoadMemory(p) ==
  /\ \A k \in Key : influence[p][k] = "unread"
  /\ \E said \in SUBSET Key :
       influence' = [ influence EXCEPT
                        ![p] = [ k \in Key |-> Influence(k, said) ] ]
  /\ UNCHANGED <<items, late, requestVars, writerVars, asked>>

\* Time passes.
Lapse ==
  /\ ~late
  /\ late' = TRUE
  /\ UNCHANGED <<items, requestVars, writerVars, influence, asked>>

-----------------------------------------------------------------------------

RequestStep(r) ==
  LoadCreate(r) \/ LoadChange(r) \/ ApplyCreate(r) \/ ApplyChange(r)

WriterStep(w) ==
  \/ FeedbackRead(w) \/ FeedbackCreate(w) \/ FeedbackUpdate(w)
  \/ FeedbackCommit(w) \/ FeedbackRollback(w)

Next ==
  \/ \E r \in Request : RequestStep(r)
  \/ \E w \in Run : WriterStep(w)
  \/ \E p \in Planning : LoadMemory(p)
  \/ Lapse

Spec == Init /\ [][Next]_vars

-----------------------------------------------------------------------------
(* Types of the variables: every row of memory_items and every row held by  *)
(* an open transaction is a row of the schema.                              *)
TypeOK ==
  /\ items \in [ Key -> Row \cup {NoRow} ]
  /\ late \in BOOLEAN
  /\ stage \in [ Request -> {"idle", "loaded", "applied", "kept", "refused"} ]
  /\ order \in [ Request -> Sent ]
  /\ loaded \in [ Request -> Row \cup {NoRow} ]
  /\ writer \in [ Run -> {"read", "write", "broken", "committed",
                          "rolled_back"} ]
  /\ todo \in [ Run -> Seq(Key) ]
  /\ seen \in [ Run -> Row \cup {NoRow} ]
  /\ pending \in [ Run -> [ Key -> Row \cup {NoRow} ] ]
  /\ summary \in [ Run -> [ created : SUBSET Key, updated : SUBSET Key,
                            skipped : SUBSET Key ] ]
  /\ influence \in [ Planning ->
                     [ Key -> {"unread", "none", "advisory", "primary"} ] ]
  /\ asked \in [ Key -> Status \cup {"nothing"} ]

(* A memory item has the status its user last gave it, and is a candidate   *)
(* as long as the user has said nothing: a feedback transaction that was    *)
(* open across the user's decision does not undo it when it commits         *)
(* (MemoryItemRepository.update).                                           *)
StatusIsAsked ==
  \A k \in Key : Exists(k) =>
    items[k].status = IF asked[k] = "nothing" THEN "candidate" ELSE asked[k]

(* No item has influence on a plan that the user has not made active, or    *)
(* expired, and left so: neither what feedback inferred nor what the user   *)
(* has turned off shapes a query (MemoryItemRepository.                     *)
(* list_governable_for_user).                                               *)
InfluenceIsAsked ==
  [][ \A p \in Planning, k \in Key :
        influence'[p][k] \in {"advisory", "primary"} =>
          \/ influence[p][k] = influence'[p][k]
          \/ asked[k] \in {"active", "expired"} ]_vars

(* Primary influence is for an item the user keeps active, and whose        *)
(* expiry, if any, has not passed by the time it is loaded (memory_tier).   *)
PrimaryIsCurrent ==
  [][ \A p \in Planning, k \in Key :
        influence'[p][k] = "primary" =>
          \/ influence[p][k] = "primary"
          \/ /\ asked[k] = "active"
             /\ late => items[k].expires = "never" ]_vars

(* Two confirms of one user never wait for each other's memory rows: they   *)
(* take the keys in one order (extract_feedback_memory_candidates).         *)
Waits(w, v) ==
  /\ writer[w] = "write"
  /\ pending[v][Head(todo[w])] # NoRow

NoEmbrace == \A w, v \in Run : ~(Waits(w, v) /\ Waits(v, w))

(* The candidate summary a confirm stores is what its commit did to the     *)
(* table: a key it calls created had no row before and has one now, a key   *)
(* it calls updated had one, and a key it calls skipped it left alone       *)
(* (DeterministicFeedbackWriter._persist_memory_candidates).                *)
SummaryIsTrue ==
  [][ \A w \in Run : writer'[w] = "committed" /\ writer[w] # "committed" =>
        \A k \in Key :
          /\ k \in summary[w].created <=> ~Exists(k) /\ items'[k] # NoRow
          /\ k \in summary[w].updated => Exists(k)
          /\ k \in summary[w].skipped => items'[k] = items[k] ]_vars

(* What the documents promise and the code does not keep. *)

(* docs/specs/119-memory-crud-governance-v0.md:160: every create, update    *)
(* and control appends one event to the row's document.                     *)
EveryChangeRecorded ==
  \A r \in Request :
    stage[r] = "applied" => r \in items[order[r].key].doc.events

(* docs/specs/097-sensitive-memory-feedback-candidate-v0.md:106: feedback   *)
(* does not overwrite a row whose persisted status is not candidate.        *)
OthersUntouched ==
  [][ \A w \in Run : writer'[w] = "committed" /\ writer[w] # "committed" =>
        \A k \in Key :
          Exists(k) /\ items[k].status # "candidate" =>
            items'[k] = items[k] ]_vars

============================================================================
