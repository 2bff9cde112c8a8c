--------------------------- MODULE EvidenceCollection ---------------------------
(***************************************************************************)
(* How one run of the planning workflow learns what its drafts rest on:    *)
(* the calls of read tools through the gateway (failure injection, rate    *)
(* limit, cache, provider, event), the collection of candidates, their     *)
(* enrichment, and then the drafts and their review.                       *)
(*                                                                         *)
(* The limiter's key is shared with other runs of the same user.  The      *)
(* cache is not: a run's id is part of its keys.  The rows of tool_events  *)
(* belong to the run's transaction and are lost when its process dies.     *)
(*                                                                         *)
(* The benchmark's expansion of a search widens its limit only; a run that *)
(* replaces a draft collects nothing more and ends here.                   *)
(***************************************************************************)
EXTENDS RateLimiter, ReviewGate, SequencesExt

CONSTANTS
  Self,         \* this run, among the clients of the limiter
  Place,        \* what a search may find
  CategoryOf,   \* the category the mock world gives to a place
  Unlocated,    \* places without coordinates
  Listings,     \* what the search for a category may find
  UsualListing, \* what it finds when nothing is out of the ordinary
  Requests,     \* requests and profiles
  Malformed,    \* an answer without the object that is expected in it
  NoAnswer,     \* no answer
  Injectors,    \* failure rules: for a tool, its status and its answer
  MaxDrafts,    \* drafts the generator makes at most
  MaxChosen,    \* candidates of a kind that are enriched
  Surprises     \* bound: answers out of the ordinary, expiries, and calls
                \* and deaths of other clients

ASSUME SelfAssumption == Self \in Client
ASSUME BoundAssumption ==
  MaxDrafts \in Nat /\ MaxChosen \in Nat /\ Surprises \in Nat

Policy == INSTANCE RecoveryPolicy

Role == {"activity", "dining", "addon"}

ASSUME RequestAssumption ==
  Requests \subseteq [ profile : {"mock_world", "amap"}, addon : BOOLEAN,
                       spouse : BOOLEAN, child : BOOLEAN, light : BOOLEAN,
                       maxMeters : Nat, minutes : SUBSET Nat ]
ASSUME ListingAssumption ==
  /\ \A role \in Role : Listings[role] \subseteq Seq(Place)
  /\ CategoryOf \in [Place -> STRING]

VARIABLES
  request,     \* intent and profile
  injector,    \* the rules of this run
  phase,       \* the node at work
  level,       \* search_expansion_level
  todo,        \* the calls that the node has yet to make
  events,      \* rows of tool_events, in the order of their sequence
  since,       \* history: events before this search
  cache,       \* entries of the run, by tool and payload
  collection,  \* candidates, by kind
  enriched,    \* enriched candidates, by kind
  routes,      \* route_matrix
  drafts,      \* itinerary_drafts
  reviewed,    \* the review of each draft
  surprises    \* bound: how many there have been

found == <<collection, enriched, routes>>
plan  == <<request, injector, level, since, drafts, reviewed>>
vars  == <<limiter, request, injector, phase, level, todo, events, since, cache,
           found, drafts, reviewed, surprises>>

----------------------------------------------------------------------------
(* What is called *)

CallOf(tool, on, role, at) ==
  [tool |-> tool, on |-> on, role |-> role, at |-> at]

Search(wanted) == CallOf("search_poi", <<wanted>>, wanted, 0)

InitialCalls(q) ==
  <<Search("activity"), Search("dining")>>
  \o (IF q.addon /\ q.profile = "mock_world" THEN <<Search("addon")>> ELSE <<>>)
  \o <<CallOf("check_weather", <<>>, "weather", 0)>>

Templates(q) ==
  IF q.profile = "amap" THEN {"get_poi_detail"}
  ELSE {"get_poi_detail", "check_opening_hours", "check_queue",
        "check_table_availability", "check_ticket_availability"}

ToolOrder ==
  [ activity |-> <<"get_poi_detail", "check_opening_hours",
                   "check_ticket_availability">>,
    dining   |-> <<"get_poi_detail", "check_opening_hours", "check_queue",
                   "check_table_availability">>,
    addon    |-> <<"get_poi_detail", "check_opening_hours">> ]

\* The first candidates, each place once.
Chosen(list, n) ==
  LET new == Kept(list, {i \in DOMAIN list : \A j \in 1 .. i - 1 :
                                               list[j].place # list[i].place})
  IN  [i \in 1 .. Least(n, Len(new)) |-> new[i]]

EnrichmentCalls(q, role, list) ==
  LET order == ToolOrder[role]
      tools == Kept(order, {t \in DOMAIN order : order[t] \in Templates(q)})
  IN  FlattenSeq([i \in DOMAIN list |->
        [t \in DOMAIN tools |-> CallOf(tools[t], <<list[i].place>>, role, i)]])

RouteCalls(from, to) ==
  FlattenSeq([i \in DOMAIN from |->
    [j \in DOMAIN to |->
      CallOf("check_route", <<from[i].place, to[j].place>>, "route", 0)]])

----------------------------------------------------------------------------
(* What a provider may answer *)

Field ==
  [ get_poi_detail            |-> "detail",
    check_opening_hours       |-> "hours",
    check_queue               |-> "queue",
    check_table_availability  |-> "table",
    check_ticket_availability |-> "ticket" ]

\* A place that sells water as a vendor, or whose details have a key name
\* that the review takes for secret, is told from the others.
Replies ==
  [ get_poi_detail            |-> {"plain", "vends", "sensitive"},
    check_opening_hours       |-> {"open", "closed"},
    check_queue               |-> {"short", "long", "closed", "other"},
    check_table_availability  |-> {"available", "unavailable"},
    check_ticket_availability |-> {"available", "unavailable"},
    check_weather             |-> {"weather"},
    check_route               |-> {"near", "far", "unmeasured"} ]

\* The two effects of a rule: a failure, or an answer in place of the
\* provider's, which need not have the expected object.
ASSUME InjectorAssumption ==
  \A rules \in Injectors : \A tool \in DOMAIN rules :
    LET rule == rules[tool]
    IN  /\ tool \in {"search_poi"} \union DOMAIN Replies
        /\ rule.status \in {"failed", "succeeded"}
        /\ rule.status = "succeeded" /\ rule.answer # Malformed =>
             IF tool = "search_poi" THEN rule.answer \in Seq(Place)
                                    ELSE rule.answer \in Replies[tool]
ASSUME MalformedAssumption ==
  \A tool \in DOMAIN Replies : Malformed \notin Replies[tool]

Answers(call) ==
  {Malformed} \union
  (IF call.tool = "search_poi" THEN Listings[call.role] ELSE Replies[call.tool])

Usual(call) ==
  CASE call.tool = "search_poi"          -> UsualListing[call.role]
    [] call.tool = "get_poi_detail"      ->
         IF call.role = "addon" THEN "vends" ELSE "plain"
    [] call.tool = "check_opening_hours" -> "open"
    [] call.tool = "check_queue"         -> "short"
    [] call.tool = "check_weather"       -> "weather"
    [] call.tool = "check_route"         -> "near"
    [] OTHER                             -> "available"

----------------------------------------------------------------------------

Init ==
  /\ LimiterInit
  /\ request \in Requests
  /\ injector \in Injectors
  /\ phase = "searching"
  /\ level = 0
  /\ todo = InitialCalls(request)
  /\ events = <<>>
  /\ since = 0
  /\ cache = <<>>
  /\ collection = [role \in Role |-> <<>>]
  /\ enriched = [role \in Role |-> <<>>]
  /\ routes = <<>>
  /\ drafts = <<>>
  /\ reviewed = <<>>
  /\ surprises = 0

----------------------------------------------------------------------------
(* What a node makes of a result *)

UsableStatus == {"succeeded", "cached"}

\* The category of a search's result; amap has none, and takes the query's.
Category(call, place) ==
  IF request.profile = "amap" THEN call.role ELSE CategoryOf[place]

Kind(category) ==
  IF category \in {"activity", "dining"} THEN category ELSE "addon"

\* Results of a search, by kind.  A malformed answer adds nothing.
Collect(call, answer) ==
  [role \in Role |->
    LET kept == Kept(answer, {i \in DOMAIN answer :
                                Kind(Category(call, answer[i])) = role})
    IN  collection[role] \o
          [i \in DOMAIN kept |->
            [place |-> kept[i], category |-> Category(call, kept[i])]]]

\* The event is kept with its candidate in any case, the answer when it is
\* usable and well formed.
Attach(call, number, status, answer) ==
  LET x     == enriched[call.role][call.at]
      field == Field[call.tool]
  IN  [enriched EXCEPT ![call.role][call.at] =
        [x EXCEPT !.events = x.events \union {number},
                  ![field] = IF status \in UsableStatus /\ answer # Malformed
                             THEN answer ELSE x[field]]]

\* Exactly one entry of the matrix for each call.
Entered(call, number, status, answer) ==
  LET good == status \in UsableStatus /\ answer # Malformed
  IN  Append(routes,
        [ from |-> call.on[1], to |-> call.on[2], event |-> number,
          status |-> IF status \in UsableStatus /\ answer = Malformed
                     THEN "failed" ELSE status,
          length |-> IF good THEN answer ELSE "none" ])

Take(call, number, status, answer) ==
  CASE call.tool = "search_poi" ->
         /\ collection' = IF status \in UsableStatus /\ answer # Malformed
                          THEN Collect(call, answer) ELSE collection
         /\ UNCHANGED <<enriched, routes>>
    [] call.tool = "check_weather" -> UNCHANGED found
    [] call.tool = "check_route" ->
         /\ routes' = Entered(call, number, status, answer)
         /\ UNCHANGED <<collection, enriched>>
    [] OTHER ->
         /\ enriched' = Attach(call, number, status, answer)
         /\ UNCHANGED <<collection, routes>>

----------------------------------------------------------------------------
(* ToolGateway.invoke *)

Limited == {"search_poi"}
Cached  == {"check_weather", "check_queue", "check_table_availability",
            "check_ticket_availability"}

\* Mutant of CacheKey: the payload is not part of the key.
KeyOfTool(call) == [tool |-> call.tool, on |-> <<>>]

CacheKey(call) == [tool |-> call.tool, on |-> call.on]

Calling == phase \in {"searching", "enriching"} /\ todo # <<>>

\* A route of amap needs coordinates; what is missing is a failed result
\* without an event.
InputMissing(call) ==
  /\ request.profile = "amap" /\ call.tool = "check_route"
  /\ \E i \in DOMAIN call.on : call.on[i] \in Unlocated

Invoked == Calling /\ ~ InputMissing(Head(todo))

\* Mutant of NextSequence: the count is not advanced.
RowCount == Len(events)

NextSequence == Len(events) + 1

\* _record_result, and what the node makes of it.
Record(status, answer, hit, injected) ==
  LET call == Head(todo)
  IN  /\ events' = Append(events,
                     [ tool |-> call.tool, on |-> call.on, status |-> status,
                       answer |-> answer, hit |-> hit, injected |-> injected,
                       sequence |-> NextSequence ])
      /\ Take(call, NextSequence, status, answer)
      /\ todo' = Tail(todo)
      /\ UNCHANGED <<phase, plan>>

SkipCall ==
  /\ Calling /\ InputMissing(Head(todo))
  /\ routes' = Entered(Head(todo), 0, "failed", NoAnswer)
  /\ todo' = Tail(todo)
  /\ UNCHANGED <<limiter, phase, plan, events, cache, collection, enriched,
                 surprises>>

\* The first rule for the tool decides; nothing else is asked.
Inject ==
  LET call == Head(todo)
  IN  /\ Invoked /\ call.tool \in DOMAIN injector
      /\ Record(injector[call.tool].status, injector[call.tool].answer, FALSE,
                TRUE)
      /\ UNCHANGED <<limiter, cache, surprises>>

Asks == Invoked /\ Head(todo).tool \notin DOMAIN injector

AskLimiter ==
  /\ Asks /\ Head(todo).tool \in Limited
  /\ Increment(Self) \/ SetExpiry(Self)
  /\ UNCHANGED <<phase, plan, todo, events, cache, found, surprises>>

Refused ==
  /\ Asks /\ Head(todo).tool \in Limited
  /\ ~ Allowed(Self) /\ Return(Self)
  /\ Record("rate_limited", NoAnswer, FALSE, FALSE)
  /\ UNCHANGED <<cache, surprises>>

Permitted ==
  /\ Asks
  /\ IF Head(todo).tool \in Limited THEN Allowed(Self) /\ Return(Self)
                                     ELSE UNCHANGED limiter

InCache == CacheKey(Head(todo)) \in DOMAIN cache

CacheHit ==
  /\ Permitted /\ InCache
  /\ Record("cached", cache[CacheKey(Head(todo))], TRUE, FALSE)
  /\ UNCHANGED <<cache, surprises>>

\* An entry of the cache may have expired.
Surprised(n) == surprises + n <= Surprises /\ surprises' = surprises + n
Expired == IF InCache THEN 1 ELSE 0

Stored(key, answer) ==
  [k \in DOMAIN cache \union {key} |-> IF k = key THEN answer ELSE cache[k]]

ProviderAnswers ==
  LET call == Head(todo)
  IN  /\ Permitted
      /\ \E answer \in Answers(call) :
           /\ Surprised(Expired + IF answer = Usual(call) THEN 0 ELSE 1)
           /\ cache' = IF call.tool \in Cached
                       THEN Stored(CacheKey(call), answer) ELSE cache
           /\ Record("succeeded", answer, FALSE, FALSE)

ProviderFails ==
  /\ Permitted /\ Surprised(Expired + 1)
  /\ Record("failed", NoAnswer, FALSE, FALSE)
  /\ UNCHANGED cache

----------------------------------------------------------------------------
(* The nodes *)

Fresh(list) ==
  [i \in DOMAIN list |->
    [ place |-> list[i].place, category |-> list[i].category, detail |-> "none",
      hours |-> "none", queue |-> "none", table |-> "none", ticket |-> "none",
      events |-> {} ]]

\* Candidates are chosen before any of them is looked at.  One candidate of
\* another kind is enriched.
PreFlightCheckAvailability ==
  LET a == Chosen(collection.activity, MaxChosen)
      d == Chosen(collection.dining, MaxChosen)
      o == Chosen(collection.addon, 1)
  IN  /\ phase = "searching" /\ todo = <<>>
      /\ phase' = "enriching"
      /\ enriched' = [activity |-> Fresh(a), dining |-> Fresh(d),
                      addon |-> Fresh(o)]
      /\ routes' = <<>>
      /\ todo' = EnrichmentCalls(request, "activity", a)
                 \o EnrichmentCalls(request, "dining", d)
                 \o EnrichmentCalls(request, "addon", o)
                 \o RouteCalls(a, d) \o RouteCalls(d, o)
      /\ UNCHANGED <<limiter, plan, events, cache, collection, surprises>>

Evidence ==
  [ activity |-> enriched.activity, dining |-> enriched.dining,
    addon |-> enriched.addon, routes |-> routes ]

LogicalPlannerAgent ==
  /\ phase = "enriching" /\ todo = <<>>
  /\ phase' = "drafted"
  /\ drafts' = Drafts(request, Evidence, MaxDrafts)
  /\ UNCHANGED <<limiter, request, injector, level, since, reviewed, todo,
                 events, cache, found, surprises>>

\* A review as the recovery policy reads it.
VerdictOf(review) ==
  CASE review.failed = {} -> "safe"
    [] "dining_availability" \in review.failed -> review.availability
    [] OTHER -> "boundary"

RecoveryAction(reviews) ==
  Policy!Decide([i \in DOMAIN drafts |->
                  [ pair    |-> <<drafts[i].activity, drafts[i].dining>>,
                    verdict |-> VerdictOf(reviews[i]) ]],
                0, FailedReason(Evidence) = "missing_usable_route", {}, level,
                {})

SemanticValidator ==
  /\ phase = "drafted"
  /\ reviewed' = [i \in DOMAIN drafts |->
                   ReviewedDraft(drafts[i], Evidence, request)]
  /\ phase' = IF RecoveryAction(reviewed') = "expand_search_radius"
              THEN "expanding" ELSE "done"
  /\ UNCHANGED <<limiter, request, injector, level, since, drafts, todo,
                 events, cache, found, surprises>>

\* The search is made again, and its collection takes the old one's place.
ApplyRecovery ==
  /\ phase = "expanding"
  /\ phase' = "searching" /\ level' = 1
  /\ todo' = InitialCalls(request)
  /\ since' = Len(events)
  /\ collection' = [role \in Role |-> <<>>]
  /\ UNCHANGED <<limiter, request, injector, drafts, reviewed, events, cache,
                 enriched, routes, surprises>>

----------------------------------------------------------------------------
(* Around the run *)

\* The process ends, or a service it needs: the transaction is rolled back.
Crash ==
  /\ phase \notin {"done", "crashed"}
  /\ phase' = "crashed"
  /\ IF turn[Self].at = "idle" THEN UNCHANGED limiter ELSE Die(Self)
  /\ events' = <<>> /\ since' = 0 /\ todo' = <<>> /\ cache' = <<>>
  /\ collection' = [role \in Role |-> <<>>]
  /\ enriched' = [role \in Role |-> <<>>]
  /\ routes' = <<>> /\ drafts' = <<>> /\ reviewed' = <<>>
  /\ UNCHANGED <<request, injector, level, surprises>>

\* Other runs of the user search, too.  What they do while this run does
\* not search is not told from what they do before its next search.
Others ==
  /\ phase = "searching"
  /\ \/ /\ \E c \in Client \ {Self} : SetExpiry(c) \/ Return(c)
        /\ UNCHANGED surprises
     \/ /\ Surprised(1)
        /\ \/ \E c \in Client \ {Self} : Increment(c) \/ Die(c)
           \/ WindowEnds
  /\ UNCHANGED <<phase, plan, todo, events, cache, found>>

Next ==
  \/ SkipCall \/ Inject \/ AskLimiter \/ Refused \/ CacheHit
  \/ ProviderAnswers \/ ProviderFails
  \/ PreFlightCheckAvailability \/ LogicalPlannerAgent \/ SemanticValidator
  \/ ApplyRecovery \/ Crash \/ Others

Spec == Init /\ [][Next]_vars

----------------------------------------------------------------------------
(* Properties *)

TypeOK ==
  /\ LimiterTypeOK
  /\ request \in Requests /\ injector \in Injectors
  /\ phase \in {"searching", "enriching", "drafted", "expanding", "done",
                "crashed"}
  /\ level \in 0 .. 1 /\ since \in 0 .. Len(events)
  /\ surprises \in 0 .. Surprises
  /\ \A n \in DOMAIN events :
       /\ events[n].sequence = n
       /\ events[n].status \in {"succeeded", "cached", "failed",
                                "rate_limited"}
  /\ \A key \in DOMAIN cache : key.tool \in Cached
  /\ Len(drafts) <= MaxDrafts
  /\ phase = "done" => Len(reviewed) = Len(drafts)

\* What the cache answers is the provider's own last answer to the very same
\* call of the very same run: not an injected one, and not one about another
\* place.  (gateway.py:104-134, cache_keys.py:8)
CacheFaithful ==
  \A n \in DOMAIN events : events[n].hit =>
    \E m \in 1 .. n - 1 :
      /\ events[m].status = "succeeded" /\ ~ events[m].injected
      /\ events[m].tool = events[n].tool /\ events[m].on = events[n].on
      /\ events[m].answer = events[n].answer
      /\ \A k \in m + 1 .. n - 1 :
           events[k].tool = events[n].tool /\ events[k].on = events[n].on =>
             events[k].status # "succeeded"

\* An event of the last search says this of it.
Said(tool, on, answers) ==
  \E n \in since + 1 .. Len(events) :
    /\ events[n].tool = tool /\ events[n].on = on
    /\ events[n].status \in UsableStatus /\ events[n].answer \in answers

ActionSupported(d, a) ==
  CASE a.type = "reserve_restaurant" ->
         Said("check_table_availability", <<a.target>>, {"available"})
    [] a.type = "join_queue" ->
         /\ Said("check_queue", <<a.target>>, {"short", "long"})
         /\ ~ Said("check_table_availability", <<a.target>>, {"available"})
    [] a.type = "book_ticket" ->
         Said("check_ticket_availability", <<a.target>>, {"available"})
    [] a.type = "order_addon" ->
         /\ Said("check_opening_hours", <<a.target>>, {"open"})
         /\ Said("get_poi_detail", <<a.target>>, {"vends"})
         /\ Said("check_route", <<d.dining, a.target>>, Replies.check_route)
    [] a.type = "send_message" -> Len(d.actions) > 1

\* A draft that the review lets through is borne out by rows of tool_events
\* of this run and this search: its route, each thing it proposes to do, and
\* nothing said that its table is taken or its queue is closed.
\* (012-final-review-gate.md:55-66)
EvidenceBacked ==
  phase \in {"expanding", "done"} =>
    \A i \in DOMAIN drafts : reviewed[i].decision # "blocked" =>
      LET d == drafts[i]
      IN  /\ d.events \subseteq since + 1 .. Len(events)
          /\ Said("check_route", <<d.activity, d.dining>>, Replies.check_route)
          /\ \A k \in DOMAIN d.actions : ActionSupported(d, d.actions[k])
          /\ ~ Said("check_table_availability", <<d.dining>>, {"unavailable"})
          /\ ~ Said("check_queue", <<d.dining>>, {"closed"})

\* What the planning workflow's model takes for the evidence of a pair.
Summary(x, y) ==
  [ ticket    |-> IF x.ticket = "none" THEN "unknown" ELSE x.ticket,
    table     |-> IF y.table = "none" THEN "unknown" ELSE y.table,
    queue     |-> IF QueueIsOpen(y) THEN "open"
                  ELSE IF y.queue = "none" THEN "unknown" ELSE y.queue,
    route     |-> IF FindRoute(Evidence, x.place, y.place) > 0 THEN "usable"
                  ELSE "failed",
    sensitive |-> "sensitive" \in {x.detail, y.detail} ]

DraftsOf(x, y) ==
  {i \in DOMAIN drafts : drafts[i].activity = x.place
                         /\ drafts[i].dining = y.place}

\* The generator and the gate, in all their detail, decide as the abstract
\* policy of the planning workflow does: a pair gets its one draft when the
\* policy calls it usable, unless better ones fill the list, and the gate's
\* verdict on it is the policy's.
ReviewAgrees ==
  phase \in {"expanding", "done"} =>
    \A i \in DOMAIN enriched.activity, j \in DOMAIN enriched.dining :
      LET x == enriched.activity[i]
          y == enriched.dining[j]
          e == Summary(x, y)
      IN  /\ e \in Policy!Evidence
          /\ IF Policy!PairIsUsable(e)
             THEN Cardinality(DraftsOf(x, y)) = 1 \/ Len(drafts) = MaxDrafts
             ELSE DraftsOf(x, y) = {}
          /\ \A k \in DraftsOf(x, y) :
               VerdictOf(reviewed[k]) = Policy!GateVerdict(e)

============================================================================
