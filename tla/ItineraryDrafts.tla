---------------------------- MODULE ItineraryDrafts ----------------------------
(***************************************************************************)
(* How drafts of itineraries are made of what the enrichment found: which  *)
(* activities and restaurants are put together, in which order, and what a *)
(* draft proposes to do once it is confirmed.                              *)
(*                                                                         *)
(* An enriched candidate is a record of its place and of the tools'        *)
(* answers about it, "none" where there is no usable one.  Minutes and     *)
(* meters stand for themselves; names, texts and time slots are left out.  *)
(***************************************************************************)
EXTENDS Integers, Lists

CONSTANT NoPlace   \* an add-on that was not selected

----------------------------------------------------------------------------
(* What the answers say *)

\* Lengths of a route; an unmeasured one comes without minutes or meters.
Minutes == [near |-> 10, far |-> 130]
Meters  == [near |-> 700, far |-> 9000]
Unknown == 1000000   \* sorts after every known number

Waits == [short |-> 10, long |-> 45, closed |-> 30]

QueueIsOpen(x) == x.queue \in {"short", "long"}
WaitMinutes(x) == IF x.queue \in DOMAIN Waits THEN Waits[x.queue] ELSE Unknown
RouteIsUsable(r) == r.status \in {"succeeded", "cached"}
RouteMinutes(r) == IF r.length \in DOMAIN Minutes THEN Minutes[r.length]
                                                  ELSE Unknown
RouteMeters(r)  == IF r.length \in DOMAIN Meters THEN Meters[r.length]
                                                 ELSE Unknown

ActivityIsUsable(x) == x.ticket # "unavailable"

\* Mutant of DiningIsUsable: a queue alone never makes a place usable.
DiningNeedsTable(x) == x.table # "unavailable"

DiningIsUsable(x) ==
  \/ x.table = "available" \/ QueueIsOpen(x)
  \/ x.table = "none" /\ x.queue = "none"

TicketRank(x) == CASE x.ticket = "available" -> 0
                   [] x.ticket = "unavailable" -> 2
                   [] OTHER -> 1

DiningRank(x) == IF x.table = "available" THEN 0
                 ELSE IF QueueIsOpen(x) THEN 1 ELSE 2

----------------------------------------------------------------------------
(* Pairs, best first *)

\* Of the positions of a candidate in its list, 0 when it has none.
Position(at) ==
  IF at = {} THEN 0 ELSE CHOOSE i \in at : \A j \in at : j <= i

\* A pair is the positions of its activity, its restaurant and its route.
PairOf(e, r) ==
  [ activity |-> Position({i \in DOMAIN e.activity :
                             /\ e.activity[i].place = e.routes[r].from
                             /\ ActivityIsUsable(e.activity[i])}),
    dining   |-> Position({i \in DOMAIN e.dining :
                             /\ e.dining[i].place = e.routes[r].to
                             /\ DiningIsUsable(e.dining[i])}),
    route    |-> r ]

Pairs(e) ==
  {p \in {PairOf(e, r) : r \in {r \in DOMAIN e.routes :
                                  RouteIsUsable(e.routes[r])}} :
     p.activity > 0 /\ p.dining > 0}

SortKey(e, p) ==
  LET dining == e.dining[p.dining]
  IN  <<TicketRank(e.activity[p.activity]), DiningRank(dining),
        WaitMinutes(dining), RouteMinutes(e.routes[p.route]),
        RouteMeters(e.routes[p.route]), p.activity, p.dining>>

Precedes(s, t) ==
  \E i \in DOMAIN s : s[i] < t[i] /\ \A j \in 1 .. i - 1 : s[j] = t[j]

OrderedPairs(e) ==
  LET Before(p, q) == Precedes(SortKey(e, p), SortKey(e, q))
  IN  InOrder(Pairs(e), Before)

----------------------------------------------------------------------------
(* One draft *)

Least(a, b)   == IF a < b THEN a ELSE b
Greatest(a, b) == IF a > b THEN a ELSE b

Timeline(r) ==
  LET transfer == IF RouteMinutes(r) = Unknown THEN 20 ELSE RouteMinutes(r)
      base     == 150 + transfer + 90
  IN  [ activity |-> 150, transfer |-> transfer, dining |-> 90,
        buffer |-> Least(Greatest(0, 240 - base), Greatest(0, 360 - base)) ]

TotalMinutes(t) == t.activity + t.transfer + t.dining + t.buffer

\* The usable route between two places, 0 when there is none.
FindRoute(e, from, to) ==
  LET at == {i \in DOMAIN e.routes :
               /\ RouteIsUsable(e.routes[i])
               /\ e.routes[i].from = from /\ e.routes[i].to = to}
  IN  IF at = {} THEN 0 ELSE CHOOSE i \in at : \A j \in at : i <= j

\* An add-on is a candidate of that category that is open, sells water as
\* its own vendor, and can be reached from the restaurant.
AddonFits(e, dining, x) ==
  /\ x.category = "addon" /\ x.hours = "open" /\ x.detail = "vends"
  /\ FindRoute(e, dining, x.place) > 0

SelectedAddon(request, e, dining) ==
  LET fits == {i \in DOMAIN e.addon : AddonFits(e, dining, e.addon[i])}
  IN  IF ~ request.addon \/ fits = {} THEN NoPlace
      ELSE e.addon[CHOOSE i \in fits : \A j \in fits : i <= j].place

Propose(condition, type, target) ==
  IF condition THEN <<[type |-> type, target |-> target]>> ELSE <<>>

\* Mutant of WriteActions: a ticket is booked unless it is known to be gone.
WriteActionsUnchecked(activity, dining, addon) ==
  Propose(dining.table = "available", "reserve_restaurant", dining.place)
  \o Propose(ActivityIsUsable(activity), "book_ticket", activity.place)
  \o Propose(dining.table # "available" /\ QueueIsOpen(dining), "join_queue",
             dining.place)
  \o Propose(addon # NoPlace, "order_addon", addon)

\* A queue is joined only where no table can be reserved.
WriteActions(activity, dining, addon) ==
  Propose(dining.table = "available", "reserve_restaurant", dining.place)
  \o Propose(activity.ticket = "available", "book_ticket", activity.place)
  \o Propose(dining.table # "available" /\ QueueIsOpen(dining), "join_queue",
             dining.place)
  \o Propose(addon # NoPlace, "order_addon", addon)

\* A message goes to the spouse of a family's request that names one, if
\* there is anything else to do.
Message(request, actions) ==
  Propose(request.spouse /\ actions # <<>>, "send_message", "wife")

Draft(request, e, p) ==
  LET activity == e.activity[p.activity]
      dining   == e.dining[p.dining]
      addon    == SelectedAddon(request, e, dining.place)
      actions  == WriteActions(activity, dining, addon)
  IN  [ activity |-> activity.place,
        dining   |-> dining.place,
        route    |-> e.routes[p.route],
        timeline |-> Timeline(e.routes[p.route]),
        addon    |-> addon,
        actions  |-> actions \o Message(request, actions),
        copied   |-> {activity.detail, dining.detail},
        events   |-> activity.events \union dining.events
                       \union {e.routes[p.route].event} ]

----------------------------------------------------------------------------
(* The generator *)

\* Why there are no drafts; "none" when there are.
FailedReason(e) ==
  CASE e.activity = <<>> \/ e.dining = <<>> -> "missing_candidate"
    [] e.activity # <<>> /\ e.dining # <<>> /\ Pairs(e) = {} ->
         "missing_usable_route"
    [] OTHER -> "none"

Drafts(request, e, maxDrafts) ==
  IF FailedReason(e) # "none" THEN <<>>
  ELSE LET pairs == OrderedPairs(e)
       IN  [i \in 1 .. Least(Len(pairs), maxDrafts) |->
              Draft(request, e, pairs[i])]

============================================================================
