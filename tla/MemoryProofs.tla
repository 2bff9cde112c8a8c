---------------------------- MODULE MemoryProofs ----------------------------
(***************************************************************************)
(* What is proved of module MemoryGovernance, for any number of keys,      *)
(* requests and runs.                                                      *)
(***************************************************************************)
EXTENDS MemoryGovernance, TLAPS

----------------------------------------------------------------------------
(* Rows keep their type *)

LEMMA UpdatedType ==
  ASSUME NEW now \in Row, NEW old \in Row, NEW new \in Row
  PROVE  Updated(now, old, new) \in Row
BY DEF Updated, Row

LEMMA DocumentType ==
  ASSUME NEW doc \in Document, NEW r \in Request
  PROVE  WithEvent(doc, r) \in Document
BY DEF WithEvent, Document

LEMMA EmptyType == EmptyDocument \in Document
BY DEF EmptyDocument, Document

LEMMA CandidateType == CandidateRow \in Row
BY EmptyType DEF CandidateRow, Row, Status, Value, Confidence, Expiry

LEMMA OrderType ==
  ASSUME TypeOK, NEW r \in Request
  PROVE  /\ order[r].kind \in {"create", "update", "control"}
         /\ order[r].key \in Key
         /\ order[r].kind # "update" => order[r].status \in Status
         /\ order[r].kind # "control" => /\ order[r].confidence \in Confidence
                                         /\ order[r].expires \in Expiry
<1>1. order[r] \in Order
  BY SentAssumption DEF TypeOK
<1> QED
  BY <1>1 DEF Order

LEMMA WantedType ==
  ASSUME TypeOK, NEW r \in Request,
         order[r].kind = "create" \/ loaded[r] \in Row
  PROVE  Wanted(r) \in Row
<1>1. CASE order[r].kind = "create"
  <2>1. WithEvent(EmptyDocument, r) \in Document
    BY EmptyType, DocumentType
  <2> QED
    BY <1>1, <2>1, OrderType DEF Wanted, Row, Value
<1>2. CASE order[r].kind = "update"
  <2>1. WithEvent(loaded[r].doc, r) \in Document
    BY <1>2, DocumentType DEF Row
  <2> QED
    BY <1>2, <2>1, OrderType DEF Wanted, Row, Value
<1>3. CASE order[r].kind = "control"
  <2>1. WithEvent(loaded[r].doc, r) \in Document
    BY <1>3, DocumentType DEF Row
  <2> QED
    BY <1>3, <2>1, OrderType DEF Wanted, Row
<1> QED
  BY <1>1, <1>2, <1>3, OrderType

----------------------------------------------------------------------------
(* The invariant *)

\* A request that is about to change a row holds what it has read of it.
LoadedFits ==
  \A r \in Request :
    stage[r] = "loaded" /\ order[r].kind # "create" =>
      /\ loaded[r] \in Row
      /\ Exists(order[r].key)
      /\ order[r].kind = "control" => loaded[r].status # order[r].status

\* Feedback writes for a key that is still on its list, and only over a row
\* it has read as a candidate.
SeenFits ==
  \A w \in Run :
    /\ writer[w] = "write" => todo[w] # <<>>
    /\ seen[w] # NoRow => /\ writer[w] = "write"
                          /\ seen[w].status = "candidate"
                          /\ Exists(Head(todo[w]))

\* A key is written by one open transaction at most, and what it has written
\* leaves the status as it is.
PendingFits ==
  \A w \in Run, k \in Key : pending[w][k] # NoRow =>
    /\ \A v \in Run \ {w} : pending[v][k] = NoRow
    /\ pending[w][k].status = IF Exists(k) THEN items[k].status
                                           ELSE "candidate"

\* No one can have asked anything of a row that is not there.
AskedFits == \A k \in Key : ~Exists(k) => asked[k] = "nothing"

\* The keys a run has still to write are in the common order, behind those
\* it has written.
InOrder ==
  \A w \in Run :
    /\ \A i, j \in 1 .. Len(todo[w]) :
         i < j => Before(todo[w][i], todo[w][j])
    /\ \A k \in Key, i \in 1 .. Len(todo[w]) :
         pending[w][k] # NoRow => Before(k, todo[w][i])

\* The summary of an open transaction is what its commit would do.
SummaryFits ==
  \A w \in Run, k \in Key :
    writer[w] \in {"read", "write", "broken"} =>
      /\ k \in summary[w].created <=> pending[w][k] # NoRow /\ ~Exists(k)
      /\ k \in summary[w].updated => Exists(k)
      /\ k \in summary[w].skipped =>
           /\ pending[w][k] = NoRow
           /\ \A i \in 1 .. Len(todo[w]) : Before(k, todo[w][i])

MemoryInv ==
  /\ LoadedFits
  /\ SeenFits
  /\ PendingFits
  /\ AskedFits
  /\ InOrder
  /\ SummaryFits
  /\ StatusIsAsked

----------------------------------------------------------------------------
(* Type correctness *)

LEMMA InitType == Init => TypeOK
<1> SUFFICES ASSUME Init PROVE TypeOK
  OBVIOUS
<1>1. KeyLists \subseteq Seq(Key)
  <2> SUFFICES ASSUME NEW n \in 0 .. Len(KeyOrder), NEW list \in [ 1 .. n -> Key ]
               PROVE  list \in Seq(Key)
    BY DEF KeyLists, SomeKeys
  <2>1. n \in Nat
    BY KeyAssumption
  <2> QED
    BY <2>1
<1>2. EmptySummary \in [ created : SUBSET Key, updated : SUBSET Key,
                         skipped : SUBSET Key ]
  BY DEF EmptySummary
<1> QED
  BY <1>1, <1>2 DEF Init, TypeOK

Summary == [ created : SUBSET Key, updated : SUBSET Key, skipped : SUBSET Key ]

LEMMA NextKeyType ==
  ASSUME TypeOK, NEW w \in Run, todo[w] # <<>>,
         NEW noted \in Summary, NextKey(w, noted)
  PROVE  /\ todo' \in [ Run -> Seq(Key) ]
         /\ summary' \in [ Run -> Summary ]
         /\ writer' \in [ Run -> {"read", "write", "broken", "committed",
                                  "rolled_back"} ]
         /\ seen' \in [ Run -> Row \cup {NoRow} ]
<1>1. Head(todo[w]) \in Key /\ Tail(todo[w]) \in Seq(Key)
  BY DEF TypeOK
<1>2. summary' \in [ Run -> Summary ]
  BY DEF NextKey, TypeOK, Summary
<1> QED
  BY <1>1, <1>2 DEF NextKey, TypeOK

LEMMA RequestType ==
  ASSUME TypeOK, LoadedFits, NEW r \in Request, RequestStep(r)
  PROVE  TypeOK'
<1>1. order[r].key \in Key /\ items[order[r].key] \in Row \cup {NoRow}
  BY OrderType DEF TypeOK
<1>2. CASE LoadCreate(r)
  BY <1>2 DEF LoadCreate, TypeOK, writerVars
<1>3. CASE LoadChange(r)
  BY <1>1, <1>3 DEF LoadChange, TypeOK, writerVars
<1>4. CASE ApplyCreate(r)
  <2>1. Wanted(r) \in Row /\ order[r].status \in Status
    BY <1>4, WantedType, OrderType DEF ApplyCreate
  <2> QED
    BY <1>1, <1>4, <2>1 DEF ApplyCreate, TypeOK, writerVars
<1>5. CASE ApplyChange(r)
  <2>1. loaded[r] \in Row /\ Exists(order[r].key)
    BY <1>5 DEF ApplyChange, LoadedFits
  <2>2. Wanted(r) \in Row
    BY <2>1, WantedType
  <2>3. Updated(items[order[r].key], loaded[r], Wanted(r)) \in Row
    BY <1>1, <2>1, <2>2, UpdatedType DEF Exists
  <2>4. order[r].kind = "control" => order[r].status \in Status
    BY OrderType
  <2> QED
    BY <1>1, <1>5, <2>3, <2>4 DEF ApplyChange, TypeOK, writerVars
<1> QED
  BY <1>2, <1>3, <1>4, <1>5 DEF RequestStep

LEMMA WriterType ==
  ASSUME TypeOK, SeenFits, NEW w \in Run, WriterStep(w)
  PROVE  TypeOK'
<1> DEFINE k == Head(todo[w])
<1>1. todo[w] # <<>> => k \in Key /\ items[k] \in Row \cup {NoRow}
  BY DEF TypeOK
<1>2. summary[w] \in Summary
  BY DEF TypeOK, Summary
<1>3. CASE FeedbackRead(w)
  <2>1. CASE items[k] # NoRow /\ items[k].status # "candidate"
    <3>1. [ summary[w] EXCEPT !.skipped = @ \cup {k} ] \in Summary
      BY <1>1, <1>2, <1>3 DEF FeedbackRead, Summary
    <3>2. NextKey(w, [ summary[w] EXCEPT !.skipped = @ \cup {k} ])
      BY <1>3, <2>1 DEF FeedbackRead
    <3> QED
      BY <1>3, <3>1, <3>2, NextKeyType
         DEF FeedbackRead, TypeOK, requestVars, Summary
  <2>2. CASE ~(items[k] # NoRow /\ items[k].status # "candidate")
    BY <1>1, <1>3, <2>2 DEF FeedbackRead, TypeOK, requestVars
  <2> QED
    BY <2>1, <2>2
<1>4. CASE FeedbackCreate(w)
  <2>0. todo[w] # <<>>
    BY <1>4 DEF FeedbackCreate, SeenFits
  <2>1. CASE Exists(k)
    BY <1>4, <2>1 DEF FeedbackCreate, TypeOK, requestVars
  <2>2. CASE ~Exists(k)
    <3>1. [ summary[w] EXCEPT !.created = @ \cup {k} ] \in Summary
      BY <1>1, <1>2, <2>0 DEF Summary
    <3>2. /\ NextKey(w, [ summary[w] EXCEPT !.created = @ \cup {k} ])
          /\ pending' = [ pending EXCEPT ![w][k] = CandidateRow ]
      BY <1>4, <2>2 DEF FeedbackCreate
    <3>3. pending' \in [ Run -> [ Key -> Row \cup {NoRow} ] ]
      BY <3>2, CandidateType DEF TypeOK
    <3> QED
      BY <1>4, <2>0, <3>1, <3>2, <3>3, NextKeyType
         DEF FeedbackCreate, TypeOK, requestVars, Summary
  <2> QED
    BY <2>1, <2>2
<1>5. CASE FeedbackUpdate(w)
  <2>0. todo[w] # <<>> /\ items[k] \in Row /\ seen[w] \in Row
    BY <1>1, <1>5 DEF FeedbackUpdate, SeenFits, Exists, TypeOK
  <2>1. [ summary[w] EXCEPT !.updated = @ \cup {k} ] \in Summary
    BY <1>1, <1>2, <2>0 DEF Summary
  <2>2. /\ NextKey(w, [ summary[w] EXCEPT !.updated = @ \cup {k} ])
        /\ pending' = [ pending EXCEPT
                          ![w][k] = Updated(items[k], seen[w], CandidateRow) ]
    BY <1>5 DEF FeedbackUpdate
  <2>3. Updated(items[k], seen[w], CandidateRow) \in Row
    BY <2>0, CandidateType, UpdatedType
  <2>4. pending' \in [ Run -> [ Key -> Row \cup {NoRow} ] ]
    BY <2>2, <2>3 DEF TypeOK
  <2> QED
    BY <1>5, <2>0, <2>1, <2>2, <2>4, NextKeyType
       DEF FeedbackUpdate, TypeOK, requestVars, Summary
<1>6. CASE FeedbackCommit(w)
  <2>1. WithPending(w) \in [ Key -> Row \cup {NoRow} ]
    BY DEF WithPending, TypeOK
  <2> QED
    BY <1>6, <2>1 DEF FeedbackCommit, TypeOK, requestVars
<1>7. CASE FeedbackRollback(w)
  BY <1>7 DEF FeedbackRollback, TypeOK, requestVars
<1> QED
  BY <1>3, <1>4, <1>5, <1>6, <1>7 DEF WriterStep

LEMMA InfluenceType ==
  ASSUME NEW k \in Key, NEW said \in SUBSET Key
  PROVE  Influence(k, said) \in {"none", "advisory", "primary"}
BY DEF Influence, MemoryTier

LEMMA NextType ==
  ASSUME TypeOK, LoadedFits, SeenFits, [Next]_vars
  PROVE  TypeOK'
<1>1. CASE \E r \in Request : RequestStep(r)
  BY <1>1, RequestType
<1>2. CASE \E w \in Run : WriterStep(w)
  BY <1>2, WriterType
<1>3. ASSUME NEW p \in Planning, LoadMemory(p)
      PROVE  TypeOK'
  BY <1>3, InfluenceType DEF LoadMemory, TypeOK, requestVars, writerVars
<1>4. CASE Lapse
  BY <1>4 DEF Lapse, TypeOK, requestVars, writerVars
<1>5. CASE UNCHANGED vars
  BY <1>5 DEF vars, TypeOK, requestVars, writerVars
<1> QED
  BY <1>1, <1>2, <1>3, <1>4, <1>5 DEF Next

----------------------------------------------------------------------------
(* The invariant is inductive *)

LEMMA NotBeforeItself ==
  ASSUME NEW k \in Key, NEW l \in Key, Before(k, l)
  PROVE  ~Before(l, k)
<1>1. PICK i \in DOMAIN KeyOrder, j \in DOMAIN KeyOrder :
        i < j /\ KeyOrder[i] = k /\ KeyOrder[j] = l
  BY DEF Before
<1>2. SUFFICES ASSUME NEW m \in DOMAIN KeyOrder, NEW n \in DOMAIN KeyOrder,
                      m < n, KeyOrder[m] = l, KeyOrder[n] = k
               PROVE  FALSE
  BY DEF Before
<1>3. n = i /\ m = j
  BY <1>1, <1>2, KeyAssumption DEF IsInjective
<1>4. DOMAIN KeyOrder = 1 .. Len(KeyOrder) /\ Len(KeyOrder) \in Nat
  BY KeyAssumption
<1> QED
  BY <1>1, <1>2, <1>3, <1>4

LEMMA InitInv == Init => MemoryInv
<1> SUFFICES ASSUME Init PROVE MemoryInv
  OBVIOUS
<1>1. InOrder
  <2> SUFFICES ASSUME NEW w \in Run
               PROVE  \A i, j \in 1 .. Len(todo[w]) :
                        i < j => Before(todo[w][i], todo[w][j])
    BY DEF Init, InOrder
  <2>1. todo[w] \in KeyLists
    BY DEF Init
  <2>2. DOMAIN todo[w] = 1 .. Len(todo[w])
    BY InitType DEF TypeOK
  <2> QED
    BY <2>1, <2>2 DEF KeyLists
<1>2. SummaryFits
  BY DEF Init, SummaryFits, EmptySummary
<1> QED
  BY <1>1, <1>2 DEF Init, MemoryInv, LoadedFits, SeenFits, PendingFits,
                    AskedFits, StatusIsAsked, Exists

\* A step that changes neither a row of the table nor the writers.
LEMMA LoadKeeps ==
  ASSUME TypeOK, MemoryInv, NEW r \in Request, LoadCreate(r) \/ LoadChange(r)
  PROVE  MemoryInv'
<1>1. order' = order /\ items' = items /\ asked' = asked /\ UNCHANGED writerVars
  BY DEF LoadCreate, LoadChange
<1>2. LoadedFits'
  <2>1. CASE LoadCreate(r)
    BY <1>1, <2>1 DEF LoadCreate, MemoryInv, LoadedFits, Exists, TypeOK
  <2>2. CASE LoadChange(r)
    <3>1. order[r].key \in Key /\ items[order[r].key] \in Row \cup {NoRow}
      BY OrderType DEF TypeOK
    <3> QED
      BY <1>1, <2>2, <3>1
         DEF LoadChange, MemoryInv, LoadedFits, Exists, AlreadySo, TypeOK
  <2> QED
    BY <2>1, <2>2
<1>3. SeenFits' /\ PendingFits' /\ AskedFits' /\ InOrder' /\ SummaryFits'
  BY <1>1 DEF MemoryInv, SeenFits, PendingFits, AskedFits, InOrder, SummaryFits,
              Exists, writerVars
<1> QED
  BY <1>1, <1>2, <1>3 DEF MemoryInv, StatusIsAsked, Exists

\* A row that no open transaction has written may be given a new status, if
\* that is what is asked.
LEMMA RowKeeps ==
  ASSUME TypeOK, MemoryInv, NEW k \in Key, NEW row \in Row, NEW status \in Status,
         Unlocked(k), items' = [ items EXCEPT ![k] = row ], UNCHANGED writerVars,
         \/ asked' = [ asked EXCEPT ![k] = status ] /\ row.status = status
         \/ asked' = asked /\ Exists(k) /\ row.status = items[k].status
  PROVE  /\ SeenFits' /\ PendingFits' /\ AskedFits' /\ InOrder' /\ SummaryFits'
         /\ StatusIsAsked'
<1>1. \A l \in Key : l # k => items'[l] = items[l] /\ asked'[l] = asked[l]
  BY DEF TypeOK
<1>2. items'[k] = row /\ Exists(k)'
  BY NoRowAssumption DEF Exists, TypeOK
<1>3. SeenFits'
  <2> SUFFICES ASSUME NEW w \in Run, seen[w] # NoRow
               PROVE  Exists(Head(todo[w]))'
    BY DEF SeenFits, MemoryInv, writerVars
  <2>1. Exists(Head(todo[w])) /\ todo' = todo
    BY DEF SeenFits, MemoryInv, writerVars
  <2> QED
    BY <2>1, NoRowAssumption DEF Exists, TypeOK
<1>4. PendingFits'
  <2> SUFFICES ASSUME NEW w \in Run, NEW l \in Key, pending[w][l] # NoRow
               PROVE  pending[w][l].status =
                        IF Exists(l)' THEN items'[l].status ELSE "candidate"
    BY DEF PendingFits, MemoryInv, writerVars
  <2>1. l # k
    BY DEF Unlocked
  <2> QED
    BY <1>1, <2>1 DEF PendingFits, MemoryInv, Exists
<1>5. AskedFits'
  <2> SUFFICES ASSUME NEW l \in Key, ~Exists(l)'
               PROVE  asked'[l] = "nothing"
    BY DEF AskedFits
  <2>1. l # k
    BY <1>2
  <2>2. items'[l] = items[l] /\ asked'[l] = asked[l]
    BY <1>1, <2>1
  <2>3. ~Exists(l)
    BY <2>2 DEF Exists
  <2> QED
    BY <2>2, <2>3 DEF AskedFits, MemoryInv
<1>6. InOrder'
  BY DEF InOrder, MemoryInv, writerVars
<1>7. SummaryFits'
  <2> SUFFICES ASSUME NEW w \in Run, NEW l \in Key,
                      writer[w] \in {"read", "write", "broken"}
               PROVE  /\ l \in summary[w].created <=>
                           pending[w][l] # NoRow /\ ~Exists(l)'
                      /\ l \in summary[w].updated => Exists(l)'
    BY DEF SummaryFits, MemoryInv, writerVars
  <2>1. /\ l \in summary[w].created <=> pending[w][l] # NoRow /\ ~Exists(l)
        /\ l \in summary[w].updated => Exists(l)
    BY DEF SummaryFits, MemoryInv
  <2>2. CASE l = k
    BY <1>2, <2>1, <2>2 DEF Unlocked
  <2>3. CASE l # k
    BY <1>1, <2>1, <2>3 DEF Exists
  <2> QED
    BY <2>2, <2>3
<1>8. StatusIsAsked'
  <2> SUFFICES ASSUME NEW l \in Key, Exists(l)'
               PROVE  items'[l].status =
                        IF asked'[l] = "nothing" THEN "candidate" ELSE asked'[l]
    BY DEF StatusIsAsked
  <2>1. CASE l # k
    BY <1>1, <2>1 DEF StatusIsAsked, MemoryInv, Exists
  <2>2. CASE l = k /\ asked' = asked
    <3>1. asked' = [ asked EXCEPT ![k] = status ] => asked'[k] = status
      BY DEF TypeOK
    <3> QED
      BY <1>2, <2>2, <3>1 DEF StatusIsAsked, MemoryInv, Exists, Status
  <2>3. CASE l = k /\ asked' = [ asked EXCEPT ![k] = status ]
    <3>1. asked'[k] = status
      BY <2>3 DEF TypeOK
    <3> QED
      BY <1>2, <2>3, <3>1 DEF Status, StatusIsAsked, MemoryInv, Exists
  <2> QED
    BY <2>1, <2>2, <2>3
<1> QED
  BY <1>3, <1>4, <1>5, <1>6, <1>7, <1>8

LEMMA ApplyKeeps ==
  ASSUME TypeOK, MemoryInv, NEW r \in Request, ApplyCreate(r) \/ ApplyChange(r)
  PROVE  MemoryInv'
<1> DEFINE k == order[r].key
<1>1. k \in Key /\ items[k] \in Row \cup {NoRow}
  BY OrderType DEF TypeOK
<1>2. CASE ApplyCreate(r) /\ Exists(k)
  <2>1. items' = items /\ asked' = asked /\ order' = order /\ loaded' = loaded
    BY <1>2 DEF ApplyCreate
  <2> QED
    BY <1>2, <2>1 DEF ApplyCreate, MemoryInv, LoadedFits, SeenFits, PendingFits,
         AskedFits, InOrder, SummaryFits, StatusIsAsked, Exists, writerVars, TypeOK
<1>3. CASE ApplyCreate(r) /\ ~Exists(k)
  <2>1. Wanted(r) \in Row /\ order[r].status \in Status
    BY <1>3, WantedType, OrderType DEF ApplyCreate
  <2>2. Wanted(r).status = order[r].status
    BY <1>3 DEF ApplyCreate, Wanted
  <2>3. /\ SeenFits' /\ PendingFits' /\ AskedFits' /\ InOrder' /\ SummaryFits'
        /\ StatusIsAsked'
    <3>1. /\ items' = [ items EXCEPT ![k] = Wanted(r) ]
          /\ asked' = [ asked EXCEPT ![k] = order[r].status ]
          /\ Unlocked(k)
          /\ UNCHANGED writerVars
      BY <1>3 DEF ApplyCreate
    <3> QED
      BY <1>1, <2>1, <2>2, <3>1, RowKeeps
  <2>4. LoadedFits'
    <3>1. \A l \in Key : Exists(l) => Exists(l)'
      BY <1>1, <1>3, <2>1, NoRowAssumption DEF ApplyCreate, Exists, TypeOK
    <3> QED
      BY <1>3, <3>1, OrderType DEF ApplyCreate, MemoryInv, LoadedFits, TypeOK
  <2> QED
    BY <2>3, <2>4 DEF MemoryInv
<1>4. CASE ApplyChange(r)
  <2> DEFINE new == Updated(items[k], loaded[r], Wanted(r))
  <2>1. /\ loaded[r] \in Row /\ Exists(k) /\ items[k] \in Row
        /\ order[r].kind = "control" => loaded[r].status # order[r].status
    BY <1>1, <1>4 DEF ApplyChange, MemoryInv, LoadedFits, Exists
  <2>2. new \in Row
    BY <2>1, WantedType, UpdatedType
  <2>3. LoadedFits'
    <3>1. \A l \in Key : Exists(l) => Exists(l)'
      BY <1>1, <1>4, <2>2, NoRowAssumption DEF ApplyChange, Exists, TypeOK
    <3> QED
      BY <1>4, <3>1, OrderType DEF ApplyChange, MemoryInv, LoadedFits, TypeOK
  <2>4. /\ SeenFits' /\ PendingFits' /\ AskedFits' /\ InOrder' /\ SummaryFits'
        /\ StatusIsAsked'
    <3>1. CASE order[r].kind = "control"
      <4>1. new.status = order[r].status
        BY <2>1, <3>1 DEF Wanted, Updated, Row
      <4>2. order[r].status \in Status
        BY <3>1, OrderType
      <4>3. /\ items' = [ items EXCEPT ![k] = new ]
            /\ asked' = [ asked EXCEPT ![k] = order[r].status ]
            /\ Unlocked(k)
            /\ UNCHANGED writerVars
        BY <1>4, <3>1 DEF ApplyChange
      <4> QED
        BY <1>1, <2>2, <4>1, <4>2, <4>3, RowKeeps
    <3>2. CASE order[r].kind = "update"
      <4>1. new.status = items[k].status
        BY <2>1, <3>2 DEF Wanted, Updated, Row
      <4>2. "active" \in Status
        BY DEF Status
      <4>3. /\ items' = [ items EXCEPT ![k] = new ]
            /\ asked' = asked
            /\ Unlocked(k)
            /\ UNCHANGED writerVars
        BY <1>4, <3>2 DEF ApplyChange
      <4> QED
        BY <1>1, <2>1, <2>2, <4>1, <4>2, <4>3, RowKeeps
    <3> QED
      BY <1>4, <3>1, <3>2, OrderType DEF ApplyChange
  <2> QED
    BY <2>3, <2>4 DEF MemoryInv
<1> QED
  BY <1>2, <1>3, <1>4

\* The head of a list is before what follows it, and before nothing twice.
LEMMA AdvanceInOrder ==
  ASSUME TypeOK, MemoryInv, NEW w \in Run, todo[w] # <<>>
  PROVE  LET k == Head(todo[w])
             rest == Tail(todo[w])
         IN  /\ k \in Key
             /\ \A i \in 1 .. Len(rest) : Before(k, rest[i])
             /\ \A i, j \in 1 .. Len(rest) : i < j => Before(rest[i], rest[j])
             /\ \A l \in Key : pending[w][l] # NoRow =>
                  /\ l # k
                  /\ \A i \in 1 .. Len(rest) : Before(l, rest[i])
             /\ \A l \in Key :
                  /\ writer[w] \in {"read", "write", "broken"}
                  /\ l \in summary[w].skipped
                  => /\ l # k
                     /\ \A i \in 1 .. Len(rest) : Before(l, rest[i])
<1> DEFINE list == todo[w]
           k == Head(list)
           rest == Tail(list)
<1>1. list \in Seq(Key) /\ list # <<>>
  BY DEF TypeOK
<1>2. /\ k = list[1] /\ k \in Key
      /\ 1 \in 1 .. Len(list)
      /\ \A i \in 1 .. Len(rest) : i + 1 \in 1 .. Len(list) /\ rest[i] = list[i + 1]
  BY <1>1
<1>3. \A i, j \in 1 .. Len(list) : i < j => Before(list[i], list[j])
  BY DEF MemoryInv, InOrder
<1>4. \A i \in 1 .. Len(rest) : Before(k, rest[i])
  <2> SUFFICES ASSUME NEW i \in 1 .. Len(rest) PROVE Before(k, rest[i])
    OBVIOUS
  <2>1. i + 1 \in 1 .. Len(list) /\ 1 < i + 1
    BY <1>2
  <2> QED
    BY <1>2, <1>3, <2>1
<1>5. \A i, j \in 1 .. Len(rest) : i < j => Before(rest[i], rest[j])
  <2> SUFFICES ASSUME NEW i \in 1 .. Len(rest), NEW j \in 1 .. Len(rest), i < j
               PROVE  Before(rest[i], rest[j])
    OBVIOUS
  <2>1. /\ i + 1 \in 1 .. Len(list) /\ rest[i] = list[i + 1]
        /\ j + 1 \in 1 .. Len(list) /\ rest[j] = list[j + 1]
        /\ i + 1 < j + 1
    BY <1>2
  <2> QED
    BY <1>3, <2>1
<1>6. ASSUME NEW l \in Key, \A i \in 1 .. Len(list) : Before(l, list[i])
      PROVE  l # k /\ \A i \in 1 .. Len(rest) : Before(l, rest[i])
  <2>1. l # k
    BY <1>2, <1>6, NotBeforeItself
  <2> QED
    BY <1>2, <1>6, <2>1
<1> QED
  <2>1. \A l \in Key : pending[w][l] # NoRow =>
          \A i \in 1 .. Len(list) : Before(l, list[i])
    BY DEF MemoryInv, InOrder
  <2>2. \A l \in Key :
          writer[w] \in {"read", "write", "broken"} /\ l \in summary[w].skipped
          => \A i \in 1 .. Len(list) : Before(l, list[i])
    BY DEF MemoryInv, SummaryFits
  <2> HIDE DEF list, k, rest
  <2>3. \A l \in Key : pending[w][l] # NoRow =>
          l # k /\ \A i \in 1 .. Len(rest) : Before(l, rest[i])
    BY <1>6, <2>1
  <2>4. \A l \in Key :
          writer[w] \in {"read", "write", "broken"} /\ l \in summary[w].skipped
          => l # k /\ \A i \in 1 .. Len(rest) : Before(l, rest[i])
    BY <1>6, <2>2
  <2> QED
    BY <1>2, <1>4, <1>5, <2>3, <2>4 DEF list, k, rest

LEMMA AdvanceKeepsOrder ==
  ASSUME TypeOK, MemoryInv, NEW w \in Run, todo[w] # <<>>,
         todo'[w] = Tail(todo[w]),
         \A v \in Run \ {w} : todo'[v] = todo[v] /\ pending'[v] = pending[v],
         \A l \in Key \ {Head(todo[w])} : pending'[w][l] = pending[w][l]
  PROVE  InOrder'
<1> DEFINE rest == Tail(todo[w])
<1> SUFFICES ASSUME NEW v \in Run
             PROVE  /\ \A i, j \in 1 .. Len(todo'[v]) :
                         i < j => Before(todo'[v][i], todo'[v][j])
                    /\ \A l \in Key, i \in 1 .. Len(todo'[v]) :
                         pending'[v][l] # NoRow => Before(l, todo'[v][i])
  BY DEF InOrder, Before
<1>1. CASE v # w
  BY <1>1 DEF MemoryInv, InOrder
<1>2. CASE v = w
  <2>1. /\ \A i \in 1 .. Len(rest) : Before(Head(todo[w]), rest[i])
        /\ \A i, j \in 1 .. Len(rest) : i < j => Before(rest[i], rest[j])
        /\ \A l \in Key : pending[w][l] # NoRow =>
             \A i \in 1 .. Len(rest) : Before(l, rest[i])
    BY AdvanceInOrder
  <2>2. \A l \in Key : pending'[w][l] # NoRow =>
             \A i \in 1 .. Len(rest) : Before(l, rest[i])
    <3> SUFFICES ASSUME NEW l \in Key, pending'[w][l] # NoRow,
                        NEW i \in 1 .. Len(rest)
                 PROVE  Before(l, rest[i])
      OBVIOUS
    <3>1. CASE l = Head(todo[w])
      BY <2>1, <3>1
    <3>2. CASE l # Head(todo[w])
      BY <2>1, <3>2
    <3> QED
      BY <3>1, <3>2
  <2> QED
    BY <1>2, <2>1, <2>2
<1> QED
  BY <1>1, <1>2

LEMMA ReadKeeps ==
  ASSUME TypeOK, MemoryInv, NEW w \in Run, FeedbackRead(w)
  PROVE  MemoryInv'
<1> DEFINE k == Head(todo[w])
           skips == items[k] # NoRow /\ items[k].status # "candidate"
<1>0. /\ writer[w] = "read" /\ todo[w] # <<>> /\ k \in Key
      /\ items' = items /\ pending' = pending /\ asked' = asked
      /\ UNCHANGED requestVars
  BY DEF FeedbackRead, TypeOK
<1>1. LoadedFits' /\ PendingFits' /\ AskedFits' /\ StatusIsAsked'
  BY <1>0 DEF MemoryInv, LoadedFits, PendingFits, AskedFits, StatusIsAsked, Exists,
              requestVars
<1>2. CASE skips
  <2>1. NextKey(w, [ summary[w] EXCEPT !.skipped = @ \cup {k} ])
    BY <1>2 DEF FeedbackRead
  <2>2. /\ todo'[w] = Tail(todo[w]) /\ writer'[w] = "read" /\ seen'[w] = NoRow
        /\ summary'[w] = [ summary[w] EXCEPT !.skipped = @ \cup {k} ]
        /\ \A v \in Run \ {w} : /\ todo'[v] = todo[v] /\ writer'[v] = writer[v]
                               /\ seen'[v] = seen[v] /\ summary'[v] = summary[v]
    BY <2>1 DEF NextKey, TypeOK
  <2>3. SeenFits'
    BY <1>0, <2>2 DEF MemoryInv, SeenFits, Exists
  <2>4. InOrder'
    BY <1>0, <2>2, AdvanceKeepsOrder
  <2>5. SummaryFits'
    <3> SUFFICES ASSUME NEW v \in Run, NEW l \in Key,
                        writer'[v] \in {"read", "write", "broken"}
                 PROVE  /\ l \in summary'[v].created <=>
                             pending[v][l] # NoRow /\ ~Exists(l)
                        /\ l \in summary'[v].updated => Exists(l)
                        /\ l \in summary'[v].skipped =>
                             /\ pending[v][l] = NoRow
                             /\ \A i \in 1 .. Len(todo'[v]) : Before(l, todo'[v][i])
      BY <1>0 DEF SummaryFits, Exists
    <3>1. CASE v # w
      BY <2>2, <3>1 DEF MemoryInv, SummaryFits
    <3>2. CASE v = w
      <4>1. summary[w] \in Summary
        BY DEF TypeOK, Summary
      <4>2. /\ summary'[w].created = summary[w].created
            /\ summary'[w].updated = summary[w].updated
            /\ summary'[w].skipped = summary[w].skipped \cup {k}
        BY <2>2, <4>1 DEF Summary
      <4>3. /\ l \in summary[w].created <=> pending[w][l] # NoRow /\ ~Exists(l)
            /\ l \in summary[w].updated => Exists(l)
            /\ l \in summary[w].skipped => pending[w][l] = NoRow
        BY <1>0 DEF MemoryInv, SummaryFits
      <4>4. l \in summary'[w].skipped =>
              \A i \in 1 .. Len(todo'[w]) : Before(l, todo'[w][i])
        BY <1>0, <2>2, <4>2, AdvanceInOrder
      <4>5. l \in summary'[w].skipped => pending[w][l] = NoRow
        BY <1>0, <4>2, <4>3, AdvanceInOrder
      <4> QED
        BY <3>2, <4>2, <4>3, <4>4, <4>5
    <3> QED
      BY <3>1, <3>2
  <2> QED
    BY <1>1, <2>3, <2>4, <2>5 DEF MemoryInv
<1>3. CASE ~skips
  <2>1. /\ writer' = [ writer EXCEPT ![w] = "write" ]
        /\ seen' = [ seen EXCEPT ![w] = items[k] ]
        /\ todo' = todo /\ summary' = summary
    BY <1>3 DEF FeedbackRead
  <2>2. /\ writer'[w] = "write" /\ seen'[w] = items[k]
        /\ \A v \in Run \ {w} : writer'[v] = writer[v] /\ seen'[v] = seen[v]
    BY <2>1 DEF TypeOK
  <2>3. SeenFits'
    BY <1>0, <1>3, <2>1, <2>2 DEF MemoryInv, SeenFits, Exists
  <2>4. InOrder'
    BY <1>0, <2>1 DEF MemoryInv, InOrder
  <2>5. SummaryFits'
    BY <1>0, <2>1, <2>2 DEF MemoryInv, SummaryFits, Exists
  <2> QED
    BY <1>1, <2>3, <2>4, <2>5 DEF MemoryInv
<1> QED
  BY <1>2, <1>3

\* A write of the key k that nobody has locked, noted as `noted'.
LEMMA WriteKeeps ==
  ASSUME TypeOK, MemoryInv, NEW w \in Run, NEW row \in Row, NEW noted \in Summary,
         writer[w] = "write", Unlocked(Head(todo[w])),
         NextKey(w, noted),
         pending' = [ pending EXCEPT ![w][Head(todo[w])] = row ],
         UNCHANGED <<items, requestVars, asked>>,
         row.status = IF Exists(Head(todo[w])) THEN items[Head(todo[w])].status
                                               ELSE "candidate",
         noted.skipped = summary[w].skipped,
         noted.created = IF Exists(Head(todo[w])) THEN summary[w].created
                         ELSE summary[w].created \cup {Head(todo[w])},
         noted.updated = IF Exists(Head(todo[w]))
                         THEN summary[w].updated \cup {Head(todo[w])}
                         ELSE summary[w].updated
  PROVE  MemoryInv'
<1> DEFINE k == Head(todo[w])
<1>0. todo[w] # <<>> /\ k \in Key
  BY DEF MemoryInv, SeenFits, TypeOK
<1>1. /\ todo'[w] = Tail(todo[w]) /\ writer'[w] = "read" /\ seen'[w] = NoRow
      /\ summary'[w] = noted
      /\ \A v \in Run \ {w} : /\ todo'[v] = todo[v] /\ writer'[v] = writer[v]
                             /\ seen'[v] = seen[v] /\ summary'[v] = summary[v]
  BY DEF NextKey, TypeOK
<1>2. /\ pending'[w][k] = row /\ row # NoRow
      /\ \A v \in Run \ {w} : pending'[v] = pending[v]
      /\ \A l \in Key \ {k} : pending'[w][l] = pending[w][l]
  BY <1>0, NoRowAssumption DEF TypeOK
<1>3. LoadedFits' /\ AskedFits' /\ StatusIsAsked'
  BY DEF MemoryInv, LoadedFits, AskedFits, StatusIsAsked, Exists, requestVars
<1>4. SeenFits'
  BY <1>1 DEF MemoryInv, SeenFits, Exists
<1>5. InOrder'
  BY <1>0, <1>1, <1>2, AdvanceKeepsOrder
<1>6. PendingFits'
  <2> SUFFICES ASSUME NEW v \in Run, NEW l \in Key, pending'[v][l] # NoRow
               PROVE  /\ \A u \in Run \ {v} : pending'[u][l] = NoRow
                      /\ pending'[v][l].status =
                           IF Exists(l) THEN items[l].status ELSE "candidate"
    BY DEF PendingFits, Exists
  <2>1. CASE l # k
    <3>1. \A u \in Run : pending'[u][l] = pending[u][l]
      BY <1>2, <2>1
    <3> QED
      BY <3>1 DEF MemoryInv, PendingFits
  <2>2. CASE l = k
    <3>1. \A u \in Run \ {w} : pending'[u][k] = NoRow
      BY <1>2 DEF Unlocked
    <3> QED
      BY <1>2, <2>2, <3>1
  <2> QED
    BY <2>1, <2>2
<1>7. SummaryFits'
  <2> SUFFICES ASSUME NEW v \in Run, NEW l \in Key,
                      writer'[v] \in {"read", "write", "broken"}
               PROVE  /\ l \in summary'[v].created <=>
                           pending'[v][l] # NoRow /\ ~Exists(l)
                      /\ l \in summary'[v].updated => Exists(l)
                      /\ l \in summary'[v].skipped =>
                           /\ pending'[v][l] = NoRow
                           /\ \A i \in 1 .. Len(todo'[v]) : Before(l, todo'[v][i])
    BY DEF SummaryFits, Exists, Before
  <2>1. CASE v # w
    BY <1>1, <1>2, <2>1 DEF MemoryInv, SummaryFits
  <2>2. CASE v = w
    <3>1. /\ l \in summary[w].created <=> pending[w][l] # NoRow /\ ~Exists(l)
          /\ l \in summary[w].updated => Exists(l)
          /\ l \in summary[w].skipped => pending[w][l] = NoRow
      BY DEF MemoryInv, SummaryFits
    <3>2. l \in noted.skipped =>
            l # k /\ \A i \in 1 .. Len(todo'[w]) : Before(l, todo'[w][i])
      BY <1>0, <1>1, AdvanceInOrder
    <3>3. CASE l = k
      <4>1. pending[w][k] = NoRow
        BY DEF Unlocked
      <4>2. l \in noted.created <=> ~Exists(l)
        BY <3>1, <3>3, <4>1
      <4>3. l \in noted.updated => Exists(l)
        BY <3>1, <3>3
      <4>4. summary'[v] = noted /\ pending'[v][l] # NoRow
        BY <1>1, <1>2, <2>2, <3>3
      <4>5. ~(l \in noted.skipped)
        BY <3>2, <3>3
      <4> QED
        BY <4>2, <4>3, <4>4, <4>5, <3>3
    <3>4. CASE l # k
      <4>1. /\ l \in noted.created <=> l \in summary[w].created
            /\ l \in noted.updated <=> l \in summary[w].updated
        BY <3>4
      <4>2. summary'[v] = noted /\ pending'[v][l] = pending[w][l] /\ todo'[v] = todo'[w]
        BY <1>1, <1>2, <2>2, <3>4
      <4>3. l \in noted.skipped => pending[w][l] = NoRow
        BY <3>1
      <4> QED
        BY <3>1, <3>2, <4>1, <4>2, <4>3
    <3> QED
      BY <3>3, <3>4
  <2> QED
    BY <2>1, <2>2
<1> QED
  BY <1>3, <1>4, <1>5, <1>6, <1>7 DEF MemoryInv

LEMMA WriterKeeps ==
  ASSUME TypeOK, MemoryInv, NEW w \in Run, WriterStep(w)
  PROVE  MemoryInv'
<1> DEFINE k == Head(todo[w])
<1>0. writer[w] = "write" => todo[w] # <<>> /\ k \in Key /\ items[k] \in Row \cup {NoRow}
  BY DEF MemoryInv, SeenFits, TypeOK
<1>1. CASE FeedbackRead(w)
  BY <1>1, ReadKeeps
<1>2. CASE FeedbackCreate(w)
  <2>1. CASE Exists(k)
    <3>1. writer' = [ writer EXCEPT ![w] = "broken" ] /\ writer[w] = "write"
      BY <1>2, <2>1 DEF FeedbackCreate
    <3>2. /\ items' = items /\ asked' = asked /\ todo' = todo /\ seen' = seen
          /\ pending' = pending /\ summary' = summary /\ UNCHANGED requestVars
      BY <1>2, <2>1 DEF FeedbackCreate
    <3>3. LoadedFits' /\ AskedFits' /\ StatusIsAsked' /\ PendingFits' /\ InOrder'
      BY <3>2 DEF MemoryInv, LoadedFits, AskedFits, StatusIsAsked, PendingFits,
                  InOrder, Exists, requestVars
    <3>4. /\ writer'[w] = "broken" /\ writer[w] = "write" /\ seen[w] = NoRow
          /\ \A v \in Run \ {w} : writer'[v] = writer[v]
      BY <1>2, <3>1 DEF FeedbackCreate, TypeOK
    <3>5. SeenFits' /\ SummaryFits'
      BY <3>2, <3>4 DEF MemoryInv, SeenFits, SummaryFits, Exists
    <3> QED
      BY <3>3, <3>5 DEF MemoryInv
  <2>2. CASE ~Exists(k)
    <3> DEFINE noted == [ summary[w] EXCEPT !.created = @ \cup {k} ]
    <3>1. /\ writer[w] = "write" /\ Unlocked(k)
          /\ NextKey(w, noted)
          /\ pending' = [ pending EXCEPT ![w][k] = CandidateRow ]
          /\ UNCHANGED <<items, requestVars, asked>>
      BY <1>2, <2>2 DEF FeedbackCreate
    <3>2. summary[w] \in Summary
      BY DEF TypeOK, Summary
    <3>3. /\ noted \in Summary /\ noted.skipped = summary[w].skipped
          /\ noted.created = summary[w].created \cup {k}
          /\ noted.updated = summary[w].updated
      BY <1>0, <3>1, <3>2 DEF Summary
    <3>4. CandidateRow \in Row /\ CandidateRow.status = "candidate"
      BY CandidateType DEF CandidateRow
    <3> HIDE DEF noted
    <3> QED
      BY <2>2, <3>1, <3>3, <3>4, WriteKeeps
  <2> QED
    BY <2>1, <2>2
<1>3. CASE FeedbackUpdate(w)
  <2> DEFINE noted == [ summary[w] EXCEPT !.updated = @ \cup {k} ]
             row == Updated(items[k], seen[w], CandidateRow)
  <2>1. /\ writer[w] = "write" /\ Unlocked(k) /\ seen[w] # NoRow
        /\ NextKey(w, noted)
        /\ pending' = [ pending EXCEPT ![w][k] = row ]
        /\ UNCHANGED <<items, requestVars, asked>>
    BY <1>3 DEF FeedbackUpdate
  <2>2. /\ seen[w] \in Row /\ seen[w].status = "candidate"
        /\ Exists(k) /\ items[k] \in Row
    BY <1>0, <2>1 DEF MemoryInv, SeenFits, Exists, TypeOK
  <2>3. row \in Row /\ row.status = items[k].status
    BY <2>2, CandidateType, UpdatedType DEF Updated, CandidateRow
  <2>4. summary[w] \in Summary
    BY DEF TypeOK, Summary
  <2>5. /\ noted \in Summary /\ noted.skipped = summary[w].skipped
        /\ noted.created = summary[w].created
        /\ noted.updated = summary[w].updated \cup {k}
    BY <1>0, <2>1, <2>4 DEF Summary
  <2> HIDE DEF noted, row
  <2> QED
    BY <2>1, <2>2, <2>3, <2>5, WriteKeeps
<1>4. CASE FeedbackCommit(w)
  <2>1. /\ writer'[w] = "committed"
        /\ \A v \in Run \ {w} : writer'[v] = writer[v] /\ pending'[v] = pending[v]
        /\ \A l \in Key : pending'[w][l] = NoRow
        /\ todo' = todo /\ seen' = seen /\ summary' = summary /\ asked' = asked
        /\ UNCHANGED requestVars
    BY <1>4 DEF FeedbackCommit, TypeOK
  <2>2. \A l \in Key : items'[l] = IF pending[w][l] = NoRow THEN items[l]
                                                            ELSE pending[w][l]
    BY <1>4 DEF FeedbackCommit, WithPending
  <2>3. LoadedFits'
    <3> SUFFICES ASSUME NEW r \in Request, stage[r] = "loaded",
                        order[r].kind # "create"
                 PROVE  items'[order[r].key] # NoRow
      BY <2>1 DEF LoadedFits, MemoryInv, requestVars, Exists
    <3>1. items[order[r].key] # NoRow /\ order[r].key \in Key
      BY OrderType DEF LoadedFits, MemoryInv, Exists
    <3> QED
      BY <2>2, <3>1
  <2>4. SeenFits'
    <3>1. seen[w] = NoRow /\ writer[w] # "write"
      BY <1>4 DEF FeedbackCommit, SeenFits, MemoryInv
    <3>2. ASSUME NEW v \in Run, seen[v] # NoRow
          PROVE  items'[Head(todo[v])] # NoRow
      <4>1. writer[v] = "write" /\ items[Head(todo[v])] # NoRow
        BY <3>2 DEF SeenFits, MemoryInv, Exists
      <4>2. Head(todo[v]) \in Key
        BY <4>1 DEF SeenFits, MemoryInv, TypeOK
      <4> QED
        BY <2>2, <4>1, <4>2
    <3> QED
      BY <2>1, <3>1, <3>2 DEF SeenFits, MemoryInv, Exists
  <2>5. PendingFits'
    <3> SUFFICES ASSUME NEW v \in Run, NEW l \in Key, pending'[v][l] # NoRow
                 PROVE  /\ \A u \in Run \ {v} : pending'[u][l] = NoRow
                        /\ pending'[v][l].status =
                             IF items'[l] # NoRow THEN items'[l].status
                                                  ELSE "candidate"
      BY DEF PendingFits, Exists
    <3>1. v # w /\ pending[v][l] # NoRow
      BY <2>1
    <3>2. /\ \A u \in Run \ {v} : pending[u][l] = NoRow
          /\ pending[v][l].status =
               IF items[l] # NoRow THEN items[l].status ELSE "candidate"
      BY <3>1 DEF PendingFits, MemoryInv, Exists
    <3>3. items'[l] = items[l]
      BY <2>2, <3>1, <3>2
    <3> QED
      BY <2>1, <3>1, <3>2, <3>3
  <2>6. AskedFits'
    BY <2>1, <2>2 DEF AskedFits, MemoryInv, Exists
  <2>7. InOrder'
    BY <2>1 DEF InOrder, MemoryInv
  <2>8. SummaryFits'
    <3> SUFFICES ASSUME NEW v \in Run, NEW l \in Key,
                        writer'[v] \in {"read", "write", "broken"}
                 PROVE  /\ l \in summary[v].created <=>
                             pending[v][l] # NoRow /\ items'[l] = NoRow
                        /\ l \in summary[v].updated => items'[l] # NoRow
      BY <2>1 DEF SummaryFits, MemoryInv, Exists
    <3>1. v # w /\ writer[v] \in {"read", "write", "broken"}
      BY <2>1
    <3>2. /\ l \in summary[v].created <=> pending[v][l] # NoRow /\ items[l] = NoRow
          /\ l \in summary[v].updated => items[l] # NoRow
      BY <3>1 DEF SummaryFits, MemoryInv, Exists
    <3>3. pending[v][l] # NoRow => pending[w][l] = NoRow
      BY <3>1 DEF PendingFits, MemoryInv
    <3> QED
      BY <2>2, <3>2, <3>3
  <2>9. StatusIsAsked'
    <3> SUFFICES ASSUME NEW l \in Key, items'[l] # NoRow
                 PROVE  items'[l].status =
                          IF asked[l] = "nothing" THEN "candidate" ELSE asked[l]
      BY <2>1 DEF StatusIsAsked, Exists
    <3>1. CASE pending[w][l] = NoRow
      BY <2>2, <3>1 DEF StatusIsAsked, MemoryInv, Exists
    <3>2. CASE pending[w][l] # NoRow
      BY <2>2, <3>2 DEF StatusIsAsked, PendingFits, AskedFits, MemoryInv, Exists
    <3> QED
      BY <3>1, <3>2
  <2> QED
    BY <2>3, <2>4, <2>5, <2>6, <2>7, <2>8, <2>9 DEF MemoryInv
<1>5. CASE FeedbackRollback(w)
  <2>1. /\ writer'[w] = "rolled_back" /\ seen'[w] = NoRow
        /\ \A v \in Run \ {w} : /\ writer'[v] = writer[v] /\ seen'[v] = seen[v]
                               /\ pending'[v] = pending[v]
        /\ \A l \in Key : pending'[w][l] = NoRow
        /\ todo' = todo /\ summary' = summary /\ items' = items /\ asked' = asked
        /\ UNCHANGED requestVars
    BY <1>5 DEF FeedbackRollback, TypeOK
  <2>2. LoadedFits' /\ AskedFits' /\ StatusIsAsked'
    BY <2>1 DEF MemoryInv, LoadedFits, AskedFits, StatusIsAsked, Exists, requestVars
  <2>3. SeenFits' /\ SummaryFits'
    BY <2>1 DEF MemoryInv, SeenFits, SummaryFits, Exists
  <2>4. PendingFits' /\ InOrder'
    BY <2>1 DEF MemoryInv, PendingFits, InOrder, Exists
  <2> QED
    BY <2>2, <2>3, <2>4 DEF MemoryInv
<1> QED
  BY <1>1, <1>2, <1>3, <1>4, <1>5 DEF WriterStep

LEMMA NextInv == TypeOK /\ MemoryInv /\ [Next]_vars => MemoryInv'
<1> SUFFICES ASSUME TypeOK, MemoryInv, [Next]_vars PROVE MemoryInv'
  OBVIOUS
<1>1. CASE \E r \in Request : RequestStep(r)
  BY <1>1, LoadKeeps, ApplyKeeps DEF RequestStep
<1>2. CASE \E w \in Run : WriterStep(w)
  BY <1>2, WriterKeeps
<1>3. CASE UNCHANGED <<items, requestVars, writerVars, asked>>
  BY <1>3 DEF MemoryInv, LoadedFits, SeenFits, PendingFits, AskedFits, InOrder,
              SummaryFits, StatusIsAsked, Exists, requestVars, writerVars
<1> QED
  BY <1>1, <1>2, <1>3 DEF Next, LoadMemory, Lapse, vars

LEMMA Inductive == Spec => [](TypeOK /\ MemoryInv)
<1>1. Init => TypeOK /\ MemoryInv
  BY InitType, InitInv
<1>2. TypeOK /\ MemoryInv /\ [Next]_vars => (TypeOK /\ MemoryInv)'
  BY NextType, NextInv DEF MemoryInv
<1> QED
  BY <1>1, <1>2, PTL DEF Spec

----------------------------------------------------------------------------
(* The properties *)

(* Every row of memory_items, and every row an open transaction holds, is a *)
(* row of the schema.                                                       *)
THEOREM MemoryTypeCorrect == Spec => []TypeOK
BY Inductive, PTL

(* However many feedback transactions are open across the user's decision:  *)
(* an item has the status its user last gave it, and is a candidate until   *)
(* the user gives it one.                                                   *)
THEOREM UserDecidesStatus == Spec => []StatusIsAsked
<1>1. MemoryInv => StatusIsAsked
  BY DEF MemoryInv
<1> QED
  BY <1>1, Inductive, PTL

(* Two confirms never wait for each other's memory rows, however many keys  *)
(* there are: both take them in the one order.                              *)
THEOREM MemoryLocksOrdered == Spec => []NoEmbrace
<1>1. TypeOK /\ MemoryInv => NoEmbrace
  <2> SUFFICES ASSUME TypeOK, MemoryInv, NEW w \in Run, NEW v \in Run,
                      Waits(w, v), Waits(v, w)
               PROVE  FALSE
    BY DEF NoEmbrace
  <2> DEFINE k == Head(todo[w])
             l == Head(todo[v])
  <2>1. /\ todo[w] \in Seq(Key) /\ todo[w] # <<>>
        /\ todo[v] \in Seq(Key) /\ todo[v] # <<>>
    BY DEF Waits, MemoryInv, SeenFits, TypeOK
  <2>2. /\ k \in Key /\ k = todo[w][1] /\ 1 \in 1 .. Len(todo[w])
        /\ l \in Key /\ l = todo[v][1] /\ 1 \in 1 .. Len(todo[v])
    BY <2>1
  <2>3. pending[v][k] # NoRow /\ pending[w][l] # NoRow
    BY DEF Waits
  <2>4. Before(k, l) /\ Before(l, k)
    BY <2>2, <2>3 DEF MemoryInv, InOrder
  <2> QED
    BY <2>2, <2>4, NotBeforeItself
<1> QED
  BY <1>1, Inductive, PTL

LEMMA InfluenceNeedsStatus ==
  ASSUME TypeOK, MemoryInv, NEW k \in Key, NEW said \in SUBSET Key
  PROVE  /\ Influence(k, said) \in {"advisory", "primary"} =>
              asked[k] \in {"active", "expired"}
         /\ Influence(k, said) = "primary" =>
              /\ asked[k] = "active"
              /\ late => items[k].expires = "never"
<1>1. Influence(k, said) \in {"advisory", "primary"} => Governable(k)
  BY DEF Influence
<1>2. Governable(k) => /\ asked[k] = items[k].status
                       /\ items[k] \in Row
                       /\ items[k].status \in {"active", "expired"}
  BY DEF Governable, Exists, MemoryInv, StatusIsAsked, TypeOK
<1>3. Influence(k, said) = "primary" => LifecycleState(items[k]) # "expired"
  BY DEF Influence, MemoryTier
<1>4. ASSUME Influence(k, said) = "primary"
      PROVE  asked[k] = "active" /\ (late => items[k].expires = "never")
  <2>1. /\ items[k] \in Row /\ asked[k] = items[k].status
        /\ items[k].status \in {"active", "expired"}
        /\ LifecycleState(items[k]) # "expired"
    BY <1>1, <1>2, <1>3, <1>4
  <2> QED
    BY <2>1 DEF LifecycleState, Row, Expiry
<1> QED
  BY <1>1, <1>2, <1>4

\* What a step does to the influence on a run.
LEMMA InfluenceStep ==
  ASSUME TypeOK, [Next]_vars, NEW p \in Planning, NEW k \in Key
  PROVE  \/ influence'[p][k] = influence[p][k]
         \/ \E said \in SUBSET Key : influence'[p][k] = Influence(k, said)
<1>1. CASE UNCHANGED influence
  BY <1>1
<1>2. ASSUME NEW q \in Planning, LoadMemory(q)
      PROVE  \/ influence'[p][k] = influence[p][k]
             \/ \E said \in SUBSET Key : influence'[p][k] = Influence(k, said)
  <2>1. PICK said \in SUBSET Key :
          influence' = [ influence EXCEPT
                           ![q] = [ l \in Key |-> Influence(l, said) ] ]
    BY <1>2 DEF LoadMemory
  <2> QED
    BY <2>1 DEF TypeOK
<1>3. (\E q \in Planning : LoadMemory(q)) \/ UNCHANGED influence
  BY DEF Next, RequestStep, LoadCreate, LoadChange, ApplyCreate, ApplyChange,
         WriterStep, FeedbackRead, FeedbackCreate, FeedbackUpdate,
         FeedbackCommit, FeedbackRollback, Lapse, vars
<1> QED
  BY <1>1, <1>2, <1>3

(* Neither what feedback inferred nor what the user has turned off shapes a *)
(* plan's queries.                                                          *)
THEOREM OnlyAskedInfluence == Spec => InfluenceIsAsked
<1>1. TypeOK /\ MemoryInv /\ [Next]_vars =>
        \A p \in Planning, k \in Key :
          influence'[p][k] \in {"advisory", "primary"} =>
            \/ influence[p][k] = influence'[p][k]
            \/ asked[k] \in {"active", "expired"}
  BY InfluenceStep, InfluenceNeedsStatus
<1> QED
  BY <1>1, Inductive, PTL DEF Spec, InfluenceIsAsked

(* Primary influence is for what the user keeps active and has not expired. *)
THEOREM PrimaryNotStale == Spec => PrimaryIsCurrent
<1>1. TypeOK /\ MemoryInv /\ [Next]_vars =>
        \A p \in Planning, k \in Key :
          influence'[p][k] = "primary" =>
            \/ influence[p][k] = "primary"
            \/ /\ asked[k] = "active"
               /\ late => items[k].expires = "never"
  BY InfluenceStep, InfluenceNeedsStatus
<1> QED
  BY <1>1, Inductive, PTL DEF Spec, PrimaryIsCurrent

LEMMA OnlyCommitCommits ==
  ASSUME TypeOK, [Next]_vars, NEW w \in Run,
         writer'[w] = "committed", writer[w] # "committed"
  PROVE  FeedbackCommit(w)
<1>1. writer' # writer
  OBVIOUS
<1>2. PICK v \in Run : WriterStep(v)
  BY <1>1 DEF Next, RequestStep, LoadCreate, LoadChange, ApplyCreate,
              ApplyChange, LoadMemory, Lapse, vars, writerVars
<1>3. CASE FeedbackCommit(v)
  BY <1>3 DEF FeedbackCommit, TypeOK
<1>4. CASE FeedbackRead(v) \/ FeedbackCreate(v) \/ FeedbackUpdate(v)
  <2>1. \/ writer' = [ writer EXCEPT ![v] = "read" ]
        \/ writer' = [ writer EXCEPT ![v] = "write" ]
        \/ writer' = [ writer EXCEPT ![v] = "broken" ]
    BY <1>4 DEF FeedbackRead, FeedbackCreate, FeedbackUpdate, NextKey
  <2> QED
    BY <2>1 DEF TypeOK
<1>5. CASE FeedbackRollback(v)
  BY <1>5 DEF FeedbackRollback, TypeOK
<1> QED
  BY <1>2, <1>3, <1>4, <1>5 DEF WriterStep

(* The candidate summary a confirm stores tells what its commit did to the  *)
(* table, whatever others have done to it meanwhile.                        *)
THEOREM SummaryTold == Spec => SummaryIsTrue
<1>1. ASSUME TypeOK, MemoryInv, [Next]_vars, NEW w \in Run,
             writer'[w] = "committed", writer[w] # "committed", NEW k \in Key
      PROVE  /\ k \in summary[w].created <=> ~Exists(k) /\ items'[k] # NoRow
             /\ k \in summary[w].updated => Exists(k)
             /\ k \in summary[w].skipped => items'[k] = items[k]
  <2>1. FeedbackCommit(w)
    BY <1>1, OnlyCommitCommits
  <2>2. items'[k] = IF pending[w][k] = NoRow THEN items[k] ELSE pending[w][k]
    BY <2>1 DEF FeedbackCommit, WithPending
  <2>3. writer[w] \in {"read", "write", "broken"}
    BY <2>1 DEF FeedbackCommit
  <2>4. /\ k \in summary[w].created <=> pending[w][k] # NoRow /\ ~Exists(k)
        /\ k \in summary[w].updated => Exists(k)
        /\ k \in summary[w].skipped => pending[w][k] = NoRow
    BY <1>1, <2>3 DEF MemoryInv, SummaryFits
  <2> QED
    BY <2>2, <2>4 DEF Exists
<1>2. TypeOK /\ MemoryInv /\ [Next]_vars =>
        \A w \in Run : writer'[w] = "committed" /\ writer[w] # "committed" =>
          \A k \in Key :
            /\ k \in summary[w].created <=> ~Exists(k) /\ items'[k] # NoRow
            /\ k \in summary[w].updated => Exists(k)
            /\ k \in summary[w].skipped => items'[k] = items[k]
  BY <1>1
<1> QED
  BY <1>2, Inductive, PTL DEF Spec, SummaryIsTrue

============================================================================
