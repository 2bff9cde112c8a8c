---------------------------- MODULE EvidenceProofs ----------------------------
(***************************************************************************)
(* What is proved of modules RateLimiter and EvidenceCollection: the       *)
(* limiter, for any clients and any limit, and that a run's evidence is    *)
(* collected under it, so that what holds of the limiter holds there; that *)
(* the cache is faithful; that what a draft rests on was said to this run; *)
(* and that the generator and the gate decide as the abstract policy does. *)
(***************************************************************************)
EXTENDS EvidenceCollection, ListProofs, SequenceTheorems, TLAPS

----------------------------------------------------------------------------
(* The limiter *)

\* A call counted in the window that is open.
Current(c) == turn[c].at # "idle" /\ ~ turn[c].late

\* Counts are given out in order and once; the key expires from the moment
\* the client that was first has said so, and that client is not late.
CountsInOrder ==
  /\ \A c \in Client : Current(c) => turn[c].number \in 1 .. counter.count
  /\ \A n \in admitted : n <= counter.count

ExpiryIsOwed ==
  /\ counter.expires => counter.count > 0
  /\ \A c \in Client : OwesExpiry(c) => ~ counter.expires /\ Current(c)

LimiterInv ==
  /\ LimiterTypeOK
  /\ GrantsBounded
  /\ EndlessOnlyByDeath
  /\ CountsInOrder
  /\ ExpiryIsOwed

LEMMA LimiterInitially == LimiterInit => LimiterInv
<1> SUFFICES ASSUME LimiterInit PROVE LimiterInv
  OBVIOUS
<1>1. /\ counter.count = 0 /\ counter.expires = FALSE
      /\ admitted = {} /\ orphaned = FALSE
      /\ \A c \in Client : turn[c].at = "idle"
  BY DEF LimiterInit, NoKey, NoCall
<1>2. LimiterTypeOK
  BY DEF LimiterInit, LimiterTypeOK, NoKey, NoCall
<1>3. GrantsBounded /\ EndlessOnlyByDeath /\ CountsInOrder
  BY <1>1 DEF GrantsBounded, EndlessOnlyByDeath, CountsInOrder, Current
<1>4. ExpiryIsOwed
  BY <1>1 DEF ExpiryIsOwed, OwesExpiry
<1> QED
  BY <1>2, <1>3, <1>4 DEF LimiterInv

LEMMA IncrementStep ==
  ASSUME LimiterInv, NEW c \in Client, Increment(c)
  PROVE  LimiterInv'
<1> USE LimitAssumption DEF LimiterInv, OwesExpiry, Current
<1>1. /\ counter \in [count : Nat, expires : BOOLEAN]
      /\ counter' = [counter EXCEPT !.count = @ + 1]
      /\ admitted' = admitted /\ orphaned' = orphaned
      /\ turn' = [turn EXCEPT ![c] = [at |-> "counted",
                                      number |-> counter.count + 1,
                                      late |-> FALSE]]
      /\ turn \in [Client -> [at : {"idle", "counted", "armed"}, number : Nat,
                              late : BOOLEAN]]
  BY DEF Increment, LimiterTypeOK
<1>2. /\ counter'.count = counter.count + 1
      /\ counter'.expires = counter.expires
      /\ turn'[c] = [at |-> "counted", number |-> counter.count + 1,
                     late |-> FALSE]
      /\ \A d \in Client \ {c} : turn'[d] = turn[d]
      /\ turn[c].at = "idle"
  BY <1>1 DEF Increment
<1>3. LimiterTypeOK'
  BY <1>1 DEF LimiterTypeOK
<1>4. GrantsBounded'
  BY <1>1, <1>2 DEF GrantsBounded, CountsInOrder, LimiterTypeOK
<1>5. EndlessOnlyByDeath'
  BY <1>1, <1>2 DEF EndlessOnlyByDeath
<1>6. CountsInOrder'
  BY <1>1, <1>2 DEF CountsInOrder, LimiterTypeOK
<1>7. ExpiryIsOwed'
  BY <1>1, <1>2 DEF ExpiryIsOwed
<1> QED
  BY <1>3, <1>4, <1>5, <1>6, <1>7

LEMMA SetExpiryStep ==
  ASSUME LimiterInv, NEW c \in Client, SetExpiry(c)
  PROVE  LimiterInv'
<1> USE LimitAssumption DEF LimiterInv, OwesExpiry, Current
<1>1. /\ counter \in [count : Nat, expires : BOOLEAN]
      /\ counter' = [counter EXCEPT !.expires = @ \/ counter.count > 0]
      /\ admitted' = admitted /\ orphaned' = orphaned
      /\ turn' = [turn EXCEPT ![c].at = "armed"]
      /\ turn \in [Client -> [at : {"idle", "counted", "armed"}, number : Nat,
                              late : BOOLEAN]]
  BY DEF SetExpiry, LimiterTypeOK
<1>2. /\ counter'.count = counter.count
      /\ turn[c].at = "counted" /\ turn[c].number = 1 /\ ~ turn[c].late
      /\ turn'[c] = [turn[c] EXCEPT !.at = "armed"]
      /\ \A d \in Client \ {c} : turn'[d] = turn[d]
      /\ counter.count > 0
  BY <1>1 DEF SetExpiry, ExpiryIsOwed, CountsInOrder
<1>3. LimiterTypeOK'
  BY <1>1 DEF LimiterTypeOK
<1>4. GrantsBounded'
  BY <1>1, <1>2 DEF GrantsBounded
<1>5. EndlessOnlyByDeath'
  BY <1>1, <1>2 DEF EndlessOnlyByDeath
<1>6. CountsInOrder'
  BY <1>1, <1>2 DEF CountsInOrder
<1>7. ExpiryIsOwed'
  <2>1. \A d \in Client \ {c} : ~ OwesExpiry(d)
    BY <1>2 DEF ExpiryIsOwed, GrantsBounded
  <2>2. \A d \in Client : ~ OwesExpiry(d)'
    BY <1>1, <1>2, <2>1
  <2> QED
    BY <1>2, <2>2 DEF ExpiryIsOwed
<1> QED
  BY <1>3, <1>4, <1>5, <1>6, <1>7

LEMMA ReturnStep ==
  ASSUME LimiterInv, NEW c \in Client, Return(c)
  PROVE  LimiterInv'
<1> USE LimitAssumption DEF LimiterInv, OwesExpiry, Current
<1>1. /\ counter' = counter /\ orphaned' = orphaned
      /\ turn' = [turn EXCEPT ![c] = NoCall]
      /\ turn \in [Client -> [at : {"idle", "counted", "armed"}, number : Nat,
                              late : BOOLEAN]]
      /\ ~ OwesExpiry(c)
  BY DEF Return, LimiterTypeOK
<1>2. /\ turn'[c] = NoCall
      /\ \A d \in Client \ {c} : turn'[d] = turn[d]
  BY <1>1
<1>3. \/ admitted' = admitted
      \/ /\ admitted' = admitted \union {turn[c].number}
         /\ Current(c) /\ turn[c].number <= Limit
  BY DEF Return, Allowed
<1>4. LimiterTypeOK'
  BY <1>1, <1>3 DEF LimiterTypeOK, NoCall
<1>5. GrantsBounded'
  <2>1. admitted' \subseteq 1 .. Limit
    <3>1. admitted \subseteq 1 .. Limit /\ counter.count \in Nat
      BY DEF GrantsBounded, LimiterTypeOK
    <3>2. Current(c) /\ turn[c].number <= Limit => turn[c].number \in 1 .. Limit
      BY <3>1 DEF CountsInOrder
    <3>3. CASE admitted' = admitted
      BY <3>1, <3>3
    <3>4. CASE admitted' = admitted \union {turn[c].number}
               /\ Current(c) /\ turn[c].number <= Limit
      BY <3>1, <3>2, <3>4
    <3> QED
      BY <1>3, <3>3, <3>4
  <2>2. ASSUME NEW d \in Client, Current(d)'
        PROVE  d # c /\ turn'[d] = turn[d] /\ turn[d].number \notin admitted'
    <3>1. d # c
      BY <1>2, <2>2 DEF NoCall
    <3>2. turn'[d] = turn[d] /\ Current(d)
      BY <1>2, <2>2, <3>1
    <3> QED
      BY <1>3, <3>1, <3>2 DEF GrantsBounded
  <2>3. ASSUME NEW d \in Client, NEW f \in Client \ {d}, Current(d)', Current(f)'
        PROVE  turn'[f].number # turn'[d].number
    <3>1. Current(d) /\ Current(f)
      BY <2>2, <2>3
    <3> QED
      BY <2>2, <2>3, <3>1 DEF GrantsBounded
  <2> QED
    BY <2>1, <2>2, <2>3 DEF GrantsBounded
<1>6. EndlessOnlyByDeath'
  BY <1>1, <1>2 DEF EndlessOnlyByDeath, NoCall
<1>7. CountsInOrder'
  BY <1>1, <1>2, <1>3 DEF CountsInOrder, NoCall
<1>8. ExpiryIsOwed'
  BY <1>1, <1>2 DEF ExpiryIsOwed, NoCall
<1> QED
  BY <1>4, <1>5, <1>6, <1>7, <1>8

LEMMA DieStep ==
  ASSUME LimiterInv, NEW c \in Client, Die(c)
  PROVE  LimiterInv'
<1> USE LimitAssumption DEF LimiterInv, OwesExpiry, Current
<1>1. /\ counter' = counter /\ admitted' = admitted
      /\ turn' = [turn EXCEPT ![c] = NoCall]
      /\ turn \in [Client -> [at : {"idle", "counted", "armed"}, number : Nat,
                              late : BOOLEAN]]
      /\ orphaned' = (orphaned \/ OwesExpiry(c))
  BY DEF Die, LimiterTypeOK
<1>2. /\ turn'[c] = NoCall
      /\ \A d \in Client \ {c} : turn'[d] = turn[d]
  BY <1>1
<1>3. LimiterTypeOK'
  BY <1>1 DEF LimiterTypeOK, NoCall
<1>4. GrantsBounded'
  BY <1>1, <1>2 DEF GrantsBounded, NoCall
<1>5. EndlessOnlyByDeath'
  BY <1>1, <1>2 DEF EndlessOnlyByDeath, NoCall
<1>6. CountsInOrder'
  BY <1>1, <1>2 DEF CountsInOrder, NoCall
<1>7. ExpiryIsOwed'
  BY <1>1, <1>2 DEF ExpiryIsOwed, NoCall
<1> QED
  BY <1>3, <1>4, <1>5, <1>6, <1>7

LEMMA WindowEndsStep ==
  ASSUME LimiterInv, WindowEnds
  PROVE  LimiterInv'
<1> USE LimitAssumption DEF LimiterInv, OwesExpiry, Current
<1>1. /\ counter.expires
      /\ counter' = NoKey /\ admitted' = {} /\ orphaned' = orphaned
      /\ turn' = [c \in Client |->
                    [turn[c] EXCEPT !.late = @ \/ turn[c].at # "idle"]]
      /\ turn \in [Client -> [at : {"idle", "counted", "armed"}, number : Nat,
                              late : BOOLEAN]]
  BY DEF WindowEnds, LimiterTypeOK
<1>2. \A c \in Client : ~ Current(c)' /\ ~ OwesExpiry(c)'
  BY <1>1 DEF ExpiryIsOwed
<1>3. LimiterTypeOK'
  BY <1>1 DEF LimiterTypeOK, NoKey
<1>4. GrantsBounded'
  BY <1>1, <1>2 DEF GrantsBounded
<1>5. EndlessOnlyByDeath'
  BY <1>1 DEF EndlessOnlyByDeath, NoKey
<1>6. CountsInOrder'
  BY <1>1, <1>2 DEF CountsInOrder
<1>7. ExpiryIsOwed'
  BY <1>1, <1>2 DEF ExpiryIsOwed, NoKey
<1> QED
  BY <1>3, <1>4, <1>5, <1>6, <1>7

LEMMA LimiterStep == LimiterInv /\ [LimiterNext]_limiter => LimiterInv'
<1> SUFFICES ASSUME LimiterInv, [LimiterNext]_limiter PROVE LimiterInv'
  OBVIOUS
<1>1. CASE UNCHANGED limiter
  BY <1>1 DEF limiter, LimiterInv, LimiterTypeOK, GrantsBounded,
              EndlessOnlyByDeath, CountsInOrder, ExpiryIsOwed, OwesExpiry,
              Current
<1>2. CASE \E c \in Client :
             Increment(c) \/ SetExpiry(c) \/ Return(c) \/ Die(c)
  BY <1>2, IncrementStep, SetExpiryStep, ReturnStep, DieStep
<1>3. CASE WindowEnds
  BY <1>3, WindowEndsStep
<1> QED
  BY <1>1, <1>2, <1>3 DEF LimiterNext

\* What the limiter promises holds whoever calls it, and however often.
THEOREM LimiterIsCorrect ==
  LimiterSpec => [](GrantsBounded /\ EndlessOnlyByDeath)
<1>1. LimiterInv => GrantsBounded /\ EndlessOnlyByDeath
  BY DEF LimiterInv
<1> QED
  BY LimiterInitially, LimiterStep, <1>1, PTL DEF LimiterSpec

----------------------------------------------------------------------------
(* Evidence is collected under the limiter *)

LEMMA CallsUseLimiter ==
  ASSUME SkipCall \/ Inject \/ AskLimiter \/ Refused \/ CacheHit
         \/ ProviderAnswers \/ ProviderFails
  PROVE  [LimiterNext]_limiter
<1>1. CASE SkipCall \/ Inject
  BY <1>1 DEF SkipCall, Inject
<1>2. CASE AskLimiter
  BY <1>2, SelfAssumption DEF AskLimiter, LimiterNext
<1>3. CASE Refused
  BY <1>3, SelfAssumption DEF Refused, LimiterNext
<1>4. CASE CacheHit \/ ProviderAnswers \/ ProviderFails
  <2>1. Permitted
    BY <1>4 DEF CacheHit, ProviderAnswers, ProviderFails
  <2> QED
    BY <2>1, SelfAssumption DEF Permitted, LimiterNext
<1> QED
  BY <1>1, <1>2, <1>3, <1>4

LEMMA EveryStepIsLimited == [Next]_vars => [LimiterNext]_limiter
<1> SUFFICES ASSUME [Next]_vars PROVE [LimiterNext]_limiter
  OBVIOUS
<1>1. CASE UNCHANGED vars
  BY <1>1 DEF vars
<1>2. CASE SkipCall \/ Inject \/ AskLimiter \/ Refused \/ CacheHit
           \/ ProviderAnswers \/ ProviderFails
  BY <1>2, CallsUseLimiter
<1>3. CASE PreFlightCheckAvailability \/ LogicalPlannerAgent
           \/ SemanticValidator \/ ApplyRecovery
  BY <1>3 DEF PreFlightCheckAvailability, LogicalPlannerAgent,
              SemanticValidator, ApplyRecovery
<1>4. CASE Crash
  BY <1>4, SelfAssumption DEF Crash, LimiterNext
<1>5. CASE Others
  BY <1>5 DEF Others, LimiterNext
<1> QED
  BY <1>1, <1>2, <1>3, <1>4, <1>5 DEF Next

\* A run that collects evidence uses the limiter as the limiter is meant to
\* be used: its steps are steps of it or leave it alone.
THEOREM EvidenceUsesLimiter == Spec => LimiterSpec
<1>1. Init => LimiterInit
  BY DEF Init
<1> QED
  BY <1>1, EveryStepIsLimited, PTL DEF Spec, LimiterSpec

\* No window lets more than Limit calls through, whoever shares the key.
THEOREM SearchesAreBounded == Spec => []GrantsBounded
BY EvidenceUsesLimiter, LimiterIsCorrect, PTL

\* A user is refused for ever only after a process died in between.
THEOREM EndlessRefusalsHaveACause == Spec => []EndlessOnlyByDeath
BY EvidenceUsesLimiter, LimiterIsCorrect, PTL

----------------------------------------------------------------------------
(* Events only grow *)

IsSequence(s) == s \in Seq({s[i] : i \in DOMAIN s})

LEMMA MembersAreIndexed ==
  ASSUME NEW S, NEW s \in Seq(S)
  PROVE  IsSequence(s)
<1> DEFINE T == {s[i] : i \in DOMAIN s}
<1>1. /\ Len(s) \in Nat
      /\ DOMAIN s = 1 .. Len(s)
      /\ s \in [1 .. Len(s) -> S]
  BY LenProperties
<1>2. s \in [1 .. Len(s) -> T]
  BY <1>1, Zenon
<1>3. s \in Seq(T)
  <2> HIDE DEF T
  <2> QED
    BY <1>1, <1>2, SeqDef, Zenon
<1> QED
  BY <1>3 DEF IsSequence

LEMMA AppendToSequence ==
  ASSUME NEW s, IsSequence(s), NEW e
  PROVE  /\ IsSequence(Append(s, e))
         /\ Len(s) \in Nat /\ DOMAIN s = 1 .. Len(s)
         /\ Len(Append(s, e)) = Len(s) + 1
         /\ DOMAIN Append(s, e) = 1 .. Len(s) + 1
         /\ \A i \in 1 .. Len(s) : Append(s, e)[i] = s[i]
         /\ Append(s, e)[Len(s) + 1] = e
<1> DEFINE S == {s[i] : i \in DOMAIN s} \union {e}
<1>1. s \in Seq(S)
  BY DEF IsSequence
<1>2. /\ Append(s, e) \in Seq(S)
      /\ Len(s) \in Nat /\ DOMAIN s = 1 .. Len(s)
      /\ Len(Append(s, e)) = Len(s) + 1
      /\ DOMAIN Append(s, e) = 1 .. Len(s) + 1
      /\ \A i \in 1 .. Len(s) : Append(s, e)[i] = s[i]
      /\ Append(s, e)[Len(s) + 1] = e
  BY <1>1
<1> QED
  BY <1>2, MembersAreIndexed

----------------------------------------------------------------------------
(* The cache *)

\* Row m of the events is the last answer of the provider to this call.
LastAnswer(m, tool, on, answer) ==
  /\ events[m].status = "succeeded" /\ ~ events[m].injected
  /\ events[m].tool = tool /\ events[m].on = on
  /\ events[m].answer = answer
  /\ \A k \in m + 1 .. Len(events) :
       events[k].tool = tool /\ events[k].on = on =>
         events[k].status # "succeeded"

\* Each entry of the cache is such an answer, and of a tool that is never
\* injected: the injector is asked first.
EntriesAreAnswers ==
  \A key \in DOMAIN cache :
    /\ key = [tool |-> key.tool, on |-> key.on]
    /\ key.tool \in Cached /\ key.tool \notin DOMAIN injector
    /\ \E m \in 1 .. Len(events) :
         LastAnswer(m, key.tool, key.on, cache[key])

CacheInv ==
  /\ IsSequence(events)
  /\ EntriesAreAnswers
  /\ CacheFaithful

\* A row for a call that no entry can be mistaken for keeps the entries; a
\* hit must come from an entry.
LEMMA RecordKeepsEntries ==
  ASSUME CacheInv,
         NEW status, NEW answer, NEW hit \in BOOLEAN, NEW injected,
         Record(status, answer, hit, injected),
         hit => \E m \in 1 .. Len(events) :
                  LastAnswer(m, Head(todo).tool, Head(todo).on, answer)
  PROVE  /\ IsSequence(events)'
         /\ CacheFaithful'
         /\ Len(events) \in Nat /\ Len(events') = Len(events) + 1
         /\ events'[Len(events) + 1].tool = Head(todo).tool
         /\ events'[Len(events) + 1].on = Head(todo).on
         /\ events'[Len(events) + 1].status = status
         /\ events'[Len(events) + 1].answer = answer
         /\ events'[Len(events) + 1].injected = injected
         /\ \A i \in 1 .. Len(events) : events'[i] = events[i]
         /\ injector' = injector
<1> DEFINE n == Len(events)
           e == [ tool |-> Head(todo).tool, on |-> Head(todo).on,
                  status |-> status, answer |-> answer, hit |-> hit,
                  injected |-> injected, sequence |-> NextSequence ]
<1>1. events' = Append(events, e) /\ injector' = injector
  BY DEF Record, plan
<1>2. /\ IsSequence(events') /\ n \in Nat /\ DOMAIN events = 1 .. n
      /\ Len(events') = n + 1 /\ DOMAIN events' = 1 .. n + 1
      /\ \A i \in 1 .. n : events'[i] = events[i]
      /\ events'[n + 1] = e
  <2> HIDE DEF e
  <2> QED
    BY <1>1, AppendToSequence DEF CacheInv
<1>3. CacheFaithful'
  <2>1. ASSUME NEW i \in 1 .. n, events'[i].hit
        PROVE  \E m \in 1 .. i - 1 :
                 /\ events'[m].status = "succeeded" /\ ~ events'[m].injected
                 /\ events'[m].tool = events'[i].tool
                 /\ events'[m].on = events'[i].on
                 /\ events'[m].answer = events'[i].answer
                 /\ \A k \in m + 1 .. i - 1 :
                      events'[k].tool = events'[i].tool
                      /\ events'[k].on = events'[i].on =>
                        events'[k].status # "succeeded"
    BY <1>2, <2>1 DEF CacheInv, CacheFaithful
  <2>2. ASSUME hit
        PROVE  \E m \in 1 .. n :
                 /\ events'[m].status = "succeeded" /\ ~ events'[m].injected
                 /\ events'[m].tool = e.tool /\ events'[m].on = e.on
                 /\ events'[m].answer = e.answer
                 /\ \A k \in m + 1 .. n :
                      events'[k].tool = e.tool /\ events'[k].on = e.on =>
                        events'[k].status # "succeeded"
    BY <1>2, <2>2 DEF LastAnswer
  <2>3. (n + 1) - 1 = n
    BY <1>2
  <2>4. events'[n + 1].hit = hit
    BY <1>2
  <2> HIDE DEF n, e
  <2> QED
    BY <1>2, <2>1, <2>2, <2>3, <2>4 DEF CacheFaithful
<1> QED
  BY <1>1, <1>2, <1>3

LEMMA OtherCallsKeepEntries ==
  ASSUME CacheInv, cache' = cache,
         NEW status, NEW answer, NEW hit \in BOOLEAN, NEW injected,
         Record(status, answer, hit, injected),
         hit => \E m \in 1 .. Len(events) :
                  LastAnswer(m, Head(todo).tool, Head(todo).on, answer),
         \/ status # "succeeded"
         \/ \A key \in DOMAIN cache : key.tool # Head(todo).tool
  PROVE  CacheInv'
<1>1. ASSUME NEW key \in DOMAIN cache
      PROVE  \E m \in 1 .. Len(events) + 1 :
               LastAnswer(m, key.tool, key.on, cache[key])'
  <2>1. PICK m \in 1 .. Len(events) :
          LastAnswer(m, key.tool, key.on, cache[key])
    BY DEF CacheInv, EntriesAreAnswers
  <2>2. LastAnswer(m, key.tool, key.on, cache[key])'
    BY <2>1, RecordKeepsEntries DEF LastAnswer
  <2> QED
    BY <2>2, RecordKeepsEntries
<1>2. EntriesAreAnswers'
  BY <1>1, RecordKeepsEntries DEF CacheInv, EntriesAreAnswers
<1> QED
  BY <1>2, RecordKeepsEntries DEF CacheInv

LEMMA HitStep == ASSUME CacheInv, CacheHit PROVE CacheInv'
<1>1. PICK m \in 1 .. Len(events) :
        LastAnswer(m, Head(todo).tool, Head(todo).on,
                   cache[CacheKey(Head(todo))])
  BY DEF CacheHit, InCache, CacheInv, EntriesAreAnswers, CacheKey
<1> QED
  BY <1>1, OtherCallsKeepEntries DEF CacheHit

LEMMA AnswerStep == ASSUME CacheInv, ProviderAnswers PROVE CacheInv'
<1>1. PICK tool, on : tool = Head(todo).tool /\ on = Head(todo).on
  OBVIOUS
<1> DEFINE new == [tool |-> tool, on |-> on]
<1>2. CacheKey(Head(todo)) = new
  BY <1>1 DEF CacheKey
<1>3. PICK answer :
        /\ cache' = IF tool \in Cached THEN Stored(new, answer) ELSE cache
        /\ Record("succeeded", answer, FALSE, FALSE)
        /\ tool \notin DOMAIN injector
  BY <1>1, <1>2 DEF ProviderAnswers, Permitted, Asks
<1>4. /\ IsSequence(events)' /\ CacheFaithful'
      /\ Len(events) \in Nat /\ Len(events') = Len(events) + 1
      /\ \A i \in 1 .. Len(events) : events'[i] = events[i]
      /\ injector' = injector
      /\ events'[Len(events) + 1].tool = tool
      /\ events'[Len(events) + 1].on = on
      /\ events'[Len(events) + 1].status = "succeeded"
      /\ events'[Len(events) + 1].answer = answer
      /\ ~ events'[Len(events) + 1].injected
  BY <1>1, <1>3, RecordKeepsEntries
<1>5. CASE tool \notin Cached
  <2>1. cache' = cache /\ \A key \in DOMAIN cache : key.tool # Head(todo).tool
    BY <1>1, <1>3, <1>5 DEF CacheInv, EntriesAreAnswers
  <2> QED
    BY <1>3, <2>1, OtherCallsKeepEntries
<1>6. CASE tool \in Cached
  <2>1. /\ DOMAIN cache' = {new} \union DOMAIN cache
        /\ cache'[new] = answer
        /\ \A key \in DOMAIN cache \ {new} : cache'[key] = cache[key]
    <3> HIDE DEF new
    <3> QED
      BY <1>3, <1>6 DEF Stored
  <2>2. ASSUME NEW key \in DOMAIN cache'
        PROVE  /\ key = [tool |-> key.tool, on |-> key.on]
               /\ key.tool \in Cached /\ key.tool \notin DOMAIN injector'
               /\ \E m \in 1 .. Len(events') :
                    LastAnswer(m, key.tool, key.on, cache[key])'
    <3>1. CASE key = new
      <4>1. key.tool = tool /\ key.on = on /\ cache'[key] = answer
        BY <2>1, <3>1
      <4>2. PICK m : m = Len(events) + 1
        OBVIOUS
      <4>3. m \in 1 .. Len(events') /\ m = Len(events')
        BY <1>4, <4>2
      <4>4. LastAnswer(m, key.tool, key.on, cache[key])'
        BY <1>4, <4>1, <4>2, <4>3 DEF LastAnswer
      <4> QED
        BY <1>3, <1>4, <1>6, <3>1, <4>3, <4>4
    <3>2. CASE key # new
      <4>1. /\ key \in DOMAIN cache
            /\ cache'[key] = cache[key]
        BY <2>1, <3>2
      <4>2. PICK m \in 1 .. Len(events) :
              LastAnswer(m, key.tool, key.on, cache[key])
        BY <4>1 DEF CacheInv, EntriesAreAnswers
      <4>3. /\ key = [tool |-> key.tool, on |-> key.on]
            /\ key.tool \in Cached /\ key.tool \notin DOMAIN injector
        BY <4>1 DEF CacheInv, EntriesAreAnswers
      <4>4. ~ (key.tool = tool /\ key.on = on)
        BY <3>2, <4>3
      <4>5. LastAnswer(m, key.tool, key.on, cache[key])'
        BY <1>4, <4>1, <4>2, <4>4 DEF LastAnswer
      <4> QED
        BY <1>4, <4>2, <4>3, <4>5
    <3> QED
      BY <3>1, <3>2
  <2>3. EntriesAreAnswers'
    BY <2>2 DEF EntriesAreAnswers
  <2> QED
    BY <1>4, <2>3 DEF CacheInv
<1> QED
  BY <1>5, <1>6

\* Everything else leaves the rows and the entries alone, or empties both.
CacheStands == UNCHANGED <<events, cache, injector>>

LEMMA StandingKeepsEntries ==
  ASSUME CacheInv, CacheStands PROVE CacheInv'
BY DEF CacheStands, CacheInv, EntriesAreAnswers, CacheFaithful, LastAnswer

LEMMA CrashEmptiesBoth ==
  ASSUME events' = <<>>, cache' = <<>> PROVE CacheInv'
<1>1. IsSequence(<<>>) /\ DOMAIN <<>> = {}
  BY DEF IsSequence
<1> QED
  BY <1>1 DEF CacheInv, EntriesAreAnswers, CacheFaithful

LEMMA CacheInitially == Init => CacheInv
<1>1. IsSequence(<<>>) /\ DOMAIN <<>> = {}
  BY DEF IsSequence
<1> QED
  BY <1>1 DEF Init, CacheInv, EntriesAreAnswers, CacheFaithful

LEMMA CacheStep == ASSUME CacheInv, [Next]_vars PROVE CacheInv'
<1>1. CASE SkipCall
  BY <1>1, StandingKeepsEntries DEF SkipCall, CacheStands, plan
<1>2. CASE Inject
  <2>1. cache' = cache
        /\ Record(injector[Head(todo).tool].status,
                  injector[Head(todo).tool].answer, FALSE, TRUE)
        /\ \A key \in DOMAIN cache : key.tool # Head(todo).tool
    BY <1>2 DEF Inject, CacheInv, EntriesAreAnswers
  <2> QED
    BY <2>1, OtherCallsKeepEntries
<1>3. CASE AskLimiter
  BY <1>3, StandingKeepsEntries DEF AskLimiter, CacheStands, plan
<1>4. CASE Refused
  <2>1. cache' = cache /\ Record("rate_limited", NoAnswer, FALSE, FALSE)
    BY <1>4 DEF Refused
  <2> QED
    BY <2>1, OtherCallsKeepEntries
<1>5. CASE CacheHit
  BY <1>5, HitStep
<1>6. CASE ProviderAnswers
  BY <1>6, AnswerStep
<1>7. CASE ProviderFails
  <2>1. cache' = cache /\ Record("failed", NoAnswer, FALSE, FALSE)
    BY <1>7 DEF ProviderFails
  <2> QED
    BY <2>1, OtherCallsKeepEntries
<1>8. CASE PreFlightCheckAvailability
  BY <1>8, StandingKeepsEntries
     DEF PreFlightCheckAvailability, CacheStands, plan
<1>9. CASE LogicalPlannerAgent
  BY <1>9, StandingKeepsEntries DEF LogicalPlannerAgent, CacheStands
<1>10. CASE SemanticValidator
  BY <1>10, StandingKeepsEntries DEF SemanticValidator, CacheStands
<1>11. CASE ApplyRecovery
  BY <1>11, StandingKeepsEntries DEF ApplyRecovery, CacheStands
<1>12. CASE Crash
  BY <1>12, CrashEmptiesBoth DEF Crash
<1>13. CASE Others
  BY <1>13, StandingKeepsEntries DEF Others, CacheStands, plan
<1>14. CASE UNCHANGED vars
  BY <1>14, StandingKeepsEntries DEF vars, CacheStands
<1> QED
  BY <1>1, <1>2, <1>3, <1>4, <1>5, <1>6, <1>7, <1>8, <1>9, <1>10, <1>11,
     <1>12, <1>13, <1>14 DEF Next

\* What the cache answers is the provider's own last answer to the same call
\* of the same run, whatever the requests, the rules of the injector, the
\* listings and the other clients of the limiter are. (gateway.py:104-134,
\* cache_keys.py:8)
THEOREM CacheIsFaithful == Spec => []CacheFaithful
<1>1. CacheInv => CacheFaithful
  BY DEF CacheInv
<1> QED
  BY <1>1, CacheInitially, CacheStep, PTL DEF Spec

----------------------------------------------------------------------------
(* What is called *)

FieldTools  == DOMAIN Field
SearchTools == {"search_poi", "check_weather"}
DiningTools == {"check_queue", "check_table_availability"}
OnceTools   == DiningTools \union {"check_route"}

ToolName == SearchTools \union FieldTools \union {"check_route"}
Subject  == Seq(Place \union Role)
Purpose  == Role \union {"weather", "route"}

Calls == [tool : ToolName, on : Subject, role : Purpose, at : Nat]

\* The calls about the candidates of a list, and those between places.
CallsAbout(role, list) ==
  {c \in Calls : /\ c.tool \in FieldTools
                 /\ c.tool \in DiningTools => role = "dining"
                 /\ c.role = role /\ c.at \in DOMAIN list
                 /\ c.on = <<list[c.at].place>>}

CallsBetween == {c \in Calls : c.tool = "check_route" /\ c.on \in Place \X Place}

\* No call of these tools is made twice.
MadeOnce(calls) ==
  \A i, j \in DOMAIN calls :
    calls[i].tool \in OnceTools /\ calls[i].tool = calls[j].tool
    /\ calls[i].on = calls[j].on => i = j

PlacesOnce(list) ==
  \A i, j \in DOMAIN list : list[i].place = list[j].place => i = j

LEMMA FieldToolsAre ==
  FieldTools = { "get_poi_detail", "check_opening_hours", "check_queue",
                 "check_table_availability", "check_ticket_availability" }
BY DEF FieldTools, Field

LEMMA CallsOfTheirSet ==
  ASSUME NEW tool \in ToolName, NEW on \in Subject, NEW role \in Purpose,
         NEW at \in Nat
  PROVE  /\ CallOf(tool, on, role, at) \in Calls
         /\ CallOf(tool, on, role, at).tool = tool
         /\ CallOf(tool, on, role, at).on = on
         /\ CallOf(tool, on, role, at).role = role
         /\ CallOf(tool, on, role, at).at = at
BY DEF Calls, CallOf

LEMMA ChosenAreFirst ==
  ASSUME NEW D, NEW list \in Seq(D), NEW n \in Nat
  PROVE  /\ Chosen(list, n) \in Seq(D)
         /\ PlacesOnce(Chosen(list, n))
         /\ \A i \in DOMAIN Chosen(list, n) :
              \E p \in DOMAIN list : Chosen(list, n)[i] = list[p]
<1> DEFINE firsts == {i \in DOMAIN list : \A j \in 1 .. i - 1 :
                                            list[j].place # list[i].place}
           new == Kept(list, firsts)
           m == Least(n, Len(new))
<1>1. firsts \in SUBSET DOMAIN list /\ DOMAIN list = 1 .. Len(list)
      /\ Len(list) \in Nat
  OBVIOUS
<1>2. \A p, q \in firsts : p # q => list[p].place # list[q].place
  <2> SUFFICES ASSUME NEW p \in firsts, NEW q \in firsts, p # q
               PROVE  list[p].place # list[q].place
    OBVIOUS
  <2>1. p \in 1 .. q - 1 \/ q \in 1 .. p - 1
    BY <1>1
  <2> QED
    BY <2>1
<1> HIDE DEF firsts
<1>3a. firsts \in SUBSET DOMAIN list
  BY <1>1
<1>3. /\ new \in Seq(D)
      /\ \A i \in DOMAIN new : \E p \in firsts : new[i] = list[p]
      /\ \A i, j \in DOMAIN new : i # j =>
           \E p, q \in firsts : p # q /\ new[i] = list[p] /\ new[j] = list[q]
  BY <1>3a, KeptMembers
<1>4. Chosen(list, n) = [i \in 1 .. m |-> new[i]]
  BY DEF Chosen, firsts
<1> HIDE DEF new
<1>5. m \in Nat /\ m <= Len(new) /\ DOMAIN new = 1 .. Len(new)
  BY <1>3 DEF Least
<1> HIDE DEF m
<1>6. /\ Chosen(list, n) \in Seq(D) /\ DOMAIN Chosen(list, n) = 1 .. m
      /\ \A i \in 1 .. m : i \in DOMAIN new /\ Chosen(list, n)[i] = new[i]
  BY <1>3, <1>4, <1>5
<1>7. ASSUME NEW i \in 1 .. m, NEW j \in 1 .. m, i # j
      PROVE  Chosen(list, n)[i].place # Chosen(list, n)[j].place
  <2>1. PICK p, q \in firsts : p # q /\ new[i] = list[p] /\ new[j] = list[q]
    BY <1>3, <1>6, <1>7
  <2> QED
    BY <1>2, <1>6, <2>1
<1> QED
  BY <1>1, <1>3, <1>6, <1>7 DEF PlacesOnce

\* The tools that are asked about a kind of candidates, each once.
LEMMA ToolsOfRole ==
  ASSUME NEW q, NEW role \in Role
  PROVE  LET order == ToolOrder[role]
             tools == Kept(order, {t \in DOMAIN order : order[t] \in Templates(q)})
         IN  /\ tools \in Seq(FieldTools)
             /\ \A t \in DOMAIN tools : tools[t] \in DiningTools => role = "dining"
             /\ \A s, t \in DOMAIN tools : tools[s] = tools[t] => s = t
<1> DEFINE order == ToolOrder[role]
           asked == {t \in DOMAIN order : order[t] \in Templates(q)}
           tools == Kept(order, asked)
<1>1. /\ order \in Seq(FieldTools)
      /\ \A t \in DOMAIN order : order[t] \in DiningTools => role = "dining"
      /\ \A s, t \in DOMAIN order : order[s] = order[t] => s = t
  <2>1. CASE role = "activity"
    BY <2>1, FieldToolsAre DEF ToolOrder, DiningTools
  <2>2. CASE role = "dining"
    BY <2>2, FieldToolsAre DEF ToolOrder, DiningTools
  <2>3. CASE role = "addon"
    BY <2>3, FieldToolsAre DEF ToolOrder, DiningTools
  <2> QED
    BY <2>1, <2>2, <2>3 DEF Role
<1>2. asked \in SUBSET DOMAIN order
  OBVIOUS
<1> HIDE DEF order, asked
<1>3. /\ tools \in Seq(FieldTools)
      /\ \A i \in DOMAIN tools : \E p \in asked : tools[i] = order[p]
      /\ \A i, j \in DOMAIN tools : i # j =>
           \E s, t \in asked : s # t /\ tools[i] = order[s] /\ tools[j] = order[t]
  BY <1>1, <1>2, KeptMembers
<1> HIDE DEF tools
<1>4. \A i \in DOMAIN tools : tools[i] \in DiningTools => role = "dining"
  BY <1>1, <1>2, <1>3
<1>5. ASSUME NEW i \in DOMAIN tools, NEW j \in DOMAIN tools, i # j
      PROVE  tools[i] # tools[j]
  <2>1. PICK s, t \in asked : s # t /\ tools[i] = order[s] /\ tools[j] = order[t]
    BY <1>3, <1>5
  <2> QED
    BY <1>1, <1>2, <2>1
<1> QED
  BY <1>3, <1>4, <1>5 DEF tools, asked, order

LEMMA CallsAboutCandidates ==
  ASSUME NEW q, NEW role \in Role, NEW D, NEW list \in Seq(D), PlacesOnce(list),
         \A i \in DOMAIN list : list[i].place \in Place
  PROVE  /\ EnrichmentCalls(q, role, list) \in Seq(CallsAbout(role, list))
         /\ MadeOnce(EnrichmentCalls(q, role, list))
<1> DEFINE order == ToolOrder[role]
           tools == Kept(order, {t \in DOMAIN order : order[t] \in Templates(q)})
           row(i) == [t \in DOMAIN tools |->
                        CallOf(tools[t], <<list[i].place>>, role, i)]
           rows == [i \in DOMAIN list |-> row(i)]
           calls == FlattenSeq(rows)
           n == Len(list)
<1>1. /\ tools \in Seq(FieldTools)
      /\ \A t \in DOMAIN tools : tools[t] \in DiningTools => role = "dining"
      /\ \A s, t \in DOMAIN tools : tools[s] = tools[t] => s = t
  BY ToolsOfRole
<1>2. EnrichmentCalls(q, role, list) = calls
  BY DEF EnrichmentCalls
<1>3. n \in Nat /\ DOMAIN list = 1 .. n
  OBVIOUS
<1> HIDE DEF tools, n
<1>4. ASSUME NEW i \in 1 .. n, NEW t \in DOMAIN tools
      PROVE  row(i)[t] \in CallsAbout(role, list)
  <2>1. tools[t] \in FieldTools /\ tools[t] \in ToolName
    BY <1>1 DEF ToolName
  <2>2. role \in Purpose /\ i \in Nat
    BY <1>3 DEF Purpose
  <2>3. <<list[i].place>> \in Subject
    BY <1>3 DEF Subject
  <2>4. row(i)[t] = CallOf(tools[t], <<list[i].place>>, role, i)
    OBVIOUS
  <2> QED
    BY <1>1, <1>3, <2>1, <2>2, <2>3, <2>4, CallsOfTheirSet DEF CallsAbout
<1>5. rows \in [1 .. n -> Seq(CallsAbout(role, list))]
  <2>1. ASSUME NEW i \in 1 .. n PROVE row(i) \in Seq(CallsAbout(role, list))
    <3>1. DOMAIN tools = 1 .. Len(tools) /\ Len(tools) \in Nat
      BY <1>1
    <3> QED
      BY <1>4, <3>1
  <2> QED
    BY <1>3, <2>1
<1>6. /\ \A i \in 1 .. n : DOMAIN rows[i] = DOMAIN tools
      /\ \A i \in 1 .. n, t \in DOMAIN tools :
           /\ rows[i][t].tool = tools[t] /\ rows[i][t].at = i
           /\ rows[i][t].on = <<list[i].place>>
  BY <1>3 DEF CallOf
<1> HIDE DEF rows
<1>7. calls \in Seq(CallsAbout(role, list)) /\ FlatOf(rows, n, calls)
  BY <1>3, <1>5, FlattenedList
<1> HIDE DEF calls
<1>8. PICK at \in [DOMAIN calls -> (1 .. n) \X Nat] :
        /\ \A i \in DOMAIN calls : /\ at[i][2] \in DOMAIN rows[at[i][1]]
                                   /\ calls[i] = rows[at[i][1]][at[i][2]]
        /\ \A i, j \in DOMAIN calls : at[i] = at[j] => i = j
  BY <1>7 DEF FlatOf
<1>9. ASSUME NEW i \in DOMAIN calls, NEW j \in DOMAIN calls,
             calls[i].tool = calls[j].tool, calls[i].on = calls[j].on
      PROVE  i = j
  <2>1. /\ at[i] \in (1 .. n) \X Nat /\ at[j] \in (1 .. n) \X Nat
        /\ at[i] = <<at[i][1], at[i][2]>> /\ at[j] = <<at[j][1], at[j][2]>>
    BY <1>8
  <2>2. /\ tools[at[i][2]] = tools[at[j][2]]
        /\ list[at[i][1]].place = list[at[j][1]].place
        /\ at[i][2] \in DOMAIN tools /\ at[j][2] \in DOMAIN tools
    BY <1>6, <1>8, <1>9, <2>1
  <2>3. at[i][1] = at[j][1] /\ at[i][2] = at[j][2]
    BY <1>1, <1>3, <2>1, <2>2 DEF PlacesOnce
  <2> QED
    BY <1>8, <2>1, <2>3
<1>10. MadeOnce(calls)
  BY <1>9 DEF MadeOnce
<1> QED
  BY <1>2, <1>7, <1>10

LEMMA CallsBetweenPlaces ==
  ASSUME NEW D, NEW from \in Seq(D), NEW to \in Seq(D),
         PlacesOnce(from), PlacesOnce(to),
         \A i \in DOMAIN from : from[i].place \in Place,
         \A i \in DOMAIN to : to[i].place \in Place
  PROVE  /\ RouteCalls(from, to) \in Seq(CallsBetween)
         /\ MadeOnce(RouteCalls(from, to))
         /\ \A k \in DOMAIN RouteCalls(from, to) :
              \E i \in DOMAIN from, j \in DOMAIN to :
                RouteCalls(from, to)[k].on = <<from[i].place, to[j].place>>
<1> DEFINE row(i) == [j \in DOMAIN to |->
                        CallOf("check_route", <<from[i].place, to[j].place>>,
                               "route", 0)]
           rows == [i \in DOMAIN from |-> row(i)]
           calls == FlattenSeq(rows)
           n == Len(from)
<1>1. n \in Nat /\ DOMAIN from = 1 .. n
      /\ DOMAIN to = 1 .. Len(to) /\ Len(to) \in Nat
  OBVIOUS
<1>2. RouteCalls(from, to) = calls
  BY DEF RouteCalls
<1> HIDE DEF n
<1>3. ASSUME NEW i \in 1 .. n, NEW j \in DOMAIN to
      PROVE  row(i)[j] \in CallsBetween
  <2>1. from[i].place \in Place /\ to[j].place \in Place
    BY <1>1
  <2>2. "check_route" \in ToolName /\ "route" \in Purpose
    BY DEF ToolName, Purpose
  <2>3. /\ <<from[i].place, to[j].place>> \in Subject
        /\ <<from[i].place, to[j].place>> \in Place \X Place
    BY <2>1 DEF Subject
  <2>4. row(i)[j] = CallOf("check_route", <<from[i].place, to[j].place>>,
                           "route", 0)
    OBVIOUS
  <2> QED
    BY <2>2, <2>3, <2>4, CallsOfTheirSet DEF CallsBetween
<1>4. rows \in [1 .. n -> Seq(CallsBetween)]
  <2>1. ASSUME NEW i \in 1 .. n PROVE row(i) \in Seq(CallsBetween)
    BY <1>1, <1>3
  <2> QED
    BY <1>1, <2>1
<1>5. /\ \A i \in 1 .. n : DOMAIN rows[i] = DOMAIN to
      /\ \A i \in 1 .. n, j \in DOMAIN to :
           rows[i][j].on = <<from[i].place, to[j].place>>
  BY <1>1 DEF CallOf
<1> HIDE DEF rows
<1>6. calls \in Seq(CallsBetween) /\ FlatOf(rows, n, calls)
  BY <1>1, <1>4, FlattenedList
<1> HIDE DEF calls
<1>7. PICK at \in [DOMAIN calls -> (1 .. n) \X Nat] :
        /\ \A i \in DOMAIN calls : /\ at[i][2] \in DOMAIN rows[at[i][1]]
                                   /\ calls[i] = rows[at[i][1]][at[i][2]]
        /\ \A i, j \in DOMAIN calls : at[i] = at[j] => i = j
  BY <1>6 DEF FlatOf
<1>8. ASSUME NEW k \in DOMAIN calls
      PROVE  /\ at[k] = <<at[k][1], at[k][2]>>
             /\ at[k][1] \in 1 .. n /\ at[k][2] \in DOMAIN to
             /\ calls[k].on = <<from[at[k][1]].place, to[at[k][2]].place>>
  <2>1. at[k] \in (1 .. n) \X Nat
    BY <1>7
  <2> QED
    BY <1>5, <1>7, <2>1
<1>9. ASSUME NEW i \in DOMAIN calls, NEW j \in DOMAIN calls,
             calls[i].on = calls[j].on
      PROVE  i = j
  <2>1. /\ from[at[i][1]].place = from[at[j][1]].place
        /\ to[at[i][2]].place = to[at[j][2]].place
    BY <1>8, <1>9
  <2>2. at[i][1] = at[j][1] /\ at[i][2] = at[j][2]
    BY <1>1, <1>8, <2>1 DEF PlacesOnce
  <2>3. at[i] = at[j]
    BY <1>8, <2>2
  <2> QED
    BY <1>7, <2>3
<1>10. MadeOnce(calls)
  BY <1>9 DEF MadeOnce
<1>11. \A k \in DOMAIN calls : \E i \in DOMAIN from, j \in DOMAIN to :
         calls[k].on = <<from[i].place, to[j].place>>
  <2> SUFFICES ASSUME NEW k \in DOMAIN calls
               PROVE  \E i \in DOMAIN from, j \in DOMAIN to :
                        calls[k].on = <<from[i].place, to[j].place>>
    OBVIOUS
  <2>1. PICK i, j : /\ i \in 1 .. n /\ j \in DOMAIN to
                    /\ calls[k].on = <<from[i].place, to[j].place>>
    BY <1>8
  <2> QED
    BY <1>1, <2>1
<1> QED
  BY <1>2, <1>6, <1>10, <1>11

LEMMA OneAfterTheOther ==
  ASSUME NEW s \in Seq(Calls), NEW t \in Seq(Calls), MadeOnce(s), MadeOnce(t),
         \A i \in DOMAIN s, j \in DOMAIN t :
           s[i].tool \in OnceTools /\ s[i].tool = t[j].tool => s[i].on # t[j].on
  PROVE  s \o t \in Seq(Calls) /\ MadeOnce(s \o t)
<1> DEFINE u == s \o t
           a == Len(s)
           b == Len(t)
<1>1. /\ a \in Nat /\ b \in Nat /\ DOMAIN s = 1 .. a /\ DOMAIN t = 1 .. b
      /\ DOMAIN u = 1 .. a + b /\ u \in Seq(Calls)
      /\ \A i \in 1 .. a : u[i] = s[i]
      /\ \A i \in a + 1 .. a + b : u[i] = t[i - a]
  OBVIOUS
<1> HIDE DEF u, a, b
<1>2. ASSUME NEW i \in 1 .. a + b, NEW j \in 1 .. a + b,
             u[i].tool \in OnceTools, u[i].tool = u[j].tool, u[i].on = u[j].on
      PROVE  i = j
  <2>1. CASE i \in 1 .. a /\ j \in 1 .. a
    BY <1>1, <1>2, <2>1 DEF MadeOnce
  <2>2. CASE i \in a + 1 .. a + b /\ j \in a + 1 .. a + b
    <3>1. /\ i - a \in 1 .. b /\ j - a \in 1 .. b
          /\ u[i] = t[i - a] /\ u[j] = t[j - a]
      BY <1>1, <2>2
    <3>2. i - a = j - a
      BY <1>1, <1>2, <3>1 DEF MadeOnce
    <3> QED
      BY <1>1, <3>2
  <2>3. CASE i \in 1 .. a /\ j \in a + 1 .. a + b
    <3>1. j - a \in 1 .. b /\ u[i] = s[i] /\ u[j] = t[j - a]
      BY <1>1, <2>3
    <3> QED
      BY <1>1, <1>2, <2>3, <3>1
  <2>4. CASE j \in 1 .. a /\ i \in a + 1 .. a + b
    <3>1. i - a \in 1 .. b /\ u[j] = s[j] /\ u[i] = t[i - a]
      BY <1>1, <2>4
    <3> QED
      BY <1>1, <1>2, <2>4, <3>1
  <2> QED
    BY <1>1, <2>1, <2>2, <2>3, <2>4
<1>3. MadeOnce(u)
  BY <1>1, <1>2 DEF MadeOnce
<1> QED
  BY <1>1, <1>3 DEF u

----------------------------------------------------------------------------
(* What is known while evidence is collected *)

Status  == {"succeeded", "cached", "failed", "rate_limited"}
Finding == {"enriching", "drafted", "expanding", "done"}
Rows    == since + 1 .. Len(events)

AnyCategory == Role \union {CategoryOf[place] : place \in Place}

Listed == [place : Place, category : AnyCategory]

Candidate ==
  [ place : Place, category : AnyCategory,
    detail : Replies.get_poi_detail \union {"none"},
    hours : Replies.check_opening_hours \union {"none"},
    queue : Replies.check_queue \union {"none"},
    table : Replies.check_table_availability \union {"none"},
    ticket : Replies.check_ticket_availability \union {"none"},
    events : SUBSET Nat ]

Route ==
  [ from : Place, to : Place, event : Nat, status : Status,
    length : Replies.check_route \union {"none"} ]

\* An answer that is used is one that the tool may give.
Fits(tool, status, answer) ==
  status \in UsableStatus /\ answer # Malformed =>
    IF tool = "search_poi" THEN answer \in Seq(Place)
                           ELSE answer \in Replies[tool]

\* The mock world's categories tell the kinds apart; amap has no add-ons.
OfRole(list, role) ==
  IF request.profile = "amap" THEN role = "addon" => list = <<>>
  ELSE \A i \in DOMAIN list : Kind(CategoryOf[list[i].place]) = role

RunTyped ==
  /\ request \in Requests /\ injector \in Injectors
  /\ phase \in Finding \union {"searching", "crashed"}
  /\ level \in 0 .. 1 /\ since \in 0 .. Len(events)
  /\ surprises \in 0 .. Surprises
  /\ Len(drafts) <= MaxDrafts

RowsTyped ==
  \A n \in DOMAIN events :
    /\ events[n].sequence = n /\ events[n].status \in Status
    /\ Fits(events[n].tool, events[n].status, events[n].answer)

FoundTyped ==
  /\ collection \in [Role -> Seq(Listed)]
  /\ enriched \in [Role -> Seq(Candidate)]
  /\ routes \in Seq(Route)
  /\ \A role \in Role : /\ OfRole(collection[role], role)
                        /\ OfRole(enriched[role], role)
                        /\ PlacesOnce(enriched[role])

\* A search asks only for what the profile has.
Searched(call) ==
  /\ call \in Calls /\ call.tool \in SearchTools
  /\ call.tool = "search_poi" =>
       call.role \in Role /\ (request.profile = "amap" => call.role # "addon")

Asked(call) ==
  \/ \E role \in Role : call \in CallsAbout(role, enriched[role])
  \/ call \in CallsBetween

ToAsk ==
  /\ todo \in Seq(Calls)
  /\ phase = "searching" =>
       /\ \A i \in DOMAIN todo : Searched(todo[i])
       /\ \A n \in Rows : events[n].tool \in SearchTools
  /\ phase = "enriching" => \A i \in DOMAIN todo : Asked(todo[i])
  /\ phase \notin {"searching", "enriching"} => todo = <<>>

\* What is yet to be asked once was not asked before.
AskedOnce ==
  phase = "enriching" =>
    /\ MadeOnce(todo)
    /\ \A i \in DOMAIN todo : todo[i].tool \in DiningTools =>
         \A n \in Rows :
           events[n].tool = todo[i].tool => events[n].on # todo[i].on
    /\ \A i \in DOMAIN todo : todo[i].tool = "check_route" =>
         \A r \in DOMAIN routes : <<routes[r].from, routes[r].to>> # todo[i].on

RoutesOnce ==
  phase \in Finding =>
    \A i, j \in DOMAIN routes :
      routes[i].from = routes[j].from /\ routes[i].to = routes[j].to => i = j

\* What is kept of a candidate or of a route was said by an event of the last
\* search.
BackedCandidate(x) ==
  /\ x.events \subseteq Rows
  /\ \A tool \in FieldTools :
       x[Field[tool]] # "none" => Said(tool, <<x.place>>, {x[Field[tool]]})

BackedRoute(r) ==
  RouteIsUsable(r) =>
    /\ r.event \in Rows
    /\ Said("check_route", <<r.from, r.to>>, Replies.check_route)

Backed ==
  phase \in Finding =>
    /\ \A role \in Role : \A i \in DOMAIN enriched[role] :
         BackedCandidate(enriched[role][i])
    /\ \A i \in DOMAIN routes : BackedRoute(routes[i])

\* And what an event says of the tables and the queue of a restaurant is kept.
HeardOf(x, tool) ==
  \A n \in Rows :
    (/\ events[n].tool = tool /\ events[n].on = <<x.place>>
     /\ events[n].status \in UsableStatus /\ events[n].answer # Malformed)
    => x[Field[tool]] = events[n].answer

Heard ==
  phase \in Finding =>
    \A i \in DOMAIN enriched.dining, tool \in DiningTools :
      HeardOf(enriched.dining[i], tool)

\* Drafts and reviews are what the generator and the gate make of it.
Made ==
  /\ phase \in {"drafted", "expanding", "done"} =>
       drafts = Drafts(request, Evidence, MaxDrafts)
  /\ phase \in {"expanding", "done"} =>
       reviewed = [i \in DOMAIN drafts |->
                    ReviewedDraft(drafts[i], Evidence, request)]

Known ==
  /\ RunTyped /\ RowsTyped /\ FoundTyped
  /\ ToAsk /\ AskedOnce /\ RoutesOnce /\ Backed /\ Heard

----------------------------------------------------------------------------
(* One more row, one call fewer *)

LEMMA RecordedRow ==
  ASSUME IsSequence(events), since \in 0 .. Len(events),
         NEW status, NEW answer, NEW hit, NEW injected,
         Record(status, answer, hit, injected)
  PROVE  LET new == Len(events) + 1 IN
         /\ Len(events) \in Nat /\ Len(events') = new
         /\ DOMAIN events = 1 .. Len(events) /\ DOMAIN events' = 1 .. new
         /\ \A n \in 1 .. Len(events) : events'[n] = events[n]
         /\ events'[new].tool = Head(todo).tool /\ events'[new].on = Head(todo).on
         /\ events'[new].status = status /\ events'[new].answer = answer
         /\ events'[new].sequence = new
         /\ Rows' = Rows \union {new} /\ new \notin Rows
         /\ Rows \subseteq DOMAIN events /\ new \in Nat
<1> DEFINE e == [ tool |-> Head(todo).tool, on |-> Head(todo).on,
                  status |-> status, answer |-> answer, hit |-> hit,
                  injected |-> injected, sequence |-> NextSequence ]
<1>1. events' = Append(events, e) /\ since' = since
  BY DEF Record, plan
<1>2. /\ e.tool = Head(todo).tool /\ e.on = Head(todo).on
      /\ e.status = status /\ e.answer = answer
      /\ e.sequence = Len(events) + 1
  BY DEF NextSequence
<1> HIDE DEF e
<1>3. /\ Len(events) \in Nat /\ DOMAIN events = 1 .. Len(events)
      /\ Len(events') = Len(events) + 1 /\ DOMAIN events' = 1 .. Len(events) + 1
      /\ \A n \in 1 .. Len(events) : events'[n] = events[n]
      /\ events'[Len(events) + 1] = e
  BY <1>1, AppendToSequence
<1> QED
  BY <1>1, <1>2, <1>3 DEF Rows

LEMMA SaidStays ==
  ASSUME IsSequence(events), since \in 0 .. Len(events),
         NEW status, NEW answer, NEW hit, NEW injected,
         Record(status, answer, hit, injected),
         NEW tool, NEW on, NEW answers, Said(tool, on, answers)
  PROVE  Said(tool, on, answers)'
<1>1. PICK n \in Rows : /\ events[n].tool = tool /\ events[n].on = on
                        /\ events[n].status \in UsableStatus
                        /\ events[n].answer \in answers
  BY DEF Said, Rows
<1>2. n \in Rows' /\ events'[n] = events[n]
  BY RecordedRow
<1> QED
  BY <1>1, <1>2 DEF Said, Rows

LEMMA SaidNow ==
  ASSUME IsSequence(events), since \in 0 .. Len(events),
         NEW status, NEW answer, NEW hit, NEW injected,
         Record(status, answer, hit, injected),
         NEW answers, status \in UsableStatus, answer \in answers,
         NEW tool, tool = Head(todo).tool, NEW on, on = Head(todo).on
  PROVE  Said(tool, on, answers)'
<1> DEFINE n == Len(events) + 1
<1>1. /\ n \in Rows'
      /\ events'[n].tool = Head(todo).tool /\ events'[n].on = Head(todo).on
      /\ events'[n].status = status /\ events'[n].answer = answer
  BY RecordedRow
<1> HIDE DEF n
<1> QED
  BY <1>1 DEF Said, Rows

LEMMA RowsStayTyped ==
  ASSUME IsSequence(events), RunTyped, RowsTyped,
         NEW status \in Status, NEW answer, NEW hit, NEW injected,
         Record(status, answer, hit, injected),
         Fits(Head(todo).tool, status, answer)
  PROVE  RowsTyped'
<1> DEFINE new == Len(events) + 1
<1>1. /\ DOMAIN events = 1 .. Len(events) /\ DOMAIN events' = 1 .. new
      /\ Len(events) \in Nat
      /\ \A n \in 1 .. Len(events) : events'[n] = events[n]
      /\ events'[new].tool = Head(todo).tool
      /\ events'[new].status = status /\ events'[new].answer = answer
      /\ events'[new].sequence = new
  BY RecordedRow DEF RunTyped
<1>2. ASSUME NEW n \in 1 .. new
      PROVE  /\ events'[n].sequence = n /\ events'[n].status \in Status
             /\ Fits(events'[n].tool, events'[n].status, events'[n].answer)
  <2>1. CASE n = new
    BY <1>1, <2>1
  <2>2. CASE n \in 1 .. Len(events)
    BY <1>1, <2>2 DEF RowsTyped
  <2> QED
    BY <1>1, <2>1, <2>2
<1> QED
  BY <1>1, <1>2 DEF RowsTyped, Fits

LEMMA CallsAfterHead ==
  ASSUME todo \in Seq(Calls), todo # <<>>, todo' = Tail(todo)
  PROVE  /\ 1 \in DOMAIN todo /\ Head(todo) = todo[1] /\ Head(todo) \in Calls
         /\ todo' \in Seq(Calls)
         /\ \A i \in DOMAIN todo' : i + 1 \in DOMAIN todo /\ i + 1 # 1
                                    /\ todo'[i] = todo[i + 1]
         /\ MadeOnce(todo) =>
              /\ MadeOnce(todo')
              /\ \A i \in DOMAIN todo' :
                   todo'[i].tool \in OnceTools
                   /\ todo'[i].tool = Head(todo).tool =>
                     todo'[i].on # Head(todo).on
<1>1. /\ Len(todo) \in Nat /\ Len(todo) > 0 /\ DOMAIN todo = 1 .. Len(todo)
      /\ Head(todo) = todo[1] /\ todo' \in Seq(Calls)
      /\ Len(todo') = Len(todo) - 1 /\ DOMAIN todo' = 1 .. Len(todo) - 1
      /\ \A i \in 1 .. Len(todo) - 1 : todo'[i] = todo[i + 1]
  OBVIOUS
<1>2. \A i \in DOMAIN todo' : i + 1 \in DOMAIN todo /\ i + 1 # 1
                              /\ todo'[i] = todo[i + 1] /\ i \in Nat
  BY <1>1
<1>3. ASSUME MadeOnce(todo)
      PROVE  /\ MadeOnce(todo')
             /\ \A i \in DOMAIN todo' :
                  todo'[i].tool \in OnceTools
                  /\ todo'[i].tool = Head(todo).tool =>
                    todo'[i].on # Head(todo).on
  <2>1. ASSUME NEW i \in DOMAIN todo', NEW j \in DOMAIN todo',
               todo'[i].tool \in OnceTools, todo'[i].tool = todo'[j].tool,
               todo'[i].on = todo'[j].on
        PROVE  i = j
    <3>1. i + 1 = j + 1
      BY <1>2, <1>3, <2>1 DEF MadeOnce
    <3> QED
      BY <1>2, <3>1
  <2>2. MadeOnce(todo')
    BY <2>1 DEF MadeOnce
  <2> QED
    BY <1>1, <1>2, <1>3, <2>2 DEF MadeOnce
<1> QED
  BY <1>1, <1>2, <1>3

----------------------------------------------------------------------------
(* What a result does to a candidate *)

\* One field of a candidate is replaced.
ReplacedField(x, number, field, value, y) ==
  /\ y \in Candidate /\ y.place = x.place
  /\ y.events = x.events \union {number}
  /\ y[field] = value
  /\ \A other \in {"detail", "hours", "queue", "table", "ticket"} \ {field} :
       y[other] = x[other]

LEMMA FieldReplaced ==
  ASSUME NEW x \in Candidate, NEW number \in Nat, NEW value
  PROVE  LET with(field) == [x EXCEPT !.events = x.events \union {number},
                                        ![field] = value]
         IN
         /\ value \in Replies.get_poi_detail \union {"none"} =>
              ReplacedField(x, number, "detail", value, with("detail"))
         /\ value \in Replies.check_opening_hours \union {"none"} =>
              ReplacedField(x, number, "hours", value, with("hours"))
         /\ value \in Replies.check_queue \union {"none"} =>
              ReplacedField(x, number, "queue", value, with("queue"))
         /\ value \in Replies.check_table_availability \union {"none"} =>
              ReplacedField(x, number, "table", value, with("table"))
         /\ value \in Replies.check_ticket_availability \union {"none"} =>
              ReplacedField(x, number, "ticket", value, with("ticket"))
<1> DEFINE with(field) == [x EXCEPT !.events = x.events \union {number},
                                      ![field] = value]
<1>1. ASSUME value \in Replies.get_poi_detail \union {"none"}
      PROVE  ReplacedField(x, number, "detail", value, with("detail"))
  <2> DEFINE y == with("detail")
  <2>1. y \in Candidate
    BY <1>1 DEF Candidate
  <2>2. y.place = x.place /\ y.events = x.events \union {number}
        /\ y.detail = value
    BY DEF Candidate
  <2>3. y.hours = x.hours /\ y.queue = x.queue
        /\ y.table = x.table /\ y.ticket = x.ticket
    BY DEF Candidate
  <2> HIDE DEF y
  <2>4. ReplacedField(x, number, "detail", value, y)
    BY <2>1, <2>2, <2>3 DEF ReplacedField
  <2> QED
    BY <2>4 DEF y
<1>2. ASSUME value \in Replies.check_opening_hours \union {"none"}
      PROVE  ReplacedField(x, number, "hours", value, with("hours"))
  <2> DEFINE y == with("hours")
  <2>1. y \in Candidate
    BY <1>2 DEF Candidate
  <2>2. y.place = x.place /\ y.events = x.events \union {number}
        /\ y.hours = value
    BY DEF Candidate
  <2>3. y.detail = x.detail /\ y.queue = x.queue
        /\ y.table = x.table /\ y.ticket = x.ticket
    BY DEF Candidate
  <2> HIDE DEF y
  <2>4. ReplacedField(x, number, "hours", value, y)
    BY <2>1, <2>2, <2>3 DEF ReplacedField
  <2> QED
    BY <2>4 DEF y
<1>3. ASSUME value \in Replies.check_queue \union {"none"}
      PROVE  ReplacedField(x, number, "queue", value, with("queue"))
  <2> DEFINE y == with("queue")
  <2>1. y \in Candidate
    BY <1>3 DEF Candidate
  <2>2. y.place = x.place /\ y.events = x.events \union {number}
        /\ y.queue = value
    BY DEF Candidate
  <2>3. y.detail = x.detail /\ y.hours = x.hours
        /\ y.table = x.table /\ y.ticket = x.ticket
    BY DEF Candidate
  <2> HIDE DEF y
  <2>4. ReplacedField(x, number, "queue", value, y)
    BY <2>1, <2>2, <2>3 DEF ReplacedField
  <2> QED
    BY <2>4 DEF y
<1>4. ASSUME value \in Replies.check_table_availability \union {"none"}
      PROVE  ReplacedField(x, number, "table", value, with("table"))
  <2> DEFINE y == with("table")
  <2>1. y \in Candidate
    BY <1>4 DEF Candidate
  <2>2. y.place = x.place /\ y.events = x.events \union {number}
        /\ y.table = value
    BY DEF Candidate
  <2>3. y.detail = x.detail /\ y.hours = x.hours
        /\ y.queue = x.queue /\ y.ticket = x.ticket
    BY DEF Candidate
  <2> HIDE DEF y
  <2>4. ReplacedField(x, number, "table", value, y)
    BY <2>1, <2>2, <2>3 DEF ReplacedField
  <2> QED
    BY <2>4 DEF y
<1>5. ASSUME value \in Replies.check_ticket_availability \union {"none"}
      PROVE  ReplacedField(x, number, "ticket", value, with("ticket"))
  <2> DEFINE y == with("ticket")
  <2>1. y \in Candidate
    BY <1>5 DEF Candidate
  <2>2. y.place = x.place /\ y.events = x.events \union {number}
        /\ y.ticket = value
    BY DEF Candidate
  <2>3. y.detail = x.detail /\ y.hours = x.hours
        /\ y.queue = x.queue /\ y.table = x.table
    BY DEF Candidate
  <2> HIDE DEF y
  <2>4. ReplacedField(x, number, "ticket", value, y)
    BY <2>1, <2>2, <2>3 DEF ReplacedField
  <2> QED
    BY <2>4 DEF y
<1> QED
  BY <1>1, <1>2, <1>3, <1>4, <1>5

IsReplaced(x, number, field, value, y) ==
  y = [x EXCEPT !.events = x.events \union {number}, ![field] = value]

LEMMA AttachedCandidate ==
  ASSUME NEW x \in Candidate, NEW tool \in FieldTools, NEW number \in Nat,
         NEW value, value = x[Field[tool]] \/ value \in Replies[tool],
         NEW y, IsReplaced(x, number, Field[tool], value, y)
  PROVE  /\ y \in Candidate /\ y.place = x.place
         /\ y.events = x.events \union {number}
         /\ y[Field[tool]] = value
         /\ \A t \in FieldTools \ {tool} : y[Field[t]] = x[Field[t]]
<1>1. \A s, t \in FieldTools : s # t => Field[s] # Field[t]
  BY FieldToolsAre DEF Field
<1>2. \A t \in FieldTools :
        Field[t] \in {"detail", "hours", "queue", "table", "ticket"}
  BY FieldToolsAre DEF Field
<1>3. ReplacedField(x, number, Field[tool], value, y)
  <2>1. CASE tool = "get_poi_detail"
    <3>1. Field[tool] = "detail" /\ value \in Replies.get_poi_detail \union {"none"}
      BY <2>1 DEF Field, Candidate
    <3> QED
      BY <3>1, FieldReplaced DEF IsReplaced
  <2>2. CASE tool = "check_opening_hours"
    <3>1. Field[tool] = "hours" /\ value \in Replies.check_opening_hours \union {"none"}
      BY <2>2 DEF Field, Candidate
    <3> QED
      BY <3>1, FieldReplaced DEF IsReplaced
  <2>3. CASE tool = "check_queue"
    <3>1. Field[tool] = "queue" /\ value \in Replies.check_queue \union {"none"}
      BY <2>3 DEF Field, Candidate
    <3> QED
      BY <3>1, FieldReplaced DEF IsReplaced
  <2>4. CASE tool = "check_table_availability"
    <3>1. Field[tool] = "table" /\ value \in Replies.check_table_availability \union {"none"}
      BY <2>4 DEF Field, Candidate
    <3> QED
      BY <3>1, FieldReplaced DEF IsReplaced
  <2>5. CASE tool = "check_ticket_availability"
    <3>1. Field[tool] = "ticket" /\ value \in Replies.check_ticket_availability \union {"none"}
      BY <2>5 DEF Field, Candidate
    <3> QED
      BY <3>1, FieldReplaced DEF IsReplaced
  <2> QED
    BY <2>1, <2>2, <2>3, <2>4, <2>5, FieldToolsAre
<1> QED
  BY <1>1, <1>2, <1>3 DEF ReplacedField

LEMMA Attached ==
  ASSUME FoundTyped, NEW role \in Role,
         NEW call \in CallsAbout(role, enriched[role]),
         NEW number \in Nat, NEW status, NEW answer,
         Fits(call.tool, status, answer)
  PROVE  LET e == Attach(call, number, status, answer)
             x == enriched[role][call.at]
             y == e[role][call.at]
         IN  /\ e \in [Role -> Seq(Candidate)]
             /\ \A s \in Role : DOMAIN e[s] = DOMAIN enriched[s]
             /\ \A s \in Role : \A j \in DOMAIN enriched[s] :
                  /\ e[s][j].place = enriched[s][j].place
                  /\ s # role \/ j # call.at => e[s][j] = enriched[s][j]
             /\ y.events = x.events \union {number}
             /\ y[Field[call.tool]] =
                  IF status \in UsableStatus /\ answer # Malformed
                  THEN answer ELSE x[Field[call.tool]]
             /\ \A t \in FieldTools \ {call.tool} : y[Field[t]] = x[Field[t]]
             /\ call.at \in DOMAIN enriched[role] /\ call.tool \in FieldTools
             /\ call.on = <<x.place>>
<1> DEFINE e == Attach(call, number, status, answer)
           at == call.at
           x == enriched[role][at]
           value == IF status \in UsableStatus /\ answer # Malformed
                    THEN answer ELSE x[Field[call.tool]]
           y == [x EXCEPT !.events = x.events \union {number},
                          ![Field[call.tool]] = value]
<1>1. /\ call.role = role /\ at \in DOMAIN enriched[role]
      /\ call.tool \in FieldTools /\ call.on = <<x.place>>
      /\ enriched \in [Role -> Seq(Candidate)] /\ x \in Candidate
  BY DEF CallsAbout, FoundTyped
<1>2. value = x[Field[call.tool]] \/ value \in Replies[call.tool]
  <2>1. call.tool # "search_poi"
    BY <1>1, FieldToolsAre
  <2>2. CASE status \in UsableStatus /\ answer # Malformed
    BY <2>1, <2>2 DEF Fits
  <2>3. CASE ~ (status \in UsableStatus /\ answer # Malformed)
    BY <2>3
  <2> QED
    BY <2>2, <2>3
<1>3. e = [enriched EXCEPT ![role] = [enriched[role] EXCEPT ![at] = y]]
  BY <1>1 DEF Attach
<1> HIDE DEF value
<1>4. /\ y \in Candidate /\ y.place = x.place
      /\ y.events = x.events \union {number}
      /\ y[Field[call.tool]] = value
      /\ \A t \in FieldTools \ {call.tool} : y[Field[t]] = x[Field[t]]
  <2>1. IsReplaced(x, number, Field[call.tool], value, y)
    BY DEF IsReplaced
  <2> HIDE DEF x, y
  <2>2. x \in Candidate /\ call.tool \in FieldTools
    BY <1>1
  <2> QED
    BY <1>2, <2>1, <2>2, AttachedCandidate
<1> HIDE DEF y, e, x
<1>5. [enriched[role] EXCEPT ![at] = y] \in Seq(Candidate)
  BY <1>1, <1>4
<1>6. /\ e \in [Role -> Seq(Candidate)]
      /\ \A s \in Role \ {role} : e[s] = enriched[s]
      /\ e[role] = [enriched[role] EXCEPT ![at] = y]
  BY <1>1, <1>3, <1>5
<1>7. /\ DOMAIN e[role] = DOMAIN enriched[role] /\ e[role][at] = y
      /\ \A j \in DOMAIN enriched[role] : j # at => e[role][j] = enriched[role][j]
  BY <1>1, <1>6
<1>8. x = enriched[role][at]
  BY DEF x
<1>9. \A s \in Role : DOMAIN e[s] = DOMAIN enriched[s]
  BY <1>6, <1>7
<1>10. \A s \in Role : \A j \in DOMAIN enriched[s] :
         /\ e[s][j].place = enriched[s][j].place
         /\ s # role \/ j # at => e[s][j] = enriched[s][j]
  BY <1>4, <1>6, <1>7, <1>8
<1>11. e[role][at] = y
  BY <1>7
<1> QED
  BY <1>1, <1>4, <1>6, <1>8, <1>9, <1>10, <1>11 DEF e, value

----------------------------------------------------------------------------
(* The search *)

LEMMA Collected ==
  ASSUME FoundTyped, request \in Requests,
         NEW call, Searched(call), call.tool = "search_poi",
         NEW answer \in Seq(Place)
  PROVE  /\ Collect(call, answer) \in [Role -> Seq(Listed)]
         /\ \A role \in Role : OfRole(Collect(call, answer)[role], role)
<1> SUFFICES ASSUME NEW role \in Role
             PROVE  /\ Collect(call, answer)[role] \in Seq(Listed)
                    /\ OfRole(Collect(call, answer)[role], role)
  BY DEF Collect
<1> DEFINE fits == {i \in DOMAIN answer : Kind(Category(call, answer[i])) = role}
           kept == Kept(answer, fits)
           new  == [i \in DOMAIN kept |->
                      [place |-> kept[i], category |-> Category(call, kept[i])]]
<1>1. Collect(call, answer)[role] = collection[role] \o new
  BY DEF Collect
<1>2. fits \in SUBSET DOMAIN answer
  OBVIOUS
<1>3. \A p \in fits : Kind(Category(call, answer[p])) = role
  OBVIOUS
<1> HIDE DEF fits
<1>4. /\ kept \in Seq(Place)
      /\ \A i \in DOMAIN kept : \E p \in fits : kept[i] = answer[p]
  BY <1>2, KeptMembers
<1> HIDE DEF kept
<1>5. /\ \A i \in DOMAIN kept : kept[i] \in Place
                                /\ Kind(Category(call, kept[i])) = role
      /\ Len(kept) \in Nat /\ DOMAIN kept = 1 .. Len(kept)
  BY <1>3, <1>4
<1>6. \A place \in Place : Category(call, place) \in AnyCategory
  BY DEF Category, AnyCategory, Searched
<1>7. \A i \in DOMAIN kept : new[i] \in Listed
  BY <1>5, <1>6 DEF Listed
<1>8. /\ new \in Seq(Listed) /\ Len(new) = Len(kept)
      /\ DOMAIN new = DOMAIN kept
      /\ \A i \in DOMAIN kept : new[i].place = kept[i]
  BY <1>5, <1>7
<1>9. collection[role] \in Seq(Listed) /\ OfRole(collection[role], role)
  BY DEF FoundTyped
<1>10. CASE request.profile = "amap"
  <2>1. CASE role = "addon"
    <3>1. Kind(call.role) # "addon"
      BY <1>10 DEF Searched, Role, Kind
    <3>2. DOMAIN kept = {}
      BY <1>5, <1>10, <2>1, <3>1 DEF Category
    <3>3. new = <<>> /\ collection[role] = <<>>
      BY <1>5, <1>8, <1>9, <1>10, <2>1, <3>2 DEF OfRole
    <3> HIDE DEF new
    <3>4. collection[role] \o new = <<>>
      BY <3>3
    <3> QED
      BY <1>1, <1>10, <3>4 DEF OfRole
  <2>2. CASE role # "addon"
    <3> HIDE DEF new
    <3> QED
      BY <1>1, <1>8, <1>9, <1>10, <2>2 DEF OfRole
  <2> QED
    BY <2>1, <2>2
<1>11. CASE request.profile # "amap"
  <2>1. \A i \in DOMAIN new : Kind(CategoryOf[new[i].place]) = role
    BY <1>5, <1>8, <1>11 DEF Category
  <2> HIDE DEF new
  <2>2. \A i \in DOMAIN collection[role] :
          Kind(CategoryOf[collection[role][i].place]) = role
    BY <1>9, <1>11 DEF OfRole
  <2>3. ASSUME NEW i \in DOMAIN (collection[role] \o new)
        PROVE  Kind(CategoryOf[(collection[role] \o new)[i].place]) = role
    <3>1. \/ i \in DOMAIN collection[role]
             /\ (collection[role] \o new)[i] = collection[role][i]
          \/ i - Len(collection[role]) \in DOMAIN new
             /\ (collection[role] \o new)[i] = new[i - Len(collection[role])]
      BY <1>8, <1>9
    <3> QED
      BY <2>1, <2>2, <3>1
  <2> QED
    BY <1>1, <1>8, <1>9, <1>11, <2>3 DEF OfRole
<1> QED
  BY <1>10, <1>11

LEMMA SearchRecorded ==
  ASSUME IsSequence(events), Known, phase = "searching", todo # <<>>,
         NEW status \in Status, NEW answer, NEW hit, NEW injected,
         Record(status, answer, hit, injected),
         Fits(Head(todo).tool, status, answer), surprises' \in 0 .. Surprises
  PROVE  Known'
<1> DEFINE new == Len(events) + 1
<1>0. PICK call : call = Head(todo)
  OBVIOUS
<1>1. /\ todo \in Seq(Calls) /\ todo' = Tail(todo) /\ phase' = phase
      /\ request' = request /\ injector' = injector /\ level' = level
      /\ since' = since /\ drafts' = drafts
      /\ Take(call, NextSequence, status, answer)
      /\ request \in Requests /\ RunTyped /\ RowsTyped /\ FoundTyped
      /\ since \in 0 .. Len(events)
  BY <1>0 DEF Known, ToAsk, Record, plan, RunTyped
<1>2. /\ Searched(call) /\ todo' \in Seq(Calls)
      /\ \A i \in DOMAIN todo' : Searched(todo'[i])
  <2>1. /\ 1 \in DOMAIN todo /\ call = todo[1] /\ todo' \in Seq(Calls)
        /\ \A i \in DOMAIN todo' : i + 1 \in DOMAIN todo /\ todo'[i] = todo[i + 1]
    BY <1>0, <1>1, CallsAfterHead
  <2> QED
    BY <2>1 DEF Known, ToAsk
<1>3. /\ Len(events) \in Nat /\ Len(events') = new
      /\ \A n \in Rows : events'[n] = events[n]
      /\ events'[new].tool = call.tool
      /\ Rows' = Rows \union {new}
  BY <1>0, <1>1, RecordedRow
<1>4. RunTyped'
  BY <1>1, <1>3 DEF RunTyped
<1>5. RowsTyped'
  BY <1>1, RowsStayTyped
<1>6. FoundTyped'
  <2>1. enriched' = enriched /\ routes' = routes
    BY <1>1, <1>2 DEF Take, Searched, SearchTools, found
  <2>2. \/ collection' = collection
        \/ /\ call.tool = "search_poi" /\ answer \in Seq(Place)
           /\ collection' = Collect(call, answer)
    BY <1>0, <1>1, <1>2 DEF Take, Searched, SearchTools, found, Fits
  <2>3. /\ collection' \in [Role -> Seq(Listed)]
        /\ \A role \in Role : OfRole(collection'[role], role)
    BY <1>1, <1>2, <2>2, Collected DEF FoundTyped
  <2> QED
    BY <1>1, <2>1, <2>3 DEF FoundTyped, OfRole
<1>7. ToAsk'
  <2>1. \A n \in Rows' : events'[n].tool \in SearchTools
    BY <1>2, <1>3 DEF Known, ToAsk, Searched
  <2> QED
    BY <1>1, <1>2, <2>1 DEF ToAsk, Searched
<1>8. AskedOnce' /\ RoutesOnce' /\ Backed' /\ Heard'
  BY <1>1 DEF AskedOnce, RoutesOnce, Backed, Heard, Finding
<1> QED
  BY <1>4, <1>5, <1>6, <1>7, <1>8 DEF Known

----------------------------------------------------------------------------
(* Enrichment *)

\* Nothing that was said of a candidate or of a route is unsaid by a row.
LEMMA BackedStays ==
  ASSUME IsSequence(events), since \in 0 .. Len(events),
         NEW status, NEW answer, NEW hit, NEW injected,
         Record(status, answer, hit, injected)
  PROVE  /\ \A x : BackedCandidate(x) => BackedCandidate(x)'
         /\ \A r : BackedRoute(r) => BackedRoute(r)'
<1>1. Rows \subseteq Rows'
  BY RecordedRow
<1>2. ASSUME NEW x, BackedCandidate(x) PROVE BackedCandidate(x)'
  <2>1. x.events \subseteq Rows'
    BY <1>1, <1>2 DEF BackedCandidate
  <2>2. ASSUME NEW tool \in FieldTools, x[Field[tool]] # "none"
        PROVE  Said(tool, <<x.place>>, {x[Field[tool]]})'
    <3>1. Said(tool, <<x.place>>, {x[Field[tool]]})
      BY <1>2, <2>2 DEF BackedCandidate
    <3> QED
      BY <3>1, SaidStays
  <2> QED
    BY <2>1, <2>2 DEF BackedCandidate
<1>3. ASSUME NEW r, BackedRoute(r) PROVE BackedRoute(r)'
  <2>1. ASSUME RouteIsUsable(r)
        PROVE  r.event \in Rows'
               /\ Said("check_route", <<r.from, r.to>>, Replies.check_route)'
    <3>1. /\ r.event \in Rows
          /\ Said("check_route", <<r.from, r.to>>, Replies.check_route)
      BY <1>3, <2>1 DEF BackedRoute
    <3> QED
      BY <1>1, <3>1, SaidStays
  <2> QED
    BY <2>1 DEF BackedRoute
<1> QED
  BY <1>2, <1>3

\* A row about something else, or that says nothing, leaves what was heard.
LEMMA HeardStays ==
  ASSUME IsSequence(events), since \in 0 .. Len(events),
         NEW status, NEW answer, NEW hit, NEW injected,
         Record(status, answer, hit, injected),
         NEW x, NEW tool, HeardOf(x, tool),
         Head(todo).tool = tool /\ Head(todo).on = <<x.place>>
           => ~ (status \in UsableStatus /\ answer # Malformed)
  PROVE  HeardOf(x, tool)'
<1> DEFINE new == Len(events) + 1
<1>1. /\ Rows' = Rows \union {new}
      /\ \A n \in Rows : events'[n] = events[n]
      /\ events'[new].tool = Head(todo).tool /\ events'[new].on = Head(todo).on
      /\ events'[new].status = status /\ events'[new].answer = answer
  BY RecordedRow
<1> HIDE DEF new
<1> SUFFICES ASSUME NEW n \in Rows',
                    events'[n].tool = tool, events'[n].on = <<x.place>>,
                    events'[n].status \in UsableStatus,
                    events'[n].answer # Malformed
             PROVE  x[Field[tool]] = events'[n].answer
  BY DEF HeardOf
<1>2. n # new
  BY <1>1
<1>3. n \in Rows /\ events'[n] = events[n]
  BY <1>1, <1>2
<1> QED
  BY <1>3 DEF HeardOf

LEMMA CandidateRecorded ==
  ASSUME IsSequence(events), Known, phase = "enriching", todo # <<>>,
         NEW status \in Status, NEW answer, NEW hit, NEW injected,
         Record(status, answer, hit, injected),
         Fits(Head(todo).tool, status, answer), surprises' \in 0 .. Surprises,
         NEW role \in Role, Head(todo) \in CallsAbout(role, enriched[role])
  PROVE  Known'
<1> DEFINE new == Len(events) + 1
           good == status \in UsableStatus /\ answer # Malformed
<1>0. PICK call : call = Head(todo)
  OBVIOUS
<1>1. /\ todo \in Seq(Calls) /\ todo' = Tail(todo) /\ phase' = phase
      /\ request' = request /\ injector' = injector /\ level' = level
      /\ since' = since /\ drafts' = drafts
      /\ Take(call, NextSequence, status, answer)
      /\ request \in Requests /\ RunTyped /\ RowsTyped /\ FoundTyped
      /\ since \in 0 .. Len(events)
      /\ call \in CallsAbout(role, enriched[role])
  BY <1>0 DEF Known, ToAsk, Record, plan, RunTyped
<1>2. PICK at : at = call.at
  OBVIOUS
<1>3. PICK x : x = enriched[role][at]
  OBVIOUS
<1>4. PICK y : y = enriched'[role][at]
  OBVIOUS
<1>5. /\ Len(events) \in Nat /\ Len(events') = new /\ new \in Nat
      /\ \A n \in Rows : events'[n] = events[n]
      /\ events'[new].tool = call.tool /\ events'[new].on = call.on
      /\ events'[new].status = status /\ events'[new].answer = answer
      /\ Rows' = Rows \union {new} /\ new \notin Rows
  BY <1>0, <1>1, RecordedRow
<1>6. /\ enriched' = Attach(call, new, status, answer)
      /\ collection' = collection /\ routes' = routes
  <2>1. call.tool \notin {"search_poi", "check_weather", "check_route"}
    BY <1>1, FieldToolsAre DEF CallsAbout
  <2> QED
    BY <1>1, <2>1 DEF Take, NextSequence
<1>7. /\ enriched' \in [Role -> Seq(Candidate)]
      /\ \A s \in Role : DOMAIN enriched'[s] = DOMAIN enriched[s]
      /\ \A s \in Role : \A j \in DOMAIN enriched[s] :
           /\ enriched'[s][j].place = enriched[s][j].place
           /\ s # role \/ j # at => enriched'[s][j] = enriched[s][j]
      /\ y.events = x.events \union {new}
      /\ y[Field[call.tool]] = IF good THEN answer ELSE x[Field[call.tool]]
      /\ \A t \in FieldTools \ {call.tool} : y[Field[t]] = x[Field[t]]
      /\ at \in DOMAIN enriched[role] /\ call.tool \in FieldTools
      /\ call.on = <<x.place>> /\ y.place = x.place
  <2>1. Fits(call.tool, status, answer)
    BY <1>0
  <2>2. PICK e : e = Attach(call, new, status, answer)
    OBVIOUS
  <2>3. new \in Nat
    BY <1>5
  <2> HIDE DEF new
  <2>4. /\ e \in [Role -> Seq(Candidate)]
        /\ \A s \in Role : DOMAIN e[s] = DOMAIN enriched[s]
        /\ \A s \in Role : \A j \in DOMAIN enriched[s] :
             /\ e[s][j].place = enriched[s][j].place
             /\ s # role \/ j # call.at => e[s][j] = enriched[s][j]
        /\ e[role][call.at].events = enriched[role][call.at].events \union {new}
        /\ e[role][call.at][Field[call.tool]] =
             IF good THEN answer ELSE enriched[role][call.at][Field[call.tool]]
        /\ \A t \in FieldTools \ {call.tool} :
             e[role][call.at][Field[t]] = enriched[role][call.at][Field[t]]
        /\ call.at \in DOMAIN enriched[role] /\ call.tool \in FieldTools
        /\ call.on = <<enriched[role][call.at].place>>
    BY <1>1, <2>1, <2>2, <2>3, Attached
  <2> HIDE DEF good
  <2> QED
    BY <1>2, <1>3, <1>4, <1>6, <2>2, <2>4
<1>8. RunTyped'
  BY <1>1, <1>5 DEF RunTyped
<1>9. RowsTyped'
  BY <1>1, RowsStayTyped
<1>10. FoundTyped'
  <2>1. ASSUME NEW s \in Role PROVE OfRole(enriched'[s], s) /\ PlacesOnce(enriched'[s])
    <3>1. /\ OfRole(enriched[s], s) /\ PlacesOnce(enriched[s])
          /\ enriched[s] \in Seq(Candidate) /\ enriched'[s] \in Seq(Candidate)
      BY <1>1, <1>7 DEF FoundTyped
    <3>2. PlacesOnce(enriched'[s])
      BY <1>7, <3>1 DEF PlacesOnce
    <3>3. enriched[s] = <<>> => enriched'[s] = <<>>
      BY <1>7, <3>1
    <3>4. OfRole(enriched'[s], s)
      BY <1>7, <3>1, <3>3 DEF OfRole
    <3> QED
      BY <3>2, <3>4
  <2>2. \A s \in Role : OfRole(collection[s], s)
    BY <1>1 DEF FoundTyped
  <2> QED
    BY <1>1, <1>6, <1>7, <2>1, <2>2 DEF FoundTyped, OfRole
<1>11. /\ todo' \in Seq(Calls)
       /\ \A i \in DOMAIN todo' : i + 1 \in DOMAIN todo /\ todo'[i] = todo[i + 1]
       /\ MadeOnce(todo) =>
            /\ MadeOnce(todo')
            /\ \A i \in DOMAIN todo' :
                 todo'[i].tool \in OnceTools /\ todo'[i].tool = call.tool =>
                   todo'[i].on # call.on
       /\ 1 \in DOMAIN todo /\ call = todo[1]
  BY <1>0, <1>1, CallsAfterHead
<1>12. ToAsk'
  <2>1. \A s \in Role : \A c \in CallsAbout(s, enriched[s]) :
                            c \in CallsAbout(s, enriched'[s])
    BY <1>7 DEF CallsAbout
  <2>2. \A i \in DOMAIN todo' : Asked(todo[i + 1])
    BY <1>11 DEF Known, ToAsk
  <2>3. \A i \in DOMAIN todo' : \/ \E s \in Role :
                                     todo'[i] \in CallsAbout(s, enriched'[s])
                                \/ todo'[i] \in CallsBetween
    BY <1>11, <2>1, <2>2 DEF Asked
  <2> QED
    BY <1>1, <1>11, <2>3 DEF ToAsk, Asked
<1>13. AskedOnce'
  <2>1. AskedOnce /\ MadeOnce(todo)
    BY DEF Known, AskedOnce
  <2>2. ASSUME NEW i \in DOMAIN todo', todo'[i].tool \in DiningTools,
               NEW n \in Rows', events'[n].tool = todo'[i].tool
        PROVE  events'[n].on # todo'[i].on
    <3>1. CASE n \in Rows
      <4>1. /\ i + 1 \in DOMAIN todo /\ todo'[i] = todo[i + 1]
            /\ events'[n] = events[n]
        BY <1>5, <1>11, <3>1
      <4> QED
        BY <2>1, <2>2, <3>1, <4>1 DEF AskedOnce
    <3>2. CASE n = new
      BY <1>5, <1>11, <2>1, <2>2, <3>2 DEF OnceTools
    <3> QED
      BY <1>5, <3>1, <3>2
  <2>3. ASSUME NEW i \in DOMAIN todo', todo'[i].tool = "check_route",
               NEW r \in DOMAIN routes
        PROVE  <<routes[r].from, routes[r].to>> # todo'[i].on
    BY <1>11, <2>1, <2>3 DEF AskedOnce
  <2> QED
    BY <1>6, <1>11, <2>1, <2>2, <2>3 DEF AskedOnce
<1>14. RoutesOnce'
  BY <1>1, <1>6 DEF Known, RoutesOnce
<1>15. Backed'
  <2>1. ASSUME NEW s \in Role, NEW j \in DOMAIN enriched'[s]
        PROVE  BackedCandidate(enriched[s][j])'
    <3>1. PICK z : z = enriched'[s][j]
      OBVIOUS
    <3>2. j \in DOMAIN enriched[s]
      BY <1>7
    <3>3. BackedCandidate(z)'
      <4>1. CASE s # role \/ j # at
        <5>1. z = enriched[s][j]
          BY <1>7, <3>1, <3>2, <4>1
        <5>2. BackedCandidate(enriched[s][j])
          BY <3>2 DEF Known, Backed, Finding
        <5>3. BackedCandidate(z)
          BY <5>1, <5>2
        <5> QED
          BY <1>1, <5>3, BackedStays
      <4>2. CASE s = role /\ j = at
        <5>1. BackedCandidate(x)
          BY <1>3, <3>2, <4>2 DEF Known, Backed, Finding
        <5>2. BackedCandidate(x)'
          BY <1>1, <5>1, BackedStays
        <5>3. y.events \subseteq Rows'
          BY <1>5, <1>7, <5>2 DEF BackedCandidate
        <5>4. ASSUME NEW tool \in FieldTools, y[Field[tool]] # "none"
              PROVE  Said(tool, <<y.place>>, {y[Field[tool]]})'
          <6>1. CASE tool = call.tool /\ good
            <7>1. PICK a : a = {answer}
              OBVIOUS
            <7>2. PICK on : on = call.on
              OBVIOUS
            <7>3. Said(tool, on, a)'
              BY <1>0, <1>1, <6>1, <7>1, <7>2, SaidNow
            <7> QED
              BY <1>7, <6>1, <7>1, <7>2, <7>3
          <6>2. CASE ~ (tool = call.tool /\ good)
            <7>1. y[Field[tool]] = x[Field[tool]]
              BY <1>7, <6>2
            <7> QED
              BY <1>7, <5>2, <5>4, <7>1 DEF BackedCandidate
          <6> QED
            BY <6>1, <6>2
        <5>5. BackedCandidate(y)'
          BY <5>3, <5>4 DEF BackedCandidate
        <5> QED
          BY <1>4, <3>1, <4>2, <5>5
      <4> QED
        BY <4>1, <4>2
    <3> QED
      BY <3>1, <3>3 DEF BackedCandidate, Said
  <2>2. ASSUME NEW r \in DOMAIN routes' PROVE BackedRoute(routes[r])'
    <3>1. PICK z : z = routes[r] /\ z = routes'[r]
      BY <1>6
    <3>2. BackedRoute(z)
      BY <1>6, <3>1 DEF Known, Backed, Finding
    <3>3. BackedRoute(z)'
      BY <1>1, <3>2, BackedStays
    <3> QED
      BY <3>1, <3>3 DEF BackedRoute, Said, RouteIsUsable
  <2> QED
    BY <2>1, <2>2 DEF Backed
<1>16. Heard'
  <2>0. "dining" \in Role
    BY DEF Role
  <2>1. ASSUME NEW j \in DOMAIN enriched'.dining, NEW tool \in DiningTools
        PROVE  HeardOf(enriched.dining[j], tool)'
    <3>1. PICK z : z = enriched'.dining[j]
      OBVIOUS
    <3>2. PICK w : w = enriched.dining[j]
      OBVIOUS
    <3>3. j \in DOMAIN enriched.dining /\ z.place = w.place /\ tool \in FieldTools
      BY <1>7, <2>0, <3>1, <3>2, FieldToolsAre DEF DiningTools
    <3>4. HeardOf(w, tool)
      BY <3>2, <3>3 DEF Known, Heard, Finding
    <3>5. CASE role = "dining" /\ j = at /\ tool = call.tool
      <4>1. \A n \in Rows : events[n].tool = tool => events[n].on # call.on
        BY <1>11, <3>5 DEF Known, AskedOnce
      <4>2. x = w /\ y = z
        BY <1>3, <1>4, <3>1, <3>2, <3>5
      <4>3. ASSUME NEW n \in Rows', events'[n].tool = tool,
                   events'[n].on = <<z.place>>,
                   events'[n].status \in UsableStatus,
                   events'[n].answer # Malformed
            PROVE  z[Field[tool]] = events'[n].answer
        <5>1. n \notin Rows
          BY <1>5, <1>7, <4>1, <4>2, <4>3
        <5>2. n = new
          BY <1>5, <5>1
        <5> QED
          BY <1>5, <1>7, <3>5, <4>2, <4>3, <5>2
      <4>4. HeardOf(z, tool)'
        BY <4>3 DEF HeardOf
      <4> QED
        BY <3>1, <4>4 DEF HeardOf
    <3>6. CASE ~ (role = "dining" /\ j = at /\ tool = call.tool)
      <4>1. z[Field[tool]] = w[Field[tool]]
        BY <1>3, <1>4, <1>7, <2>0, <3>1, <3>2, <3>3, <3>6
      <4>2. ~ (call.tool = tool /\ call.on = <<w.place>>)
        <5>1. SUFFICES ASSUME call.tool = tool, call.on = <<w.place>> PROVE FALSE
          OBVIOUS
        <5>2. role = "dining"
          BY <1>1, <5>1 DEF CallsAbout
        <5>3. x.place = w.place /\ PlacesOnce(enriched.dining)
          BY <1>1, <1>7, <2>0, <5>1 DEF FoundTyped
        <5>4. j = at
          BY <1>3, <1>7, <3>2, <3>3, <5>2, <5>3 DEF PlacesOnce
        <5> QED
          BY <3>6, <5>1, <5>2, <5>4
      <4>3. HeardOf(w, tool)'
        BY <1>0, <1>1, <3>4, <4>2, HeardStays
      <4>4. HeardOf(z, tool)'
        BY <3>3, <4>1, <4>3 DEF HeardOf
      <4> QED
        BY <3>1, <4>4 DEF HeardOf
    <3> QED
      BY <3>5, <3>6
  <2> QED
    BY <2>1 DEF Heard
<1> QED
  BY <1>8, <1>9, <1>10, <1>12, <1>13, <1>14, <1>15, <1>16 DEF Known

----------------------------------------------------------------------------
(* Routes *)

LEMMA RouteEntered ==
  ASSUME routes \in Seq(Route), NEW call \in CallsBetween, NEW number \in Nat,
         NEW status \in Status, NEW answer, Fits(call.tool, status, answer)
  PROVE  LET after == Entered(call, number, status, answer)
             n == Len(routes) + 1
         IN  /\ after \in Seq(Route) /\ n \in Nat
             /\ DOMAIN routes = 1 .. n - 1 /\ DOMAIN after = 1 .. n
             /\ \A i \in 1 .. n - 1 : after[i] = routes[i]
             /\ <<after[n].from, after[n].to>> = call.on
             /\ after[n].event = number
             /\ RouteIsUsable(after[n]) =>
                  status \in UsableStatus /\ answer \in Replies.check_route
<1> DEFINE good == status \in UsableStatus /\ answer # Malformed
           r == [ from |-> call.on[1], to |-> call.on[2], event |-> number,
                  status |-> IF status \in UsableStatus /\ answer = Malformed
                             THEN "failed" ELSE status,
                  length |-> IF good THEN answer ELSE "none" ]
<1>1. Entered(call, number, status, answer) = Append(routes, r)
  BY DEF Entered
<1>2. /\ call.tool = "check_route"
      /\ call.on[1] \in Place /\ call.on[2] \in Place
      /\ <<call.on[1], call.on[2]>> = call.on
  BY DEF CallsBetween
<1>3. good => answer \in Replies.check_route
  BY <1>2 DEF Fits
<1>4. r.length \in Replies.check_route \union {"none"}
  BY <1>3
<1>5. r.status \in Status /\ (RouteIsUsable(r) => good)
  BY DEF Status, RouteIsUsable, UsableStatus
<1>6. r \in Route
  <2> DEFINE lengths == Replies.check_route \union {"none"}
  <2> HIDE DEF lengths
  <2>1. Route = [ from : Place, to : Place, event : Nat, status : Status,
                  length : lengths ]
    BY DEF Route, lengths
  <2>2. r.length \in lengths
    BY <1>4 DEF lengths
  <2> QED
    BY <1>2, <1>5, <2>1, <2>2
<1>7. <<r.from, r.to>> = call.on /\ r.event = number
  BY <1>2
<1> HIDE DEF r
<1>8. /\ Append(routes, r) \in Seq(Route) /\ Len(routes) \in Nat
      /\ DOMAIN routes = 1 .. Len(routes)
      /\ DOMAIN Append(routes, r) = 1 .. Len(routes) + 1
      /\ \A i \in 1 .. Len(routes) : Append(routes, r)[i] = routes[i]
      /\ Append(routes, r)[Len(routes) + 1] = r
  BY <1>6
<1> QED
  BY <1>1, <1>3, <1>5, <1>7, <1>8

\* What a call between two places does, whether it is made or skipped.
LEMMA RouteStep ==
  ASSUME Known, phase = "enriching", todo # <<>>,
         Head(todo) \in CallsBetween,
         NEW number \in Nat, NEW status \in Status, NEW answer,
         Fits(Head(todo).tool, status, answer),
         routes' = Entered(Head(todo), number, status, answer),
         todo' = Tail(todo), phase' = phase, request' = request,
         collection' = collection, enriched' = enriched,
         RunTyped', RowsTyped',
         \A n \in Rows' : \/ n \in Rows /\ events'[n] = events[n]
                          \/ events'[n].tool = "check_route",
         \A x : BackedCandidate(x) => BackedCandidate(x)',
         \A r : BackedRoute(r) => BackedRoute(r)',
         status \in UsableStatus /\ answer \in Replies.check_route =>
           number \in Rows' /\ \A on : on = Head(todo).on =>
                                 Said("check_route", on, Replies.check_route)'
  PROVE  Known'
<1>0. PICK call : call = Head(todo)
  OBVIOUS
<1>1. PICK last : last = Len(routes) + 1
  OBVIOUS
<1>2. /\ todo \in Seq(Calls) /\ RunTyped /\ RowsTyped /\ FoundTyped
      /\ routes \in Seq(Route) /\ call \in CallsBetween
      /\ call.tool = "check_route"
  BY <1>0 DEF Known, ToAsk, FoundTyped, CallsBetween
<1>3. /\ routes' \in Seq(Route) /\ last \in Nat
      /\ DOMAIN routes = 1 .. last - 1 /\ DOMAIN routes' = 1 .. last
      /\ \A i \in 1 .. last - 1 : routes'[i] = routes[i]
      /\ <<routes'[last].from, routes'[last].to>> = call.on
      /\ routes'[last].event = number
      /\ RouteIsUsable(routes'[last]) =>
           status \in UsableStatus /\ answer \in Replies.check_route
  <2>1. Fits(call.tool, status, answer)
    BY <1>0
  <2>2. routes' = Entered(call, number, status, answer)
    BY <1>0
  <2> QED
    BY <1>1, <1>2, <2>1, <2>2, RouteEntered
<1>4. \A i \in DOMAIN routes' : i = last \/ (i \in DOMAIN routes
                                             /\ routes'[i] = routes[i])
  BY <1>3
<1>5. /\ todo' \in Seq(Calls)
      /\ \A i \in DOMAIN todo' : i + 1 \in DOMAIN todo /\ i + 1 # 1
                                 /\ todo'[i] = todo[i + 1]
      /\ MadeOnce(todo) =>
           /\ MadeOnce(todo')
           /\ \A i \in DOMAIN todo' :
                todo'[i].tool \in OnceTools /\ todo'[i].tool = call.tool =>
                  todo'[i].on # call.on
      /\ 1 \in DOMAIN todo /\ call = todo[1]
  BY <1>0, <1>2, CallsAfterHead
<1>6. FoundTyped'
  BY <1>2, <1>3 DEF FoundTyped, OfRole
<1>7. ToAsk'
  BY <1>5 DEF Known, ToAsk, Asked
<1>8. AskedOnce /\ MadeOnce(todo)
  BY DEF Known, AskedOnce
<1>9. AskedOnce'
  <2>1. ASSUME NEW i \in DOMAIN todo', todo'[i].tool \in DiningTools,
               NEW n \in Rows', events'[n].tool = todo'[i].tool
        PROVE  events'[n].on # todo'[i].on
    <3>1. events'[n].tool # "check_route"
      BY <2>1 DEF DiningTools
    <3>2. n \in Rows /\ events'[n] = events[n]
      BY <3>1
    <3> QED
      BY <1>5, <1>8, <2>1, <3>2 DEF AskedOnce
  <2>2. ASSUME NEW i \in DOMAIN todo', todo'[i].tool = "check_route",
               NEW r \in DOMAIN routes'
        PROVE  <<routes'[r].from, routes'[r].to>> # todo'[i].on
    <3>1. CASE r = last
      BY <1>2, <1>3, <1>5, <1>8, <2>2, <3>1 DEF OnceTools
    <3>2. CASE r \in DOMAIN routes /\ routes'[r] = routes[r]
      BY <1>5, <1>8, <2>2, <3>2 DEF AskedOnce
    <3> QED
      BY <1>4, <3>1, <3>2
  <2> QED
    BY <1>5, <1>8, <2>1, <2>2 DEF AskedOnce
<1>10. RoutesOnce'
  <2>1. \A i \in DOMAIN routes :
          <<routes[i].from, routes[i].to>> # call.on
    BY <1>2, <1>5, <1>8 DEF AskedOnce
  <2>2. \A i \in DOMAIN routes :
          ~ (routes[i].from = routes'[last].from
             /\ routes[i].to = routes'[last].to)
    BY <1>3, <2>1
  <2>3. \A i, j \in DOMAIN routes :
          routes[i].from = routes[j].from /\ routes[i].to = routes[j].to => i = j
    BY DEF Known, RoutesOnce, Finding
  <2>4. ASSUME NEW i \in DOMAIN routes', NEW j \in DOMAIN routes',
               routes'[i].from = routes'[j].from, routes'[i].to = routes'[j].to
        PROVE  i = j
    BY <1>4, <2>2, <2>3, <2>4
  <2> QED
    BY <2>4 DEF RoutesOnce
<1>11. Backed'
  <2>1. ASSUME NEW s \in Role, NEW j \in DOMAIN enriched'[s]
        PROVE  BackedCandidate(enriched[s][j])'
    <3>1. PICK z : z = enriched[s][j] /\ z = enriched'[s][j]
      OBVIOUS
    <3>2. BackedCandidate(z)
      BY <3>1 DEF Known, Backed, Finding
    <3>3. BackedCandidate(z)'
      BY <3>2
    <3> QED
      BY <3>1, <3>3 DEF BackedCandidate, Said
  <2>2. ASSUME NEW r \in DOMAIN routes' PROVE BackedRoute(routes[r])'
    <3>1. PICK z : z = routes'[r]
      OBVIOUS
    <3>2. BackedRoute(z)'
      <4>1. CASE r \in DOMAIN routes /\ routes'[r] = routes[r]
        <5>1. z = routes[r] /\ BackedRoute(routes[r])
          BY <3>1, <4>1 DEF Known, Backed, Finding
        <5>2. BackedRoute(z)
          BY <5>1
        <5> QED
          BY <5>2
      <4>2. CASE r = last
        <5>1. PICK on : on = call.on
          OBVIOUS
        <5>2. RouteIsUsable(z) =>
                /\ number \in Rows'
                /\ Said("check_route", on, Replies.check_route)'
          BY <1>0, <1>3, <3>1, <4>2, <5>1
        <5>3. on = <<z.from, z.to>> /\ z.event = number
          BY <1>3, <3>1, <4>2, <5>1
        <5>4. RouteIsUsable(z) =>
                /\ z.event \in Rows'
                /\ Said("check_route", <<z.from, z.to>>, Replies.check_route)'
          BY <5>2, <5>3
        <5> QED
          BY <5>4 DEF BackedRoute, RouteIsUsable
      <4> QED
        BY <1>4, <4>1, <4>2
    <3> QED
      BY <3>1, <3>2 DEF BackedRoute, Said, RouteIsUsable
  <2> QED
    BY <2>1, <2>2 DEF Backed
<1>12. Heard'
  <2>1. ASSUME NEW j \in DOMAIN enriched.dining, NEW tool \in DiningTools,
               NEW n \in Rows',
               events'[n].tool = tool, events'[n].on = <<enriched.dining[j].place>>,
               events'[n].status \in UsableStatus, events'[n].answer # Malformed
        PROVE  enriched.dining[j][Field[tool]] = events'[n].answer
    <3>1. n \in Rows /\ events'[n] = events[n]
      BY <2>1 DEF DiningTools
    <3>2. HeardOf(enriched.dining[j], tool)
      BY DEF Known, Heard, Finding
    <3> QED
      BY <2>1, <3>1, <3>2 DEF HeardOf
  <2> QED
    BY <2>1 DEF Heard, HeardOf
<1> QED
  BY <1>6, <1>7, <1>9, <1>10, <1>11, <1>12 DEF Known

LEMMA RouteRecorded ==
  ASSUME IsSequence(events), Known, phase = "enriching", todo # <<>>,
         NEW status \in Status, NEW answer, NEW hit, NEW injected,
         Record(status, answer, hit, injected),
         Fits(Head(todo).tool, status, answer), surprises' \in 0 .. Surprises,
         Head(todo) \in CallsBetween
  PROVE  Known'
<1> DEFINE new == Len(events) + 1
<1>0. PICK call : call = Head(todo)
  OBVIOUS
<1>1. /\ todo' = Tail(todo) /\ phase' = phase
      /\ request' = request /\ injector' = injector /\ level' = level
      /\ since' = since /\ drafts' = drafts
      /\ Take(call, new, status, answer)
      /\ RunTyped /\ RowsTyped /\ since \in 0 .. Len(events)
      /\ call.tool = "check_route"
  BY <1>0 DEF Known, Record, plan, RunTyped, NextSequence, CallsBetween
<1>2. /\ Len(events) \in Nat /\ Len(events') = new /\ new \in Nat
      /\ \A n \in Rows : events'[n] = events[n]
      /\ events'[new].tool = call.tool
      /\ Rows' = Rows \union {new}
  BY <1>0, <1>1, RecordedRow
<1>3. /\ routes' = Entered(call, new, status, answer)
      /\ collection' = collection /\ enriched' = enriched
  BY <1>1 DEF Take
<1>4. RunTyped'
  BY <1>1, <1>2 DEF RunTyped
<1>5. RowsTyped'
  BY <1>1, RowsStayTyped
<1>6. \A n \in Rows' : \/ n \in Rows /\ events'[n] = events[n]
                       \/ events'[n].tool = "check_route"
  BY <1>1, <1>2
<1>7. /\ \A x : BackedCandidate(x) => BackedCandidate(x)'
      /\ \A r : BackedRoute(r) => BackedRoute(r)'
  BY <1>1, BackedStays
<1>8. ASSUME status \in UsableStatus, answer \in Replies.check_route,
             NEW on, on = call.on
      PROVE  Said("check_route", on, Replies.check_route)'
  <2>1. PICK answers : answers = Replies.check_route
    OBVIOUS
  <2>2. Said("check_route", on, answers)'
    BY <1>0, <1>1, <1>8, <2>1, SaidNow
  <2> QED
    BY <2>1, <2>2
<1> HIDE DEF new
<1> QED
  BY <1>0, <1>1, <1>2, <1>3, <1>4, <1>5, <1>6, <1>7, <1>8, RouteStep

LEMMA RouteSkipped ==
  ASSUME IsSequence(events), Known, SkipCall
  PROVE  Known'
<1>0. PICK call : call = Head(todo)
  OBVIOUS
<1>1. /\ todo # <<>> /\ phase \in {"searching", "enriching"}
      /\ call.tool = "check_route"
      /\ todo' = Tail(todo) /\ phase' = phase /\ request' = request
      /\ collection' = collection /\ enriched' = enriched
      /\ routes' = Entered(Head(todo), 0, "failed", NoAnswer)
      /\ UNCHANGED <<injector, level, since, drafts, surprises, events>>
  BY <1>0 DEF SkipCall, Calling, InputMissing, plan
<1>2. todo \in Seq(Calls) /\ 1 \in DOMAIN todo /\ call = todo[1]
  BY <1>0, <1>1, CallsAfterHead DEF Known, ToAsk
<1>3. phase = "enriching" /\ Asked(call)
  <2>1. phase # "searching"
    BY <1>1, <1>2 DEF Known, ToAsk, Searched, SearchTools
  <2> QED
    BY <1>1, <1>2, <2>1 DEF Known, ToAsk
<1>4. call \in CallsBetween
  BY <1>1, <1>3, FieldToolsAre DEF Asked, CallsAbout
<1>5. RunTyped' /\ RowsTyped' /\ Rows' = Rows
  BY <1>1 DEF Known, RunTyped, RowsTyped, Rows
<1>6. /\ \A x : BackedCandidate(x) => BackedCandidate(x)'
      /\ \A r : BackedRoute(r) => BackedRoute(r)'
  BY <1>1, <1>5 DEF BackedCandidate, BackedRoute, Said, RouteIsUsable
<1>7. "failed" \in Status /\ "failed" \notin UsableStatus /\ 0 \in Nat
  BY DEF Status, UsableStatus
<1>8. Fits(Head(todo).tool, "failed", NoAnswer)
  BY <1>7 DEF Fits
<1> QED
  BY <1>0, <1>1, <1>3, <1>4, <1>5, <1>6, <1>7, <1>8, RouteStep

----------------------------------------------------------------------------
(* The pairs of the evidence, and their order *)

LEMMA PositionIsLast ==
  ASSUME NEW n \in Nat, NEW S \in SUBSET (1 .. n)
  PROVE  /\ Position(S) \in 0 .. n
         /\ Position(S) > 0 => Position(S) \in S
         /\ S # {} => Position(S) \in S /\ \A j \in S : j <= Position(S)
<1>1. CASE S = {}
  BY <1>1 DEF Position
<1>2. CASE S # {}
  <2> DEFINE T == {n - i : i \in S}
  <2>1. T \in SUBSET Nat /\ T # {}
    BY <1>2
  <2>2. PICK m \in T : \A k \in T : m <= k
    BY <2>1, SmallestOf
  <2>3. PICK i \in S : m = n - i
    OBVIOUS
  <2>4. ASSUME NEW j \in S PROVE j <= i
    <3>1. n - j \in T /\ j \in 1 .. n /\ i \in 1 .. n
      OBVIOUS
    <3>2. n - i <= n - j
      BY <2>2, <2>3, <3>1
    <3> QED
      BY <3>1, <3>2
  <2>5. Position(S) \in S /\ \A j \in S : j <= Position(S)
    BY <1>2, <2>4 DEF Position
  <2>6. Position(S) \in 1 .. n
    BY <2>5
  <2> QED
    BY <2>5, <2>6
<1> QED
  BY <1>1, <1>2

LEMMA FirstOf ==
  ASSUME NEW S \in SUBSET Nat, S # {}
  PROVE  /\ (CHOOSE i \in S : \A j \in S : i <= j) \in S
         /\ \A j \in S : (CHOOSE i \in S : \A k \in S : i <= k) <= j
<1>1. \E i \in S : \A j \in S : i <= j
  BY SmallestOf
<1> QED
  BY <1>1

IsEvidence(e) ==
  /\ e.activity \in Seq(Candidate) /\ e.dining \in Seq(Candidate)
  /\ e.addon \in Seq(Candidate) /\ e.routes \in Seq(Route)
  /\ PlacesOnce(e.activity) /\ PlacesOnce(e.dining) /\ PlacesOnce(e.addon)
  /\ \A i, j \in DOMAIN e.routes :
       e.routes[i].from = e.routes[j].from /\ e.routes[i].to = e.routes[j].to
         => i = j

\* Pair p joins the candidates at the two ends of its route.
Joins(e, p) ==
  /\ p.route \in DOMAIN e.routes /\ RouteIsUsable(e.routes[p.route])
  /\ p.activity \in DOMAIN e.activity /\ p.dining \in DOMAIN e.dining
  /\ e.activity[p.activity].place = e.routes[p.route].from
  /\ e.dining[p.dining].place = e.routes[p.route].to
  /\ ActivityIsUsable(e.activity[p.activity])
  /\ DiningIsUsable(e.dining[p.dining])

IsPair(p) ==
  p = [activity |-> p.activity, dining |-> p.dining, route |-> p.route]

LEMMA PairsJoin ==
  ASSUME NEW e, IsEvidence(e)
  PROVE  /\ IsFiniteSet(Pairs(e))
         /\ \A p \in Pairs(e) : Joins(e, p) /\ IsPair(p)
         /\ \A p, q \in Pairs(e) :
              p.activity = q.activity /\ p.dining = q.dining => p = q
         /\ \A p : IsPair(p) /\ Joins(e, p) => p \in Pairs(e)
<1> DEFINE usable == {r \in DOMAIN e.routes : RouteIsUsable(e.routes[r])}
           starts(r) == {i \in DOMAIN e.activity :
                           /\ e.activity[i].place = e.routes[r].from
                           /\ ActivityIsUsable(e.activity[i])}
           ends(r) == {i \in DOMAIN e.dining :
                         /\ e.dining[i].place = e.routes[r].to
                         /\ DiningIsUsable(e.dining[i])}
           all == {PairOf(e, r) : r \in usable}
           f == [r \in usable |-> PairOf(e, r)]
<1>1. /\ e.activity \in Seq(Candidate) /\ e.dining \in Seq(Candidate)
      /\ e.routes \in Seq(Route)
      /\ DOMAIN e.activity = 1 .. Len(e.activity) /\ Len(e.activity) \in Nat
      /\ DOMAIN e.dining = 1 .. Len(e.dining) /\ Len(e.dining) \in Nat
      /\ DOMAIN e.routes = 1 .. Len(e.routes) /\ Len(e.routes) \in Nat
  BY DEF IsEvidence
<1>2. IsFiniteSet(all)
  <2>1. IsFiniteSet(usable)
    BY <1>1, SubsetOfInterval
  <2>2. f \in Surjection(usable, all)
    <3> HIDE DEF usable
    <3> QED
      BY DEF Surjection
  <2> HIDE DEF f, all, usable
  <2> QED
    BY <2>1, <2>2, FS_Surjection
<1>3. Pairs(e) = {p \in all : p.activity > 0 /\ p.dining > 0}
  BY DEF Pairs
<1>4. IsFiniteSet(Pairs(e))
  <2> HIDE DEF all
  <2> QED
    BY <1>2, <1>3, FS_Subset
<1>5. ASSUME NEW r \in usable
      PROVE  /\ PairOf(e, r) = [ activity |-> Position(starts(r)),
                                 dining |-> Position(ends(r)), route |-> r ]
             /\ IsPair(PairOf(e, r))
             /\ PairOf(e, r).activity > 0 => PairOf(e, r).activity \in starts(r)
             /\ PairOf(e, r).dining > 0 => PairOf(e, r).dining \in ends(r)
             /\ \A i \in starts(r) : PairOf(e, r).activity \in starts(r)
             /\ \A i \in ends(r) : PairOf(e, r).dining \in ends(r)
             /\ PairOf(e, r).route = r
  <2>1. PairOf(e, r) = [ activity |-> Position(starts(r)),
                         dining |-> Position(ends(r)), route |-> r ]
    BY DEF PairOf
  <2>2. /\ starts(r) \in SUBSET (1 .. Len(e.activity))
        /\ ends(r) \in SUBSET (1 .. Len(e.dining))
    BY <1>1
  <2> HIDE DEF starts, ends
  <2>3. /\ Position(starts(r)) > 0 => Position(starts(r)) \in starts(r)
        /\ starts(r) # {} => Position(starts(r)) \in starts(r)
    BY <1>1, <2>2, PositionIsLast
  <2>4. /\ Position(ends(r)) > 0 => Position(ends(r)) \in ends(r)
        /\ ends(r) # {} => Position(ends(r)) \in ends(r)
    BY <1>1, <2>2, PositionIsLast
  <2> QED
    BY <2>1, <2>3, <2>4 DEF IsPair
<1>6. ASSUME NEW p \in Pairs(e)
      PROVE  Joins(e, p) /\ IsPair(p)
  <2>1. PICK r \in usable : p = PairOf(e, r)
    BY <1>3
  <2>2. p.activity \in starts(r) /\ p.dining \in ends(r) /\ p.route = r
        /\ IsPair(p)
    <3> HIDE DEF starts, ends, usable, all
    <3> QED
      BY <1>3, <1>5, <2>1
  <2> QED
    BY <2>2 DEF Joins
<1>7. ASSUME NEW p \in Pairs(e), NEW q \in Pairs(e),
             p.activity = q.activity, p.dining = q.dining
      PROVE  p = q
  <2>1. Joins(e, p) /\ IsPair(p) /\ Joins(e, q) /\ IsPair(q)
    BY <1>6
  <2>2. p.route = q.route
    BY <1>7, <2>1 DEF Joins, IsEvidence
  <2> QED
    BY <1>7, <2>1, <2>2 DEF IsPair
<1>8. ASSUME NEW p, IsPair(p), Joins(e, p)
      PROVE  p \in Pairs(e)
  <2> DEFINE r == p.route
             q == PairOf(e, r)
  <2>1. r \in usable /\ p.activity \in starts(r) /\ p.dining \in ends(r)
    BY <1>8 DEF Joins
  <2>2. q.activity \in starts(r) /\ q.dining \in ends(r) /\ q.route = r
        /\ IsPair(q) /\ q \in all
    <3> HIDE DEF starts, ends, usable, r
    <3> QED
      BY <1>5, <2>1
  <2>3. q.activity = p.activity /\ q.dining = p.dining
    BY <1>8, <2>2 DEF Joins, IsEvidence, PlacesOnce
  <2>4. q = p
    BY <1>8, <2>2, <2>3 DEF IsPair
  <2>5. q.activity > 0 /\ q.dining > 0
    BY <1>1, <2>2
  <2> QED
    BY <1>3, <2>2, <2>4, <2>5
<1> QED
  BY <1>4, <1>6, <1>7, <1>8

\* Keys of seven numbers, compared at the first difference.
Key == [1 .. 7 -> Int]

LEMMA KeysInOrder ==
  /\ \A s \in Key : ~ Precedes(s, s)
  /\ \A s, t \in Key : s # t => Precedes(s, t) \/ Precedes(t, s)
  /\ \A s, t, u \in Key : Precedes(s, t) /\ Precedes(t, u) => Precedes(s, u)
<1>1. ASSUME NEW s \in Key PROVE ~ Precedes(s, s)
  BY DEF Precedes, Key
<1>2. ASSUME NEW s \in Key, NEW t \in Key, s # t
      PROVE  Precedes(s, t) \/ Precedes(t, s)
  <2> DEFINE D == {i \in 1 .. 7 : s[i] # t[i]}
  <2>1. D \in SUBSET Nat /\ D # {}
    BY <1>2 DEF Key
  <2>2. PICK m \in D : \A k \in D : m <= k
    BY <2>1, SmallestOf
  <2>3. \A j \in 1 .. m - 1 : s[j] = t[j]
    BY <2>2
  <2>4. s[m] < t[m] \/ t[m] < s[m]
    BY <2>2 DEF Key
  <2> QED
    BY <2>2, <2>3, <2>4 DEF Precedes, Key
<1>3. ASSUME NEW s \in Key, NEW t \in Key, NEW u \in Key,
             Precedes(s, t), Precedes(t, u)
      PROVE  Precedes(s, u)
  <2>1. PICK i \in 1 .. 7 : s[i] < t[i] /\ \A j \in 1 .. i - 1 : s[j] = t[j]
    BY <1>3 DEF Precedes, Key
  <2>2. PICK k \in 1 .. 7 : t[k] < u[k] /\ \A j \in 1 .. k - 1 : t[j] = u[j]
    BY <1>3 DEF Precedes, Key
  <2>3. /\ \A j \in 1 .. 7 : s[j] \in Int /\ t[j] \in Int /\ u[j] \in Int
        /\ DOMAIN s = 1 .. 7
    BY DEF Key
  <2>4. CASE i <= k
    <3>1. s[i] < u[i] /\ \A j \in 1 .. i - 1 : s[j] = u[j]
      BY <2>1, <2>2, <2>3, <2>4
    <3> QED
      BY <2>3, <3>1 DEF Precedes
  <2>5. CASE k < i
    <3>1. s[k] < u[k] /\ \A j \in 1 .. k - 1 : s[j] = u[j]
      BY <2>1, <2>2, <2>3, <2>5
    <3> QED
      BY <2>3, <3>1 DEF Precedes
  <2> QED
    BY <2>4, <2>5
<1> QED
  BY <1>1, <1>2, <1>3

LEMMA KeyOfPair ==
  ASSUME NEW e, IsEvidence(e), NEW p \in Pairs(e)
  PROVE  /\ SortKey(e, p) \in Key
         /\ SortKey(e, p)[6] = p.activity /\ SortKey(e, p)[7] = p.dining
<1>1. Joins(e, p)
  BY PairsJoin
<1>2. /\ p.activity \in Int /\ p.dining \in Int
      /\ TicketRank(e.activity[p.activity]) \in Int
      /\ DiningRank(e.dining[p.dining]) \in Int
  BY <1>1 DEF Joins, IsEvidence, TicketRank, DiningRank
<1>3. WaitMinutes(e.dining[p.dining]) \in Int
  BY DEF WaitMinutes, Waits, Unknown
<1>4. RouteMinutes(e.routes[p.route]) \in Int
  BY DEF RouteMinutes, Minutes, Unknown
<1>5. RouteMeters(e.routes[p.route]) \in Int
  BY DEF RouteMeters, Meters, Unknown
<1> QED
  BY <1>2, <1>3, <1>4, <1>5 DEF SortKey, Key

PairOrder(e) ==
  {pq \in Pairs(e) \X Pairs(e) :
     Precedes(SortKey(e, pq[1]), SortKey(e, pq[2]))}

LEMMA PairsInOrder ==
  ASSUME NEW e, IsEvidence(e)
  PROVE  IsListing(Pairs(e), PairOrder(e), OrderedPairs(e))
<1> DEFINE S == Pairs(e)
           R == PairOrder(e)
           s == OrderedPairs(e)
           before(x) == {y \in S : Precedes(SortKey(e, y), SortKey(e, x))}
<1>1. IsFiniteSet(S) /\ Cardinality(S) \in Nat
  BY PairsJoin, FS_CardinalityType
<1>2. /\ \A p \in S : SortKey(e, p) \in Key
      /\ \A p, q \in S : p # q => SortKey(e, p) # SortKey(e, q)
  <2>1. \A p, q \in S : p.activity = q.activity /\ p.dining = q.dining => p = q
    BY PairsJoin
  <2>2. \A p \in S : SortKey(e, p) \in Key /\ SortKey(e, p)[6] = p.activity
                     /\ SortKey(e, p)[7] = p.dining
    BY KeyOfPair
  <2> HIDE DEF S
  <2> QED
    BY <2>1, <2>2
<1>3. \A p, q \in S :
        <<p, q>> \in R <=> Precedes(SortKey(e, p), SortKey(e, q))
  BY DEF PairOrder
<1>4. IsOrderOf(S, R)
  <2> HIDE DEF S, R
  <2>1. \A x \in S : <<x, x>> \notin R
    BY <1>2, <1>3, KeysInOrder
  <2>2. \A x, y \in S : x # y => <<x, y>> \in R \/ <<y, x>> \in R
    BY <1>2, <1>3, KeysInOrder
  <2>3. \A x, y, z \in S : <<x, y>> \in R /\ <<y, z>> \in R => <<x, z>> \in R
    BY <1>2, <1>3, KeysInOrder
  <2> QED
    BY <2>1, <2>2, <2>3 DEF IsOrderOf
<1>5. s = [i \in 1 .. Cardinality(S) |->
             CHOOSE x \in S : Cardinality(before(x)) = i - 1]
  BY DEF OrderedPairs, InOrder
<1>6. \A x \in S : Earlier(S, R, x) = before(x)
  <2> HIDE DEF S, R
  <2> QED
    BY <1>3 DEF Earlier
<1> HIDE DEF S, R, s, before
<1>7. \A i \in 1 .. Cardinality(S) : \E x \in S : Cardinality(before(x)) = i - 1
  <2> SUFFICES ASSUME NEW i \in 1 .. Cardinality(S)
               PROVE  \E x \in S : Cardinality(before(x)) = i - 1
    OBVIOUS
  <2>1. PICK x \in S : Cardinality(Earlier(S, R, x)) = i - 1
    BY <1>1, <1>4, EveryRank
  <2> QED
    BY <1>6, <2>1
<1>8. \A i \in 1 .. Cardinality(S) :
        s[i] \in S /\ Cardinality(before(s[i])) = i - 1
  BY <1>5, <1>7
<1>9. RanksFit(S, R, s)
  BY <1>5, <1>6, <1>8 DEF RanksFit
<1>10. IsListing(S, R, s)
  BY <1>1, <1>4, <1>9, OrderedList
<1> QED
  BY <1>10 DEF S, R, s

\* The drafts are made of the first pairs, all of them when they are few.
LEMMA DraftsOfPairs ==
  ASSUME NEW e, IsEvidence(e), NEW q
  PROVE  LET made == Drafts(q, e, MaxDrafts)
             pairs == OrderedPairs(e)
         IN  /\ Len(made) \in Nat /\ Len(made) <= MaxDrafts
             /\ DOMAIN made = 1 .. Len(made)
             /\ DOMAIN pairs = 1 .. Cardinality(Pairs(e))
             /\ \A i \in DOMAIN made :
                  /\ i \in DOMAIN pairs /\ pairs[i] \in Pairs(e)
                  /\ made[i] = Draft(q, e, pairs[i])
             /\ \A p \in Pairs(e) : \/ Len(made) = MaxDrafts
                                    \/ \E i \in DOMAIN made : pairs[i] = p
             /\ \A i, j \in DOMAIN made : pairs[i] = pairs[j] => i = j
<1> DEFINE made == Drafts(q, e, MaxDrafts)
           pairs == OrderedPairs(e)
           c == Cardinality(Pairs(e))
           n == Least(c, MaxDrafts)
<1>1. /\ c \in Nat /\ pairs \in [1 .. c -> Pairs(e)]
      /\ \A p \in Pairs(e) : \E i \in 1 .. c : pairs[i] = p
      /\ \A i, j \in 1 .. c : pairs[i] = pairs[j] => i = j
  BY PairsInOrder DEF IsListing
<1>2. n \in Nat /\ n <= c /\ n <= MaxDrafts /\ (n = c \/ n = MaxDrafts)
  BY <1>1, BoundAssumption DEF Least
<1>3. CASE FailedReason(e) # "none"
  <2>1. made = <<>>
    BY <1>3 DEF Drafts
  <2>2. Pairs(e) = {}
    <3>1. CASE e.activity = <<>> \/ e.dining = <<>>
      <4>1. \A p \in Pairs(e) : Joins(e, p)
        BY PairsJoin
      <4> QED
        BY <3>1, <4>1 DEF Joins
    <3>2. CASE ~ (e.activity = <<>> \/ e.dining = <<>>)
      BY <1>3, <3>2 DEF FailedReason
    <3> QED
      BY <3>1, <3>2
  <2> HIDE DEF made, pairs, c, n
  <2> QED
    BY <1>1, <2>1, <2>2, BoundAssumption DEF made, pairs, c
<1>4. CASE FailedReason(e) = "none"
  <2>1. Len(pairs) = c
    <3> HIDE DEF pairs, c
    <3> QED
      BY <1>1
  <2>2. made = [i \in 1 .. n |-> Draft(q, e, pairs[i])]
    BY <1>4, <2>1 DEF Drafts
  <2> HIDE DEF made, pairs, c, n
  <2>3. Len(made) = n /\ DOMAIN made = 1 .. n
    BY <1>2, <2>2
  <2>4. \A i \in 1 .. n : i \in 1 .. c
    BY <1>1, <1>2
  <2>5. DOMAIN pairs = 1 .. c
    BY <1>1
  <2> QED
    BY <1>1, <1>2, <2>2, <2>3, <2>4, <2>5 DEF made, pairs, c
<1> QED
  BY <1>3, <1>4

----------------------------------------------------------------------------
(* The nodes *)

LEMMA EvidenceIsTyped ==
  ASSUME FoundTyped, RoutesOnce, phase \in Finding
  PROVE  IsEvidence(Evidence)
<1>1. {"activity", "dining", "addon"} = Role
  BY DEF Role
<1> QED
  BY <1>1 DEF FoundTyped, RoutesOnce, IsEvidence, Evidence

LEMMA FreshCandidates ==
  ASSUME NEW list \in Seq(Listed)
  PROVE  /\ Fresh(list) \in Seq(Candidate)
         /\ DOMAIN Fresh(list) = DOMAIN list
         /\ \A i \in DOMAIN list :
              /\ Fresh(list)[i].place = list[i].place
              /\ Fresh(list)[i].events = {}
              /\ \A tool \in FieldTools : Fresh(list)[i][Field[tool]] = "none"
<1>1. DOMAIN list = 1 .. Len(list) /\ Len(list) \in Nat
  OBVIOUS
<1>2. ASSUME NEW i \in DOMAIN list
      PROVE  /\ Fresh(list)[i] \in Candidate
             /\ Fresh(list)[i].place = list[i].place
             /\ Fresh(list)[i].events = {}
             /\ \A tool \in FieldTools : Fresh(list)[i][Field[tool]] = "none"
  <2> DEFINE x == [ place |-> list[i].place, category |-> list[i].category,
                    detail |-> "none", hours |-> "none", queue |-> "none",
                    table |-> "none", ticket |-> "none", events |-> {} ]
  <2>1. Fresh(list)[i] = x
    BY DEF Fresh
  <2>2. list[i].place \in Place /\ list[i].category \in AnyCategory
    <3>1. list[i] \in Listed
      OBVIOUS
    <3> QED
      BY <3>1 DEF Listed
  <2>3. x \in Candidate
    BY <2>2 DEF Candidate
  <2>4. \A tool \in FieldTools : x[Field[tool]] = "none"
    BY FieldToolsAre DEF Field
  <2>5. x.place = list[i].place /\ x.events = {}
    OBVIOUS
  <2> HIDE DEF x
  <2> QED
    BY <2>1, <2>3, <2>4, <2>5
<1>3. Fresh(list) \in Seq(Candidate) /\ DOMAIN Fresh(list) = DOMAIN list
  BY <1>1, <1>2 DEF Fresh
<1> QED
  BY <1>2, <1>3

LEMMA ChosenOfRole ==
  ASSUME NEW role \in Role, NEW list \in Seq(Listed), OfRole(list, role),
         NEW n \in Nat
  PROVE  OfRole(Chosen(list, n), role)
<1>1. /\ Chosen(list, n) \in Seq(Listed)
      /\ \A i \in DOMAIN Chosen(list, n) :
           \E p \in DOMAIN list : Chosen(list, n)[i] = list[p]
  BY ChosenAreFirst
<1>2. ASSUME list = <<>> PROVE Chosen(list, n) = <<>>
  <2>1. PICK s : s = Chosen(list, n)
    OBVIOUS
  <2>2. s \in Seq(Listed) /\ DOMAIN s = {}
    BY <1>1, <1>2, <2>1
  <2> QED
    BY <2>1, <2>2
<1> QED
  BY <1>1, <1>2 DEF OfRole

AllCalls(a, d, o) ==
  EnrichmentCalls(request, "activity", a)
  \o EnrichmentCalls(request, "dining", d)
  \o EnrichmentCalls(request, "addon", o)
  \o RouteCalls(a, d) \o RouteCalls(d, o)

\* No call is made twice whose answer is looked up.
LEMMA CallsOfEnrichment ==
  ASSUME request \in Requests,
         NEW a \in Seq(Listed), NEW d \in Seq(Listed), NEW o \in Seq(Listed),
         PlacesOnce(a), PlacesOnce(d), PlacesOnce(o),
         OfRole(a, "activity"), OfRole(d, "dining"), OfRole(o, "addon"),
         NEW calls, calls = AllCalls(a, d, o)
  PROVE  /\ calls \in Seq(Calls) /\ MadeOnce(calls)
         /\ \A i \in DOMAIN calls :
              \/ calls[i] \in CallsAbout("activity", a)
              \/ calls[i] \in CallsAbout("dining", d)
              \/ calls[i] \in CallsAbout("addon", o)
              \/ calls[i] \in CallsBetween
<1> DEFINE all == CallsAbout("activity", a) \union CallsAbout("dining", d)
                  \union CallsAbout("addon", o) \union CallsBetween
<1>1. PICK ea : ea = EnrichmentCalls(request, "activity", a)
  OBVIOUS
<1>2. PICK ed : ed = EnrichmentCalls(request, "dining", d)
  OBVIOUS
<1>3. PICK eo : eo = EnrichmentCalls(request, "addon", o)
  OBVIOUS
<1>4. PICK ad : ad = RouteCalls(a, d)
  OBVIOUS
<1>5. PICK do : do = RouteCalls(d, o)
  OBVIOUS
<1>6. /\ \A i \in DOMAIN a : a[i].place \in Place
      /\ \A i \in DOMAIN d : d[i].place \in Place
      /\ \A i \in DOMAIN o : o[i].place \in Place
  <2>1. /\ \A i \in DOMAIN a : a[i] \in Listed
        /\ \A i \in DOMAIN d : d[i] \in Listed
        /\ \A i \in DOMAIN o : o[i] \in Listed
    OBVIOUS
  <2> QED
    BY <2>1 DEF Listed
<1>7. /\ ea \in Seq(CallsAbout("activity", a)) /\ MadeOnce(ea)
      /\ ed \in Seq(CallsAbout("dining", d)) /\ MadeOnce(ed)
      /\ eo \in Seq(CallsAbout("addon", o)) /\ MadeOnce(eo)
  <2>1. "activity" \in Role /\ "dining" \in Role /\ "addon" \in Role
    BY DEF Role
  <2>2. ea \in Seq(CallsAbout("activity", a)) /\ MadeOnce(ea)
    BY <1>1, <1>6, <2>1, CallsAboutCandidates
  <2>3. ed \in Seq(CallsAbout("dining", d)) /\ MadeOnce(ed)
    BY <1>2, <1>6, <2>1, CallsAboutCandidates
  <2>4. eo \in Seq(CallsAbout("addon", o)) /\ MadeOnce(eo)
    BY <1>3, <1>6, <2>1, CallsAboutCandidates
  <2> QED
    BY <2>2, <2>3, <2>4
<1>8. /\ ad \in Seq(CallsBetween) /\ MadeOnce(ad)
      /\ \A k \in DOMAIN ad : \E i \in DOMAIN a, j \in DOMAIN d :
           ad[k].on = <<a[i].place, d[j].place>>
  BY <1>4, <1>6, CallsBetweenPlaces
<1>9. /\ do \in Seq(CallsBetween) /\ MadeOnce(do)
      /\ \A k \in DOMAIN do : \E i \in DOMAIN d, j \in DOMAIN o :
           do[k].on = <<d[i].place, o[j].place>>
  BY <1>5, <1>6, CallsBetweenPlaces
<1>10. /\ ea \in Seq(all) /\ ed \in Seq(all) /\ eo \in Seq(all)
       /\ ad \in Seq(all) /\ do \in Seq(all)
       /\ all \subseteq Calls
  <2>1. all \subseteq Calls
    BY DEF CallsAbout, CallsBetween
  <2> QED
    BY <1>7, <1>8, <1>9, <2>1
<1>11. /\ ea \in Seq(Calls) /\ ed \in Seq(Calls) /\ eo \in Seq(Calls)
       /\ ad \in Seq(Calls) /\ do \in Seq(Calls)
  <2> HIDE DEF all
  <2> QED
    BY <1>10
<1>12. /\ \A i \in DOMAIN ea : ea[i].tool \notin OnceTools
       /\ \A i \in DOMAIN ed : ed[i].tool # "check_route"
       /\ \A i \in DOMAIN eo : eo[i].tool \notin OnceTools
       /\ \A i \in DOMAIN ad : ad[i].tool = "check_route"
       /\ \A i \in DOMAIN do : do[i].tool = "check_route"
  <2>1. "check_route" \notin FieldTools
    BY FieldToolsAre
  <2>2. \A i \in DOMAIN ea : ea[i] \in CallsAbout("activity", a)
    BY <1>7
  <2>3. \A i \in DOMAIN ed : ed[i] \in CallsAbout("dining", d)
    BY <1>7
  <2>4. \A i \in DOMAIN eo : eo[i] \in CallsAbout("addon", o)
    BY <1>7
  <2>5. (\A i \in DOMAIN ad : ad[i] \in CallsBetween)
        /\ \A i \in DOMAIN do : do[i] \in CallsBetween
    BY <1>8, <1>9
  <2> QED
    BY <2>1, <2>2, <2>3, <2>4, <2>5
       DEF CallsAbout, CallsBetween, OnceTools
<1> DEFINE others == {c \in all : c.tool # "check_route"}
           joint  == others \union {ad[j] : j \in DOMAIN ad}
<1>13. PICK s1 : s1 = ea \o ed
  OBVIOUS
<1>14. PICK s2 : s2 = s1 \o eo
  OBVIOUS
<1>15. PICK s3 : s3 = s2 \o ad
  OBVIOUS
<1> HIDE DEF all
<1>16. ea \in Seq(others) /\ ed \in Seq(others) /\ eo \in Seq(others)
  <2>1. "check_route" \in OnceTools
    BY DEF OnceTools
  <2>2. ea \in Seq(others)
    <3>1. \A i \in DOMAIN ea : ea[i] \in others
      BY <1>10, <1>12, <2>1
    <3> HIDE DEF others
    <3> QED
      BY <1>10, <3>1
  <2>3. ed \in Seq(others)
    BY <1>10, <1>12
  <2>4. eo \in Seq(others)
    BY <1>10, <1>12, <2>1
  <2> QED
    BY <2>2, <2>3, <2>4
<1>17. s2 \in Seq(others) /\ s2 \in Seq(Calls) /\ MadeOnce(s2)
  <2>1. s1 \in Seq(others) /\ s2 \in Seq(others)
    <3> HIDE DEF others
    <3> QED
      BY <1>13, <1>14, <1>16
  <2>2. s1 \in Seq(Calls) /\ MadeOnce(s1)
    BY <1>7, <1>11, <1>12, <1>13, OneAfterTheOther
  <2>3. s2 \in Seq(Calls) /\ MadeOnce(s2)
    BY <1>7, <1>11, <1>12, <1>14, <2>2, OneAfterTheOther
  <2> QED
    BY <2>1, <2>3
<1>18. /\ s3 \in Seq(Calls) /\ MadeOnce(s3) /\ s3 \in Seq(all)
       /\ \A i \in DOMAIN s3 : s3[i].tool = "check_route" =>
            \E j \in DOMAIN ad : s3[i] = ad[j]
  <2>1. \A i \in DOMAIN s2 : s2[i].tool # "check_route"
    BY <1>17
  <2>2. s3 \in Seq(Calls) /\ MadeOnce(s3)
    BY <1>8, <1>11, <1>12, <1>15, <1>17, <2>1, OneAfterTheOther
  <2>3. ad \in Seq(joint) /\ s2 \in Seq(joint)
    BY <1>10, <1>17
  <2>4. s3 \in Seq(joint)
    <3> HIDE DEF joint
    <3> QED
      BY <1>15, <2>3
  <2>5. \A i \in DOMAIN s3 : s3[i] \in joint
    <3> HIDE DEF joint
    <3> QED
      BY <2>4
  <2>6. joint \subseteq all
    BY <1>10
  <2>7. s3 \in Seq(all)
    <3> HIDE DEF joint
    <3> QED
      BY <2>4, <2>6
  <2> QED
    BY <2>2, <2>5, <2>7
<1>19. ASSUME NEW i \in DOMAIN ad, NEW j \in DOMAIN do PROVE ad[i].on # do[j].on
  <2>1. PICK p \in DOMAIN a, q \in DOMAIN d : ad[i].on = <<a[p].place, d[q].place>>
    BY <1>8
  <2>2. PICK r \in DOMAIN d, t \in DOMAIN o : do[j].on = <<d[r].place, o[t].place>>
    BY <1>9
  <2>3. request.profile # "amap"
    BY <2>2 DEF OfRole
  <2>4. /\ Kind(CategoryOf[a[p].place]) = "activity"
        /\ Kind(CategoryOf[d[r].place]) = "dining"
    BY <2>3 DEF OfRole
  <2>5. a[p].place # d[r].place
    BY <2>4
  <2> QED
    BY <2>1, <2>2, <2>5
<1>20. calls = s3 \o do
  BY <1>1, <1>2, <1>3, <1>4, <1>5, <1>13, <1>14, <1>15, Zenon DEF AllCalls
<1>21. calls \in Seq(Calls) /\ MadeOnce(calls)
  <2>1. ASSUME NEW i \in DOMAIN s3, NEW j \in DOMAIN do,
               s3[i].tool = do[j].tool
        PROVE  s3[i].on # do[j].on
    <3>1. PICK k \in DOMAIN ad : s3[i] = ad[k]
      BY <1>12, <1>18, <2>1
    <3> QED
      BY <1>19, <3>1
  <2>2. s3 \o do \in Seq(Calls) /\ MadeOnce(s3 \o do)
    BY <1>9, <1>11, <1>18, <2>1, OneAfterTheOther
  <2> QED
    BY <1>20, <2>2
<1>22. calls \in Seq(all)
  BY <1>10, <1>18, <1>20
<1> QED
  BY <1>21, <1>22 DEF all

LEMMA PreFlightStep ==
  ASSUME IsSequence(events), Known, PreFlightCheckAvailability
  PROVE  Known'
<1>1. PICK a : a = Chosen(collection.activity, MaxChosen)
  OBVIOUS
<1>2. PICK d : d = Chosen(collection.dining, MaxChosen)
  OBVIOUS
<1>3. PICK o : o = Chosen(collection.addon, 1)
  OBVIOUS
<1>4. /\ phase = "searching" /\ phase' = "enriching"
      /\ enriched' = [activity |-> Fresh(a), dining |-> Fresh(d),
                      addon |-> Fresh(o)]
      /\ routes' = <<>> /\ todo' = AllCalls(a, d, o)
      /\ UNCHANGED <<request, injector, level, since, drafts, events,
                     collection, surprises>>
  BY <1>1, <1>2, <1>3 DEF PreFlightCheckAvailability, plan, AllCalls
<1>5. /\ RunTyped /\ RowsTyped /\ FoundTyped /\ request \in Requests
      /\ collection \in [Role -> Seq(Listed)]
      /\ "activity" \in Role /\ "dining" \in Role /\ "addon" \in Role
      /\ MaxChosen \in Nat
  BY BoundAssumption DEF Known, FoundTyped, RunTyped, Role
<1>6. /\ a \in Seq(Listed) /\ PlacesOnce(a) /\ OfRole(a, "activity")
      /\ d \in Seq(Listed) /\ PlacesOnce(d) /\ OfRole(d, "dining")
      /\ o \in Seq(Listed) /\ PlacesOnce(o) /\ OfRole(o, "addon")
  <2>1. /\ collection.activity \in Seq(Listed)
        /\ collection.dining \in Seq(Listed) /\ collection.addon \in Seq(Listed)
        /\ OfRole(collection.activity, "activity")
        /\ OfRole(collection.dining, "dining")
        /\ OfRole(collection.addon, "addon")
    BY <1>5 DEF FoundTyped
  <2>2. a \in Seq(Listed) /\ PlacesOnce(a) /\ OfRole(a, "activity")
    BY <1>1, <1>5, <2>1, ChosenAreFirst, ChosenOfRole
  <2>3. d \in Seq(Listed) /\ PlacesOnce(d) /\ OfRole(d, "dining")
    BY <1>2, <1>5, <2>1, ChosenAreFirst, ChosenOfRole
  <2>4. o \in Seq(Listed) /\ PlacesOnce(o) /\ OfRole(o, "addon")
    BY <1>3, <1>5, <2>1, ChosenAreFirst, ChosenOfRole
  <2> QED
    BY <2>2, <2>3, <2>4
<1>7. PICK of \in [Role -> Seq(Listed)] :
        of.activity = a /\ of.dining = d /\ of.addon = o
  <2> DEFINE f == [role \in Role |-> IF role = "activity" THEN a
                                     ELSE IF role = "dining" THEN d ELSE o]
  <2>1. f \in [Role -> Seq(Listed)] /\ f.activity = a /\ f.dining = d
        /\ f.addon = o
    BY <1>5, <1>6
  <2> QED
    BY <2>1
<1>8. \A role \in Role : role = "activity" \/ role = "dining" \/ role = "addon"
  BY DEF Role
<1>9. \A role \in Role : /\ enriched'[role] = Fresh(of[role])
                         /\ of[role] \in Seq(Listed)
                         /\ PlacesOnce(of[role]) /\ OfRole(of[role], role)
  BY <1>4, <1>6, <1>7, <1>8
<1>10. ASSUME NEW role \in Role
       PROVE  /\ enriched'[role] \in Seq(Candidate)
              /\ DOMAIN enriched'[role] = DOMAIN of[role]
              /\ \A i \in DOMAIN of[role] :
                   /\ enriched'[role][i].place = of[role][i].place
                   /\ enriched'[role][i].events = {}
                   /\ \A tool \in FieldTools :
                        enriched'[role][i][Field[tool]] = "none"
  <2>1. of[role] \in Seq(Listed) /\ enriched'[role] = Fresh(of[role])
    BY <1>9
  <2> QED
    BY <2>1, FreshCandidates
<1>11. RunTyped' /\ RowsTyped' /\ Rows' = Rows
  BY <1>4, <1>5 DEF RunTyped, RowsTyped, Rows, Finding
<1>12. FoundTyped'
  <2>1. enriched' \in [Role -> Seq(Candidate)]
    <3>1. DOMAIN enriched' = Role
      BY <1>4, <1>8, <1>5
    <3>2. enriched' = [role \in DOMAIN enriched' |-> enriched'[role]]
      BY <1>4
    <3> QED
      BY <1>10, <3>1, <3>2
  <2>2. ASSUME NEW role \in Role
        PROVE  OfRole(enriched'[role], role) /\ PlacesOnce(enriched'[role])
    <3>1. PlacesOnce(enriched'[role])
      BY <1>9, <1>10 DEF PlacesOnce
    <3>2. of[role] = <<>> => enriched'[role] = <<>>
      BY <1>9, <1>10
    <3>3. OfRole(enriched'[role], role)
      BY <1>9, <1>10, <3>2 DEF OfRole
    <3> QED
      BY <3>1, <3>3
  <2>3. \A role \in Role : OfRole(collection[role], role)
    BY <1>5 DEF FoundTyped
  <2> QED
    BY <1>4, <1>5, <2>1, <2>2, <2>3 DEF FoundTyped, OfRole
<1>13. /\ todo' \in Seq(Calls) /\ MadeOnce(todo')
       /\ \A i \in DOMAIN todo' :
            \/ \E role \in Role : todo'[i] \in CallsAbout(role, of[role])
            \/ todo'[i] \in CallsBetween
  <2>1. PICK calls : calls = todo'
    OBVIOUS
  <2>2. /\ calls \in Seq(Calls) /\ MadeOnce(calls)
        /\ \A i \in DOMAIN calls :
             \/ calls[i] \in CallsAbout("activity", a)
             \/ calls[i] \in CallsAbout("dining", d)
             \/ calls[i] \in CallsAbout("addon", o)
             \/ calls[i] \in CallsBetween
    BY <1>4, <1>5, <1>6, <2>1, CallsOfEnrichment
  <2> QED
    BY <1>5, <1>7, <2>1, <2>2
<1>14. ToAsk'
  <2>1. \A role \in Role : \A c \in CallsAbout(role, of[role]) :
                               c \in CallsAbout(role, enriched'[role])
    BY <1>10 DEF CallsAbout
  <2>2. \A i \in DOMAIN todo' :
          \/ \E role \in Role : todo'[i] \in CallsAbout(role, enriched'[role])
          \/ todo'[i] \in CallsBetween
    BY <1>13, <2>1
  <2> QED
    BY <1>4, <1>13, <2>2 DEF ToAsk, Asked
<1>15. \A n \in Rows' : events'[n].tool \notin DiningTools
  BY <1>4, <1>11 DEF Known, ToAsk, SearchTools, DiningTools
<1>16. AskedOnce'
  BY <1>4, <1>13, <1>15 DEF AskedOnce
<1>17. RoutesOnce'
  BY <1>4 DEF RoutesOnce
<1>18. Backed'
  <2>1. ASSUME NEW role \in Role, NEW i \in DOMAIN enriched'[role]
        PROVE  BackedCandidate(enriched[role][i])'
    BY <1>10 DEF BackedCandidate
  <2> QED
    BY <1>4, <2>1 DEF Backed
<1>19. Heard'
  BY <1>15 DEF Heard, HeardOf
<1> QED
  BY <1>11, <1>12, <1>14, <1>16, <1>17, <1>18, <1>19 DEF Known

LEMMA InitialCallsAre ==
  ASSUME request \in Requests
  PROVE  /\ InitialCalls(request) \in Seq(Calls)
         /\ \A i \in DOMAIN InitialCalls(request) :
              Searched(InitialCalls(request)[i])
<1> DEFINE S == {c \in Calls : Searched(c)}
           addon == IF request.addon /\ request.profile = "mock_world"
                    THEN <<Search("addon")>> ELSE <<>>
           weather == CallOf("check_weather", <<>>, "weather", 0)
<1>1. Search("activity") \in S /\ Search("dining") \in S
  <2>1. \A role \in {"activity", "dining", "addon"} :
          /\ Search(role) \in Calls /\ Search(role).tool = "search_poi"
          /\ Search(role).role = role
    <3>1. "search_poi" \in ToolName /\ 0 \in Nat
      BY DEF ToolName, SearchTools
    <3>2. \A role \in {"activity", "dining", "addon"} :
            role \in Purpose /\ <<role>> \in Subject
      BY DEF Purpose, Subject, Role
    <3> QED
      BY <3>1, <3>2, CallsOfTheirSet DEF Search
  <2> QED
    BY <2>1 DEF Searched, SearchTools, Role
<1>2. addon \in Seq(S)
  <2>1. Search("addon") \in Calls /\ Search("addon").tool = "search_poi"
        /\ Search("addon").role = "addon"
    <3>1. "search_poi" \in ToolName /\ 0 \in Nat
      BY DEF ToolName, SearchTools
    <3>2. "addon" \in Purpose /\ <<"addon">> \in Subject
      BY DEF Purpose, Subject, Role
    <3> QED
      BY <3>1, <3>2, CallsOfTheirSet DEF Search
  <2>2. CASE request.addon /\ request.profile = "mock_world"
    <3>1. Search("addon") \in S
      BY <2>1, <2>2 DEF Searched, SearchTools, Role
    <3> HIDE DEF S
    <3> QED
      BY <2>2, <3>1
  <2>3. CASE ~ (request.addon /\ request.profile = "mock_world")
    BY <2>3
  <2> QED
    BY <2>2, <2>3
<1>3. weather \in S
  <2>1. "check_weather" \in ToolName /\ "weather" \in Purpose /\ <<>> \in Subject
        /\ 0 \in Nat
    BY DEF ToolName, SearchTools, Purpose, Subject
  <2>2. weather \in Calls /\ weather.tool = "check_weather"
    BY <2>1, CallsOfTheirSet
  <2> QED
    BY <2>2 DEF Searched, SearchTools
<1>4. InitialCalls(request) =
        <<Search("activity"), Search("dining")>> \o addon \o <<weather>>
  BY DEF InitialCalls
<1> HIDE DEF S, addon, weather
<1>5. InitialCalls(request) \in Seq(S)
  BY <1>1, <1>2, <1>3, <1>4
<1>6. S \subseteq Calls /\ \A c \in S : Searched(c)
  BY DEF S
<1> QED
  BY <1>5, <1>6

LEMMA ExpansionStep ==
  ASSUME IsSequence(events), Known, ApplyRecovery
  PROVE  Known'
<1>1. /\ phase' = "searching" /\ level' = 1
      /\ todo' = InitialCalls(request) /\ since' = Len(events)
      /\ collection' = [role \in Role |-> <<>>]
      /\ UNCHANGED <<request, injector, drafts, events, enriched, routes,
                     surprises>>
  BY DEF ApplyRecovery
<1>2. /\ RunTyped /\ RowsTyped /\ FoundTyped /\ request \in Requests
      /\ Len(events) \in Nat
  BY AppendToSequence DEF Known, RunTyped
<1>3. RunTyped' /\ RowsTyped' /\ Rows' = {}
  BY <1>1, <1>2 DEF RunTyped, RowsTyped, Rows
<1>4. FoundTyped'
  BY <1>1, <1>2 DEF FoundTyped, OfRole
<1>5. ToAsk'
  <2>1. /\ todo' \in Seq(Calls)
        /\ \A i \in DOMAIN todo' : Searched(todo'[i])
    BY <1>1, <1>2, InitialCallsAre
  <2>2. \A i \in DOMAIN todo' : Searched(todo[i])'
    BY <1>1, <2>1 DEF Searched
  <2> QED
    BY <1>1, <1>3, <2>1, <2>2 DEF ToAsk
<1>6. AskedOnce' /\ RoutesOnce' /\ Backed' /\ Heard'
  BY <1>1 DEF AskedOnce, RoutesOnce, Backed, Heard, Finding
<1> QED
  BY <1>3, <1>4, <1>5, <1>6 DEF Known

LEMMA CrashStep ==
  ASSUME Known, Crash
  PROVE  Known'
<1>1. /\ phase' = "crashed"
      /\ events' = <<>> /\ since' = 0 /\ todo' = <<>>
      /\ collection' = [role \in Role |-> <<>>]
      /\ enriched' = [role \in Role |-> <<>>]
      /\ routes' = <<>> /\ drafts' = <<>>
      /\ UNCHANGED <<request, injector, level, surprises>>
  BY DEF Crash
<1>2. RunTyped
  BY DEF Known
<1>3. RunTyped' /\ RowsTyped'
  BY <1>1, <1>2, BoundAssumption DEF RunTyped, RowsTyped
<1>4. FoundTyped'
  BY <1>1 DEF FoundTyped, OfRole, PlacesOnce
<1>5. ToAsk'
  BY <1>1 DEF ToAsk
<1>6. AskedOnce' /\ RoutesOnce' /\ Backed' /\ Heard'
  BY <1>1 DEF AskedOnce, RoutesOnce, Backed, Heard, Finding
<1> QED
  BY <1>3, <1>4, <1>5, <1>6 DEF Known

LEMMA KnownInitially == Init => Known
<1> SUFFICES ASSUME Init PROVE Known
  OBVIOUS
<1>1. /\ request \in Requests /\ injector \in Injectors
      /\ phase = "searching" /\ level = 0 /\ todo = InitialCalls(request)
      /\ events = <<>> /\ since = 0
      /\ collection = [role \in Role |-> <<>>]
      /\ enriched = [role \in Role |-> <<>>]
      /\ routes = <<>> /\ drafts = <<>> /\ surprises = 0
  BY DEF Init
<1>2. RunTyped /\ RowsTyped /\ Rows = {}
  BY <1>1, BoundAssumption DEF RunTyped, RowsTyped, Rows
<1>3. FoundTyped
  BY <1>1 DEF FoundTyped, OfRole, PlacesOnce
<1>4. ToAsk
  BY <1>1, <1>2, InitialCallsAre DEF ToAsk
<1>5. AskedOnce /\ RoutesOnce /\ Backed /\ Heard
  BY <1>1 DEF AskedOnce, RoutesOnce, Backed, Heard, Finding
<1> QED
  BY <1>2, <1>3, <1>4, <1>5 DEF Known

\* Steps that leave what was found, and what is to be asked, as it is.
LEMMA KnownStays ==
  ASSUME Known, UNCHANGED <<request, injector, level, since, drafts, todo,
                            events, collection, enriched, routes, phase>>,
         surprises' \in 0 .. Surprises
  PROVE  Known'
<1>1. Rows' = Rows /\ RunTyped' /\ RowsTyped' /\ FoundTyped'
  BY DEF Known, RunTyped, RowsTyped, FoundTyped, OfRole, Rows
<1>2. ToAsk' /\ AskedOnce' /\ RoutesOnce'
  BY <1>1 DEF Known, ToAsk, Searched, Asked, AskedOnce, RoutesOnce
<1>3. /\ \A x : BackedCandidate(x) => BackedCandidate(x)'
      /\ \A r : BackedRoute(r) => BackedRoute(r)'
  BY <1>1 DEF BackedCandidate, BackedRoute, Said, RouteIsUsable
<1>4. Backed'
  BY <1>1 DEF Known, Backed, BackedCandidate, BackedRoute, Said, RouteIsUsable
<1>5. Heard'
  BY <1>1 DEF Known, Heard, HeardOf
<1> QED
  BY <1>1, <1>2, <1>4, <1>5 DEF Known

LEMMA DraftingStep ==
  ASSUME Known, LogicalPlannerAgent \/ SemanticValidator
  PROVE  Known'
<1>1. /\ phase \in {"enriching", "drafted"}
      /\ phase' \in {"drafted", "expanding", "done"} /\ todo = <<>>
      /\ UNCHANGED <<request, injector, level, since, todo, events, collection,
                     enriched, routes, surprises>>
  BY DEF LogicalPlannerAgent, SemanticValidator, found, Known, ToAsk
<1>2. Len(drafts') <= MaxDrafts
  <2>1. CASE LogicalPlannerAgent
    <3>1. IsEvidence(Evidence)
      BY <1>1, EvidenceIsTyped DEF Known, Finding
    <3>2. drafts' = Drafts(request, Evidence, MaxDrafts)
      BY <2>1 DEF LogicalPlannerAgent
    <3> QED
      BY <3>1, <3>2, DraftsOfPairs
  <2>2. CASE SemanticValidator
    BY <2>2 DEF SemanticValidator, Known, RunTyped
  <2> QED
    BY <2>1, <2>2
<1>3. phase \in Finding /\ phase' \in Finding
  BY <1>1 DEF Finding
<1>4. Rows' = Rows /\ RunTyped' /\ RowsTyped' /\ FoundTyped'
  BY <1>1, <1>2, <1>3 DEF Known, RunTyped, RowsTyped, FoundTyped, OfRole, Rows
<1>5. ToAsk' /\ AskedOnce' /\ RoutesOnce'
  BY <1>1, <1>3, <1>4 DEF Known, ToAsk, AskedOnce, RoutesOnce
<1>6. Backed'
  BY <1>1, <1>3, <1>4
     DEF Known, Backed, BackedCandidate, BackedRoute, Said, RouteIsUsable
<1>7. Heard'
  BY <1>1, <1>3, <1>4 DEF Known, Heard, HeardOf
<1> QED
  BY <1>4, <1>5, <1>6, <1>7 DEF Known

----------------------------------------------------------------------------
(* Every step keeps what is known *)

LEMMA CallRecorded ==
  ASSUME IsSequence(events), Known, Calling,
         NEW status \in Status, NEW answer, NEW hit, NEW injected,
         Record(status, answer, hit, injected),
         Fits(Head(todo).tool, status, answer), surprises' \in 0 .. Surprises
  PROVE  Known'
<1>1. todo # <<>> /\ phase \in {"searching", "enriching"}
  BY DEF Calling
<1>2. CASE phase = "searching"
  BY <1>1, <1>2, SearchRecorded
<1>3. CASE phase = "enriching"
  <2>1. todo \in Seq(Calls) /\ 1 \in DOMAIN todo /\ Head(todo) = todo[1]
    BY <1>1 DEF Known, ToAsk
  <2>2. Asked(Head(todo))
    BY <1>3, <2>1 DEF Known, ToAsk
  <2>3. CASE Head(todo) \in CallsBetween
    BY <1>1, <1>3, <2>3, RouteRecorded
  <2>4. CASE \E role \in Role : Head(todo) \in CallsAbout(role, enriched[role])
    <3>1. PICK role \in Role : Head(todo) \in CallsAbout(role, enriched[role])
      BY <2>4
    <3> QED
      BY <1>1, <1>3, <3>1, CandidateRecorded
  <2> QED
    BY <2>2, <2>3, <2>4 DEF Asked
<1> QED
  BY <1>1, <1>2, <1>3

\* A search is made for a kind of candidates.
LEMMA SearchesHaveARole ==
  ASSUME Known, Calling, Head(todo).tool = "search_poi"
  PROVE  Head(todo).role \in Role
<1>1. todo # <<>> /\ phase \in {"searching", "enriching"}
  BY DEF Calling
<1>2. todo \in Seq(Calls) /\ 1 \in DOMAIN todo /\ Head(todo) = todo[1]
  BY <1>1 DEF Known, ToAsk
<1>3. CASE phase = "searching"
  BY <1>2, <1>3 DEF Known, ToAsk, Searched
<1>4. CASE phase = "enriching"
  <2>1. Asked(Head(todo))
    BY <1>2, <1>4 DEF Known, ToAsk
  <2>2. Head(todo).tool \in FieldTools \/ Head(todo).tool = "check_route"
    BY <2>1 DEF Asked, CallsAbout, CallsBetween
  <2> QED
    BY <2>2, FieldToolsAre
<1> QED
  BY <1>1, <1>3, <1>4

\* Everything that a call may come to is an answer that its tool may give, or
\* no answer.
LEMMA InjectStep ==
  ASSUME IsSequence(events), Known, Inject
  PROVE  Known'
<1>1. PICK tool : tool = Head(todo).tool
  OBVIOUS
<1>2. PICK rule : rule = injector[tool]
  OBVIOUS
<1>3. /\ Calling /\ tool \in DOMAIN injector /\ surprises' = surprises
      /\ Record(rule.status, rule.answer, FALSE, TRUE)
  BY <1>1, <1>2 DEF Inject, Invoked
<1>4. injector \in Injectors /\ surprises \in 0 .. Surprises
  BY DEF Known, RunTyped
<1>5. /\ rule.status \in {"failed", "succeeded"}
      /\ rule.status = "succeeded" /\ rule.answer # Malformed =>
           IF tool = "search_poi" THEN rule.answer \in Seq(Place)
                                  ELSE rule.answer \in Replies[tool]
  BY <1>2, <1>3, <1>4, InjectorAssumption
<1>6. Fits(tool, rule.status, rule.answer)
  BY <1>5 DEF Fits, UsableStatus
<1>7. rule.status \in Status
  BY <1>5 DEF Status
<1> QED
  BY <1>1, <1>3, <1>4, <1>6, <1>7, CallRecorded

LEMMA RefusedStep ==
  ASSUME IsSequence(events), Known, Refused \/ ProviderFails
  PROVE  Known'
<1>1. surprises' \in 0 .. Surprises
  <2>1. surprises \in 0 .. Surprises
    BY DEF Known, RunTyped
  <2>2. CASE Refused
    BY <2>1, <2>2 DEF Refused
  <2>3. CASE ProviderFails
    BY <2>1, <2>3, BoundAssumption DEF ProviderFails, Surprised, Expired
  <2> QED
    BY <2>2, <2>3
<1>2. ASSUME NEW status \in {"rate_limited", "failed"},
             Calling, Record(status, NoAnswer, FALSE, FALSE)
      PROVE  Known'
  <2>1. status \in Status /\ Fits(Head(todo).tool, status, NoAnswer)
    BY DEF Fits, UsableStatus, Status
  <2> QED
    BY <1>1, <1>2, <2>1, CallRecorded
<1>3. CASE Refused
  BY <1>2, <1>3 DEF Refused, Asks, Invoked
<1>4. CASE ProviderFails
  BY <1>2, <1>4 DEF ProviderFails, Permitted, Asks, Invoked
<1> QED
  BY <1>3, <1>4

LEMMA CachedStep ==
  ASSUME CacheInv, Known, CacheHit
  PROVE  Known'
<1>1. PICK key : key = CacheKey(Head(todo))
  OBVIOUS
<1>2. /\ Calling /\ key \in DOMAIN cache /\ key.tool = Head(todo).tool
      /\ Record("cached", cache[key], TRUE, FALSE)
      /\ surprises' = surprises
  BY <1>1 DEF CacheHit, Permitted, Asks, Invoked, InCache, CacheKey
<1>3. PICK m \in 1 .. Len(events) : LastAnswer(m, key.tool, key.on, cache[key])
  BY <1>2 DEF CacheInv, EntriesAreAnswers
<1>4. IsSequence(events) /\ m \in DOMAIN events
  BY AppendToSequence DEF CacheInv
<1>5. Fits(events[m].tool, events[m].status, events[m].answer)
  BY <1>4 DEF Known, RowsTyped
<1>6. Fits(Head(todo).tool, "cached", cache[key])
  BY <1>2, <1>3, <1>5 DEF Fits, UsableStatus, LastAnswer
<1>7. "cached" \in Status /\ surprises' \in 0 .. Surprises
  BY <1>2 DEF Status, Known, RunTyped
<1> QED
  BY <1>2, <1>4, <1>6, <1>7, CallRecorded

LEMMA AnsweredStep ==
  ASSUME IsSequence(events), Known, ProviderAnswers
  PROVE  Known'
<1>1. PICK call : call = Head(todo)
  OBVIOUS
<1>2. PICK answer \in Answers(call) :
        /\ Calling /\ Record("succeeded", answer, FALSE, FALSE)
        /\ Surprised(Expired + IF answer = Usual(call) THEN 0 ELSE 1)
  BY <1>1 DEF ProviderAnswers, Permitted, Asks, Invoked
<1>3. surprises' \in 0 .. Surprises
  BY <1>2, BoundAssumption DEF Known, RunTyped, Surprised, Expired
<1>4. Fits(call.tool, "succeeded", answer)
  <2>1. CASE call.tool = "search_poi"
    <3>1. call.role \in Role
      BY <1>1, <1>2, <2>1, SearchesHaveARole
    <3>2. Listings[call.role] \subseteq Seq(Place)
      BY <3>1, ListingAssumption
    <3> QED
      BY <1>2, <2>1, <3>2 DEF Answers, Fits
  <2>2. CASE call.tool # "search_poi"
    BY <1>2, <2>2 DEF Answers, Fits
  <2> QED
    BY <2>1, <2>2
<1>5. "succeeded" \in Status
  BY DEF Status
<1> QED
  BY <1>1, <1>2, <1>3, <1>4, <1>5, CallRecorded

LEMMA KnownStep == ASSUME CacheInv, Known, [Next]_vars PROVE Known'
<1> IsSequence(events)
  BY DEF CacheInv
<1>1. CASE SkipCall
  BY <1>1, RouteSkipped
<1>2. CASE Inject
  BY <1>2, InjectStep
<1>3. CASE AskLimiter
  <2>1. surprises \in 0 .. Surprises
    BY DEF Known, RunTyped
  <2> QED
    BY <1>3, <2>1, KnownStays DEF AskLimiter, plan, found
<1>4. CASE Refused \/ ProviderFails
  BY <1>4, RefusedStep
<1>5. CASE CacheHit
  BY <1>5, CachedStep
<1>6. CASE ProviderAnswers
  BY <1>6, AnsweredStep
<1>7. CASE PreFlightCheckAvailability
  BY <1>7, PreFlightStep
<1>8. CASE LogicalPlannerAgent \/ SemanticValidator
  BY <1>8, DraftingStep
<1>9. CASE ApplyRecovery
  BY <1>9, ExpansionStep
<1>10. CASE Crash
  BY <1>10, CrashStep
<1>11. CASE Others
  <2>1. surprises' \in 0 .. Surprises
    BY <1>11, BoundAssumption DEF Known, RunTyped, Others, Surprised
  <2> QED
    BY <1>11, <2>1, KnownStays DEF Others, plan, found
<1>12. CASE UNCHANGED vars
  <2>1. surprises \in 0 .. Surprises
    BY DEF Known, RunTyped
  <2> QED
    BY <1>12, <2>1, KnownStays DEF vars, found
<1> QED
  BY <1>1, <1>2, <1>3, <1>4, <1>5, <1>6, <1>7, <1>8, <1>9, <1>10, <1>11,
     <1>12 DEF Next

LEMMA MadeStep == ASSUME Known, Made, [Next]_vars PROVE Made'
<1>1. CASE LogicalPlannerAgent
  <2>1. /\ phase' = "drafted" /\ drafts' = Drafts(request, Evidence, MaxDrafts)
        /\ UNCHANGED <<request, enriched, routes>>
    BY <1>1 DEF LogicalPlannerAgent, found
  <2> QED
    BY <2>1 DEF Made, Evidence
<1>2. CASE SemanticValidator
  <2>1. /\ phase = "drafted" /\ phase' \in {"expanding", "done"}
        /\ reviewed' = [i \in DOMAIN drafts |->
                         ReviewedDraft(drafts[i], Evidence, request)]
        /\ UNCHANGED <<request, drafts, enriched, routes>>
    BY <1>2 DEF SemanticValidator, found
  <2> QED
    BY <2>1 DEF Made, Evidence
<1>3. CASE UNCHANGED <<phase, request, drafts, reviewed, enriched, routes>>
  BY <1>3 DEF Made, Evidence
<1>4. CASE phase' \notin {"drafted", "expanding", "done"}
  BY <1>4 DEF Made
<1>5. CASE SkipCall \/ Inject \/ Refused \/ CacheHit \/ ProviderAnswers
           \/ ProviderFails
  <2>1. phase' = phase /\ Calling
    BY <1>5 DEF SkipCall, Inject, Refused, CacheHit, ProviderAnswers,
                ProviderFails, Permitted, Asks, Invoked, Record
  <2> QED
    BY <1>4, <2>1 DEF Calling
<1>6. CASE AskLimiter \/ Others
  BY <1>3, <1>6 DEF AskLimiter, Others, plan, found
<1>7. CASE PreFlightCheckAvailability \/ ApplyRecovery \/ Crash
  BY <1>4, <1>7 DEF PreFlightCheckAvailability, ApplyRecovery, Crash
<1>8. CASE UNCHANGED vars
  BY <1>3, <1>8 DEF vars, found
<1> QED
  BY <1>1, <1>2, <1>5, <1>6, <1>7, <1>8 DEF Next

----------------------------------------------------------------------------
(* The invariant *)

EvidenceInv == LimiterInv /\ CacheInv /\ Known /\ Made

LEMMA EvidenceInvInitially == Init => EvidenceInv
<1> SUFFICES ASSUME Init PROVE EvidenceInv
  OBVIOUS
<1>1. LimiterInv
  BY LimiterInitially DEF Init
<1>2. Made
  BY DEF Init, Made
<1> QED
  BY <1>1, <1>2, CacheInitially, KnownInitially DEF EvidenceInv

LEMMA EvidenceInvStep == EvidenceInv /\ [Next]_vars => EvidenceInv'
<1> SUFFICES ASSUME EvidenceInv, [Next]_vars PROVE EvidenceInv'
  OBVIOUS
<1>1. LimiterInv'
  BY EveryStepIsLimited, LimiterStep DEF EvidenceInv
<1> QED
  BY <1>1, CacheStep, KnownStep, MadeStep DEF EvidenceInv

LEMMA EvidenceInvHolds == Spec => []EvidenceInv
BY EvidenceInvInitially, EvidenceInvStep, PTL DEF Spec

LEMMA InvTypes == EvidenceInv => TypeOK
<1> SUFFICES ASSUME EvidenceInv PROVE TypeOK
  OBVIOUS
<1>1. LimiterTypeOK /\ RunTyped /\ RowsTyped
  BY DEF EvidenceInv, LimiterInv, Known
<1>2. \A key \in DOMAIN cache : key.tool \in Cached
  BY DEF EvidenceInv, CacheInv, EntriesAreAnswers
<1>3. phase = "done" => Len(reviewed) = Len(drafts)
  <2> SUFFICES ASSUME phase = "done" PROVE Len(reviewed) = Len(drafts)
    OBVIOUS
  <2>1. IsEvidence(Evidence)
    BY EvidenceIsTyped DEF EvidenceInv, Known, Finding
  <2>2. drafts = Drafts(request, Evidence, MaxDrafts)
        /\ reviewed = [i \in DOMAIN drafts |->
                        ReviewedDraft(drafts[i], Evidence, request)]
    BY DEF EvidenceInv, Made
  <2>3. Len(drafts) \in Nat /\ DOMAIN drafts = 1 .. Len(drafts)
    BY <2>1, <2>2, DraftsOfPairs
  <2> QED
    BY <2>2, <2>3
<1> QED
  BY <1>1, <1>2, <1>3
     DEF TypeOK, RunTyped, RowsTyped, Status, Finding

\* A run's request, rules, rows, cache entries, drafts and reviews are of
\* their types, for any requests, listings, rules and bounds.
THEOREM EvidenceIsTypeCorrect == Spec => []TypeOK
BY EvidenceInvHolds, InvTypes, PTL

----------------------------------------------------------------------------
(* What a draft proposes *)

Proposal(type, target) == [type |-> type, target |-> target]

LEMMA ProposalsAre ==
  ASSUME NEW condition \in BOOLEAN, NEW type, NEW target, NEW S,
         condition => Proposal(type, target) \in S
  PROVE  Propose(condition, type, target) \in Seq(S)
<1>1. CASE condition
  <2>1. Propose(condition, type, target) = <<Proposal(type, target)>>
    BY <1>1 DEF Propose, Proposal
  <2>2. Proposal(type, target) \in S
    BY <1>1
  <2> HIDE DEF Proposal
  <2> QED
    BY <2>1, <2>2
<1>2. CASE ~ condition
  BY <1>2 DEF Propose
<1> QED
  BY <1>1, <1>2

\* Each action of a draft, with the answers that led to it.
ActionOf(x, y, addon, a) ==
  \/ /\ a = Proposal("reserve_restaurant", y.place) /\ y.table = "available"
  \/ /\ a = Proposal("book_ticket", x.place) /\ x.ticket = "available"
  \/ /\ a = Proposal("join_queue", y.place)
     /\ y.table # "available" /\ QueueIsOpen(y)
  \/ /\ a = Proposal("order_addon", addon) /\ addon # NoPlace

LEMMA ActionsAre ==
  ASSUME NEW q, NEW x, NEW y, NEW addon,
         NEW actions,
         actions = WriteActions(x, y, addon)
                   \o Message(q, WriteActions(x, y, addon))
  PROVE  \A k \in DOMAIN actions :
           \/ ActionOf(x, y, addon, actions[k])
           \/ /\ actions[k] = Proposal("send_message", "wife")
              /\ Len(actions) > 1
<1> DEFINE S == {a \in {Proposal("reserve_restaurant", y.place),
                        Proposal("book_ticket", x.place),
                        Proposal("join_queue", y.place),
                        Proposal("order_addon", addon)} :
                   ActionOf(x, y, addon, a)}
           T == {Proposal("send_message", "wife")}
<1>1. PICK w : w = WriteActions(x, y, addon)
  OBVIOUS
<1>2. PICK m : m = Message(q, w)
  OBVIOUS
<1>3. w \in Seq(S)
  <2>1. Propose(y.table = "available", "reserve_restaurant", y.place) \in Seq(S)
    <3>1. y.table = "available" => Proposal("reserve_restaurant", y.place) \in S
      BY DEF ActionOf
    <3> HIDE DEF S
    <3> QED
      BY <3>1, ProposalsAre
  <2>2. Propose(x.ticket = "available", "book_ticket", x.place) \in Seq(S)
    <3>1. x.ticket = "available" => Proposal("book_ticket", x.place) \in S
      BY DEF ActionOf
    <3> HIDE DEF S
    <3> QED
      BY <3>1, ProposalsAre
  <2>3. Propose(y.table # "available" /\ QueueIsOpen(y), "join_queue", y.place)
          \in Seq(S)
    <3>1. y.table # "available" /\ QueueIsOpen(y) =>
            Proposal("join_queue", y.place) \in S
      BY DEF ActionOf
    <3> HIDE DEF S
    <3> QED
      BY <3>1, ProposalsAre
  <2>4. Propose(addon # NoPlace, "order_addon", addon) \in Seq(S)
    <3>1. addon # NoPlace => Proposal("order_addon", addon) \in S
      BY DEF ActionOf
    <3> HIDE DEF S
    <3> QED
      BY <3>1, ProposalsAre
  <2> HIDE DEF S
  <2> QED
    BY <1>1, <2>1, <2>2, <2>3, <2>4 DEF WriteActions
<1>4. m = <<>> \/ (w # <<>> /\ m = <<Proposal("send_message", "wife")>>)
  BY <1>2 DEF Message, Propose, Proposal
<1>5. /\ Len(w) \in Nat /\ DOMAIN w = 1 .. Len(w)
      /\ \A k \in DOMAIN w : w[k] \in S
      /\ w # <<>> => Len(w) > 0
  <2> HIDE DEF S
  <2> QED
    BY <1>3
<1>6. actions = w \o m
  BY <1>1, <1>2
<1>7. \A k \in DOMAIN w : ActionOf(x, y, addon, w[k])
  BY <1>5
<1>8. CASE m = <<>>
  <2>1. actions = w
    <3> HIDE DEF S
    <3> QED
      BY <1>3, <1>6, <1>8
  <2> QED
    BY <1>7, <2>1
<1>9. CASE w # <<>> /\ m = <<Proposal("send_message", "wife")>>
  <2>1. PICK a : a = Proposal("send_message", "wife")
    OBVIOUS
  <2> DEFINE U == S \union {a}
  <2>2. w \in Seq(U) /\ m = <<a>> /\ m \in Seq(U)
    <3>1. w \in Seq(U)
      <4> HIDE DEF S
      <4> QED
        BY <1>3
    <3> HIDE DEF S
    <3> QED
      BY <1>9, <2>1, <3>1
  <2> HIDE DEF S, U
  <2>3. /\ Len(actions) = Len(w) + 1
        /\ DOMAIN actions = 1 .. Len(w) + 1
        /\ \A k \in 1 .. Len(w) : actions[k] = w[k]
        /\ actions[Len(w) + 1] = a
    BY <1>6, <2>2
  <2> QED
    BY <1>5, <1>7, <1>9, <2>1, <2>3
<1> QED
  BY <1>4, <1>8, <1>9

\* An add-on that was selected fits.
LEMMA SelectedFits ==
  ASSUME NEW q, NEW e, IsEvidence(e), NEW dining,
         SelectedAddon(q, e, dining) # NoPlace
  PROVE  \E i \in DOMAIN e.addon :
           /\ AddonFits(e, dining, e.addon[i])
           /\ SelectedAddon(q, e, dining) = e.addon[i].place
<1> DEFINE fits == {i \in DOMAIN e.addon : AddonFits(e, dining, e.addon[i])}
           first == CHOOSE i \in fits : \A j \in fits : i <= j
<1>1. /\ fits # {}
      /\ SelectedAddon(q, e, dining) = e.addon[first].place
  BY DEF SelectedAddon
<1>2. fits \in SUBSET Nat
  BY DEF IsEvidence
<1>3. first \in fits
  <2> HIDE DEF fits
  <2> QED
    BY <1>1, <1>2, FirstOf
<1> QED
  BY <1>1, <1>3

\* A route that is found is a usable one between the two places.
LEMMA FoundRoute ==
  ASSUME NEW e, IsEvidence(e), NEW from, NEW to
  PROVE  /\ FindRoute(e, from, to) > 0 =>
              \E i \in DOMAIN e.routes :
                /\ RouteIsUsable(e.routes[i])
                /\ e.routes[i].from = from /\ e.routes[i].to = to
         /\ \A i \in DOMAIN e.routes :
              (/\ RouteIsUsable(e.routes[i])
               /\ e.routes[i].from = from /\ e.routes[i].to = to)
              => FindRoute(e, from, to) = i
<1> DEFINE at == {i \in DOMAIN e.routes :
                    /\ RouteIsUsable(e.routes[i])
                    /\ e.routes[i].from = from /\ e.routes[i].to = to}
           first == CHOOSE i \in at : \A j \in at : i <= j
<1>1. FindRoute(e, from, to) = IF at = {} THEN 0 ELSE first
  BY DEF FindRoute
<1>2. at \in SUBSET Nat
  BY DEF IsEvidence
<1>3. at # {} => first \in at
  <2> HIDE DEF at
  <2> QED
    BY <1>2, FirstOf
<1>4. \A i, j \in at : i = j
  BY DEF IsEvidence
<1> QED
  BY <1>1, <1>2, <1>3, <1>4

\* The last candidate of a place is the only one.
LEMMA EntryIsTheOne ==
  ASSUME NEW list \in Seq(Candidate), PlacesOnce(list), NEW i \in DOMAIN list
  PROVE  Found(list, list[i].place) /\ Entry(list, list[i].place) = list[i]
<1> DEFINE last == CHOOSE k \in DOMAIN list :
                     list[k].place = list[i].place /\
                     \A j \in DOMAIN list :
                       list[j].place = list[i].place => j <= k
<1>1. \A j \in DOMAIN list : list[j].place = list[i].place => j = i
  BY DEF PlacesOnce
<1>2. i <= i
  OBVIOUS
<1>3. /\ last \in DOMAIN list /\ list[last].place = list[i].place
  BY <1>1, <1>2
<1>4. last = i
  BY <1>1, <1>3
<1> QED
  BY <1>4 DEF Found, Entry

----------------------------------------------------------------------------
(* What the review lets through is borne out *)

\* A draft with a failed check is blocked.
LEMMA NothingFailed ==
  ASSUME NEW d, NEW e, NEW q, ReviewedDraft(d, e, q).decision # "blocked"
  PROVE  AvailabilityStatus(d, e) = "usable"
<1> DEFINE checks == Checks(d, e, q)
           results == {checks[name] : name \in DOMAIN checks}
<1>1. ReviewedDraft(d, e, q).decision = Decision(results)
  BY DEF ReviewedDraft
<1>2. "failed" \notin results
  <2> HIDE DEF results
  <2> QED
    BY <1>1 DEF Decision
<1>3. "dining_availability" \in DOMAIN checks
      /\ checks["dining_availability"] = DiningAvailability(d, e)
  BY DEF Checks
<1>4. DiningAvailability(d, e) # "failed"
  <2> HIDE DEF checks
  <2> QED
    BY <1>2, <1>3
<1> QED
  BY <1>4 DEF DiningAvailability, Fails

\* What an event says of a restaurant's table or queue is what its candidate
\* has.
LEMMA SaidIsKept ==
  ASSUME NEW x, NEW tool \in DiningTools, HeardOf(x, tool),
         NEW answers \in SUBSET Replies[tool], Said(tool, <<x.place>>, answers)
  PROVE  x[Field[tool]] \in answers
<1>1. PICK n \in Rows :
        /\ events[n].tool = tool /\ events[n].on = <<x.place>>
        /\ events[n].status \in UsableStatus /\ events[n].answer \in answers
  BY DEF Said, Rows
<1>2. tool \in DOMAIN Replies
  BY DEF DiningTools, Replies
<1>3. events[n].answer # Malformed
  BY <1>1, <1>2, MalformedAssumption
<1> QED
  BY <1>1, <1>3 DEF HeardOf

LEMMA WiderAnswers ==
  ASSUME NEW tool, NEW on, NEW few, NEW answers, few \subseteq answers,
         Said(tool, on, few)
  PROVE  Said(tool, on, answers)
BY DEF Said

LEMMA DraftIsBacked ==
  ASSUME EvidenceInv, phase \in Finding, NEW e, e = Evidence,
         NEW p \in Pairs(e), NEW d, d = Draft(request, e, p),
         AvailabilityStatus(d, e) = "usable"
  PROVE  /\ d.events \subseteq Rows
         /\ Said("check_route", <<d.activity, d.dining>>, Replies.check_route)
         /\ \A k \in DOMAIN d.actions : ActionSupported(d, d.actions[k])
         /\ ~ Said("check_table_availability", <<d.dining>>, {"unavailable"})
         /\ ~ Said("check_queue", <<d.dining>>, {"closed"})
<1>1. IsEvidence(e) /\ FoundTyped /\ Backed /\ Heard
  BY EvidenceIsTyped DEF EvidenceInv, Known
<1>2. Joins(e, p)
  BY <1>1, PairsJoin
<1>3. PICK x : x = e.activity[p.activity]
  OBVIOUS
<1>4. PICK y : y = e.dining[p.dining]
  OBVIOUS
<1>5. PICK r : r = e.routes[p.route]
  OBVIOUS
<1>6. PICK addon : addon = SelectedAddon(request, e, y.place)
  OBVIOUS
<1>7. /\ d.activity = x.place /\ d.dining = y.place
      /\ d.actions = WriteActions(x, y, addon)
                     \o Message(request, WriteActions(x, y, addon))
      /\ d.events = x.events \union y.events \union {r.event}
  BY <1>3, <1>4, <1>5, <1>6 DEF Draft
<1>8. /\ e.activity = enriched.activity /\ e.dining = enriched.dining
      /\ e.addon = enriched.addon /\ e.routes = routes
      /\ "activity" \in Role /\ "dining" \in Role /\ "addon" \in Role
  BY DEF Evidence, Role
<1>9. /\ x \in Candidate /\ y \in Candidate /\ BackedCandidate(x)
      /\ BackedCandidate(y) /\ \A tool \in DiningTools : HeardOf(y, tool)
  <2>1. x \in Candidate /\ y \in Candidate
    BY <1>1, <1>2, <1>3, <1>4 DEF IsEvidence, Joins
  <2>2. BackedCandidate(x) /\ BackedCandidate(y)
    BY <1>1, <1>2, <1>3, <1>4, <1>8 DEF Backed, Joins
  <2>3. \A tool \in DiningTools : HeardOf(y, tool)
    BY <1>1, <1>2, <1>4, <1>8 DEF Heard, Joins
  <2> QED
    BY <2>1, <2>2, <2>3
<1>10. \A n \in DOMAIN routes : BackedRoute(routes[n])
  BY <1>1 DEF Backed
<1>11. /\ r.event \in Rows
       /\ Said("check_route", <<r.from, r.to>>, Replies.check_route)
       /\ r.from = x.place /\ r.to = y.place
  <2>1. /\ p.route \in DOMAIN routes /\ RouteIsUsable(r) /\ r = routes[p.route]
        /\ r.from = x.place /\ r.to = y.place
    BY <1>2, <1>3, <1>4, <1>5, <1>8 DEF Joins
  <2> QED
    BY <1>10, <2>1 DEF BackedRoute
<1>12. y.queue # "closed" /\ y.table # "unavailable"
  <2>1. Found(e.dining, y.place) /\ Entry(e.dining, y.place) = y
    BY <1>1, <1>2, <1>4, EntryIsTheOne DEF IsEvidence, Joins
  <2> QED
    BY <1>7, <2>1 DEF AvailabilityStatus
<1>13. /\ Field["check_table_availability"] = "table"
       /\ Field["check_queue"] = "queue"
       /\ Field["check_ticket_availability"] = "ticket"
       /\ Field["check_opening_hours"] = "hours"
       /\ Field["get_poi_detail"] = "detail"
       /\ FieldTools = DOMAIN Field
       /\ {"check_table_availability", "check_queue",
           "check_ticket_availability", "check_opening_hours",
           "get_poi_detail"} \subseteq FieldTools
       /\ "check_table_availability" \in DiningTools
       /\ "check_queue" \in DiningTools
  BY DEF Field, FieldTools, DiningTools
<1>14. ASSUME Said("check_table_availability", <<y.place>>, {"unavailable"})
       PROVE  FALSE
  <2>1. {"unavailable"} \in SUBSET Replies["check_table_availability"]
    BY DEF Replies
  <2>2. y[Field["check_table_availability"]] \in {"unavailable"}
    BY <1>9, <1>13, <1>14, <2>1, SaidIsKept
  <2> QED
    BY <1>12, <1>13, <2>2
<1>15. ASSUME Said("check_table_availability", <<y.place>>, {"available"})
       PROVE  y.table = "available"
  <2>1. {"available"} \in SUBSET Replies["check_table_availability"]
    BY DEF Replies
  <2>2. y[Field["check_table_availability"]] \in {"available"}
    BY <1>9, <1>13, <1>15, <2>1, SaidIsKept
  <2> QED
    BY <1>13, <2>2
<1>16. ASSUME Said("check_queue", <<y.place>>, {"closed"})
       PROVE  FALSE
  <2>1. {"closed"} \in SUBSET Replies["check_queue"]
    BY DEF Replies
  <2>2. y[Field["check_queue"]] \in {"closed"}
    BY <1>9, <1>13, <1>16, <2>1, SaidIsKept
  <2> QED
    BY <1>12, <1>13, <2>2
<1>17. ASSUME NEW k \in DOMAIN d.actions
       PROVE  ActionSupported(d, d.actions[k])
  <2>1. PICK a : a = d.actions[k]
    OBVIOUS
  <2>2. PICK actions : actions = d.actions
    OBVIOUS
  <2>3. \/ ActionOf(x, y, addon, a)
        \/ a = Proposal("send_message", "wife") /\ Len(actions) > 1
    <3>1. k \in DOMAIN actions /\ a = actions[k]
      BY <2>1, <2>2
    <3> QED
      BY <1>7, <2>2, <3>1, ActionsAre
  <2>4. CASE a = Proposal("send_message", "wife") /\ Len(actions) > 1
    <3>1. a.type = "send_message" /\ Len(d.actions) > 1
      BY <2>2, <2>4 DEF Proposal
    <3> QED
      BY <2>1, <3>1 DEF ActionSupported
  <2>5. CASE a = Proposal("reserve_restaurant", y.place)
             /\ y.table = "available"
    <3>1. Said("check_table_availability", <<y.place>>, {"available"})
      BY <1>9, <1>13, <2>5 DEF BackedCandidate
    <3>2. a.type = "reserve_restaurant" /\ a.target = y.place
      BY <2>5 DEF Proposal
    <3> QED
      BY <2>1, <3>1, <3>2 DEF ActionSupported
  <2>6. CASE a = Proposal("book_ticket", x.place) /\ x.ticket = "available"
    <3>1. Said("check_ticket_availability", <<x.place>>, {"available"})
      BY <1>9, <1>13, <2>6 DEF BackedCandidate
    <3>2. a.type = "book_ticket" /\ a.target = x.place
      BY <2>6 DEF Proposal
    <3> QED
      BY <2>1, <3>1, <3>2 DEF ActionSupported
  <2>7. CASE a = Proposal("join_queue", y.place)
             /\ y.table # "available" /\ QueueIsOpen(y)
    <3>1. Said("check_queue", <<y.place>>, {y.queue})
      BY <1>9, <1>13, <2>7 DEF BackedCandidate, QueueIsOpen
    <3>2. Said("check_queue", <<y.place>>, {"short", "long"})
      <4>1. {y.queue} \subseteq {"short", "long"}
        BY <2>7 DEF QueueIsOpen
      <4> QED
        BY <3>1, <4>1, WiderAnswers
    <3>3. a.type = "join_queue" /\ a.target = y.place
      BY <2>7 DEF Proposal
    <3> QED
      BY <1>15, <2>1, <2>7, <3>2, <3>3 DEF ActionSupported
  <2>8. CASE a = Proposal("order_addon", addon) /\ addon # NoPlace
    <3>1. PICK i \in DOMAIN e.addon : AddonFits(e, y.place, e.addon[i])
                                      /\ addon = e.addon[i].place
      BY <1>1, <1>6, <2>8, SelectedFits
    <3>2. PICK z : z = e.addon[i]
      OBVIOUS
    <3>3. BackedCandidate(z)
      BY <1>1, <1>8, <3>2 DEF Backed
    <3>4. /\ z.hours = "open" /\ z.detail = "vends" /\ z.place = addon
          /\ FindRoute(e, y.place, addon) > 0
      BY <3>1, <3>2 DEF AddonFits
    <3>5. PICK n \in DOMAIN e.routes :
            /\ RouteIsUsable(e.routes[n])
            /\ e.routes[n].from = y.place /\ e.routes[n].to = addon
      BY <1>1, <3>4, FoundRoute
    <3>6. Said("check_route", <<y.place, addon>>, Replies.check_route)
      BY <1>8, <1>10, <3>5 DEF BackedRoute
    <3>7. /\ Said("check_opening_hours", <<addon>>, {"open"})
          /\ Said("get_poi_detail", <<addon>>, {"vends"})
      BY <1>13, <3>3, <3>4 DEF BackedCandidate
    <3>8. a.type = "order_addon" /\ a.target = addon
      BY <2>8 DEF Proposal
    <3> QED
      BY <1>7, <2>1, <3>6, <3>7, <3>8 DEF ActionSupported
  <2> QED
    BY <2>3, <2>4, <2>5, <2>6, <2>7, <2>8 DEF ActionOf
<1>18. d.events \subseteq Rows
  BY <1>7, <1>9, <1>11 DEF BackedCandidate
<1> QED
  BY <1>7, <1>11, <1>14, <1>16, <1>17, <1>18

\* The draft and the review at a place of the lists.
LEMMA DraftAt ==
  ASSUME EvidenceInv, phase \in {"expanding", "done"}, NEW e, e = Evidence,
         NEW i \in DOMAIN drafts
  PROVE  LET pairs == OrderedPairs(e)
         IN  /\ IsEvidence(e) /\ phase \in Finding
             /\ pairs[i] \in Pairs(e) /\ drafts[i] = Draft(request, e, pairs[i])
             /\ reviewed[i] = ReviewedDraft(drafts[i], e, request)
<1>1. phase \in Finding
  BY DEF Finding
<1>2. IsEvidence(e)
  BY <1>1, EvidenceIsTyped DEF EvidenceInv, Known
<1>3. /\ drafts = Drafts(request, e, MaxDrafts)
      /\ reviewed = [k \in DOMAIN drafts |->
                      ReviewedDraft(drafts[k], e, request)]
  BY DEF EvidenceInv, Made
<1>4. OrderedPairs(e)[i] \in Pairs(e)
      /\ drafts[i] = Draft(request, e, OrderedPairs(e)[i])
  BY <1>2, <1>3, DraftsOfPairs
<1> QED
  BY <1>1, <1>2, <1>3, <1>4

LEMMA InvBacksEvidence == EvidenceInv => EvidenceBacked
<1> SUFFICES ASSUME EvidenceInv, phase \in {"expanding", "done"},
                    NEW i \in DOMAIN drafts, reviewed[i].decision # "blocked"
             PROVE  LET d == drafts[i]
                    IN  /\ d.events \subseteq Rows
                        /\ Said("check_route", <<d.activity, d.dining>>,
                                Replies.check_route)
                        /\ \A k \in DOMAIN d.actions :
                             ActionSupported(d, d.actions[k])
                        /\ ~ Said("check_table_availability", <<d.dining>>,
                                  {"unavailable"})
                        /\ ~ Said("check_queue", <<d.dining>>, {"closed"})
  BY DEF EvidenceBacked, Rows
<1>1. PICK e : e = Evidence
  OBVIOUS
<1>2. PICK d : d = drafts[i]
  OBVIOUS
<1>3. PICK p : p = OrderedPairs(e)[i]
  OBVIOUS
<1>4. /\ phase \in Finding /\ p \in Pairs(e) /\ d = Draft(request, e, p)
      /\ ReviewedDraft(d, e, request).decision # "blocked"
  BY <1>1, <1>2, <1>3, DraftAt
<1>5. AvailabilityStatus(d, e) = "usable"
  BY <1>4, NothingFailed
<1> QED
  BY <1>1, <1>2, <1>4, <1>5, DraftIsBacked

\* A draft that the gate lets through rests on rows of tool_events of this
\* run and this search, in each thing that it proposes to do, whatever the
\* providers answer, the injector puts in their place, the cache repeats and
\* the limiter refuses. (012-final-review-gate.md:55-66)
THEOREM DraftsAreBacked == Spec => []EvidenceBacked
BY EvidenceInvHolds, InvBacksEvidence, PTL

----------------------------------------------------------------------------
(* The gate decides as the abstract policy does *)

\* A draft of the generator refers to what is there: of its checks only those
\* of its restaurant and of what it copies can fail.
LEMMA PartsAreThere ==
  ASSUME NEW q, NEW e, IsEvidence(e), NEW p \in Pairs(e),
         NEW d, d = Draft(q, e, p)
  PROVE  /\ CandidateIdsVerified(d, e) # "failed"
         /\ RouteVerified(d, e) # "failed"
         /\ TimelineDuration(d, q) # "failed"
         /\ ActionsReferenceDraftObjects(d, e) # "failed"
<1>1. PICK x : x = e.activity[p.activity]
  OBVIOUS
<1>2. PICK y : y = e.dining[p.dining]
  OBVIOUS
<1>3. PICK r : r = e.routes[p.route]
  OBVIOUS
<1>4. PICK addon : addon = SelectedAddon(q, e, y.place)
  OBVIOUS
<1>5. /\ d.activity = x.place /\ d.dining = y.place /\ d.route = r
      /\ d.timeline = Timeline(r) /\ d.addon = addon
      /\ d.actions = WriteActions(x, y, addon)
                     \o Message(q, WriteActions(x, y, addon))
  BY <1>1, <1>2, <1>3, <1>4 DEF Draft
<1>6. Joins(e, p)
  BY PairsJoin
<1>7. Found(e.activity, x.place) /\ Found(e.dining, y.place)
  BY <1>1, <1>2, <1>6 DEF Joins, Found
<1>8. /\ r.from = x.place /\ r.to = y.place
      /\ FindRoute(e, x.place, y.place) > 0
  <2>1. /\ p.route \in DOMAIN e.routes /\ RouteIsUsable(e.routes[p.route])
        /\ e.routes[p.route].from = x.place /\ e.routes[p.route].to = y.place
    BY <1>1, <1>2, <1>6 DEF Joins
  <2>2. FindRoute(e, x.place, y.place) = p.route
    BY <2>1, FoundRoute
  <2>3. p.route > 0
    BY <2>1 DEF IsEvidence
  <2> QED
    BY <1>3, <2>1, <2>2, <2>3
<1>9. CandidateIdsVerified(d, e) # "failed"
  BY <1>5, <1>7 DEF CandidateIdsVerified, Fails
<1>10. RouteVerified(d, e) # "failed"
  BY <1>5, <1>8 DEF RouteVerified, Fails, Verified
<1>11. TimelineDuration(d, q) # "failed"
  <2>1. RouteMinutes(r) \in {10, 130, Unknown}
    BY DEF RouteMinutes, Minutes
  <2>2. PICK t : t = d.timeline
    OBVIOUS
  <2>3. /\ t.activity = 150 /\ t.dining = 90
        /\ t.transfer \in {20, 10, 130} /\ t.buffer \in Nat
    BY <1>5, <2>1, <2>2 DEF Timeline, Least, Greatest, Unknown
  <2>4. Warns(TotalMinutes(t) \notin q.minutes) # "failed"
    BY DEF Warns
  <2> QED
    BY <2>2, <2>3, <2>4 DEF TimelineDuration
<1>12. ActionsReferenceDraftObjects(d, e) # "failed"
  <2>1. ASSUME NEW k \in DOMAIN d.actions
        PROVE  ActionRefersToDraft(d, e, d.actions[k])
    <3>1. PICK actions : actions = d.actions
      OBVIOUS
    <3>2. PICK a : a = actions[k]
      OBVIOUS
    <3>3. ActionOf(x, y, addon, a) \/ a = Proposal("send_message", "wife")
      BY <1>5, <2>1, <3>1, <3>2, ActionsAre
    <3>4. CASE a = Proposal("order_addon", addon) /\ addon # NoPlace
      <4>1. PICK i \in DOMAIN e.addon : AddonFits(e, y.place, e.addon[i])
                                        /\ addon = e.addon[i].place
        BY <1>4, <3>4, SelectedFits
      <4>2. Found(e.addon, addon) /\ Entry(e.addon, addon) = e.addon[i]
        BY <4>1, EntryIsTheOne DEF IsEvidence
      <4>3. /\ Entry(e.addon, addon).category = "addon"
            /\ FindRoute(e, y.place, addon) > 0
        BY <4>1, <4>2 DEF AddonFits
      <4>4. a.type = "order_addon" /\ a.target = addon
        BY <3>4 DEF Proposal
      <4> QED
        BY <1>5, <3>1, <3>2, <3>4, <4>2, <4>3, <4>4
           DEF ActionRefersToDraft, OrderAddonIsValid, Verified
    <3>5. CASE a = Proposal("send_message", "wife")
      BY <3>1, <3>2, <3>5 DEF ActionRefersToDraft, Proposal
    <3>6. CASE \/ a = Proposal("reserve_restaurant", y.place)
               \/ a = Proposal("book_ticket", x.place)
               \/ a = Proposal("join_queue", y.place)
      <4>1. \/ a.type = "reserve_restaurant" /\ a.target = y.place
            \/ a.type = "book_ticket" /\ a.target = x.place
            \/ a.type = "join_queue" /\ a.target = y.place
        BY <3>6 DEF Proposal
      <4> QED
        BY <1>5, <3>1, <3>2, <4>1 DEF ActionRefersToDraft
    <3> QED
      BY <3>3, <3>4, <3>5, <3>6 DEF ActionOf
  <2> QED
    BY <2>1 DEF ActionsReferenceDraftObjects, Fails
<1> QED
  BY <1>9, <1>10, <1>11, <1>12

LEMMA ChecksThatFail ==
  ASSUME NEW q, NEW e, IsEvidence(e), NEW p \in Pairs(e),
         NEW d, d = Draft(q, e, p)
  PROVE  LET failed == ReviewedDraft(d, e, q).failed
         IN  /\ "dining_availability" \in failed <=>
                  AvailabilityStatus(d, e) # "usable"
             /\ "sensitive_payload_scan" \in failed <=> "sensitive" \in d.copied
             /\ failed \subseteq {"dining_availability",
                                  "sensitive_payload_scan"}
<1> DEFINE checks == Checks(d, e, q)
<1>1. ReviewedDraft(d, e, q).failed =
        {n \in DOMAIN checks : checks[n] = "failed"}
  BY DEF ReviewedDraft
<1>2. \A condition : Warns(condition) # "failed"
  BY DEF Warns
<1>3. /\ ChildFriendlyConstraint(d, q) # "failed"
      /\ DiningPreferenceConstraint(d, q) # "failed"
      /\ DistanceConstraint(d, q) # "failed"
      /\ ActionsRequireConfirmation(d) # "failed"
  BY <1>2 DEF ChildFriendlyConstraint, DiningPreferenceConstraint,
              DistanceConstraint, ActionsRequireConfirmation
<1>4. DOMAIN checks =
        {"candidate_ids_verified", "dining_availability", "route_verified",
         "timeline_duration", "child_friendly_constraint",
         "dining_preference_constraint", "distance_constraint",
         "actions_require_confirmation", "actions_reference_draft_objects",
         "sensitive_payload_scan"}
  BY DEF Checks
<1>5. /\ checks.candidate_ids_verified # "failed"
      /\ checks.route_verified # "failed"
      /\ checks.timeline_duration # "failed"
      /\ checks.actions_reference_draft_objects # "failed"
  BY PartsAreThere DEF Checks
<1>6. /\ checks.child_friendly_constraint # "failed"
      /\ checks.dining_preference_constraint # "failed"
      /\ checks.distance_constraint # "failed"
      /\ checks.actions_require_confirmation # "failed"
  BY <1>3 DEF Checks
<1>7. /\ checks.dining_availability = "failed" <=>
           AvailabilityStatus(d, e) # "usable"
      /\ checks.sensitive_payload_scan = "failed" <=> "sensitive" \in d.copied
  BY DEF Checks, DiningAvailability, SensitivePayloadScan, Fails
<1> HIDE DEF checks
<1> QED
  BY <1>1, <1>4, <1>5, <1>6, <1>7

\* What is found out about a pair, as the abstract policy has it.
LEMMA SummaryIs ==
  ASSUME NEW x \in Candidate, NEW y \in Candidate, NEW s, s = Summary(x, y)
  PROVE  /\ s \in Policy!Evidence
         /\ s.ticket = "unavailable" <=> x.ticket = "unavailable"
         /\ Policy!DiningIsUsable(s) <=> DiningIsUsable(y)
         /\ s.queue = "closed" <=> y.queue = "closed"
         /\ s.table = "unavailable" <=> y.table = "unavailable"
         /\ s.route = "usable" <=> FindRoute(Evidence, x.place, y.place) > 0
         /\ s.sensitive = ("sensitive" \in {x.detail, y.detail})
<1>1. /\ x.ticket \in {"available", "unavailable", "none"}
      /\ y.table \in {"available", "unavailable", "none"}
      /\ y.queue \in {"short", "long", "closed", "other", "none"}
  BY DEF Candidate, Replies
<1>2. s = [ ticket    |-> s.ticket, table |-> s.table, queue |-> s.queue,
            route     |-> s.route, sensitive |-> s.sensitive ]
  BY DEF Summary
<1>3. /\ s.ticket = IF x.ticket = "none" THEN "unknown" ELSE x.ticket
      /\ s.table = IF y.table = "none" THEN "unknown" ELSE y.table
      /\ s.queue = IF QueueIsOpen(y) THEN "open"
                   ELSE IF y.queue = "none" THEN "unknown" ELSE y.queue
  BY DEF Summary
<1>4. /\ s.route \in {"usable", "failed"}
      /\ s.route = "usable" <=> FindRoute(Evidence, x.place, y.place) > 0
  BY DEF Summary
<1>5. s.sensitive = ("sensitive" \in {x.detail, y.detail})
  BY DEF Summary
<1>6. s \in Policy!Evidence
  <2>1. /\ s.ticket \in {"available", "unavailable", "unknown"}
        /\ s.table \in {"available", "unavailable", "unknown"}
        /\ s.queue \in {"open", "closed", "other", "unknown"}
        /\ s.route \in {"usable", "failed"} /\ s.sensitive \in BOOLEAN
    BY <1>1, <1>3, <1>4, <1>5 DEF QueueIsOpen
  <2> QED
    BY <1>2, <2>1 DEF Policy!Evidence
<1>7. /\ s.ticket = "unavailable" <=> x.ticket = "unavailable"
      /\ s.table = "unavailable" <=> y.table = "unavailable"
      /\ s.table = "available" <=> y.table = "available"
      /\ s.table = "unknown" <=> y.table = "none"
  BY <1>1, <1>3
<1>8. /\ s.queue = "closed" <=> y.queue = "closed"
      /\ s.queue = "open" <=> QueueIsOpen(y)
      /\ s.queue = "unknown" <=> y.queue = "none"
  BY <1>1, <1>3 DEF QueueIsOpen
<1>9. Policy!DiningIsUsable(s) <=> DiningIsUsable(y)
  BY <1>7, <1>8 DEF Policy!DiningIsUsable, DiningIsUsable
<1> QED
  BY <1>4, <1>5, <1>6, <1>7, <1>8, <1>9

\* Pairs of the generator are the pairs that the abstract policy calls usable.
LEMMA UsablePairs ==
  ASSUME NEW e, IsEvidence(e), e = Evidence,
         NEW i \in DOMAIN e.activity, NEW j \in DOMAIN e.dining,
         NEW s, s = Summary(e.activity[i], e.dining[j])
  PROVE  Policy!PairIsUsable(s) <=>
           \E p \in Pairs(e) : p.activity = i /\ p.dining = j
<1>1. PICK x : x = e.activity[i]
  OBVIOUS
<1>2. PICK y : y = e.dining[j]
  OBVIOUS
<1>3. /\ x \in Candidate /\ y \in Candidate /\ s = Summary(x, y)
  BY <1>1, <1>2 DEF IsEvidence
<1>4. Policy!PairIsUsable(s) <=>
        /\ FindRoute(e, x.place, y.place) > 0
        /\ ActivityIsUsable(x) /\ DiningIsUsable(y)
  BY <1>3, SummaryIs DEF Policy!PairIsUsable, ActivityIsUsable
<1>5. ASSUME Policy!PairIsUsable(s)
      PROVE  \E p \in Pairs(e) : p.activity = i /\ p.dining = j
  <2>1. PICK n \in DOMAIN e.routes :
          /\ RouteIsUsable(e.routes[n])
          /\ e.routes[n].from = x.place /\ e.routes[n].to = y.place
    BY <1>4, <1>5, FoundRoute
  <2>2. PICK p : p = [activity |-> i, dining |-> j, route |-> n]
    OBVIOUS
  <2>3. p.activity = i /\ p.dining = j /\ p.route = n /\ IsPair(p)
    BY <2>2 DEF IsPair
  <2>4. Joins(e, p)
    BY <1>1, <1>2, <1>4, <1>5, <2>1, <2>3 DEF Joins
  <2> QED
    BY <2>3, <2>4, PairsJoin
<1>6. ASSUME NEW p \in Pairs(e), p.activity = i, p.dining = j
      PROVE  Policy!PairIsUsable(s)
  <2>1. Joins(e, p)
    BY PairsJoin
  <2>2. FindRoute(e, x.place, y.place) = p.route
    BY <1>1, <1>2, <1>6, <2>1, FoundRoute DEF Joins
  <2>3. p.route > 0
    BY <2>1 DEF Joins, IsEvidence
  <2> QED
    BY <1>1, <1>2, <1>4, <1>6, <2>1, <2>2, <2>3 DEF Joins
<1> QED
  BY <1>5, <1>6

\* The review of a pair's draft says what the policy says of the pair.
LEMMA VerdictOfPair ==
  ASSUME NEW q, NEW e, IsEvidence(e), e = Evidence, NEW p \in Pairs(e),
         NEW d, d = Draft(q, e, p),
         NEW s, s = Summary(e.activity[p.activity], e.dining[p.dining]),
         NEW review, review = ReviewedDraft(d, e, q)
  PROVE  VerdictOf(review) = Policy!GateVerdict(s)
<1>1. Joins(e, p)
  BY PairsJoin
<1>2. PICK x : x = e.activity[p.activity]
  OBVIOUS
<1>3. PICK y : y = e.dining[p.dining]
  OBVIOUS
<1>4. x \in Candidate /\ y \in Candidate /\ s = Summary(x, y)
  BY <1>1, <1>2, <1>3 DEF IsEvidence, Joins
<1>5. d.dining = y.place /\ d.copied = {x.detail, y.detail}
  BY <1>2, <1>3 DEF Draft
<1>6. Found(e.dining, y.place) /\ Entry(e.dining, y.place) = y
  BY <1>1, <1>3, EntryIsTheOne DEF IsEvidence, Joins
<1>7. PICK status : status = AvailabilityStatus(d, e)
  OBVIOUS
<1>8. /\ y.queue = "closed" /\ y.table = "unavailable" =>
           status = "table_and_queue_unavailable"
      /\ y.queue = "closed" /\ y.table # "unavailable" =>
           status = "queue_closed"
      /\ y.queue # "closed" /\ y.table = "unavailable" =>
           status = "table_unavailable"
      /\ y.queue # "closed" /\ y.table # "unavailable" => status = "usable"
  BY <1>5, <1>6, <1>7 DEF AvailabilityStatus
<1>9. PICK failed : failed = review.failed
  OBVIOUS
<1>10. /\ "dining_availability" \in failed <=> status # "usable"
       /\ "sensitive_payload_scan" \in failed <=> "sensitive" \in d.copied
       /\ failed \subseteq {"dining_availability", "sensitive_payload_scan"}
  BY <1>7, <1>9, ChecksThatFail
<1>11. review.availability = status
  BY <1>7 DEF ReviewedDraft
<1>12. VerdictOf(review) =
         IF status # "usable" THEN status
         ELSE IF "sensitive" \in d.copied THEN "boundary" ELSE "safe"
  BY <1>9, <1>10, <1>11 DEF VerdictOf
<1>13. /\ s.queue = "closed" <=> y.queue = "closed"
       /\ s.table = "unavailable" <=> y.table = "unavailable"
       /\ s.sensitive = ("sensitive" \in {x.detail, y.detail})
  BY <1>4, SummaryIs
<1> QED
  BY <1>5, <1>8, <1>12, <1>13 DEF Policy!GateVerdict

LEMMA InvAgrees == EvidenceInv => ReviewAgrees
<1> SUFFICES ASSUME EvidenceInv, phase \in {"expanding", "done"},
                    NEW i \in DOMAIN enriched.activity,
                    NEW j \in DOMAIN enriched.dining
             PROVE  LET x == enriched.activity[i]
                        y == enriched.dining[j]
                        s == Summary(x, y)
                    IN  /\ s \in Policy!Evidence
                        /\ IF Policy!PairIsUsable(s)
                           THEN Cardinality(DraftsOf(x, y)) = 1
                                \/ Len(drafts) = MaxDrafts
                           ELSE DraftsOf(x, y) = {}
                        /\ \A k \in DraftsOf(x, y) :
                             VerdictOf(reviewed[k]) = Policy!GateVerdict(s)
  BY DEF ReviewAgrees
<1>1. PICK e : e = Evidence
  OBVIOUS
<1>2. PICK x : x = enriched.activity[i]
  OBVIOUS
<1>3. PICK y : y = enriched.dining[j]
  OBVIOUS
<1>4. PICK s : s = Summary(x, y)
  OBVIOUS
<1>5. PICK pairs : pairs = OrderedPairs(e)
  OBVIOUS
<1>6. /\ e.activity = enriched.activity /\ e.dining = enriched.dining
      /\ x = e.activity[i] /\ y = e.dining[j]
  BY <1>1, <1>2, <1>3 DEF Evidence
<1>7. IsEvidence(e) /\ drafts = Drafts(request, e, MaxDrafts)
  BY <1>1, EvidenceIsTyped DEF EvidenceInv, Known, Made, Finding
<1>8. /\ \A k \in DOMAIN drafts : k \in DOMAIN pairs /\ pairs[k] \in Pairs(e)
      /\ \A p \in Pairs(e) : \/ Len(drafts) = MaxDrafts
                             \/ \E k \in DOMAIN drafts : pairs[k] = p
      /\ \A k, m \in DOMAIN drafts : pairs[k] = pairs[m] => k = m
  BY <1>5, <1>7, DraftsOfPairs
<1>9. ASSUME NEW k \in DOMAIN drafts
      PROVE  /\ k \in DraftsOf(x, y) <=>
                  pairs[k].activity = i /\ pairs[k].dining = j
             /\ k \in DraftsOf(x, y) =>
                  VerdictOf(reviewed[k]) = Policy!GateVerdict(s)
  <2>1. PICK p : p = pairs[k]
    OBVIOUS
  <2>2. PICK d : d = drafts[k]
    OBVIOUS
  <2>3. PICK review : review = reviewed[k]
    OBVIOUS
  <2>4. /\ p \in Pairs(e) /\ d = Draft(request, e, p)
        /\ review = ReviewedDraft(d, e, request)
    BY <1>1, <1>5, <2>1, <2>2, <2>3, DraftAt
  <2>5. Joins(e, p)
    BY <1>7, <2>4, PairsJoin
  <2>6. d.activity = e.activity[p.activity].place
        /\ d.dining = e.dining[p.dining].place
    BY <2>4 DEF Draft
  <2>7. d.activity = x.place <=> p.activity = i
    BY <1>6, <1>7, <2>5, <2>6 DEF Joins, IsEvidence, PlacesOnce
  <2>8. d.dining = y.place <=> p.dining = j
    BY <1>6, <1>7, <2>5, <2>6 DEF Joins, IsEvidence, PlacesOnce
  <2>9. k \in DraftsOf(x, y) <=> p.activity = i /\ p.dining = j
    BY <2>2, <2>7, <2>8 DEF DraftsOf
  <2>10. ASSUME p.activity = i, p.dining = j
         PROVE  VerdictOf(review) = Policy!GateVerdict(s)
    <3>1. s = Summary(e.activity[p.activity], e.dining[p.dining])
      BY <1>4, <1>6, <2>10
    <3> QED
      BY <1>1, <1>7, <2>4, <3>1, VerdictOfPair
  <2> QED
    BY <2>1, <2>3, <2>9, <2>10
<1>10. DraftsOf(x, y) \subseteq DOMAIN drafts
  BY DEF DraftsOf
<1>11. s \in Policy!Evidence
  <2>1. x \in Candidate /\ y \in Candidate
    BY <1>6, <1>7 DEF IsEvidence
  <2> QED
    BY <1>4, <2>1, SummaryIs
<1>12. Policy!PairIsUsable(s) <=>
         \E p \in Pairs(e) : p.activity = i /\ p.dining = j
  <2>1. s = Summary(e.activity[i], e.dining[j])
        /\ i \in DOMAIN e.activity /\ j \in DOMAIN e.dining
    BY <1>4, <1>6
  <2> QED
    BY <1>1, <1>7, <2>1, UsablePairs
<1>13. ASSUME Policy!PairIsUsable(s), Len(drafts) # MaxDrafts
       PROVE  Cardinality(DraftsOf(x, y)) = 1
  <2>1. PICK p \in Pairs(e) : p.activity = i /\ p.dining = j
    BY <1>12, <1>13
  <2>2. PICK k \in DOMAIN drafts : pairs[k] = p
    BY <1>8, <1>13
  <2>3. \A q \in Pairs(e) : q.activity = i /\ q.dining = j => q = p
    BY <1>7, <2>1, PairsJoin
  <2>4. DraftsOf(x, y) = {k}
    BY <1>8, <1>9, <1>10, <2>1, <2>2, <2>3
  <2> QED
    BY <2>4, FS_Singleton
<1>14. ASSUME ~ Policy!PairIsUsable(s)
       PROVE  DraftsOf(x, y) = {}
  BY <1>8, <1>9, <1>10, <1>12, <1>14
<1> QED
  BY <1>2, <1>3, <1>4, <1>9, <1>10, <1>11, <1>13, <1>14

\* The generator and the gate decide, in all their detail, as the abstract
\* policy does from which the planning workflow's model takes its drafts and
\* verdicts: a pair has its one draft when the policy calls it usable, and
\* the verdict on it is the policy's. (itinerary_generation.py:162-201)
THEOREM GateFollowsPolicy == Spec => []ReviewAgrees
BY EvidenceInvHolds, InvAgrees, PTL

================================================================================
