------------------------------ MODULE RateLimiter ------------------------------
(***************************************************************************)
(* The fixed-window rate limiter of the tool gateway, for one key: one     *)
(* tool of one provider within the scope of one user.  The key is a        *)
(* counter in Redis that every call increments; the call that finds it at  *)
(* one gives it its expiry.  Increment and expiry are two requests to      *)
(* Redis, and a client may die between them.                               *)
(***************************************************************************)
EXTENDS Naturals

CONSTANTS
  Client,  \* the workflows that call tools for this user
  Limit    \* calls that a window allows

ASSUME LimitAssumption == Limit \in Nat

VARIABLES
  counter,   \* the key: its count (0 when there is no key), and whether it
             \* expires
  turn,      \* how far each client's call has come, the count it was given,
             \* and whether the window it was counted in has ended
  admitted,  \* history: the counts let through since the key was created
  orphaned   \* history: a client died between its increment and its expiry

limiter == <<counter, turn, admitted, orphaned>>

NoKey  == [count |-> 0, expires |-> FALSE]
NoCall == [at |-> "idle", number |-> 0, late |-> FALSE]

LimiterInit ==
  /\ counter = NoKey
  /\ turn = [c \in Client |-> NoCall]
  /\ admitted = {}
  /\ orphaned = FALSE

Increment(c) ==
  /\ turn[c].at = "idle"
  /\ counter' = [counter EXCEPT !.count = @ + 1]
  /\ turn' = [turn EXCEPT ![c] = [at |-> "counted",
                                  number |-> counter.count + 1,
                                  late |-> FALSE]]
  /\ UNCHANGED <<admitted, orphaned>>

\* The client that created the key still has to give it its expiry.
OwesExpiry(c) == turn[c].at = "counted" /\ turn[c].number = 1

SetExpiry(c) ==
  /\ OwesExpiry(c)
  /\ counter' = [counter EXCEPT !.expires = @ \/ counter.count > 0]
  /\ turn' = [turn EXCEPT ![c].at = "armed"]
  /\ UNCHANGED <<admitted, orphaned>>

\* Mutant of Allowed: one call too many.
AllowedOneMore(c) == turn[c].number <= Limit + 1

Allowed(c) == turn[c].number <= Limit

\* Mutant of Return: the key is left without an expiry.
ReturnAtOnce(c) ==
  /\ turn[c].at # "idle"
  /\ turn' = [turn EXCEPT ![c] = NoCall]
  /\ UNCHANGED <<counter, admitted, orphaned>>

\* The call returns its decision.  What a late call was given belongs to a
\* window that is over.
Return(c) ==
  /\ turn[c].at # "idle" /\ ~ OwesExpiry(c)
  /\ admitted' = IF Allowed(c) /\ ~ turn[c].late
                 THEN admitted \union {turn[c].number} ELSE admitted
  /\ turn' = [turn EXCEPT ![c] = NoCall]
  /\ UNCHANGED <<counter, orphaned>>

\* The client's process ends during its call.
Die(c) ==
  /\ turn[c].at # "idle"
  /\ orphaned' = (orphaned \/ OwesExpiry(c))
  /\ turn' = [turn EXCEPT ![c] = NoCall]
  /\ UNCHANGED <<counter, admitted>>

\* Redis drops the key when its time is up.
WindowEnds ==
  /\ counter.expires
  /\ counter' = NoKey
  /\ turn' = [c \in Client |->
                [turn[c] EXCEPT !.late = @ \/ turn[c].at # "idle"]]
  /\ admitted' = {}
  /\ UNCHANGED orphaned

LimiterNext ==
  \/ \E c \in Client :
       Increment(c) \/ SetExpiry(c) \/ Return(c) \/ Die(c)
  \/ WindowEnds

LimiterSpec == LimiterInit /\ [][LimiterNext]_limiter

----------------------------------------------------------------------------

LimiterTypeOK ==
  /\ counter \in [count : Nat, expires : BOOLEAN]
  /\ turn \in [Client -> [at : {"idle", "counted", "armed"}, number : Nat,
                          late : BOOLEAN]]
  /\ admitted \subseteq Nat
  /\ orphaned \in BOOLEAN

\* A window lets at most Limit calls through: their counts are among the
\* first Limit, and no count is given to two calls of one window, however
\* late the calls return.  (rate_limit.py:33, FixedWindowRateLimiter.allow)
GrantsBounded ==
  /\ admitted \subseteq 1 .. Limit
  /\ \A c \in Client :
       turn[c].at # "idle" /\ ~ turn[c].late =>
         /\ turn[c].number \notin admitted
         /\ \A d \in Client \ {c} :
              turn[d].at # "idle" /\ ~ turn[d].late =>
                turn[d].number # turn[c].number

\* A counter that never expires refuses the user for ever.  There is one
\* only while the client that created it has yet to set its expiry, or when
\* that client died before it did.  (rate_limit.py:35-37)
EndlessOnlyByDeath ==
  counter.count > 0 /\ ~ counter.expires =>
    orphaned \/ \E c \in Client : OwesExpiry(c)

============================================================================
