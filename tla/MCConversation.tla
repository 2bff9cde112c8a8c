--------------------------- MODULE MCConversation ---------------------------
(***************************************************************************)
(* Instances of Conversations for TLC.                                     *)
(***************************************************************************)
EXTENDS Conversations, TLC

CONSTANTS r1, r2, r3, r4

\* A streamed first request, and follow-ups.
Streams ==
  (r1 :> {"stream"}) @@ (r2 :> {"clarify", "replan"}) @@ (r3 :> {"replan"})
  @@ (r4 :> {})

\* A first request and two follow-ups or decisions.
FollowUps ==
  (r1 :> {"start"}) @@ (r2 :> {"clarify", "replan", "confirm"})
  @@ (r3 :> {"clarify", "replan", "confirm", "decline"}) @@ (r4 :> {})

\* A first request and three decisions, at least two of them declines.
Decisions ==
  (r1 :> {"start"}) @@ (r2 :> {"confirm", "decline"})
  @@ (r3 :> {"decline"}) @@ (r4 :> {"decline"})

SomeMixes == {Streams, FollowUps, Decisions}

============================================================================
