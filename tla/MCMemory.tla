------------------------------ MODULE MCMemory ------------------------------
(***************************************************************************)
(* Instances of MemoryGovernance for TLC.                                  *)
(***************************************************************************)
EXTENDS MemoryGovernance, TLC

Keys == <<"activity_style", "spouse_lighter_meals">>

\* Requests enough to bring the row of the first key into every status, with
\* and without a trusted confidence and an expiry, and the second into use.
Create(k, status, confidence, expires) ==
  [ kind |-> "create", key |-> k, status |-> status,
    confidence |-> confidence, expires |-> expires ]
Update(k, confidence, expires) ==
  [ kind |-> "update", key |-> k, confidence |-> confidence,
    expires |-> expires ]
Control(k, status) == [ kind |-> "control", key |-> k, status |-> status ]

Requests ==
  LET first == Keys[1]  second == Keys[2]
  IN  { Create(first, "active", "high", "soon"),
        Create(first, "candidate", "high", "never"),
        Create(first, "expired", "low", "never"),
        Create(second, "active", "middle", "never"),
        Update(first, "high", "soon"),
        Update(first, "middle", "never"),
        Control(second, "ignored") }
      \cup { Control(first, s) : s \in Status \ {"ignored"} }

SameActors == Permutations(Request) \cup Permutations(Run)

============================================================================
