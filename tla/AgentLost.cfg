\* Two continuations and a prompt race for a queued message.
CONSTANTS
  UserMessages = {m1, m2}
  MaxTurns = 2
  MaxCalls = 0
  MaxInflight = 0
  MaxRewrites = 0
  Policy = "TokenBudgetPolicy"
  Long = {}
  StopHook = FALSE
  Modes = {"sequential"}
  SteeringMode = "one-at-a-time"
  FollowUpMode = "one-at-a-time"
  Callers = {c1, c2}
  Settings = {s1}
  Resets = FALSE
SPECIFICATION AgentSpec
INVARIANTS
  NothingLost
