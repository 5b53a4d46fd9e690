\* Two callers race to prompt, continue, wait and abort over several runs with a tool,
\* with resets and replaced transcripts under way.
CONSTANTS
  UserMessages = {m1}
  MaxTurns = 2
  MaxCalls = 1
  MaxInflight = 1
  MaxRewrites = 0
  Policy = "TokenBudgetPolicy"
  Long = {}
  StopHook = TRUE
  Modes = {"sequential", "parallel"}
  SteeringMode = "one-at-a-time"
  FollowUpMode = "one-at-a-time"
  Callers = {c1, c2}
  Settings = {s1}
  Resets = TRUE
SPECIFICATION AgentFairSpec
INVARIANTS
  SingleRun
PROPERTIES
  MessagesKept
  WaitersSeeTheEnd
  CallsReturn
