\* Three messages, batches of two calls in every mode, updates, cancellation and a
\* context that hooks shorten, fold and add to; the loop implements Conversation.
CONSTANTS
  UserMessages = {m1, m2, m3}
  MaxTurns = 3
  MaxCalls = 2
  MaxInflight = 1
  MaxRewrites = 1
  Policy = "TokenBudgetPolicy"
  Long <- FirstResults
  StopHook = TRUE
  Modes = {"sequential", "parallel"}
  SteeringMode = "all"
  FollowUpMode = "one-at-a-time"
SPECIFICATION Spec
SYMMETRY Symmetry
INVARIANTS
  UpdatesScoped
  TurnsAreClosed
  PairedAtRequest
  TruncatedIsAnswered
  AccountsAgree
  MessagesConserved
PROPERTIES
  ImplementsConversation
