CONSTANTS
  h1 = h1
  h2 = h2
  h3 = h3
  Handlers <- MCHandlers
  Jobs <- Kinds
  Intents <- MCIntents
  MerchantPolicy <- MCPolicy
  Reason = "timeout"
  Draw <- MCDraw
  Begun <- MCBegun

CHECK_DEADLOCK FALSE

SPECIFICATION Spec

INVARIANTS
  RecoveredIsCredited

PROPERTIES
  ImplementsLinkOnce
