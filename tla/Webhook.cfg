CONSTANTS
  named = named
  orphan = orphan
  e1 = e1
  e2 = e2
  e3 = e3
  h1 = h1
  h2 = h2
  h3 = h3
  Links <- MCLinks
  Amounts <- MCAmounts
  Named = named
  Events <- MCEvents
  About <- MCAbout
  Handlers <- MCThree
  PaysAfterSave = FALSE
  SavesFail = TRUE
  MaxCrashes = 2

CHECK_DEADLOCK FALSE

SPECIFICATION FairSpec

INVARIANTS
  OutcomeIsTrue

PROPERTIES
  OutcomeIsFinal
  ImplementsRevenueLedger
  PaidIsCreditedOrRecorded
