\* Three tool calls at once; each call comes once, then the server may wait forever.
SPECIFICATION Spec
CHECK_DEADLOCK FALSE
CONSTANTS
  Requests = {r1, r2, r3}
  Grants = {g1, g2}
  g1 = g1
  g2 = g2
  Default = Default
  None = None
  HasBase <- MCHasBase
  HasPro <- MCHasPro
INVARIANTS TypeOK SummaryTornOnlyByOthers ReportedCheckIsNoOlder
PROPERTIES EveryCallIsAnswered
