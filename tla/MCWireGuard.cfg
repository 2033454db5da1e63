SPECIFICATION Spec
CONSTANTS
  None = None
  ReplayWindowSize = 4
  BitmapBits = 32
  MaxOurs = 3
  MaxTheirs = 1
  RekeyAfter = 1
  RejectAfter = 3
  ResetAfter = 4
  Retry = 1
  Journeys <- MCJourneys
CHECK_DEADLOCK FALSE
INVARIANTS TypeOK OursDeliveredOnce SendsAgreed OneSlotPerKey
PROPERTIES KeyKept Reconnects
