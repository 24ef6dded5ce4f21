\* Two handlers, the older of two points malformed; nothing fails any more in the end.  The phone may have nothing left to send.
CONSTANTS
  h1 = h1
  h2 = h2
  h3 = h3
  None = None
  Handler = {h1, h2}
  MaxPoint = 2
  Malformed = {1}
  ShareWith = TRUE
SPECIFICATION FairSpec
PROPERTIES EveryBatchAnswered QueueIsStored
CHECK_DEADLOCK FALSE
