SPECIFICATION ScreenSpec
CONSTANTS
  Typed <- MCTyped
  Uploads <- MCUploads
  Scanned <- MCScanned
  Inherited <- MCInherited
  Prices = {0, 100}
  Answers = {"lost", "12.50", "1000", "12abc"}
  Objects <- MCObjects
  MaxObjects = 3
  Wrong <- MCWrong
CHECK_DEADLOCK FALSE
INVARIANT GenuineIsStored
