SPECIFICATION ScreenSpec
CONSTANTS
  Typed <- MCTyped
  Uploads <- MCUploads
  Scanned <- MCScanned
  Inherited <- MCInherited
  Prices = {0, 100}
  Answers = {"lost", "12.50", "1000", "12abc"}
  Objects <- MCObjects
  MaxObjects = 3
  Wrong <- MCWrong
INVARIANT AcceptsExactly
INVARIANT ReloadKeepsAccepted
INVARIANT TwinsAgree
INVARIANT ScannedIsUsable
INVARIANT AmountIsStated
PROPERTY SavedComesBack
INVARIANT ChecksumsAgree
INVARIANT GenuineOrRefused
CHECK_DEADLOCK FALSE
