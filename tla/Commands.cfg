CONSTANTS
  Client = {c1, c2}
  Word <- MCWord
  Number <- MCNumber
  NonAscii = {"umlaut"}
  MaxMessages = 2
SPECIFICATION Spec
INVARIANTS
  RequestsFitTheLink
PROPERTIES
  RejectedIsHarmless
  OnlyItsSenderLeaves
CHECK_DEADLOCK FALSE
