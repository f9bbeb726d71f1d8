SPECIFICATION Spec
CONSTANTS
  LevelOrder <- MCLevelOrder
  FormatText <- MCFormatText
  ConfLine <- MCConfLine
  Unopenable = {"bad"}
  MaxLines = 4
  MaxLogs = 3
  OldLines = {1, 2}
INVARIANTS
  TypeOK
  ConfigIsHonoured
  LinesSurvive
  FileIsBounded
CHECK_DEADLOCK FALSE
