CONSTANTS
  Texts <- MCTexts
  Sep = ","
SPECIFICATION Spec
INVARIANTS
  CopyIsGrouped
  DigitsKept
  
CHECK_DEADLOCK FALSE
