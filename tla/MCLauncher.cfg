CONSTANTS
  Texts <- MCTexts
  PoolSizes = {0, 1}
  MaxInt = 127
  MaxDigits = 3
  MaxFields = 4
  Fields <- MCFields
SPECIFICATION MCSpec
CHECK_DEADLOCK FALSE
INVARIANTS
  OutcomeFitsFiles
  SearchIsRight
  LastNumberIsCut
  IntegersAreRead
  ListsBeginRight
