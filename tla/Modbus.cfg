SPECIFICATION FairSpec
CONSTANTS
  MaxDamaged = 1
  MaxUnderway = 2
INVARIANTS
  TypeOK
  AnswersFit
  ReadsAreCurrent
  FailuresHaveCauses
PROPERTY
  TransactionsEnd
