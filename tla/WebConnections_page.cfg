SPECIFICATION FairSpec
CONSTANTS
  Failing = {"offline"}
  MaxRows = 2
  MaxForms = 1
  MaxPolls = 1
  MaxClicks = 2
  MaxFaults = 1
INVARIANT ConnectionsTypeOK
INVARIANT SavedMeansQueued
INVARIANT SecondRowOnlyAfterFault
PROPERTY DeletedStaysDeleted
PROPERTY CardsConverge
PROPERTY FormAnswers
CHECK_DEADLOCK FALSE
