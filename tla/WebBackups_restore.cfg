SPECIFICATION FairSpec
CONSTANTS
  Calls = {1, 2}
  MaxChanges = 2
  MaxCrashes = 1
INVARIANT BackupsTypeOK
INVARIANT NothingLost
PROPERTY ReplacedAtOnce
PROPERTY SubmissionEnds
