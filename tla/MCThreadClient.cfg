SPECIFICATION FairSpec
CONSTANTS
  Threads = {t1}
  User = user
  NoActor = noactor
  MaxRuns = 4
INVARIANTS TypeOK AnswersAreDeliberate InSync CardIsPending
PROPERTY SubmissionsEnd
