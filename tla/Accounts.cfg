\* Two requests at a time, two jobs of every kind, one failure.
SPECIFICATION FairSpec
CONSTANTS
  Emails = {"ann", "bea"}
  Names = {"oil", "soap"}
  Ratings = {2}
  Requests = {1, 2}
  Openings <- MCOpenings
  SeedData <- MCSeed
  MaxSerial = 22
  MaxJobs = 2
  MaxFaults = 1
INVARIANTS ToldIsStored RatingTrue ReviewsEarned
 
CHECK_DEADLOCK FALSE
