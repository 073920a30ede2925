SPECIFICATION FairSpec
CONSTANTS
  Writers = {a, b, c}
  Readers = {c, d}
INVARIANTS WritersExclude
PROPERTIES SharedUnlessWritersCollide AttemptsSucceed
