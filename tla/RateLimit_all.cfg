\* Three threads, whose checks may be interrupted or not; a window of two attempts in three
\* ticks, a block of four ticks after four failures.
CONSTANTS
  Workers = {w1, w2, w3}
  RATE_LIMIT_WINDOW = 3
  RATE_LIMIT_MAX_ATTEMPTS = 2
  BLOCK_THRESHOLD = 4
  BLOCK_DURATION = 4
SPECIFICATION FairSpec
INVARIANTS WindowBounded FailuresBounded 
PROPERTY PatienceAdmits
