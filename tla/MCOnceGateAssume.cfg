CONSTANTS
  Threads = {t1, t2}
  NoThread = NoThread
  UseQuiescentCounter = TRUE
  Cancellation = FALSE
  GateMisuse = FALSE
SPECIFICATION OnceSpec
INVARIANT AssumedDone
