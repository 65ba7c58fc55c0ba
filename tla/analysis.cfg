SPECIFICATION FairSpec
CONSTANTS
  Handlers = {h1, h2, h3}
  t1 = t1
  t2 = t2
  Transcripts = {t1, t2}
  Documents <- DocumentsDef
  Summary = "summary"
  NoTranscript = none
  Nobody = nobody
  NoDocument = nodoc
INVARIANTS  PaidOnce
PROPERTIES CatalogueSpec AbandonedIsTakenOver
CHECK_DEADLOCK FALSE
