SPECIFICATION FairSpec
CONSTANTS
  None = None
  Thread = {t1, t2, t3, t4}
  Calls <- MCCalls
INVARIANTS WriterAlone WaitingWriterGatesReaders
PROPERTIES OvertakenOnce WriterNotStarved
