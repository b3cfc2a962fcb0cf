CONSTANTS
  Streams = {s1, s2}
  Polls = {p1}
  Messages = {m1, m2}
  Failure = failure
  End = none
  MaxEvents = 2
SPECIFICATION FairSpec
INVARIANTS
  TypeOK
  ExactStream
  DoneIsFinal
  PollConsistent
PROPERTIES
  StreamSpec
  WorkerAsStored
  EveryStreamEnds
