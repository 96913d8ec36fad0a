\* One followed request of either gateway and one other request on each of the
\* four servers; bodies that hit the limit exactly and jump over it; secret files
\* of modes 0600, 0640 and 0644.  The process ends.
SPECIFICATION ProcessFairSpec
CONSTANTS
  MaxBody = 4
  ChunkSizes = {1, 4}
  MaxConns = 1
  Modes <- SomeModes
INVARIANTS AnsweredOnce EndedIsWhole HangUpStopsRelay OnlyAcceptedForwarded
PROPERTIES ForwardEnds ShutdownEnds
CHECK_DEADLOCK FALSE
