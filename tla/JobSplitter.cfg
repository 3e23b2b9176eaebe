\* All payloads of up to nine elements, every legal and illegal chunk size.
CONSTANTS
  MaxPayload = 9
  DefaultChunk = 4
SPECIFICATION FairSpec
INVARIANTS
  TypeOK
  ExactlyOnce
  SplitsInside
PROPERTY AllExecuted
\* The behaviour ends when the last frame has been executed.
CHECK_DEADLOCK FALSE
