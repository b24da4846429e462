SPECIFICATION Spec
CONSTANTS
  Characters <- MCCharacters
  Streams <- MCStreams
  Pipelined = FALSE
INVARIANTS
  TypeOK
  HeadersFaithful
  ChunksFramed
  BodyFaithful
  Streamed
  UriKept
  HeaderValueNotEmpty
PROPERTIES
  AllSent
