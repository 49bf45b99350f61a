SPECIFICATION Spec
CONSTANTS
  Limit = 2
  PipeSize = 2
  Count = 2
  MaxSamples <- TheBounds
  MaxFlushes = 1
PROPERTIES
  FlushLast
