SPECIFICATION LogSpec
CONSTANTS
    Streams = {1, 2}
    MaxChunks = 2
    QueueChunks = 2
    SegmentChunks = 2
    SpoolSegments = 1
    MaxLogs = 3
    MaxGaps = 1
    MaxFaults = 4
CHECK_DEADLOCK FALSE
  
PROPERTIES LogsSettle
