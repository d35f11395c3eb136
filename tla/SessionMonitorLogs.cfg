SPECIFICATION MonitorSpec
CONSTANTS
  BufferSize = 42
  SeqMod = 16
  Pids = {p1, p2}
  SessionIds = {1, 2}
  DataLens = {1, 4}
  BufferLens = {6, 16}
  MaxPuts = 3
  MaxStarts = 2
INVARIANTS LeaderRunsInSession MonitorCountIsLogs
PROPERTY LogIsBoundedLog
PROPERTY GetRemovesWhatItReturns
CHECK_DEADLOCK FALSE
