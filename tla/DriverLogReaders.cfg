SPECIFICATION Spec
CONSTANTS
  BufferSize = 29
  SeqMod = 16
  Sessions = {1, 2}
  UiSessions = {1}
  TextLens = {1, 4, 20}
  MaxMessages = 4
  TextBuffer = 3
  MaxRestarts = 1
INVARIANT NoForeignText
PROPERTY RingIsBoundedLog
PROPERTY ReaderGetsOldestPending
PROPERTY ServiceCollectsAll
CHECK_DEADLOCK FALSE
