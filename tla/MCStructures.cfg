SPECIFICATION StructuresSpec
CONSTANTS
  Capacity = 6
  Byte = {zero, x}
  Zero = zero
  m_Capacity = 5
  Char = {zero, x}
  Threads = {p, q}
  ALLOC_COUNT = 2
  MaxAllocCount = 4
  PoolThreads = {p, q}
  Requests = {16, 17, 4080, 4081}
  HeaderSize = 16
  MaxBlocks = 3
  CrashThreads = {t, u, v}
  MAX_LOG_SIZE = 2
  MaxEvents = 4
CHECK_DEADLOCK FALSE
INVARIANTS RegionsOK RefusedOnlyWhenHalfFull RingSound PoolSound BlocksSound SlotsExact 
PROPERTIES PinnedRegionUntouched IsByteQueue RingIsFifo 
