CONSTANTS
  None = None
  c1 = c1
  c2 = c2
  c3 = c3
  d1 = d1
  d2 = d2
  Channels = {c1, c2, c3}
  Fds = {d1, d2}
  a = a
  b = b
  Bytes = {a, b}
  Zero = a
  Chunks <- ShortChunks
  KCheapPrepend = 1
  InitialSize = 2
  ExtraSize = 2
  MaxReadable = 4
  i1 = i1
  i2 = i2
  i3 = i3
  i4 = i4
  i5 = i5
  i6 = i6
  Ids = {i1, i2, i3, i4, i5, i6}
  Timeouts = {0, 1, 2, 3}
  MaxTime = 1
SPECIFICATION MCSpec
SYMMETRY Symmetry
INVARIANTS KernelMatchesIndex ActiveChannelsLive TypeOK HeapIndexed
PROPERTIES ImplementsByteStream ImplementsTimers
