\* Two slots: the head wraps while the ring is empty, partly filled and full.
\* FrameBytes: the packet of 29 bytes, with its headers, is a byte too long.
\* OutputLens: a buffer for events of sockets and flows, and one for packets.
CONSTANTS
  RingSlots = 2
  FrameBytes = 60
  OutputLens = {40, 56}
  Frames <- MCFrames
  Requests <- MCRequests
  Responses <- MCResponses
  Strays <- MCStrays
\* Damage: the number of a layer, and the first byte of an IPv4 header.
  Damage = {2, 69}
  Ttls = {31, 64}

SPECIFICATION PathSpec

INVARIANT TypeOK
INVARIANT PathTypeOK
INVARIANT RingKeepsNoStaleFrame
INVARIANT ReadWholeOrRefused
INVARIANT EditedPacketsVerify
INVARIANT OnlyCapturedPacketsReturn
PROPERTY ImplementsEventQueue
