\* Two queue slots and two token slots; buffers too short for an open
\* response, too short for a packet, and exactly as long as a frame.
CONSTANTS
  RingSlots = 2
  FrameBytes = 2048
  TableSlots = 2
  MaxToken = 4
  QueueCapacities = {0, 2}
  Tags = {"hit"}
  PacketIds = {1, 2}
  Packets <- MCGluePackets
  Requests <- MCGlueRequests
  CaptureLayers = {"Network"}
  SendLayers = {"Network"}
  OutputLens = {11, 52, 2048}
  SendLens = {2048, 2049}

SPECIFICATION GlueSpec

INVARIANT GlueTypeOK
INVARIANT HandedOverWasAccepted
PROPERTY OnlyShortOpenLeavesATrace
PROPERTY EveryQueuedPacketLeaves
