\* Both network layers on the send side.
CONSTANTS
  RingSlots = 2
  FrameBytes = 2048
  TableSlots = 3
  MaxToken = 6
  QueueCapacities = {0, 1, 3}
  Tags = {"hit", "miss"}
  PacketIds = {1, 2}
  Packets <- MCPackets
  Requests <- MCRequests
  CaptureLayers = {"Network", "Flow"}
  SendLayers = {"Network", "NetworkForward"}
  OutputLens = {31, 52, 2048}
  SendLens = {0, 2048, 2049}

SPECIFICATION UnsaturatedSpec
VIEW CallView

INVARIANT ReinjectedOnItsLayer
