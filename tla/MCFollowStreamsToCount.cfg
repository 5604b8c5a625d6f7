\* One queue slot: a packet captured meanwhile takes the place of the one that
\* waits. Two token slots: two more take the place of the received one's token.
CONSTANTS
  RingSlots = 1
  FrameBytes = 2048
  TableSlots = 2
  MaxToken = 4
  QueueCapacities = {64}
  Tags = {"hit", "miss"}
  PacketIds = {1, 2}
  Packets <- MCCliPackets
  Requests <- MCCliRequests
  CaptureLayers = {"Network", "NetworkForward"}
  SendLayers = {}
  OutputLens = {}
  SendLens = {}
  Commands <- MCCommands
  MaxRecvBytes = 65535

SPECIFICATION CliSpec
CHECK_DEADLOCK FALSE

INVARIANT FollowStreamsToCount
