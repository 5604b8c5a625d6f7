\* Two queue slots, so that frames wait behind one another and the oldest is
\* dropped. Two token slots: two more captures take the place of the received
\* packet's token.
CONSTANTS
  RingSlots = 2
  FrameBytes = 2048
  TableSlots = 2
  MaxToken = 4
  QueueCapacities = {64}
  Tags = {"hit", "miss"}
  PacketIds = {1, 2}
  Packets <- MCCliPackets
  Requests <- MCCliRequests
  CaptureLayers = {"Network", "NetworkForward"}
  SendLayers = {}
  OutputLens = {}
  SendLens = {}
  Commands <- MCCommands
  MaxRecvBytes = 65535

SPECIFICATION CliSpec
CHECK_DEADLOCK FALSE

INVARIANT CliTypeOK
INVARIANT HandlesClosedOnce
INVARIANT SuccessIsEarned
INVARIANT ReinjectsWhatItReceived
PROPERTY CommandEnds
