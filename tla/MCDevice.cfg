\* Two queue slots, two token slots, three tokens: the queue drops, the table
\* wraps and evicts a pending token, whose frame is queued or gone.
CONSTANTS
  RingSlots = 2
  FrameBytes = 2048
  TableSlots = 2
  MaxToken = 5
  QueueCapacities = {0, 1, 3}
  Tags = {"hit", "miss"}
  PacketIds = {1, 2}
  Packets <- MCPackets
  Requests <- MCRequests
  CaptureLayers = {"Network", "Flow"}
  SendLayers = {"Network", "Flow"}
  OutputLens = {31, 52, 2048}
  SendLens = {0, 2048, 2049}

SPECIFICATION UnsaturatedSpec
VIEW CallView

INVARIANT TypeOK
INVARIANT QueuedTokensRedeemable
INVARIANT TokenWindow
INVARIANT TokensAreOneShot
INVARIANT AcceptedPacketIsTheOneIssued
INVARIANT QueueInTokenOrder
INVARIANT QueueHoldsOnlyMatches
INVARIANT ClosedHandleIsEmpty
PROPERTY FailureChangesNothing
PROPERTY KeepsContract
