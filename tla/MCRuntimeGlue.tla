--------------------------- MODULE MCRuntimeGlue ----------------------------
EXTENDS RuntimeGlue

(* The longest packet that fits a frame, a short one, and one too long.    *)
MCGluePackets ==
  {[id |-> 1, len |-> 20, tag |-> "hit"],
   [id |-> 2, len |-> 2016, tag |-> "hit"],
   [id |-> 2, len |-> 2017, tag |-> "hit"]}

MCGlueRequests ==
  {[layer |-> "Network", ir |-> "program", accepts |-> {"hit"}],
   [layer |-> "Network", ir |-> "malformed", accepts |-> {}]}

=============================================================================
