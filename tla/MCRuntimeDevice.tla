-------------------------- MODULE MCRuntimeDevice ---------------------------
EXTENDS RuntimeDevice

(* A packet the filter accepts and one it rejects, which is also the       *)
(* longest that fits a frame, and the shortest packet that does not fit.   *)
MCPackets ==
  {[id |-> 1, len |-> 20, tag |-> "hit"],
   [id |-> 2, len |-> 2016, tag |-> "miss"],
   [id |-> 1, len |-> 2017, tag |-> "hit"]}

(* A filtered handle on a packet layer and on an event layer, a handle     *)
(* without a filter, and a filter the driver refuses.                      *)
MCRequests ==
  {[layer |-> "Network", ir |-> "program", accepts |-> {"hit"}],
   [layer |-> "Flow", ir |-> "program", accepts |-> {"hit"}],
   [layer |-> "Network", ir |-> "empty", accepts |-> {}],
   [layer |-> "Network", ir |-> "malformed", accepts |-> {}]}

(* No call reads the last result: states that differ in it only behave     *)
(* alike, and every step is still checked.                                 *)
CallView == <<device, history>>

=============================================================================
