---------------------------- MODULE MCPacketPath ----------------------------
EXTENDS PacketPath

(* A number carried in 8 bytes. *)
Eight(n) == LE4(n) \o LE4(0)

(* IPv4 headers of 20 and, with an option, of 24 bytes.  The first has a   *)
(* right checksum, the second one the stack left to the hardware.          *)
Short == <<69, 0, 0, 20, 0, 1, 0, 0, 64, 17, 102, 214, 10, 0, 0, 1, 10, 0, 0, 2>>
Optioned == <<70, 0, 0, 24, 0, 2, 0, 0, 64, 6, 0, 0,
              192, 168, 255, 255, 203, 0, 113, 255, 1, 1, 1, 0>>
SixOnFour == <<96, 0, 0, 0, 0, 0, 59, 64>> \o [i \in 1 .. 12 |-> 0]

MCFrames ==
  {FrameOf(about) : about \in
     {[kind |-> "network", layer |-> "NetworkForward", token |-> Eight(258),
       packet |-> Optioned],
      [kind |-> "network", layer |-> "Network", token |-> Eight(4),
       packet |-> Short \o [i \in 1 .. 9 |-> i]],
      [kind |-> "socket", pid |-> Eight(42)],
      [kind |-> "flow", flow |-> Eight(9001), pid |-> Eight(7)]}}

MCRequests ==
  {[layer |-> "Network", priority |-> <<255, 255>>, flags |-> Eight(0), filter |-> <<>>],
   [layer |-> "Reflect", priority |-> <<7, 0>>, flags |-> Eight(3), filter |-> <<87, 68, 73>>]}

MCResponses ==
  {[version |-> Version, capabilities |-> LE4(31), status |-> LE4(status)] : status \in {0, 1}}

MCStrays ==
  {[kind |-> "raw", packet |-> Short],
   [kind |-> "raw", packet |-> SixOnFour],
   [kind |-> "bare", layer |-> "NetworkForward", packet |-> Short],
   [kind |-> "network", layer |-> "Network", token |-> Eight(3), packet |-> <<69, 0, 0>>]}

=============================================================================
