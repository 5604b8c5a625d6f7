---------------------------- MODULE MCCliCommand ----------------------------
EXTENDS CliCommand

MCNetfilter == [layer |-> "Network", ir |-> "program", accepts |-> {"hit"}]
MCRefused == [layer |-> "Network", ir |-> "malformed", accepts |-> {}]
MCNetdump == [layer |-> "Network", ir |-> "empty", accepts |-> {}]
MCReflectctl == [layer |-> "Reflect", ir |-> "empty", accepts |-> {}]
MCFlowtrack == [layer |-> "Flow", ir |-> "empty", accepts |-> {}]

MCCliRequests == {MCNetfilter, MCRefused, MCNetdump, MCFlowtrack, MCReflectctl}

MCCommand(kind, request, count) ==
  [kind |-> kind, request |-> request, count |-> count, follow |-> count > 1,
   wanted |-> IF kind = "track" THEN {"hit"} ELSE {}, fits |-> TRUE, timeout |-> TRUE]

(* Arguments with a slip: no event asked for, two without --follow, a       *)
(* filter or a timeout that cannot be; one that follows where none may.     *)
MCSlips ==
  {[MCCommand(kind, MCNetfilter, 1) EXCEPT !.count = 0] : kind \in {"observe", "track"}}
  \cup {[MCCommand("track", MCFlowtrack, 2) EXCEPT !.follow = FALSE],
        [MCCommand("observe", MCNetdump, 1) EXCEPT !.fits = FALSE],
        [MCCommand("open", MCReflectctl, 1) EXCEPT !.timeout = FALSE],
        [MCCommand("reinject", MCNetfilter, 1) EXCEPT !.follow = TRUE]}

MCCommands ==
  {MCCommand("probe", MCReflectctl, 1), MCCommand("open", MCReflectctl, 1),
   MCCommand("open", MCRefused, 1),
   MCCommand("observe", MCNetfilter, 2), MCCommand("observe", MCNetdump, 1),
   MCCommand("reinject", MCNetfilter, 1), MCCommand("track", MCFlowtrack, 2),
   MCCommand("monitor", MCFlowtrack, 1)} \cup MCSlips

(* Long enough for an IPv4 header, accepted or not, and too short.         *)
MCCliPackets ==
  {[id |-> 1, len |-> 20, tag |-> "hit"], [id |-> 2, len |-> 20, tag |-> "miss"],
   [id |-> 2, len |-> 19, tag |-> "hit"]}

=============================================================================
