-------------------------------- MODULE MCAsm --------------------------------
(***************************************************************************)
(* Instances of AsmServer for TLC: which process uses which sound events.  *)
(***************************************************************************)
EXTENDS AsmServer

CONSTANTS p1, p2, p3, cam

OneOf(a, b, c) == [p \in Pids |-> CASE p = p1 -> a [] p = p2 -> b [] p = p3 -> c]
One == OneOf(1, 1, 1)
NoClaims == [p \in Pids |-> {{}}]

\* A player with a monitor instance and a camcorder that share a device: pausing and resources.
PlayerUses   == OneOf({"EXCLUSIVE_MMPLAYER", "MONITOR"}, {"EXCLUSIVE_MMCAMCORDER"}, {})
PlayerClaims == OneOf({{cam}}, {{cam}}, {{}})
PlayerHeld   == OneOf(2, 1, 0)

\* A call and the radio in one process and a rich call in the other: the case the matrix leaves
\* open, and fewer handles than instances.
MixedUses == OneOf({"CALL", "SHARE_FMRADIO"}, {"RICH_CALL"}, {})
MixedHeld == OneOf(2, 1, 0)

\* A call, something that mixes with it, and something the call refuses.
NotifyUses == OneOf({"CALL"}, {"NOTIFY"}, {"SHARE_MMSOUND"})

\* A call, an alarm that mixes with it, and an application that both interrupt.
AlarmUses == OneOf({"CALL"}, {"ALARM"}, {"SHARE_MMSOUND"})
=============================================================================
