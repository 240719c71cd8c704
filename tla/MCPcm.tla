-------------------------------- MODULE MCPcm --------------------------------
(***************************************************************************)
(* Instances of Pcm for TLC.                                               *)
(***************************************************************************)
EXTENDS Pcm

CONSTANTS p1, p2, p3

OneOf(a, b, c) == [p \in Pids |-> CASE p = p1 -> a [] p = p2 -> b [] p = p3 -> c]

\* The first stream excludes everybody else, the second is an ordinary one or an alarm.
TwoWays == OneOf({[event |-> "EXCLUSIVE_MMSOUND", given |-> FALSE]},
                 {[event |-> "SHARE_MMSOUND", given |-> FALSE], [event |-> "ALARM", given |-> TRUE]}, {})
EventsOf == [p \in Pids |-> {o.event : o \in TwoWays[p]}]
Held     == OneOf(2, 1, 0)
NoClaims == [p \in Pids |-> {{}}]
=============================================================================
