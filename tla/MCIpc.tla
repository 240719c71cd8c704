-------------------------------- MODULE MCIpc --------------------------------
(***************************************************************************)
(* Instances of Ipc for TLC: an application with two threads and another   *)
(* with one.                                                               *)
(***************************************************************************)
EXTENDS Ipc

CONSTANTS app1, app2, a, b, c

TwoAndOne == [t \in Threads |-> IF t = c THEN app2 ELSE app1]
OneOf(x, y, z) == [t \in Threads |-> CASE t = a -> x [] t = b -> y [] t = c -> z]
TwoCalls == [x \in Procs |-> IF x = app1 THEN 2 ELSE 1]
Once == [k \in Lists |-> IF k = "active" THEN 1 ELSE 0]
None == [k \in Lists |-> 0]

\* One thread plays, the other watches devices, as the second application does; the first
\* application may be killed.
Watching == OneOf({"memory"}, {"addActive", "removeActive"}, {"addActive"})
FirstKilled == [x \in Procs |-> IF x = app1 THEN {"kill"} ELSE {}]

\* One thread plays and asks, the other watches devices, and the second application sets the
\* route, so that the first is told, perhaps when it has exited.
Routing == OneOf({"memory", "getDevice"}, {"addActive"}, {"setRoute"})
FirstExits == [x \in Procs |-> IF x = app1 THEN {"exit"} ELSE {}]
=============================================================================
