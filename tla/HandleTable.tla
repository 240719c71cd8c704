----------------------------- MODULE HandleTable -----------------------------
(***************************************************************************)
(* What the audio session manager promises about handles: each belongs to  *)
(* one process at a time, and passes to another one only after it has been *)
(* given back.  Nothing is said about callbacks, policies or queues.       *)
(***************************************************************************)
EXTENDS Integers

CONSTANTS Owners, MaxHandles

VARIABLE owned   \* pairs of a handle and the process it belongs to

Ids  == 0 .. MaxHandles - 1
Used == {o[1] : o \in owned}

Init == owned = {}

Grant(h, p) ==
  /\ h \notin Used
  /\ owned' = owned \cup {<<h, p>>}

Release(o) == owned' = owned \ {o}

Next ==
  \/ \E h \in Ids, p \in Owners : Grant(h, p)
  \/ \E o \in owned : Release(o)

Spec == Init /\ [][Next]_owned
=============================================================================
