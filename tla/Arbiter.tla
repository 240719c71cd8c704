------------------------------- MODULE Arbiter -------------------------------
(***************************************************************************)
(* What the library and the session manager promise together: a stream     *)
(* sounds while it is permitted to, those that are permitted may sound     *)
(* together, and a permission is withdrawn from a stream that is silent.   *)
(* A stream that has missed a stop may break this, until it is permitted   *)
(* again.  Nothing is said about requests, callbacks, threads or handles.  *)
(***************************************************************************)
CONSTANTS
  Streams,
  Ways,       \* what a stream may be opened for
  MayMeet     \* the pairs of them that may sound together

VARIABLES
  way,        \* what each stream has been opened for
  permitted,  \* the streams that may sound
  sounding,   \* the streams that sound
  astray      \* the streams that have missed a stop

vars == <<way, permitted, sounding, astray>>

Init ==
  /\ way \in [Streams -> Ways]
  /\ permitted = {} /\ sounding = {} /\ astray = {}

Open(p) ==
  /\ p \notin permitted \cup sounding
  /\ \E w \in Ways : way' = [way EXCEPT ![p] = w]
  /\ UNCHANGED <<permitted, sounding, astray>>

Permit(p) ==
  /\ \A q \in permitted \ {p} : {<<way[p], way[q]>>, <<way[q], way[p]>>} \cap MayMeet # {}
  /\ permitted' = permitted \cup {p}
  /\ astray' \in {astray, astray \ {p}}
  /\ UNCHANGED <<way, sounding>>

\* A stop is heard in time, or p goes astray.
Withdraw(p) ==
  /\ permitted' = permitted \ {p}
  /\ astray' \in {astray, astray \cup {p}}
  /\ p \in sounding => p \in astray'
  /\ UNCHANGED <<way, sounding>>

Miss(p) ==
  /\ astray' = astray \cup {p}
  /\ UNCHANGED <<way, permitted, sounding>>

Begin(p) ==
  /\ p \in permitted \cup astray
  /\ sounding' = sounding \cup {p}
  /\ UNCHANGED <<way, permitted, astray>>

End(p) ==
  /\ sounding' = sounding \ {p}
  /\ UNCHANGED <<way, permitted, astray>>

Next ==
  \E p \in Streams : Open(p) \/ Permit(p) \/ Withdraw(p) \/ Miss(p) \/ Begin(p) \/ End(p)

Spec == Init /\ [][Next]_vars
=============================================================================
