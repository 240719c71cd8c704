---------------------------- MODULE KeytoneProofs ----------------------------
(***************************************************************************)
(* Proofs about Keytone, for any number of keys, any pipe and any length   *)
(* of the sounds: that the two threads agree on the state word, and what   *)
(* follows from it for the device, the files and the sounds.               *)
(***************************************************************************)
EXTENDS Keytone, SequenceTheorems, TLAPS

\* The inductive invariant.
KInv == TypeOK /\ Handover /\ PlaysOnOpenDevice /\ Mapped

LEMMA InitInv == Init => KInv
<1> SUFFICES ASSUME Init PROVE KInv
  OBVIOUS
<1>1. TypeOK
  <2>1. <<>> \in Seq(Keys) /\ 0 \in 0 .. MaxPeriods /\ 0 \in Files
    BY KeytoneAssumption, EmptySeq DEF Files
  <2> QED
    BY <2>1 DEF Init, TypeOK, RenderStates
<1>2. Handover /\ PlaysOnOpenDevice /\ Mapped
  BY DEF Init, Handover, PlaysOnOpenDevice, Mapped
<1> QED
  BY <1>1, <1>2 DEF KInv

-----------------------------------------------------------------------------
(* Types.                                                                  *)

\* The pipe holds keys that have been pressed.
LEMMA TypePress == ASSUME TypeOK, Press PROVE TypeOK'
<1>1. pressed + 1 \in Keys /\ pressed + 1 \in Files
  BY KeytoneAssumption DEF TypeOK, Press, Keys, Files
<1>2. pipe' \in Seq(Keys)
  BY <1>1, AppendProperties DEF TypeOK, Press
<1> QED
  BY <1>1, <1>2 DEF TypeOK, Press, reader, device

LEMMA TypeControl == ASSUME TypeOK, Control PROVE TypeOK'
<1>1. Keys \subseteq Files /\ 0 \in Files
  BY KeytoneAssumption DEF Keys, Files
<1>2. CASE Read
  <2>1. Head(pipe) \in Keys /\ Tail(pipe) \in Seq(Keys)
    BY <1>2, HeadTailProperties DEF TypeOK, Read
  <2> QED
    BY <1>1, <1>2, <2>1 DEF TypeOK, Read, device, RenderStates
<1>3. CASE OpenFails \/ ParseOrCreateFails
  BY <1>1, <1>3 DEF TypeOK, OpenFails, ParseOrCreateFails, device
<1>4. CASE Load
  <2>1. created' \in BOOLEAN /\ handle' \in BOOLEAN
    BY <1>4 DEF Load
  <2>2. open' \subseteq Files /\ waiting' \subseteq {"control", "player"}
    BY <1>4 DEF TypeOK, Load
  <2>3. player' \in {"none", "top", "play", "end", "wait", "linger", "late"}
    BY <1>4 DEF TypeOK, Load
  <2> QED
    BY <1>4, <2>1, <2>2, <2>3 DEF TypeOK, Load, RenderStates
<1> QED
  BY <1>2, <1>3, <1>4 DEF Control

LEMMA TypePlayer == ASSUME TypeOK, Player PROVE TypeOK'
<1>1. CASE Write
  BY <1>1, KeytoneAssumption DEF TypeOK, Write, reader, device
<1>2. CASE Close
  BY <1>2, KeytoneAssumption DEF TypeOK, Close, reader, device, Files
<1>3. CASE PickUp \/ WaitForKey \/ KeyCame \/ NextKey
  BY <1>3 DEF TypeOK, PickUp, WaitForKey, KeyCame, NextKey, reader, device, RenderStates
<1>4. CASE Cut \/ Linger \/ TimeOver
  BY <1>4 DEF TypeOK, Cut, Told, Linger, TimeOver, reader, device, RenderStates
<1>5. CASE Late
  BY <1>5 DEF TypeOK, Late, CreatedAfter, reader, device, RenderStates
<1> QED
  BY <1>1, <1>2, <1>3, <1>4, <1>5 DEF Player

LEMMA TypeNext == TypeOK /\ [Next]_vars => TypeOK'
<1> SUFFICES ASSUME TypeOK, [Next]_vars PROVE TypeOK'
  OBVIOUS
<1>1. CASE UNCHANGED vars
  BY <1>1 DEF TypeOK, vars, reader, device
<1> QED
  BY <1>1, TypePress, TypeControl, TypePlayer DEF Next

-----------------------------------------------------------------------------
(* The state word.                                                         *)

\* The reading thread cuts a sound only while it plays, and hands one over only while none plays.
LEMMA HandoverControl ==
  ASSUME TypeOK, Handover, Control PROVE Handover'
<1>1. CASE Read
  <2>1. CASE state = "STARTED"
    BY <1>1, <2>1 DEF Handover, Read, MustCut, device
  <2>2. CASE state # "STARTED"
    BY <1>1, <2>2 DEF Handover, Read, MustCut, device
  <2> QED
    BY <2>1, <2>2
<1>2. CASE OpenFails \/ ParseOrCreateFails
  <2>1. "control" \notin waiting
    BY <1>2 DEF Handover, OpenFails, ParseOrCreateFails, Loads, Wake
  <2> QED
    BY <1>2, <2>1 DEF Handover, OpenFails, ParseOrCreateFails
<1>3. CASE Load
  <2>1. state \notin {"STOP", "STARTED"}
    BY <1>3 DEF Handover, Load, Loads, Wake
  <2> QED
    BY <1>3, <2>1 DEF TypeOK, Handover, Load, Loads, Wake, Signalled
<1> QED
  BY <1>1, <1>2, <1>3 DEF Control

LEMMA HandoverPlayer ==
  ASSUME TypeOK, Handover, Player PROVE Handover'
<1> USE DEF Handover, reader, device, Free
<1>1. CASE PickUp
  BY <1>1 DEF PickUp
<1>2. CASE WaitForKey
  BY <1>2 DEF WaitForKey
<1>3. CASE KeyCame \/ NextKey
  BY <1>3 DEF KeyCame, NextKey
<1>4. CASE Write \/ Close
  BY <1>4 DEF Write, Close
<1>5. CASE Cut
  BY <1>5 DEF Cut, Told
<1>6. CASE Linger
  BY <1>6 DEF Linger
<1>7. CASE TimeOver
  BY <1>7 DEF TimeOver
<1>8. CASE Late
  BY <1>8 DEF Late, MayClose
<1> QED
  BY <1>1, <1>2, <1>3, <1>4, <1>5, <1>6, <1>7, <1>8 DEF Player

-----------------------------------------------------------------------------
(* The device and the files.                                               *)

\* No step of the reading thread closes the device, and the player closes it only when no sound
\* has been handed over in the meantime.
LEMMA MappedNext ==
  ASSUME KInv, Control \/ Player PROVE PlaysOnOpenDevice' /\ Mapped'
<1> USE DEF KInv, PlaysOnOpenDevice, Mapped, reader, device
<1>1. CASE Read
  BY <1>1 DEF Read, MustCut
<1>2. CASE OpenFails
  BY <1>2 DEF OpenFails
<1>3. CASE ParseOrCreateFails
  BY <1>3 DEF ParseOrCreateFails
<1>4. CASE Load
  <2>1. handle' = TRUE /\ created' = TRUE /\ TypeOK
    BY <1>4 DEF Load, TypeOK
  <2> QED
    BY <1>4, <2>1 DEF Load
<1>5. CASE PickUp \/ WaitForKey \/ KeyCame \/ Write \/ NextKey \/ TimeOver
  BY <1>5 DEF PickUp, WaitForKey, KeyCame, Write, NextKey, TimeOver
<1>6. CASE Close
  <2>1. state \in {"STARTED", "STOP"}
    BY <1>6 DEF Close, Handover
  <2> QED
    BY <1>6, <2>1 DEF Close
<1>7. CASE Cut \/ Linger
  BY <1>7 DEF Cut, Linger
<1>8. CASE Late
  <2>1. state \notin {"STARTED", "STOP"}
    BY <1>8 DEF Late, Handover
  <2> QED
    BY <1>8, <2>1 DEF Late, MayClose, CreatedAfter
<1> QED
  BY <1>1, <1>2, <1>3, <1>4, <1>5, <1>6, <1>7, <1>8 DEF Control, Player

LEMMA InvNext == KInv /\ [Next]_vars => KInv'
<1> SUFFICES ASSUME KInv, [Next]_vars PROVE KInv'
  OBVIOUS
<1>1. TypeOK'
  BY TypeNext DEF KInv
<1>2. CASE Press \/ UNCHANGED vars
  <2>1. UNCHANGED <<control, source, state, created, handle, player, copy, left, waiting, open>>
    BY <1>2 DEF Press, vars, reader, device
  <2> QED
    BY <1>1, <2>1 DEF KInv, Handover, PlaysOnOpenDevice, Mapped
<1>3. CASE Control
  BY <1>1, <1>3, HandoverControl, MappedNext DEF KInv
<1>4. CASE Player
  BY <1>1, <1>4, HandoverPlayer, MappedNext DEF KInv
<1> QED
  BY <1>2, <1>3, <1>4 DEF Next

-----------------------------------------------------------------------------
(* The theorems.                                                           *)

\* The invariant holds throughout.
THEOREM Inductive == Spec => []KInv
  BY InitInv, InvNext, PTL DEF Spec

\* Every variable keeps its type.
THEOREM TypeCorrect == Spec => []TypeOK
  BY Inductive, PTL DEF KInv

\* The two threads agree on the state word, for any number of keys.
THEOREM ThreadsAgree == Spec => []Handover
  BY Inductive, PTL DEF KInv

\* A sound is written to an open device only, though the player closes it behind the reading
\* thread's back when two seconds have passed.
THEOREM DeviceIsOpen == Spec => []PlaysOnOpenDevice
  BY Inductive, PTL DEF KInv

\* If every file that is opened is a wave file, the player never reads a file that is closed.
THEOREM FileIsMapped == ASSUME "parse" \notin Faults PROVE Spec => []PlaysMappedFile
<1>1. KInv => PlaysMappedFile
  BY DEF KInv, Mapped, PlaysMappedFile
<1> QED
  BY <1>1, Inductive, PTL

\* No sound that has been handed over is forgotten.
THEOREM NoneForgotten == Spec => NotForgotten
<1>1. KInv /\ [Next]_vars => [state = "START" => state' \in {"START", "STARTED"}]_vars
  <2> SUFFICES ASSUME KInv, Next, state = "START"
               PROVE  state' \in {"START", "STARTED"}
    OBVIOUS
  <2>1. CASE Press \/ Control
    BY <2>1 DEF Press, Control, Read, MustCut, OpenFails, ParseOrCreateFails, Load
  <2>2. CASE Player
    <3>1. player # "end"
      BY DEF KInv, Handover
    <3> QED
      BY <2>2, <3>1 DEF Player, PickUp, WaitForKey, KeyCame, Write, Close, Cut, Linger, NextKey,
         TimeOver, Late, MayClose
  <2> QED
    BY <2>1, <2>2 DEF Next
<1> QED
  BY <1>1, Inductive, PTL DEF Spec, NotForgotten
=============================================================================
