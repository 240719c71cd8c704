----------------------------- MODULE CodecProofs -----------------------------
(***************************************************************************)
(* Proofs about Codec, for any number of requests and slots: the lock      *)
(* discipline of the slot mutex and, as long as the table has not been     *)
(* found full, that a worker keeps the slot it was created for, and what   *)
(* follows from it for instances, registrations, sources and callbacks.    *)
(***************************************************************************)
EXTENDS Codec, FiniteSetTheorems, TLAPS

\* Where the thread of a request can be, and where the worker of its sound.
Places == {"idle", "find", "stopOld", "alloc", "reset", "lock", "register", "registering",
           "create", "play", "unregister", "done", "failed", "refused"}
WorkerPlaces == {"none", "wait", "begun", "starting", "sounding", "ended", "locked",
                 "unregistered", "gone"}

\* In the critical section of MMSoundMgrCodecPlay: before the instance exists, and all of it.
Filling   == {"register", "registering", "create"}
InPlay    == Filling \cup {"play"}
\* Before the instance exists.
Early     == Filling \cup {"idle", "find", "stopOld", "alloc", "reset", "lock"}
\* In the critical section of _MMSoundMgrCodecStopCallback.
InStop    == {"locked", "unregistered"}
\* The session of the sound has not ended yet.
InSession == {"wait", "begun", "starting", "sounding", "ended", "locked"}

TypeOK ==
  /\ slot \in [Slots -> Slot]
  /\ slotLock \in {<<Nobody, "free">>} \cup (Plays \X {"play", "worker"})
  /\ pc \in [Plays -> Places]
  /\ mine \in [Plays -> Slots \cup {NoSlot}]
  /\ worker \in [Plays -> WorkerPlaces]
  /\ st \in [Plays -> {"NONE", "READY", "BEGIN", "PLAY", "STOP"}]
  /\ freed \subseteq Plays /\ crashed \in BOOLEAN
  /\ closes \in [Plays -> Nat]
  /\ asmLock \in Players \cup {Other} /\ calling \in Players
  /\ pending \subseteq Plays /\ registered \subseteq Plays /\ playing \subseteq Plays
  /\ stopReq \in [Plays -> {"no", "accepted", "refused"}] /\ gone \subseteq Plays

\* The slot mine[r] is r's own: the request is about to fill it in, or the worker will clear it.
Holds(r) == pc[r] \in {"lock"} \cup InPlay \/ Live(r)

\* A slot of one's own has a number, and the worker comes with the instance.
Numbered ==
  \A r \in Plays :
    /\ Holds(r) => mine[r] \in Slots
    /\ pc[r] \in Early => worker[r] = "none"
    /\ pc[r] \in {"play", "done"} => worker[r] # "none"
    /\ pc[r] \in {"register", "registering", "unregister"} => Managed(r)
    /\ pc[r] \in {"idle", "reset"} => mine[r] = NoSlot

\* The slot mutex is held by the thread, and for the part, that is in its critical section.
LockHeld ==
  \A r \in Plays :
    /\ pc[r] \in InPlay <=> slotLock = <<r, "play">>
    /\ worker[r] \in InStop <=> slotLock = <<r, "worker">>

SlotsInv == TypeOK /\ Numbered /\ LockHeld

\* The table has not been found full.
NeverFull == \A r \in Plays : ~At(r, "reset")

\* Nor does the step reset it.
NoReset == \A r \in Plays : ~Reset(r)

\* A slot has one holder, and what is in it is the holder's.
Owned ==
  /\ \A r \in Plays : Holds(r) => slot[mine[r]].status # "IDLE"
  /\ \A r, q \in Plays : Holds(r) /\ Holds(q) /\ r # q => mine[r] # mine[q]
  /\ \A r \in Plays : Live(r) => slot[mine[r]].inst = r /\ slot[mine[r]].of = r
  /\ \A r \in Plays : pc[r] \in {"lock"} \cup Filling => slot[mine[r]].inst = Nobody
  /\ \A s \in Slots : slot[s].status = "IDLE" => slot[s].inst = Nobody

\* An instance is in one slot.
Placed ==
  \A s \in Slots : slot[s].inst # Nobody => worker[slot[s].inst] # "none" /\ mine[slot[s].inst] = s

\* Instances are freed when their worker ends and the slot is cleared.
FreedInv ==
  /\ \A r \in freed : worker[r] = "gone"
  /\ \A s \in Slots : slot[s].inst \notin freed

\* A request that fails has no worker.
FailedInv == \A r \in Plays : pc[r] \in {"unregister", "failed", "refused"} => worker[r] = "none"

\* What sounds is registered, also while a creation that failed is cleaned up.
RegisteredInv ==
  \A r \in Plays :
    Managed(r) /\ (pc[r] \in {"create", "unregister"} \/ worker[r] \in InSession) => r \in registered

\* What is registered is being set up, sounds, is cleaned up or was refused.
EntryExplained ==
  \A r \in registered :
    /\ Managed(r)
    /\ \/ pc[r] \in {"create", "refused"} \/ worker[r] \in InSession
       \/ pc[r] = "unregister" /\ mine[r] # NoSlot

\* The source is closed when the request has failed or the sound is over.
ClosedInv ==
  \A r \in Plays :
    closes[r] = IF HasSource(r) /\ (pc[r] \in {"failed", "refused"} \/ WorkerAt(r, "gone")) THEN 1 ELSE 0

\* The client that is in the slot of a sound is its own.
MessageInv ==
  /\ \A r \in Plays : Live(r) => slot[mine[r]].msg = IF Origin[r] = "dtmf" THEN Nobody ELSE r
  /\ \A r \in Plays : pc[r] \in {"lock"} \cup Filling => slot[mine[r]].msg = Nobody
  /\ \A s \in Slots : slot[s].status = "IDLE" => slot[s].msg = Nobody

-----------------------------------------------------------------------------
(* Types and locks.                                                        *)

LEMMA Names ==
  /\ Nobody \notin Plays /\ Other \notin Plays /\ Nobody # Other
  /\ NoSlot \notin Slots
  /\ EmptySlot \in Slot /\ EmptySlot.status = "IDLE" /\ EmptySlot.inst = Nobody
  BY CodecAssumption DEF NoSlot, Slots, EmptySlot, Slot, Players

LEMMA LocksDiffer ==
  ASSUME NEW r \in Plays, NEW q \in Plays
  PROVE  /\ <<r, "play">> # <<q, "worker">>
         /\ <<r, "play">> = <<q, "play">> => r = q
         /\ <<r, "worker">> = <<q, "worker">> => r = q
         /\ <<Nobody, "free">> # <<r, "play">> /\ <<Nobody, "free">> # <<r, "worker">>
  BY Names

LEMMA Unfinished == \A r \in Plays : Live(r) <=> worker[r] \notin {"none", "gone"}
  BY DEF Live

LEMMA SlotsInit == Init => SlotsInv
<1> SUFFICES ASSUME Init PROVE SlotsInv
  OBVIOUS
<1> USE DEF Init
<1>1. TypeOK
  BY Names DEF TypeOK, Places, WorkerPlaces, Players
<1>2. Numbered
  BY DEF Numbered, Holds, Live, InPlay, Filling, Early
<1>3. LockHeld
  BY LocksDiffer DEF LockHeld, InPlay, Filling, InStop
<1> QED
  BY <1>1, <1>2, <1>3 DEF SlotsInv

\* What Forget and CodecStop write has the types of the variables.
LEMMA ForgetTypes ==
  ASSUME TypeOK, NEW o, Forget(o)
  PROVE  registered' \subseteq registered /\ playing' \subseteq playing
  BY DEF Forget

LEMMA StopTypes ==
  ASSUME TypeOK, NEW s, CodecStop(s)
  PROVE  st' \in [Plays -> {"NONE", "READY", "BEGIN", "PLAY", "STOP"}] /\ crashed' \in BOOLEAN
  BY DEF CodecStop, TypeOK, Slot

LEMMA FailsTypes ==
  ASSUME TypeOK, NEW r \in Plays, NEW n \in Nat,
         Fails(r, n) \/ FailsAs(r, "refused", n) \/ TurnsAway(r)
  PROVE  closes' \in [Plays -> Nat] /\ pc' \in [Plays -> Places]
  BY DEF Fails, FailsAs, TurnsAway, GoTo, TypeOK, Places

LEMMA HoldsNumber ==
  ASSUME SlotsInv, NEW r \in Plays, Holds(r)
  PROVE  mine[r] \in Slots /\ slot[mine[r]] \in Slot
  BY DEF SlotsInv, Numbered, TypeOK

LEMMA TypeServe ==
  ASSUME SlotsInv, NEW r \in Plays, Start(r) \/ Unsupported(r) \/ Serve(r)
  PROVE  TypeOK'
<1> USE DEF SlotsInv, clientVars
<1>1. ASSUME Start(r) \/ FindOld(r) \/ TableFull(r) \/ AsmEnter(r) \/ AsmGrants(r) PROVE TypeOK'
  BY <1>1, Names DEF Start, FindOld, TableFull, AsmEnter, AsmGrants, GoTo, TypeOK, Places,
     Players, slotVars,
     threadVars, instVars, asmVars
<1>2. CASE Unsupported(r)
  BY <1>2, FailsTypes DEF Unsupported, TypeOK, slotVars, asmVars
<1>3. CASE StopOld(r)
  BY <1>3, StopTypes DEF StopOld, GoTo, TypeOK, Places, slotVars, asmVars
<1>4. CASE Take(r)
  <2>1. PICK s \in Slots : /\ mine' = [mine EXCEPT ![r] = s]
                           /\ slot' = [slot EXCEPT ![s].status = "SOUND"]
    BY <1>4 DEF Take, IdleSlots
  <2>2. slot' \in [Slots -> Slot]
    BY <2>1 DEF TypeOK, Slot
  <2>3. /\ pc' = [pc EXCEPT ![r] = "lock"]
        /\ UNCHANGED <<slotLock, instVars, asmVars, clientVars>>
    BY <1>4 DEF Take, GoTo
  <2> QED
    BY <2>1, <2>2, <2>3 DEF TypeOK, Places, instVars, asmVars
<1>5. CASE Reset(r)
  <2>1. closes' \in [Plays -> Nat] /\ pc' \in [Plays -> Places]
    BY <1>5, FailsTypes DEF Reset
  <2>2. slot' \in [Slots -> Slot]
    <3>1. slot' = [s \in Slots |-> [slot[s] EXCEPT !.status = "IDLE"]]
      BY <1>5 DEF Reset
    <3> QED
      BY <3>1 DEF TypeOK, Slot
  <2>3. UNCHANGED <<slotLock, mine, worker, st, crashed, freed, asmVars, clientVars>>
    BY <1>5 DEF Reset
  <2> QED
    BY <2>1, <2>2, <2>3 DEF TypeOK, asmVars
<1>6. CASE Lock(r)
  <2>1. mine[r] \in Slots /\ slot[mine[r]] \in Slot
    BY <1>6, HoldsNumber DEF Lock, At, Holds
  <2>2. Kind[r] \in {"SOUND", "KEYTONE", "LOCALE"}
    BY CodecAssumption
  <2>3. slot' \in [Slots -> Slot]
    BY <1>6, <2>1, <2>2 DEF Lock, TypeOK, Slot
  <2> QED
    BY <1>6, <2>3 DEF Lock, LockSlots, GoTo, TypeOK, Places, instVars, asmVars
<1>7. CASE AsmRefuses(r)
  <2>1. registered' \subseteq Plays /\ playing' \subseteq Plays
    BY <1>7 DEF AsmRefuses, TypeOK
  <2> QED
    BY <1>7, <2>1, FailsTypes DEF AsmRefuses, UnlockSlots, TypeOK, Players
<1>8. CASE Create(r)
  <2>1. mine[r] \in Slots /\ slot[mine[r]] \in Slot
    BY <1>8, HoldsNumber DEF Create, At, Holds, InPlay, Filling
  <2>2. slot' \in [Slots -> Slot]
    <3>1. PICK e \in Slot : slot' = [slot EXCEPT ![mine[r]] = e]
      BY <1>8, <2>1 DEF Create, Filled, Slot, Players
    <3> QED
      BY <3>1 DEF TypeOK
  <2> QED
    BY <1>8, <2>2 DEF Create, GoTo, WorkerTo, TypeOK, Places, WorkerPlaces, asmVars
<1>9. CASE CreateFails(r)
  <2>1. mine[r] \in Slots /\ slot[mine[r]] \in Slot
    BY <1>9, HoldsNumber DEF CreateFails, At, Holds, InPlay, Filling
  <2>2. slot' \in [Slots -> Slot]
    <3>1. PICK e \in Slot : slot' = [slot EXCEPT ![mine[r]] = e]
      BY <1>9, <2>1 DEF CreateFails, Filled, Slot, Players
    <3> QED
      BY <3>1 DEF TypeOK
  <2>3. closes' \in [Plays -> Nat] /\ pc' \in [Plays -> Places]
    BY <1>9, FailsTypes DEF CreateFails, GoTo, TypeOK, Places
  <2> QED
    BY <1>9, <2>2, <2>3 DEF CreateFails, UnlockSlots, TypeOK, asmVars
<1>10. CASE Play(r)
  BY <1>10 DEF Play, UnlockSlots, GoTo, TypeOK, Places, asmVars
<1>11. CASE PlayFails(r)
  BY <1>11, FailsTypes DEF PlayFails, UnlockSlots, GoTo, TypeOK, Places, asmVars
<1>12. CASE Unregister(r)
  BY <1>12, FailsTypes, ForgetTypes DEF Unregister, TypeOK, slotVars
<1> QED
  BY <1>1, <1>2, <1>3, <1>4, <1>5, <1>6, <1>7, <1>8, <1>9, <1>10, <1>11, <1>12 DEF Serve

LEMMA TypeWork ==
  ASSUME SlotsInv, NEW r \in Plays, Work(r)
  PROVE  TypeOK'
<1> USE DEF SlotsInv, clientVars
<1>1. ASSUME WorkerBegins(r) \/ WorkerReturns(r) \/ WorkerChecks(r) \/ WorkerSetsPlay(r) \/ WorkerEnds(r)
      PROVE  TypeOK'
  BY <1>1 DEF WorkerBegins, WorkerReturns, WorkerChecks, WorkerSetsPlay, WorkerEnds, WorkerTo,
     TypeOK, WorkerPlaces, slotVars, threadVars, asmVars
<1>2. CASE EndLocks(r)
  BY <1>2 DEF EndLocks, LockSlots, WorkerTo, TypeOK, WorkerPlaces, threadVars, asmVars
<1>3. CASE EndUnregisters(r)
  <2>1. registered' \subseteq Plays /\ playing' \subseteq Plays
    BY <1>3, ForgetTypes DEF EndUnregisters, TypeOK
  <2> QED
    BY <1>3, <2>1 DEF EndUnregisters, WorkerTo, TypeOK, WorkerPlaces, slotVars, threadVars
<1>4. CASE EndDestroys(r)
  <2>1. slot[mine[r]] \in Slot
    BY <1>4, HoldsNumber DEF EndDestroys, WorkerAt, Holds, Live
  <2>2. freed' \subseteq Plays
    BY <1>4, <2>1 DEF EndDestroys, TypeOK, Slot, Players
  <2>3. closes' \in [Plays -> Nat]
    BY <1>4, <2>1 DEF EndDestroys, TypeOK, Slot, Players
  <2>4. slot' \in [Slots -> Slot]
    BY <1>4, Names DEF EndDestroys, Cleared, TypeOK
  <2> QED
    BY <1>4, <2>2, <2>3, <2>4 DEF EndDestroys, UnlockSlots, WorkerTo, TypeOK, WorkerPlaces,
       threadVars, asmVars
<1> QED
  BY <1>1, <1>2, <1>3, <1>4 DEF Work

LEMMA TypeAsm ==
  ASSUME SlotsInv, Asm \/ Clients
  PROVE  TypeOK'
<1> USE DEF SlotsInv, clientVars
<1>1. ASSUME NEW r \in Plays, NEW s \in Plays, AsmInterrupts(r, s) PROVE TypeOK'
  BY <1>1 DEF AsmInterrupts, Ask, TypeOK, Players, slotVars, threadVars, instVars
<1>2. ASSUME NEW s \in Plays, OtherInterrupts(s) PROVE TypeOK'
  BY <1>2 DEF OtherInterrupts, Ask, TypeOK, Players, slotVars, threadVars, instVars
<1>3. ASSUME NEW s \in Plays, Handler(s) PROVE TypeOK'
  BY <1>3, StopTypes DEF Handler, TypeOK, Players, slotVars, threadVars
<1>4. CASE OtherDone \/ AsmTimesOut
  BY <1>4 DEF OtherDone, AsmTimesOut, TypeOK, Players, slotVars, threadVars, instVars
<1>5. ASSUME NEW r \in Plays, StopRequest(r) PROVE TypeOK'
  BY <1>5, StopTypes DEF StopRequest, TypeOK, slotVars, threadVars, asmVars
<1>6. ASSUME NEW r \in Plays, Dies(r) PROVE TypeOK'
  BY <1>6 DEF Dies, TypeOK, slotVars, threadVars, instVars, asmVars
<1>7. ASSUME NEW r \in Plays, ForgetDead(r) PROVE TypeOK'
  BY <1>7 DEF ForgetDead, TypeOK, Players, slotVars, threadVars, instVars
<1> QED
  BY <1>1, <1>2, <1>3, <1>4, <1>5, <1>6, <1>7 DEF Asm, Clients

\* The session manager, the handlers and the clients write nothing of the table, and of the
\* registrations they only take those of the dead away.
LEMMA AsmWrites ==
  ASSUME Asm \/ Clients
  PROVE  /\ UNCHANGED <<slotVars, threadVars, worker, freed, closes>>
         /\ registered' \subseteq registered /\ gone \subseteq gone'
         /\ gone = {} => registered' = registered
<1>1. ASSUME NEW r \in Plays, NEW s \in Plays, AsmInterrupts(r, s) \/ OtherInterrupts(s)
      PROVE  UNCHANGED <<slotVars, threadVars, instVars, registered, gone>>
  BY <1>1 DEF AsmInterrupts, OtherInterrupts, Ask, clientVars
<1>2. ASSUME NEW r \in Plays, Handler(r) \/ StopRequest(r)
      PROVE  UNCHANGED <<slotVars, threadVars, worker, freed, closes, registered, gone>>
  BY <1>2 DEF Handler, StopRequest, asmVars, clientVars
<1>3. ASSUME OtherDone \/ AsmTimesOut
      PROVE  UNCHANGED <<slotVars, threadVars, instVars, registered, gone>>
  BY <1>3 DEF OtherDone, AsmTimesOut, clientVars
<1>4. ASSUME NEW r \in Plays, Dies(r)
      PROVE  UNCHANGED <<slotVars, threadVars, instVars, registered>> /\ gone \subseteq gone'
  BY <1>4 DEF Dies, asmVars
<1>5. ASSUME NEW s \in Plays, ForgetDead(s)
      PROVE  /\ UNCHANGED <<slotVars, threadVars, instVars, gone>>
             /\ registered' \subseteq registered /\ gone # {}
  BY <1>5 DEF ForgetDead, clientVars
<1> QED
  BY <1>1, <1>2, <1>3, <1>4, <1>5 DEF Asm, Clients, instVars

LEMMA NumberedNext == SlotsInv /\ Next => Numbered'
<1> SUFFICES ASSUME SlotsInv, Next PROVE Numbered'
  OBVIOUS
<1> USE Names DEF SlotsInv, TypeOK, Numbered, Holds, Live, InPlay, Filling, Early
<1>1. ASSUME NEW r \in Plays, Start(r) \/ FindOld(r) \/ StopOld(r) \/ TableFull(r) PROVE Numbered'
  BY <1>1 DEF Start, FindOld, StopOld, TableFull, At, GoTo, slotVars, threadVars, instVars,
     asmVars
<1>2. ASSUME NEW r \in Plays, Unsupported(r) \/ Reset(r) \/ Unregister(r) PROVE Numbered'
  BY <1>2 DEF Unsupported, Reset, Unregister, Fails, FailsAs, TurnsAway, At, GoTo, slotVars
<1>3. ASSUME NEW r \in Plays, Take(r) PROVE Numbered'
  BY <1>3 DEF Take, IdleSlots, At, GoTo, instVars
<1>4. ASSUME NEW r \in Plays, Lock(r) \/ AsmEnter(r) \/ AsmGrants(r) PROVE Numbered'
  BY <1>4 DEF Lock, AsmEnter, AsmGrants, At, GoTo, instVars
<1>5. ASSUME NEW r \in Plays, AsmRefuses(r) PROVE Numbered'
  BY <1>5 DEF AsmRefuses, Fails, FailsAs, At, GoTo
<1>6. ASSUME NEW r \in Plays, Create(r) PROVE Numbered'
  BY <1>6 DEF Create, At, GoTo, WorkerTo
<1>7. ASSUME NEW r \in Plays, CreateFails(r) PROVE Numbered'
  BY <1>7 DEF CreateFails, Fails, FailsAs, At, GoTo
<1>8. ASSUME NEW r \in Plays, Play(r) PROVE Numbered'
  BY <1>8 DEF Play, At, GoTo
<1>9. ASSUME NEW r \in Plays, PlayFails(r) PROVE Numbered'
  BY <1>9 DEF PlayFails, Fails, FailsAs, At, GoTo
<1>10. ASSUME NEW r \in Plays, Work(r) PROVE Numbered'
  BY <1>10 DEF Work, WorkerBegins, WorkerReturns, WorkerChecks, WorkerSetsPlay, WorkerEnds,
     EndLocks,
     EndUnregisters, EndDestroys, WorkerAt, WorkerTo, threadVars
<1>11. ASSUME Asm \/ Clients PROVE Numbered'
  BY <1>11, AsmWrites DEF threadVars
<1> QED
  BY <1>1, <1>2, <1>3, <1>4, <1>5, <1>6, <1>7, <1>8, <1>9, <1>10, <1>11 DEF Next, Serve

LEMMA LockNext == SlotsInv /\ Next => LockHeld'
<1> SUFFICES ASSUME SlotsInv, Next PROVE LockHeld'
  OBVIOUS
<1> USE LocksDiffer DEF SlotsInv, TypeOK, LockHeld, InPlay, Filling, InStop
<1>1. ASSUME NEW r \in Plays, Start(r) \/ FindOld(r) \/ StopOld(r) \/ TableFull(r) PROVE LockHeld'
  BY <1>1 DEF Start, FindOld, StopOld, TableFull, At, GoTo, slotVars, threadVars, instVars,
     asmVars
<1>2. ASSUME NEW r \in Plays, Unsupported(r) \/ Reset(r) \/ Unregister(r) PROVE LockHeld'
  BY <1>2 DEF Unsupported, Reset, Unregister, Fails, FailsAs, TurnsAway, At, GoTo, slotVars
<1>3. ASSUME NEW r \in Plays, Take(r) PROVE LockHeld'
  BY <1>3 DEF Take, IdleSlots, At, GoTo, instVars
<1>4. ASSUME NEW r \in Plays, Lock(r) PROVE LockHeld'
  BY <1>4 DEF Lock, LockSlots, SlotFree, At, GoTo, instVars
<1>5. ASSUME NEW r \in Plays, AsmEnter(r) \/ AsmGrants(r) PROVE LockHeld'
  BY <1>5 DEF AsmEnter, AsmGrants, At, GoTo, slotVars, instVars
<1>6. ASSUME NEW r \in Plays, AsmRefuses(r) PROVE LockHeld'
  BY <1>6 DEF AsmRefuses, UnlockSlots, Fails, FailsAs, At, GoTo
<1>7. ASSUME NEW r \in Plays, Create(r) PROVE LockHeld'
  BY <1>7 DEF Create, At, GoTo, WorkerTo
<1>8. ASSUME NEW r \in Plays, CreateFails(r) PROVE LockHeld'
  BY <1>8 DEF CreateFails, UnlockSlots, Fails, FailsAs, At, GoTo
<1>9. ASSUME NEW r \in Plays, Play(r) PROVE LockHeld'
  BY <1>9 DEF Play, UnlockSlots, At, GoTo
<1>10. ASSUME NEW r \in Plays, PlayFails(r) PROVE LockHeld'
  BY <1>10 DEF PlayFails, UnlockSlots, Fails, FailsAs, At, GoTo
<1>11. ASSUME NEW r \in Plays,
              WorkerBegins(r) \/ WorkerReturns(r) \/ WorkerChecks(r) \/ WorkerSetsPlay(r) \/ WorkerEnds(r)
       PROVE  LockHeld'
  BY <1>11 DEF WorkerBegins, WorkerReturns, WorkerChecks, WorkerSetsPlay, WorkerEnds, WorkerAt,
     WorkerTo,
     slotVars, threadVars
<1>12. ASSUME NEW r \in Plays, EndLocks(r) PROVE LockHeld'
  BY <1>12 DEF EndLocks, LockSlots, SlotFree, WorkerAt, WorkerTo, threadVars
<1>13. ASSUME NEW r \in Plays, EndUnregisters(r) PROVE LockHeld'
  BY <1>13 DEF EndUnregisters, WorkerAt, WorkerTo, slotVars, threadVars
<1>14. ASSUME NEW r \in Plays, EndDestroys(r) PROVE LockHeld'
  BY <1>14 DEF EndDestroys, UnlockSlots, WorkerAt, WorkerTo, threadVars
<1>15. ASSUME Asm \/ Clients PROVE LockHeld'
  BY <1>15, AsmWrites DEF slotVars, threadVars
<1> QED
  BY <1>1, <1>2, <1>3, <1>4, <1>5, <1>6, <1>7, <1>8, <1>9, <1>10, <1>11, <1>12, <1>13, <1>14,
     <1>15
  DEF Next, Serve, Work

LEMMA SlotsNext == SlotsInv /\ [Next]_vars => SlotsInv'
<1>1. ASSUME SlotsInv, Next PROVE SlotsInv'
  BY <1>1, TypeServe, TypeWork, TypeAsm, NumberedNext, LockNext DEF Next, SlotsInv
<1>2. ASSUME SlotsInv, UNCHANGED vars PROVE SlotsInv'
  BY <1>2 DEF SlotsInv, TypeOK, Numbered, LockHeld, Holds, Live, Managed, vars, slotVars,
     threadVars, instVars, asmVars, clientVars
<1> QED
  BY <1>1, <1>2

-----------------------------------------------------------------------------
(* Owners.                                                                 *)

LEMMA OwnedInit == Init => Owned /\ Placed
<1> SUFFICES ASSUME Init PROVE Owned /\ Placed
  OBVIOUS
<1> QED
  BY Names DEF Init, Owned, Placed, Holds, Live, InPlay, Filling

\* A step that writes no slot and takes none leaves the owners.
LEMMA OwnedShrinks ==
  ASSUME Owned, UNCHANGED slot,
         \A r \in Plays :
           /\ Holds(r)' => Holds(r) /\ mine'[r] = mine[r]
           /\ Live(r)' => Live(r)
           /\ pc'[r] \in {"lock"} \cup Filling => pc[r] \in {"lock"} \cup Filling
  PROVE  Owned'
<1>1. \A r \in Plays : Live(r)' => Holds(r)'
  BY DEF Holds
<1>2. \A r \in Plays : pc'[r] \in {"lock"} \cup Filling => Holds(r)'
  BY DEF Holds, InPlay
<1> QED
  BY <1>1, <1>2 DEF Owned

\* A request takes an idle slot.
LEMMA OwnedTake ==
  ASSUME SlotsInv, Owned, NEW r \in Plays, Take(r)
  PROVE  Owned'
<1> USE DEF SlotsInv, TypeOK
<1>1. PICK s \in Slots : /\ slot[s].status = "IDLE"
                         /\ mine' = [mine EXCEPT ![r] = s]
                         /\ slot' = [slot EXCEPT ![s].status = "SOUND"]
  BY DEF Take, IdleSlots
<1>2. \A q \in Slots : slot'[q].inst = slot[q].inst /\ slot'[q].of = slot[q].of
  BY <1>1 DEF Slot
<1>3. \A q \in Slots : slot'[q].status = IF q = s THEN "SOUND" ELSE slot[q].status
  BY <1>1 DEF Slot
<1>4. pc' = [pc EXCEPT ![r] = "lock"] /\ worker' = worker /\ worker[r] = "none"
  BY DEF Take, At, GoTo, instVars, Numbered, Early
<1>5. \A q \in Plays \ {r} : (Holds(q)' <=> Holds(q)) /\ mine'[q] = mine[q]
  BY <1>1, <1>4 DEF Holds, Live
<1>6. \A q \in Plays : Holds(q) => mine[q] \in Slots /\ mine[q] # s
  BY <1>1 DEF Numbered, Owned
<1>7. \A q \in Plays : Live(q)' <=> Live(q)
  BY <1>4 DEF Live
<1>8. mine'[r] = s /\ slot[s].inst = Nobody /\ ~Live(r)
  BY <1>1, <1>4 DEF Owned, Live
<1>9. \A q \in Plays : Live(q) => Holds(q)
  BY DEF Holds
<1>10. \A q \in Plays : pc[q] \in {"lock"} \cup Filling => Holds(q)
  BY DEF Holds, InPlay
<1>11. \A q \in Plays : Holds(q)' => slot'[mine'[q]].status # "IDLE"
  BY <1>3, <1>5, <1>6, <1>8 DEF Owned
<1>12. \A p, q \in Plays : Holds(p)' /\ Holds(q)' /\ p # q => mine'[p] # mine'[q]
  BY <1>5, <1>6, <1>8 DEF Owned
<1>13. \A q \in Plays : Live(q)' => slot'[mine'[q]].inst = q /\ slot'[mine'[q]].of = q
  BY <1>2, <1>5, <1>6, <1>7, <1>8, <1>9 DEF Owned
<1>14. \A q \in Plays : pc'[q] \in {"lock"} \cup Filling => slot'[mine'[q]].inst = Nobody
  BY <1>1, <1>2, <1>4, <1>5, <1>6, <1>8, <1>10 DEF Owned
<1>15. \A q \in Slots : slot'[q].status = "IDLE" => slot'[q].inst = Nobody
  BY <1>2, <1>3 DEF Owned
<1> QED
  BY <1>11, <1>12, <1>13, <1>14, <1>15 DEF Owned

\* A holder writes its own slot and nobody else's.
LEMMA OwnedWrites ==
  ASSUME SlotsInv, Owned, NEW r \in Plays, Holds(r), UNCHANGED mine,
         NEW e, slot' = [slot EXCEPT ![mine[r]] = e],
         e.status = "IDLE" => e.inst = Nobody /\ ~Holds(r)',
         \A q \in Plays \ {r} : pc'[q] = pc[q] /\ worker'[q] = worker[q],
         Live(r)' => e.inst = r /\ e.of = r,
         pc'[r] \in {"lock"} \cup Filling => e.inst = Nobody
  PROVE  Owned'
<1>1. mine[r] \in Slots /\ slot'[mine[r]] = e
  BY DEF SlotsInv, Numbered, TypeOK
<1>2. \A s \in Slots \ {mine[r]} : slot'[s] = slot[s]
  BY DEF SlotsInv, TypeOK
<1>3. \A q \in Plays \ {r} : (Holds(q)' <=> Holds(q)) /\ (Live(q)' <=> Live(q))
  BY DEF Holds, Live
<1>4. \A q \in Plays \ {r} : Holds(q) => mine[q] \in Slots \ {mine[r]}
  BY DEF SlotsInv, Numbered, Owned
<1>5. \A q \in Plays : Live(q) => Holds(q)
  BY DEF Holds
<1>6. \A q \in Plays : pc[q] \in {"lock"} \cup Filling => Holds(q)
  BY DEF Holds, InPlay
<1>7. \A q \in Plays : Holds(q)' => slot'[mine'[q]].status # "IDLE"
  BY <1>1, <1>2, <1>3, <1>4 DEF Owned
<1>8. \A p, q \in Plays : Holds(p)' /\ Holds(q)' /\ p # q => mine'[p] # mine'[q]
  BY <1>3 DEF Owned
<1>9. \A q \in Plays : Live(q)' => slot'[mine'[q]].inst = q /\ slot'[mine'[q]].of = q
  BY <1>1, <1>2, <1>3, <1>4, <1>5 DEF Owned
<1>10. \A q \in Plays : pc'[q] \in {"lock"} \cup Filling => slot'[mine'[q]].inst = Nobody
  BY <1>1, <1>2, <1>4, <1>6 DEF Owned
<1>11. \A s \in Slots : slot'[s].status = "IDLE" => slot'[s].inst = Nobody
  BY <1>1, <1>2 DEF Owned
<1> QED
  BY <1>7, <1>8, <1>9, <1>10, <1>11 DEF Owned

LEMMA OwnedNext == SlotsInv /\ Owned /\ NoReset /\ Next => Owned'
<1> SUFFICES ASSUME SlotsInv, Owned, NoReset, Next PROVE Owned'
  OBVIOUS
<1> USE DEF SlotsInv, TypeOK
<1>1. ASSUME NEW r \in Plays, Start(r) \/ FindOld(r) \/ StopOld(r) \/ TableFull(r) PROVE Owned'
  <2>1. /\ \A q \in Plays \ {r} : pc'[q] = pc[q] /\ mine'[q] = mine[q]
        /\ pc'[r] \in {"find", "stopOld", "alloc", "reset"}
        /\ UNCHANGED <<slot, worker>> /\ worker[r] = "none"
    BY <1>1 DEF Start, FindOld, StopOld, TableFull, At, GoTo, slotVars, threadVars, instVars,
       Numbered, Early
  <2> QED
    BY <2>1, OwnedShrinks DEF Holds, Live, InPlay, Filling
<1>2. ASSUME NEW r \in Plays,
             Unsupported(r) \/ Unregister(r) \/ AsmEnter(r) \/ AsmRefuses(r) \/ AsmGrants(r) \/ Play(r) \/ PlayFails(r)
      PROVE  Owned'
  <2>1. /\ \A q \in Plays \ {r} : pc'[q] = pc[q]
        /\ UNCHANGED <<slot, worker, mine>>
        /\ pc'[r] \in Filling => pc[r] \in Filling
        /\ pc'[r] \notin {"lock", "play"}
    BY <1>2 DEF Unsupported, Unregister, AsmEnter, AsmRefuses, AsmGrants, Play, PlayFails,
       Fails, FailsAs, TurnsAway, At, GoTo,
       slotVars, threadVars, instVars, Filling
  <2> QED
    BY <2>1, OwnedShrinks DEF Holds, Live, InPlay
<1>3. ASSUME NEW r \in Plays, Take(r) PROVE Owned'
  BY <1>3, OwnedTake
<1>4. ASSUME NEW r \in Plays, Reset(r) PROVE Owned'
  BY <1>4 DEF NoReset
<1>5. ASSUME NEW r \in Plays, Lock(r) PROVE Owned'
  <2>1. CASE Kind[r] = "SOUND"
    <3>1. /\ \A q \in Plays \ {r} : pc'[q] = pc[q]
          /\ UNCHANGED <<slot, worker, mine>>
          /\ pc[r] = "lock"
    BY <1>5, <2>1 DEF Lock, At, GoTo, instVars
    <3> QED
      BY <3>1, OwnedShrinks DEF Holds, Live, InPlay
  <2>2. CASE Kind[r] # "SOUND"
    <3> DEFINE e == [slot[mine[r]] EXCEPT !.status = Kind[r]]
    <3>1. /\ Holds(r) /\ pc[r] = "lock" /\ worker[r] = "none"
          /\ \A q \in Plays \ {r} : pc'[q] = pc[q] /\ worker'[q] = worker[q]
          /\ UNCHANGED <<worker, mine>>
      BY <1>5 DEF Lock, At, GoTo, instVars, Holds, Numbered, Early
    <3>2. slot' = [slot EXCEPT ![mine[r]] = e]
      BY <1>5, <2>2 DEF Lock
    <3>3. e.status # "IDLE" /\ e.inst = Nobody
      BY <2>2, <3>1, HoldsNumber, CodecAssumption DEF Slot, Owned
    <3> HIDE DEF e
    <3> QED
      BY <3>1, <3>2, <3>3, OwnedWrites DEF Live
  <2> QED
    BY <2>1, <2>2
<1>6. ASSUME NEW r \in Plays, Create(r) PROVE Owned'
  <2> DEFINE e == [Filled(r) EXCEPT !.inst = r]
  <2>1. /\ Holds(r) /\ pc'[r] = "play"
        /\ \A q \in Plays \ {r} : pc'[q] = pc[q] /\ worker'[q] = worker[q]
        /\ UNCHANGED mine
    BY <1>6 DEF Create, At, GoTo, WorkerTo, Holds, InPlay, Filling
  <2>2. slot' = [slot EXCEPT ![mine[r]] = e]
    BY <1>6 DEF Create
  <2>3. e.status = slot[mine[r]].status /\ e.inst = r /\ e.of = r
    BY <2>1, HoldsNumber DEF Filled, Slot
  <2>4. e.status # "IDLE"
    BY <2>1, <2>3 DEF Owned
  <2> HIDE DEF e
  <2> QED
    BY <2>1, <2>2, <2>3, <2>4, OwnedWrites DEF Filling
<1>7. ASSUME NEW r \in Plays, CreateFails(r) PROVE Owned'
  <2> DEFINE e == [Filled(r) EXCEPT !.status = "IDLE"]
  <2>1. /\ Holds(r) /\ pc[r] = "create" /\ pc'[r] \in {"unregister", "failed"} /\ worker[r] = "none"
        /\ \A q \in Plays \ {r} : pc'[q] = pc[q] /\ worker'[q] = worker[q]
        /\ UNCHANGED <<mine, worker>>
    BY <1>7 DEF CreateFails, Fails, FailsAs, At, GoTo, Holds, InPlay, Filling, Numbered, Early
  <2>2. slot' = [slot EXCEPT ![mine[r]] = e]
    BY <1>7 DEF CreateFails
  <2>3. e.inst = Nobody
    BY <2>1, HoldsNumber DEF Filled, Slot, Owned, Filling
  <2>4. ~Holds(r)' /\ ~Live(r)' /\ pc'[r] \notin {"lock"} \cup Filling
    BY <2>1 DEF Holds, Live, InPlay, Filling
  <2> HIDE DEF e
  <2> QED
    BY <2>1, <2>2, <2>3, <2>4, OwnedWrites
<1>8. ASSUME NEW r \in Plays,
             \/ WorkerBegins(r) \/ WorkerReturns(r) \/ WorkerChecks(r) \/ WorkerSetsPlay(r) \/ WorkerEnds(r)
             \/ EndLocks(r) \/ EndUnregisters(r)
      PROVE  Owned'
  <2>1. /\ \A q \in Plays \ {r} : worker'[q] = worker[q]
        /\ UNCHANGED <<slot, pc, mine>>
        /\ worker[r] \notin {"none", "gone"}
    BY <1>8 DEF WorkerBegins, WorkerReturns, WorkerChecks, WorkerSetsPlay, WorkerEnds,
       EndLocks, EndUnregisters,
       WorkerAt, WorkerTo, slotVars, threadVars
  <2> QED
    BY <2>1, OwnedShrinks DEF Holds, Live
<1>9. ASSUME NEW r \in Plays, EndDestroys(r) PROVE Owned'
  <2>1. /\ Holds(r) /\ worker[r] = "unregistered" /\ worker'[r] = "gone"
        /\ \A q \in Plays \ {r} : pc'[q] = pc[q] /\ worker'[q] = worker[q]
        /\ UNCHANGED <<mine, pc>>
        /\ slot' = [slot EXCEPT ![mine[r]] = EmptySlot]
    BY <1>9 DEF EndDestroys, WorkerAt, WorkerTo, Cleared, threadVars, Holds, Live
  <2>2. pc[r] \notin Early
    BY <2>1 DEF Numbered
  <2>3. pc[r] \notin InPlay
    BY <2>1, LocksDiffer DEF LockHeld, InStop
  <2>4. ~Holds(r)' /\ ~Live(r)' /\ pc'[r] \notin {"lock"} \cup Filling
    BY <2>1, <2>2, <2>3 DEF Holds, Live, Early
  <2> QED
    BY <2>1, <2>4, OwnedWrites, Names
<1>10. ASSUME Asm \/ Clients PROVE Owned'
  BY <1>10, AsmWrites, OwnedShrinks DEF slotVars, threadVars, Holds, Live
<1> QED
  BY <1>1, <1>2, <1>3, <1>4, <1>5, <1>6, <1>7, <1>8, <1>9, <1>10 DEF Next, Serve, Work

-----------------------------------------------------------------------------
(* Instances.                                                              *)

\* The slots keep their instances, the workers that are there keep theirs, and none is freed.
KeepsInstances ==
  /\ \A s \in Slots : slot'[s].inst = slot[s].inst
  /\ \A q \in Plays : /\ worker[q] = "none" <=> worker'[q] = "none"
                      /\ worker[q] # "none" => mine'[q] = mine[q]
                      /\ worker[q] = "gone" => worker'[q] = "gone"
  /\ freed' = freed

\* Instances come with Create and go with EndDestroys, or when playing them fails.
LEMMA InstancesMove ==
  ASSUME SlotsInv, NoReset, Next
  PROVE  KeepsInstances \/ \E r \in Plays : Create(r) \/ EndDestroys(r) \/ PlayFails(r)
<1> USE DEF SlotsInv, TypeOK, KeepsInstances
<1>1. ASSUME NEW r \in Plays,
             Start(r) \/ FindOld(r) \/ StopOld(r) \/ TableFull(r) PROVE KeepsInstances
  BY <1>1 DEF Start, FindOld, StopOld, TableFull, At, slotVars, instVars, Numbered, Early
<1>2. ASSUME NEW r \in Plays,
             \/ Unsupported(r) \/ Unregister(r) \/ AsmEnter(r) \/ AsmRefuses(r) \/ AsmGrants(r) \/ Play(r)
      PROVE  KeepsInstances
  BY <1>2 DEF Unsupported, Unregister, AsmEnter, AsmRefuses, AsmGrants, Play, slotVars, instVars
<1>3. ASSUME NEW r \in Plays, Take(r) PROVE KeepsInstances
  BY <1>3 DEF Take, IdleSlots, Slot, At, instVars, Numbered, Early
<1>4. ASSUME NEW r \in Plays, Reset(r) PROVE FALSE
  BY <1>4 DEF NoReset
<1>5. ASSUME NEW r \in Plays, Lock(r) PROVE KeepsInstances
  BY <1>5 DEF Lock, Slot, instVars
<1>6. ASSUME NEW r \in Plays, CreateFails(r) PROVE KeepsInstances
  <2>1. slot' = [slot EXCEPT ![mine[r]] = [Filled(r) EXCEPT !.status = "IDLE"]]
    BY <1>6 DEF CreateFails
  <2>2. [Filled(r) EXCEPT !.status = "IDLE"].inst = slot[mine[r]].inst
    BY <1>6, HoldsNumber DEF CreateFails, At, Holds, InPlay, Filling, Filled, Slot
  <2>3. \A s \in Slots : slot'[s].inst = slot[s].inst
    BY <2>1, <2>2
  <2> QED
    BY <1>6, <2>3 DEF CreateFails
<1>7. ASSUME NEW r \in Plays,
             \/ WorkerBegins(r) \/ WorkerReturns(r) \/ WorkerChecks(r) \/ WorkerSetsPlay(r) \/ WorkerEnds(r)
             \/ EndLocks(r) \/ EndUnregisters(r)
      PROVE  KeepsInstances
  BY <1>7 DEF WorkerBegins, WorkerReturns, WorkerChecks, WorkerSetsPlay, WorkerEnds, EndLocks,
     EndUnregisters,
     WorkerAt, WorkerTo, slotVars, threadVars
<1>8. ASSUME Asm \/ Clients PROVE KeepsInstances
  BY <1>8, AsmWrites DEF slotVars, threadVars
<1> QED
  BY <1>1, <1>2, <1>3, <1>4, <1>5, <1>6, <1>7, <1>8 DEF Next, Serve, Work

\* The instance a request creates is the one thing that changes in the slots.
LEMMA CreateInstance ==
  ASSUME SlotsInv, NEW r \in Plays, Create(r)
  PROVE  /\ mine[r] \in Slots /\ worker[r] = "none" /\ worker' = [worker EXCEPT ![r] = "wait"]
         /\ pc[r] = "create" /\ pc' = [pc EXCEPT ![r] = "play"]
         /\ UNCHANGED <<mine, freed, closes, registered, playing>>
         /\ \A s \in Slots \ {mine[r]} : slot'[s] = slot[s]
         /\ slot'[mine[r]].inst = r
         /\ slot'[mine[r]].msg = IF HasSource(r) THEN r ELSE slot[mine[r]].msg
         /\ slot'[mine[r]].status = slot[mine[r]].status
<1> USE DEF SlotsInv, TypeOK
<1>1. mine[r] \in Slots /\ slot[mine[r]] \in Slot /\ worker[r] = "none"
  BY HoldsNumber DEF Create, At, Holds, InPlay, Filling, Numbered, Early
<1>2. slot' = [slot EXCEPT ![mine[r]] = [Filled(r) EXCEPT !.inst = r]]
  BY DEF Create
<1>3. /\ [Filled(r) EXCEPT !.inst = r].inst = r
      /\ [Filled(r) EXCEPT !.inst = r].msg = IF HasSource(r) THEN r ELSE slot[mine[r]].msg
      /\ [Filled(r) EXCEPT !.inst = r].status = slot[mine[r]].status
  BY <1>1 DEF Filled, Slot
<1> QED
  BY <1>1, <1>2, <1>3 DEF Create, At, GoTo, WorkerTo, asmVars

\* The worker that ends destroys its own instance and clears its own slot.
LEMMA DestroysOwn ==
  ASSUME SlotsInv, Owned, NEW r \in Plays, EndDestroys(r)
  PROVE  /\ mine[r] \in Slots /\ worker[r] = "unregistered" /\ worker' = [worker EXCEPT ![r] = "gone"]
         /\ freed' = freed \cup {r}
         /\ closes' = IF HasSource(r) THEN [closes EXCEPT ![r] = @ + 1] ELSE closes
         /\ slot' = [slot EXCEPT ![mine[r]] = EmptySlot]
         /\ UNCHANGED <<pc, mine, registered, playing>>
<1>1. worker[r] = "unregistered"
  BY DEF EndDestroys, WorkerAt
<1>2. mine[r] \in Slots /\ slot[mine[r]].inst = r
  BY <1>1, HoldsNumber DEF Holds, Live, Owned
<1> QED
  BY <1>1, <1>2, Names DEF EndDestroys, Cleared, WorkerTo, threadVars, asmVars

LEMMA PlacedNext ==
  SlotsInv /\ Owned /\ Placed /\ NoReset /\ Next => Placed'
<1> SUFFICES ASSUME SlotsInv, Owned, Placed, NoReset, Next PROVE Placed'
  OBVIOUS
<1>1. \A s \in Slots : slot[s].inst \in Players
  BY DEF SlotsInv, TypeOK, Slot
<1>2. ASSUME KeepsInstances PROVE Placed'
  BY <1>1, <1>2 DEF Placed, KeepsInstances, Players
<1>3. ASSUME NEW r \in Plays, Create(r) PROVE Placed'
  BY <1>1, <1>3, CreateInstance DEF Placed, Players, SlotsInv, TypeOK
<1>4. ASSUME NEW r \in Plays, EndDestroys(r) PROVE Placed'
  BY <1>1, <1>4, DestroysOwn, Names DEF Placed, Players, SlotsInv, TypeOK
<1>5. ASSUME NEW r \in Plays, PlayFails(r) PROVE Placed'
  BY <1>5 DEF PlayFails, Placed
<1> QED
  BY <1>2, <1>3, <1>4, <1>5, InstancesMove

LEMMA FreedNext ==
  ASSUME "play" \notin Faults
  PROVE  SlotsInv /\ Owned /\ Placed /\ FreedInv /\ NoReset /\ Next => FreedInv'
<1> SUFFICES ASSUME SlotsInv, Owned, Placed, FreedInv, NoReset, Next PROVE FreedInv'
  OBVIOUS
<1>1. freed \subseteq Plays /\ \A s \in Slots : slot[s].inst \in Players
  BY DEF SlotsInv, TypeOK, Slot
<1>2. ASSUME KeepsInstances PROVE FreedInv'
  BY <1>1, <1>2 DEF FreedInv, KeepsInstances
<1>3. ASSUME NEW r \in Plays, Create(r) PROVE FreedInv'
  BY <1>1, <1>3, CreateInstance DEF FreedInv, SlotsInv, TypeOK
<1>4. ASSUME NEW r \in Plays, EndDestroys(r) PROVE FreedInv'
  <2>1. \A s \in Slots \ {mine[r]} : slot'[s].inst = slot[s].inst /\ slot[s].inst # r
    BY <1>4, DestroysOwn, Names DEF Placed, SlotsInv, TypeOK
  <2>2. slot'[mine[r]].inst = Nobody
    BY <1>4, DestroysOwn, Names DEF SlotsInv, TypeOK
  <2> QED
    BY <1>1, <1>4, <2>1, <2>2, DestroysOwn, Names DEF FreedInv, SlotsInv, TypeOK
<1>5. ASSUME NEW r \in Plays, PlayFails(r) PROVE FALSE
  BY <1>5 DEF PlayFails
<1> QED
  BY <1>2, <1>3, <1>4, <1>5, InstancesMove

-----------------------------------------------------------------------------
(* Registrations, sources and callbacks.                                   *)

\* The worker that ends takes the registration of its own sound away, if that is still there.
LEMMA ForgetsOwn ==
  ASSUME SlotsInv, Owned, NEW r \in Plays, EndUnregisters(r)
  PROVE  /\ worker[r] = "locked" /\ worker' = [worker EXCEPT ![r] = "unregistered"]
         /\ registered' \subseteq registered
         /\ Managed(r) => r \notin registered'
         /\ ~Managed(r) \/ r \in registered => registered \ {r} \subseteq registered'
         /\ UNCHANGED <<slot, pc, mine, closes, gone>>
<1>1. worker[r] = "locked"
  BY DEF EndUnregisters, WorkerAt
<1>2. slot[mine[r]].of = r /\ r # Nobody
  BY <1>1, Names DEF Live, Owned
<1>3. \/ ~Managed(r) /\ registered' = registered
      \/ Managed(r) /\ \E v \in IF r \in registered THEN {r} ELSE registered \cup {Nobody} :
                         registered' = registered \ {v}
  BY <1>2 DEF EndUnregisters, Forget
<1> QED
  BY <1>1, <1>3 DEF EndUnregisters, WorkerTo, slotVars, threadVars, clientVars

\* The cleanup of a request that had a slot takes its own registration away.
LEMMA UnregistersOwn ==
  ASSUME NEW r \in Plays, Unregister(r)
  PROVE  /\ pc[r] = "unregister" /\ pc' = [pc EXCEPT ![r] = "failed"]
         /\ worker' = worker /\ mine' = mine /\ gone' = gone
         /\ registered' \subseteq registered
         /\ mine[r] # NoSlot => r \notin registered'
         /\ mine[r] # NoSlot /\ r \in registered => registered' = registered \ {r}
  BY DEF Unregister, At, Forget, Fails, FailsAs, GoTo, clientVars

LEMMA FailedNext ==
  ASSUME "play" \notin Faults
  PROVE  SlotsInv /\ FailedInv /\ Next => FailedInv'
<1> SUFFICES ASSUME SlotsInv, FailedInv, Next PROVE FailedInv'
  OBVIOUS
<1> USE DEF SlotsInv, TypeOK, FailedInv
<1>1. ASSUME NEW r \in Plays,
             Start(r) \/ FindOld(r) \/ StopOld(r) \/ TableFull(r) \/ Take(r) \/ Lock(r)
                              \/ AsmEnter(r) \/ AsmGrants(r) \/ Play(r)
      PROVE  FailedInv'
  BY <1>1 DEF Start, FindOld, StopOld, TableFull, Take, Lock, AsmEnter, AsmGrants, Play, At, GoTo,
     instVars
<1>2. ASSUME NEW r \in Plays,
             Unsupported(r) \/ Reset(r) \/ AsmRefuses(r) \/ CreateFails(r) \/ Unregister(r) PROVE FailedInv'
  BY <1>2 DEF Unsupported, Reset, AsmRefuses, CreateFails, Unregister, TurnsAway, Fails, FailsAs,
     At, GoTo, Numbered, Early, Filling
<1>3. ASSUME NEW r \in Plays, Create(r) PROVE FailedInv'
  BY <1>3, CreateInstance
<1>4. ASSUME NEW r \in Plays, PlayFails(r) PROVE FALSE
  BY <1>4 DEF PlayFails
<1>5. ASSUME NEW r \in Plays, Work(r) PROVE FailedInv'
  BY <1>5 DEF Work, WorkerBegins, WorkerReturns, WorkerChecks, WorkerSetsPlay, WorkerEnds, EndLocks,
     EndUnregisters, EndDestroys, WorkerAt, WorkerTo, threadVars
<1>6. ASSUME Asm \/ Clients PROVE FailedInv'
  BY <1>6, AsmWrites DEF threadVars
<1> QED
  BY <1>1, <1>2, <1>3, <1>4, <1>5, <1>6 DEF Next, Serve

\* A request that was turned away stays that, and a client that died stays dead.
LEMMA TurnedAwayNext ==
  ASSUME SlotsInv, [Next]_vars, TurnedAway' = {}
  PROVE  TurnedAway = {} /\ \A r \in Plays : ~Unsupported(r) /\ ~Reset(r)
<1> USE DEF SlotsInv, TypeOK
<1>1. ASSUME NEW r \in Plays, Unsupported(r) \/ Reset(r) PROVE FALSE
  <2>1. mine[r] = NoSlot /\ mine' = mine /\ pc'[r] \in {"unregister", "failed"}
    BY <1>1 DEF Unsupported, Reset, TurnsAway, Fails, FailsAs, At, GoTo, Numbered
  <2> QED
    BY <2>1 DEF TurnedAway
<1>2. SUFFICES ASSUME NEW q \in Plays, pc[q] \in {"unregister", "failed"}, mine[q] = NoSlot
               PROVE  pc'[q] \in {"unregister", "failed"} /\ mine'[q] = NoSlot
  BY <1>1 DEF TurnedAway
<1>3. ASSUME NEW r \in Plays,
             \/ Start(r) \/ FindOld(r) \/ StopOld(r) \/ TableFull(r) \/ Take(r) \/ Lock(r) \/ AsmEnter(r)
             \/ AsmGrants(r) \/ AsmRefuses(r) \/ Create(r) \/ CreateFails(r) \/ Play(r) \/ PlayFails(r)
      PROVE  pc'[q] = pc[q] /\ mine'[q] = mine[q]
  BY <1>2, <1>3 DEF Start, FindOld, StopOld, TableFull, Take, Lock, AsmEnter, AsmGrants, AsmRefuses,
     Create, CreateFails, Play, PlayFails, Fails, FailsAs, At, GoTo
<1>4. ASSUME NEW r \in Plays, Unregister(r)
      PROVE  pc'[q] \in {"unregister", "failed"} /\ mine'[q] = mine[q]
  BY <1>2, <1>4, UnregistersOwn
<1>5. ASSUME NEW r \in Plays, Work(r) PROVE pc'[q] = pc[q] /\ mine'[q] = mine[q]
  BY <1>5 DEF Work, WorkerBegins, WorkerReturns, WorkerChecks, WorkerSetsPlay, WorkerEnds, EndLocks,
     EndUnregisters, EndDestroys, threadVars
<1>6. ASSUME Asm \/ Clients PROVE pc'[q] = pc[q] /\ mine'[q] = mine[q]
  BY <1>6, AsmWrites DEF threadVars
<1>7. ASSUME UNCHANGED vars PROVE pc'[q] = pc[q] /\ mine'[q] = mine[q]
  BY <1>7 DEF vars, threadVars
<1> QED
  BY <1>1, <1>2, <1>3, <1>4, <1>5, <1>6, <1>7 DEF Next, Serve

LEMMA GoneGrows == [Next]_vars => gone \subseteq gone'
<1>1. ASSUME NEW r \in Plays, Start(r) \/ Unsupported(r) \/ Serve(r) PROVE gone' = gone
  BY <1>1 DEF Start, Unsupported, Serve, FindOld, StopOld, Take, TableFull, Reset, Lock, AsmEnter,
     AsmRefuses, AsmGrants, Create, CreateFails, Play, PlayFails, Unregister, clientVars
<1>2. ASSUME NEW r \in Plays, Work(r) PROVE gone' = gone
  BY <1>2 DEF Work, WorkerBegins, WorkerReturns, WorkerChecks, WorkerSetsPlay, WorkerEnds, EndLocks,
     EndUnregisters, EndDestroys, clientVars
<1>3. ASSUME UNCHANGED vars PROVE gone' = gone
  BY <1>3 DEF vars, clientVars
<1> QED
  BY <1>1, <1>2, <1>3, AsmWrites DEF Next

LEMMA RegisteredNext ==
  ASSUME "play" \notin Faults
  PROVE  SlotsInv /\ Owned /\ FailedInv /\ RegisteredInv /\ gone = {} /\ TurnedAway' = {} /\ Next
           => RegisteredInv'
<1> SUFFICES ASSUME SlotsInv, Owned, FailedInv, RegisteredInv, gone = {}, TurnedAway' = {}, Next
             PROVE  RegisteredInv'
  OBVIOUS
<1>0. TurnedAway = {} /\ \A r \in Plays : ~Unsupported(r) /\ ~Reset(r)
  BY TurnedAwayNext
<1> USE DEF SlotsInv, TypeOK, RegisteredInv, InSession
<1>1. ASSUME NEW r \in Plays,
             Start(r) \/ FindOld(r) \/ StopOld(r) \/ TableFull(r) \/ Take(r) \/ Lock(r) \/ AsmEnter(r)
      PROVE  RegisteredInv'
  BY <1>1 DEF Start, FindOld, StopOld, TableFull, Take, Lock, AsmEnter, At, GoTo, instVars,
     asmVars, Managed
<1>2. ASSUME NEW r \in Plays, AsmRefuses(r) \/ CreateFails(r) PROVE RegisteredInv'
  BY <1>2 DEF AsmRefuses, CreateFails, Fails, FailsAs, At, GoTo, asmVars, Numbered, Early, Filling,
     Managed
<1>3. ASSUME NEW r \in Plays, AsmGrants(r) PROVE RegisteredInv'
  BY <1>3 DEF AsmGrants, At, GoTo, instVars, Managed
<1>4. ASSUME NEW r \in Plays, Create(r) PROVE RegisteredInv'
  BY <1>4, CreateInstance DEF Managed
<1>5. ASSUME NEW r \in Plays, Play(r) PROVE RegisteredInv'
  BY <1>5 DEF Play, At, GoTo, asmVars, Managed
<1>6. ASSUME NEW r \in Plays, PlayFails(r) PROVE FALSE
  BY <1>6 DEF PlayFails
<1>7. ASSUME NEW r \in Plays, Unregister(r) PROVE RegisteredInv'
  <2>1. /\ pc[r] = "unregister" /\ pc' = [pc EXCEPT ![r] = "failed"] /\ worker' = worker
        /\ mine[r] # NoSlot
    BY <1>0, <1>7, UnregistersOwn DEF TurnedAway
  <2>2. worker[r] = "none"
    BY <2>1 DEF FailedInv
  <2>3. registered' = registered \ {r}
    BY <1>7, <2>1, UnregistersOwn DEF Numbered
  <2> QED
    BY <2>1, <2>2, <2>3 DEF Managed
<1>8. ASSUME NEW r \in Plays,
             WorkerBegins(r) \/ WorkerReturns(r) \/ WorkerChecks(r) \/ WorkerSetsPlay(r) \/ WorkerEnds(r) \/ EndLocks(r)
      PROVE  RegisteredInv'
  BY <1>8 DEF WorkerBegins, WorkerReturns, WorkerChecks, WorkerSetsPlay, WorkerEnds, EndLocks,
     WorkerAt, WorkerTo, slotVars, threadVars, asmVars, Managed
<1>9. ASSUME NEW r \in Plays, EndUnregisters(r) PROVE RegisteredInv'
  <2>1. pc[r] \notin {"create", "unregister"}
    BY <1>9, ForgetsOwn DEF Numbered, Early, Filling, FailedInv
  <2>2. ~Managed(r) \/ r \in registered
    BY <1>9, ForgetsOwn
  <2> QED
    BY <1>9, <2>1, <2>2, ForgetsOwn DEF Managed
<1>10. ASSUME NEW r \in Plays, EndDestroys(r) PROVE RegisteredInv'
  BY <1>10, DestroysOwn DEF Managed
<1>11. ASSUME Asm \/ Clients PROVE RegisteredInv'
  BY <1>11, AsmWrites DEF slotVars, threadVars, Managed
<1> QED
  BY <1>0, <1>1, <1>2, <1>3, <1>4, <1>5, <1>6, <1>7, <1>8, <1>9, <1>10, <1>11 DEF Next, Serve, Work

LEMMA EntryNext ==
  ASSUME "play" \notin Faults, ZeroTime = {}, "create" \notin Faults \/ \A r \in Plays : HasSource(r)
  PROVE  SlotsInv /\ Owned /\ FailedInv /\ EntryExplained /\ NoReset /\ Next => EntryExplained'
<1> SUFFICES ASSUME SlotsInv, Owned, FailedInv, EntryExplained, NoReset, Next PROVE EntryExplained'
  OBVIOUS
<1> USE DEF SlotsInv, TypeOK, EntryExplained, InSession
<1>1. ASSUME NEW r \in Plays,
             Start(r) \/ FindOld(r) \/ StopOld(r) \/ TableFull(r) \/ Take(r) \/ Lock(r) \/ AsmEnter(r)
      PROVE  EntryExplained'
  <2>1. /\ pc[r] \in {"idle", "find", "stopOld", "alloc", "lock", "register"} /\ worker[r] = "none"
        /\ \A q \in Plays \ {r} : pc'[q] = pc[q] /\ mine'[q] = mine[q]
        /\ UNCHANGED <<worker, registered>>
    BY <1>1 DEF Start, FindOld, StopOld, TableFull, Take, Lock, AsmEnter, At, GoTo, instVars,
       slotVars, threadVars, asmVars, Numbered, Early, Filling
  <2>2. r \notin registered
    BY <2>1
  <2> QED
    BY <2>1, <2>2 DEF Managed
<1>2. ASSUME NEW r \in Plays, Unsupported(r) \/ AsmRefuses(r) PROVE EntryExplained'
  <2>1. /\ pc[r] \in {"idle", "registering"} /\ worker[r] = "none"
        /\ \A q \in Plays \ {r} : pc'[q] = pc[q]
        /\ UNCHANGED <<worker, mine>>
    BY <1>2 DEF Unsupported, AsmRefuses, TurnsAway, Fails, FailsAs, At, GoTo, Numbered, Early, Filling
  <2>2. \/ registered' = registered
        \/ registered' = registered \cup {r} /\ pc'[r] = "refused" /\ Managed(r)
    BY <1>2 DEF Unsupported, AsmRefuses, FailsAs, At, GoTo, asmVars, Numbered
  <2>3. r \notin registered
    BY <2>1
  <2> QED
    BY <2>1, <2>2, <2>3 DEF Managed
<1>3. ASSUME NEW r \in Plays, Reset(r) PROVE FALSE
  BY <1>3 DEF NoReset
<1>4. ASSUME NEW r \in Plays, CreateFails(r) PROVE EntryExplained'
  <2>1. /\ pc[r] = "create" /\ mine[r] \in Slots
        /\ UNCHANGED <<mine, worker, registered>>
        /\ \A q \in Plays \ {r} : pc'[q] = pc[q]
    BY <1>4 DEF CreateFails, Fails, FailsAs, At, GoTo, asmVars, Numbered, Holds, InPlay, Filling
  <2>2. r \in registered => pc'[r] = "unregister"
    BY <1>4 DEF CreateFails, GoTo
  <2> QED
    BY <2>1, <2>2, Names DEF Managed
<1>5. ASSUME NEW r \in Plays, AsmGrants(r) PROVE EntryExplained'
  <2>1. Managed(r)
    BY <1>5 DEF AsmGrants, At, Numbered
  <2> QED
    BY <1>5, <2>1 DEF AsmGrants, At, GoTo, instVars, Managed
<1>6. ASSUME NEW r \in Plays, Create(r) PROVE EntryExplained'
  BY <1>6, CreateInstance DEF Managed
<1>7. ASSUME NEW r \in Plays, Play(r) PROVE EntryExplained'
  BY <1>7 DEF Play, At, GoTo, asmVars, Managed
<1>8. ASSUME NEW r \in Plays, PlayFails(r) PROVE FALSE
  BY <1>8 DEF PlayFails
<1>9. ASSUME NEW r \in Plays, Unregister(r) PROVE EntryExplained'
  <2>1. pc[r] = "unregister" /\ worker[r] = "none"
    BY <1>9, UnregistersOwn DEF FailedInv
  <2>2. r \notin registered'
    BY <1>9, <2>1, UnregistersOwn
  <2> QED
    BY <1>9, <2>2, UnregistersOwn DEF Managed
<1>10. ASSUME NEW r \in Plays,
             WorkerBegins(r) \/ WorkerReturns(r) \/ WorkerChecks(r) \/ WorkerSetsPlay(r) \/ WorkerEnds(r) \/ EndLocks(r)
      PROVE  EntryExplained'
  BY <1>10 DEF WorkerBegins, WorkerReturns, WorkerChecks, WorkerSetsPlay, WorkerEnds, EndLocks,
     WorkerAt, WorkerTo, slotVars, threadVars, asmVars, Managed
<1>11. ASSUME NEW r \in Plays, EndUnregisters(r) PROVE EntryExplained'
  <2>1. r \notin registered'
    BY <1>11, ForgetsOwn
  <2> QED
    BY <1>11, <2>1, ForgetsOwn DEF Managed
<1>12. ASSUME NEW r \in Plays, EndDestroys(r) PROVE EntryExplained'
  BY <1>12, DestroysOwn DEF Managed
<1>13. ASSUME Asm \/ Clients PROVE EntryExplained'
  BY <1>13, AsmWrites DEF slotVars, threadVars, Managed
<1> QED
  BY <1>1, <1>2, <1>3, <1>4, <1>5, <1>6, <1>7, <1>8, <1>9, <1>10, <1>11, <1>12, <1>13
  DEF Next, Serve, Work

\* A failing request closes the source of a memory request.
LEMMA FailsCloses ==
  ASSUME SlotsInv, NEW r \in Plays, NEW end, FailsAs(r, end, 0), Origin[r] # "file"
  PROVE  /\ pc' = [pc EXCEPT ![r] = end]
         /\ closes' = [closes EXCEPT ![r] = closes[r] + IF HasSource(r) THEN 1 ELSE 0]
<1>1. Origin[r] \in {"memory", "dtmf"}
  BY CodecAssumption
<1>2. closes[r] \in Nat
  BY DEF SlotsInv, TypeOK
<1>3. closes[r] + 0 + (IF Origin[r] = "memory" THEN 1 ELSE 0) = closes[r] + IF HasSource(r) THEN 1 ELSE 0
  BY <1>1, <1>2 DEF HasSource
<1> QED
  BY <1>3 DEF FailsAs, GoTo

LEMMA ClosedNext ==
  ASSUME "play" \notin Faults, \A r \in Plays : Origin[r] # "file"
  PROVE  SlotsInv /\ Owned /\ FailedInv /\ ClosedInv /\ NoReset /\ Next => ClosedInv'
<1> SUFFICES ASSUME SlotsInv, Owned, FailedInv, ClosedInv, NoReset, Next PROVE ClosedInv'
  OBVIOUS
<1> USE DEF SlotsInv, TypeOK, ClosedInv, At, WorkerAt
<1>1. ASSUME NEW r \in Plays,
             Start(r) \/ FindOld(r) \/ StopOld(r) \/ TableFull(r) \/ Take(r) \/ Lock(r)
                              \/ AsmEnter(r) \/ AsmGrants(r)
      PROVE  ClosedInv'
  BY <1>1 DEF Start, FindOld, StopOld, TableFull, Take, Lock, AsmEnter, AsmGrants, GoTo,
     instVars, HasSource
<1>2. ASSUME NEW r \in Plays, worker' = worker, worker[r] = "none", pc[r] \notin {"failed", "refused"},
             FailsAs(r, "failed", 0) \/ FailsAs(r, "refused", 0)
      PROVE  ClosedInv'
  <2>1. PICK end \in {"failed", "refused"} : FailsAs(r, end, 0)
    BY <1>2
  <2>2. /\ pc' = [pc EXCEPT ![r] = end]
        /\ closes' = [closes EXCEPT ![r] = closes[r] + IF HasSource(r) THEN 1 ELSE 0]
    BY <2>1, FailsCloses
  <2> QED
    BY <1>2, <2>2 DEF HasSource
<1>3. ASSUME NEW r \in Plays, worker' = worker, worker[r] = "none", pc[r] \notin {"failed", "refused"},
             GoTo(r, "unregister"), UNCHANGED closes
      PROVE  ClosedInv'
  BY <1>3 DEF GoTo, HasSource
<1>4. ASSUME NEW r \in Plays, Unsupported(r) \/ AsmRefuses(r) \/ CreateFails(r) PROVE ClosedInv'
  <2>1. /\ worker' = worker /\ worker[r] = "none" /\ pc[r] \notin {"failed", "refused"}
    BY <1>4 DEF Unsupported, AsmRefuses, CreateFails, Numbered, Early, Filling
  <2>2. \/ FailsAs(r, "failed", 0) \/ FailsAs(r, "refused", 0)
        \/ GoTo(r, "unregister") /\ UNCHANGED closes
    BY <1>4 DEF Unsupported, AsmRefuses, CreateFails, TurnsAway, Fails
  <2> QED
    BY <1>2, <1>3, <2>1, <2>2
<1>5. ASSUME NEW r \in Plays, Reset(r) PROVE FALSE
  BY <1>5 DEF NoReset
<1>6. ASSUME NEW r \in Plays, Create(r) PROVE ClosedInv'
  BY <1>6, CreateInstance DEF HasSource
<1>7. ASSUME NEW r \in Plays, Play(r) PROVE ClosedInv'
  BY <1>7 DEF Play, GoTo, HasSource
<1>8. ASSUME NEW r \in Plays, PlayFails(r) PROVE FALSE
  BY <1>8 DEF PlayFails
<1>9. ASSUME NEW r \in Plays, Unregister(r) PROVE ClosedInv'
  <2>1. pc[r] = "unregister" /\ worker' = worker /\ worker[r] = "none"
    BY <1>9, UnregistersOwn DEF FailedInv
  <2>2. FailsAs(r, "failed", 0)
    BY <1>9 DEF Unregister, Fails
  <2> QED
    BY <1>2, <2>1, <2>2
<1>10. ASSUME NEW r \in Plays, WorkerReturns(r) PROVE ClosedInv'
  <2>1. ~HasSource(r)
    BY <1>10, CodecAssumption DEF WorkerReturns, HasSource
  <2> QED
    BY <1>10, <2>1 DEF WorkerReturns, WorkerTo, threadVars, HasSource
<1>11. ASSUME NEW r \in Plays,
             WorkerBegins(r) \/ WorkerChecks(r) \/ WorkerSetsPlay(r) \/ WorkerEnds(r) \/ EndLocks(r)
      PROVE  ClosedInv'
  BY <1>11 DEF WorkerBegins, WorkerChecks, WorkerSetsPlay, WorkerEnds, EndLocks, WorkerTo,
     threadVars, HasSource
<1>12. ASSUME NEW r \in Plays, EndUnregisters(r) PROVE ClosedInv'
  BY <1>12, ForgetsOwn DEF HasSource
<1>13. ASSUME NEW r \in Plays, EndDestroys(r) PROVE ClosedInv'
  <2>1. pc[r] \notin {"failed", "refused"}
    BY <1>13, DestroysOwn DEF FailedInv
  <2> QED
    BY <1>13, <2>1, DestroysOwn DEF HasSource
<1>14. ASSUME Asm \/ Clients PROVE ClosedInv'
  BY <1>14, AsmWrites DEF threadVars, HasSource
<1> QED
  BY <1>1, <1>4, <1>5, <1>6, <1>7, <1>8, <1>9, <1>10, <1>11, <1>12, <1>13, <1>14 DEF Next, Serve, Work

\* A step that writes no slot leaves the client callbacks in them.
LEMMA MessageKept ==
  ASSUME MessageInv, UNCHANGED slot,
         \A r \in Plays :
           /\ Live(r)' => Live(r)
           /\ pc'[r] \in {"lock"} \cup Filling => pc[r] \in {"lock"} \cup Filling
           /\ Live(r) \/ pc[r] \in {"lock"} \cup Filling => mine'[r] = mine[r]
  PROVE  MessageInv'
  BY DEF MessageInv

LEMMA MessageNext ==
  ASSUME "create" \notin Faults
  PROVE  SlotsInv /\ Owned /\ MessageInv /\ NoReset /\ Next => MessageInv'
<1> SUFFICES ASSUME SlotsInv, Owned, MessageInv, NoReset, Next PROVE MessageInv'
  OBVIOUS
<1> USE DEF SlotsInv, TypeOK
<1>1. ASSUME NEW r \in Plays,
             Start(r) \/ FindOld(r) \/ StopOld(r) \/ TableFull(r) PROVE MessageInv'
  <2>1. /\ \A q \in Plays \ {r} : pc'[q] = pc[q] /\ mine'[q] = mine[q]
        /\ pc'[r] \in {"find", "stopOld", "alloc", "reset"} /\ pc[r] \in {"idle", "find", "stopOld", "alloc"}
        /\ UNCHANGED <<slot, worker>> /\ worker[r] = "none"
    BY <1>1 DEF Start, FindOld, StopOld, TableFull, At, GoTo, slotVars, threadVars, instVars,
       Numbered, Early
  <2> QED
    BY <2>1, MessageKept DEF Live, Filling
<1>2. ASSUME NEW r \in Plays,
             Unsupported(r) \/ Unregister(r) \/ AsmEnter(r) \/ AsmRefuses(r) \/ AsmGrants(r) \/ Play(r) \/ PlayFails(r)
      PROVE  MessageInv'
  <2>1. /\ \A q \in Plays \ {r} : pc'[q] = pc[q]
        /\ UNCHANGED <<slot, worker, mine>>
        /\ pc'[r] \in Filling => pc[r] \in Filling
        /\ pc'[r] # "lock"
    BY <1>2 DEF Unsupported, Unregister, AsmEnter, AsmRefuses, AsmGrants, Play, PlayFails,
       Fails, FailsAs, TurnsAway, At, GoTo,
       slotVars, threadVars, instVars, Filling
  <2> QED
    BY <2>1, MessageKept DEF Live
<1>3. ASSUME NEW r \in Plays, Take(r) PROVE MessageInv'
  <2>1. PICK s \in Slots : /\ slot[s].status = "IDLE"
                           /\ mine' = [mine EXCEPT ![r] = s]
                           /\ slot' = [slot EXCEPT ![s].status = "SOUND"]
    BY <1>3 DEF Take, IdleSlots
  <2>2. pc' = [pc EXCEPT ![r] = "lock"] /\ worker' = worker /\ worker[r] = "none"
    BY <1>3 DEF Take, At, GoTo, instVars, Numbered, Early
  <2>3. \A q \in Slots : /\ slot'[q].msg = slot[q].msg
                         /\ slot'[q].status = "IDLE" => slot[q].status = "IDLE"
    BY <2>1 DEF Slot
  <2>4. \A q \in Plays : Live(q) \/ pc[q] \in {"lock"} \cup Filling => mine[q] \in Slots
    BY DEF Numbered, Holds, InPlay
  <2> QED
    BY <2>1, <2>2, <2>3, <2>4 DEF MessageInv, Live
<1>4. ASSUME NEW r \in Plays, Reset(r) PROVE MessageInv'
  BY <1>4 DEF NoReset
<1>5. ASSUME NEW r \in Plays, Lock(r) PROVE MessageInv'
  <2>1. /\ pc[r] = "lock" /\ \A q \in Plays \ {r} : pc'[q] = pc[q]
        /\ UNCHANGED <<worker, mine>>
    BY <1>5 DEF Lock, At, GoTo, instVars
  <2>2. \A q \in Slots : slot'[q].msg = slot[q].msg
    BY <1>5 DEF Lock, Slot
  <2>3. \A q \in Slots : slot'[q].status = "IDLE" => slot[q].status = "IDLE"
    BY <1>5, CodecAssumption DEF Lock, Slot
  <2>4. \A q \in Plays : Live(q) \/ pc[q] \in {"lock"} \cup Filling => mine[q] \in Slots
    BY DEF Numbered, Holds, InPlay
  <2> QED
    BY <2>1, <2>2, <2>3, <2>4 DEF MessageInv, Live
<1>6. ASSUME NEW r \in Plays, Create(r) PROVE MessageInv'
  <2>1. slot[mine[r]].msg = Nobody
    BY <1>6, CreateInstance DEF MessageInv, Filling
  <2>2. \A q \in Plays \ {r} : Live(q) \/ pc[q] \in {"lock"} \cup Filling => mine[q] \in Slots \ {mine[r]}
    <3>1. Holds(r)
      BY <1>6, CreateInstance DEF Holds, InPlay, Filling
    <3> QED
      BY <3>1 DEF Owned, Numbered, Holds, InPlay
  <2>3. slot'[mine[r]].status # "IDLE"
    BY <1>6, CreateInstance DEF Owned, Holds, InPlay, Filling
  <2>4. slot'[mine[r]].msg = IF Origin[r] = "dtmf" THEN Nobody ELSE r
    BY <1>6, <2>1, CreateInstance DEF HasSource
  <2>5. \A q \in Plays \ {r} : Live(q)' <=> Live(q)
    BY <1>6, CreateInstance DEF Live
  <2>6. \A q \in Plays : Live(q)' => slot'[mine'[q]].msg = IF Origin[q] = "dtmf" THEN Nobody ELSE q
    BY <1>6, <2>2, <2>4, <2>5, CreateInstance DEF MessageInv
  <2>7. \A q \in Plays : pc'[q] \in {"lock"} \cup Filling => slot'[mine'[q]].msg = Nobody
    BY <1>6, <2>2, CreateInstance DEF MessageInv, Filling
  <2>8. \A s \in Slots : slot'[s].status = "IDLE" => slot'[s].msg = Nobody
    BY <1>6, <2>3, CreateInstance DEF MessageInv
  <2> QED
    BY <2>6, <2>7, <2>8 DEF MessageInv
<1>7. ASSUME NEW r \in Plays, CreateFails(r) PROVE FALSE
  BY <1>7 DEF CreateFails
<1>8. ASSUME NEW r \in Plays,
             \/ WorkerBegins(r) \/ WorkerReturns(r) \/ WorkerChecks(r) \/ WorkerSetsPlay(r) \/ WorkerEnds(r)
             \/ EndLocks(r) \/ EndUnregisters(r)
      PROVE  MessageInv'
  <2>1. /\ \A q \in Plays \ {r} : worker'[q] = worker[q]
        /\ UNCHANGED <<slot, pc, mine>>
        /\ worker[r] \notin {"none", "gone"}
    BY <1>8 DEF WorkerBegins, WorkerReturns, WorkerChecks, WorkerSetsPlay, WorkerEnds,
       EndLocks, EndUnregisters,
       WorkerAt, WorkerTo, slotVars, threadVars
  <2> QED
    BY <2>1, MessageKept DEF Live
<1>9. ASSUME NEW r \in Plays, EndDestroys(r) PROVE MessageInv'
  <2>1. \A q \in Plays \ {r} : Live(q) \/ pc[q] \in {"lock"} \cup Filling => mine[q] \in Slots \ {mine[r]}
    <3>1. Holds(r)
      BY <1>9, DestroysOwn DEF Holds, Live
    <3> QED
      BY <3>1 DEF Owned, Numbered, Holds, InPlay
  <2>2. pc[r] \notin {"lock"} \cup Filling
    BY <1>9, DestroysOwn DEF Numbered, Early
  <2>3. EmptySlot.msg = Nobody
    BY DEF EmptySlot
  <2> QED
    BY <1>9, <2>1, <2>2, <2>3, DestroysOwn DEF MessageInv, Live
<1>10. ASSUME Asm \/ Clients PROVE MessageInv'
  BY <1>10, AsmWrites, MessageKept DEF slotVars, threadVars, Live
<1> QED
  BY <1>1, <1>2, <1>3, <1>4, <1>5, <1>6, <1>7, <1>8, <1>9, <1>10 DEF Next, Serve, Work

-----------------------------------------------------------------------------
(* Room in the table.                                                      *)

\* The request has taken a slot, whatever has become of it.
Past(r) == pc[r] \notin {"idle", "find", "stopOld", "alloc", "reset"}

\* A slot that is taken was taken by a request.
Occupied == \A s \in Slots : slot[s].status # "IDLE" => \E r \in Plays : Past(r) /\ mine[r] = s

LEMMA OccupiedNext == SlotsInv /\ Occupied /\ Next => Occupied'
<1> SUFFICES ASSUME SlotsInv, Occupied, Next PROVE Occupied'
  OBVIOUS
<1> USE DEF SlotsInv, TypeOK
<1>1. ASSUME \A q \in Plays : Past(q) => Past(q)' /\ mine'[q] = mine[q],
             \A s \in Slots : slot'[s].status # "IDLE" =>
               slot[s].status # "IDLE" \/ \E q \in Plays : Past(q)' /\ mine'[q] = s
      PROVE  Occupied'
  BY <1>1 DEF Occupied
<1>2. ASSUME NEW r \in Plays, Start(r) \/ FindOld(r) \/ StopOld(r) \/ TableFull(r) PROVE Occupied'
  <2>1. /\ \A q \in Plays \ {r} : pc'[q] = pc[q] /\ mine'[q] = mine[q]
        /\ ~Past(r) /\ UNCHANGED slot
    BY <1>2 DEF Start, FindOld, StopOld, TableFull, At, GoTo, slotVars, threadVars, Past
  <2> QED
    BY <1>1, <2>1 DEF Past
<1>3. ASSUME NEW r \in Plays, Take(r) PROVE Occupied'
  <2>1. PICK s \in Slots : /\ slot[s].status = "IDLE"
                           /\ mine' = [mine EXCEPT ![r] = s]
                           /\ slot' = [slot EXCEPT ![s].status = "SOUND"]
    BY <1>3 DEF Take, IdleSlots
  <2>2. pc' = [pc EXCEPT ![r] = "lock"] /\ ~Past(r)
    BY <1>3 DEF Take, At, GoTo, Past
  <2>3. mine'[r] = s /\ Past(r)'
    BY <2>1, <2>2 DEF Past
  <2>4. \A q \in Slots : slot'[q].status # "IDLE" => q = s \/ slot[q].status # "IDLE"
    BY <2>1 DEF Slot
  <2>5. \A q \in Plays : Past(q) => Past(q)' /\ mine'[q] = mine[q]
    BY <2>1, <2>2 DEF Past
  <2> QED
    BY <1>1, <2>3, <2>4, <2>5
<1>4. ASSUME NEW r \in Plays,
             \/ Unsupported(r) \/ Unregister(r) \/ AsmEnter(r) \/ AsmRefuses(r) \/ AsmGrants(r) \/ Play(r)
             \/ PlayFails(r)
      PROVE  Occupied'
  <2>1. /\ \A q \in Plays \ {r} : pc'[q] = pc[q]
        /\ UNCHANGED <<slot, mine>>
        /\ Past(r)'
    BY <1>4 DEF Unsupported, Unregister, AsmEnter, AsmRefuses, AsmGrants, Play, PlayFails,
       Fails, FailsAs, TurnsAway, GoTo,
       slotVars, threadVars, Past
  <2> QED
    BY <1>1, <2>1 DEF Past
<1>5. ASSUME NEW r \in Plays, Reset(r) PROVE Occupied'
  <2>1. \A s \in Slots : slot'[s].status = "IDLE"
    BY <1>5 DEF Reset, Slot
  <2> QED
    BY <2>1 DEF Occupied
<1>6. ASSUME NEW r \in Plays, Lock(r) PROVE Occupied'
  <2>1. /\ Past(r)' /\ UNCHANGED mine
        /\ \A q \in Plays \ {r} : pc'[q] = pc[q]
    BY <1>6 DEF Lock, At, GoTo, Past
  <2>2. \A s \in Slots \ {mine[r]} : slot'[s] = slot[s]
    BY <1>6 DEF Lock
  <2> QED
    BY <1>1, <2>1, <2>2 DEF Past
<1>7. ASSUME NEW r \in Plays, Create(r) \/ CreateFails(r) PROVE Occupied'
  <2>1. /\ Past(r)' /\ UNCHANGED mine
        /\ \A q \in Plays \ {r} : pc'[q] = pc[q]
    BY <1>7 DEF Create, CreateFails, Fails, FailsAs, At, GoTo, Past
  <2>2. \A s \in Slots \ {mine[r]} : slot'[s] = slot[s]
    BY <1>7 DEF Create, CreateFails
  <2> QED
    BY <1>1, <2>1, <2>2 DEF Past
<1>8. ASSUME NEW r \in Plays,
             \/ WorkerBegins(r) \/ WorkerReturns(r) \/ WorkerChecks(r) \/ WorkerSetsPlay(r) \/ WorkerEnds(r)
             \/ EndLocks(r) \/ EndUnregisters(r)
      PROVE  Occupied'
  <2>1. UNCHANGED <<slot, pc, mine>>
    BY <1>8 DEF WorkerBegins, WorkerReturns, WorkerChecks, WorkerSetsPlay, WorkerEnds,
       EndLocks, EndUnregisters,
       slotVars, threadVars
  <2> QED
    BY <1>1, <2>1 DEF Past
<1>9. ASSUME NEW r \in Plays, EndDestroys(r) PROVE Occupied'
  <2>1. UNCHANGED <<pc, mine>> /\ slot' = [slot EXCEPT ![mine[r]] = EmptySlot]
    BY <1>9 DEF EndDestroys, Cleared, threadVars
  <2> QED
    BY <1>1, <2>1, Names DEF Past
<1>10. ASSUME Asm \/ Clients PROVE Occupied'
  BY <1>1, <1>10, AsmWrites DEF slotVars, threadVars, Past
<1> QED
  BY <1>2, <1>3, <1>4, <1>5, <1>6, <1>7, <1>8, <1>9, <1>10 DEF Next, Serve, Work

\* When there are as many slots as requests, one that has no slot yet leaves one idle.
LEMMA SomeIdle ==
  ASSUME IsFiniteSet(Plays), Cardinality(Plays) <= NumSlots, SlotsInv, Occupied,
         NEW r \in Plays, ~Past(r)
  PROVE  IdleSlots # {}
<1> SUFFICES ASSUME IdleSlots = {} PROVE FALSE
  OBVIOUS
<1> DEFINE T == Plays \ {r}
           f == [s \in Slots |-> CHOOSE q \in T : mine[q] = s]
<1>1. \A s \in Slots : \E q \in T : mine[q] = s
  BY DEF IdleSlots, Occupied
<1>2. f \in [Slots -> T] /\ \A s \in Slots : mine[f[s]] = s
  BY <1>1
<1>3. IsFiniteSet(Slots) /\ Cardinality(Slots) = NumSlots
  <2>1. NumSlots \in Nat \ {0} /\ 0 \in Int /\ NumSlots - 1 \in Int
    BY CodecAssumption
  <2>2. /\ IsFiniteSet(0 .. NumSlots - 1)
        /\ Cardinality(0 .. NumSlots - 1) = IF 0 > NumSlots - 1 THEN 0 ELSE NumSlots - 1 - 0 + 1
    BY <2>1, FS_Interval
  <2> QED
    BY <2>1, <2>2 DEF Slots
<1>4. IsFiniteSet(T) /\ Cardinality(T) = Cardinality(Plays) - 1
  BY FS_RemoveElement
<1>5. Cardinality(T) < Cardinality(Slots)
  <2>1. Cardinality(Plays) \in Nat /\ NumSlots \in Nat
    BY FS_CardinalityType, CodecAssumption
  <2> QED
    BY <1>3, <1>4, <2>1
<1> HIDE DEF f, T
<1>6. \E x, y \in Slots : x # y /\ f[x] = f[y]
  BY <1>2, <1>3, <1>4, <1>5, FS_PigeonHole
<1> QED
  BY <1>2, <1>6

LEMMA RoomNext ==
  ASSUME IsFiniteSet(Plays), Cardinality(Plays) <= NumSlots
  PROVE  SlotsInv /\ Occupied /\ NeverFull /\ Next => NeverFull'
<1> SUFFICES ASSUME SlotsInv, Occupied, NeverFull, Next, NEW q \in Plays, pc'[q] = "reset" PROVE FALSE
  BY DEF NeverFull, At
<1> USE DEF SlotsInv, TypeOK
<1>1. pc[q] # "reset"
  BY DEF NeverFull, At
<1>2. ASSUME NEW r \in Plays, TableFull(r) PROVE FALSE
  BY <1>2, SomeIdle DEF TableFull, At, Past
<1>3. ASSUME NEW r \in Plays,
             Start(r) \/ FindOld(r) \/ StopOld(r) \/ Take(r) \/ Lock(r) \/ AsmEnter(r) \/ AsmGrants(r)
                              \/ Create(r) \/ Play(r)
      PROVE  FALSE
  BY <1>1, <1>3 DEF Start, FindOld, StopOld, Take, Lock, AsmEnter, AsmGrants, Create, Play, GoTo
<1>4. ASSUME NEW r \in Plays,
             Unsupported(r) \/ Reset(r) \/ AsmRefuses(r) \/ CreateFails(r) \/ PlayFails(r) \/ Unregister(r)
      PROVE  FALSE
  BY <1>1, <1>4 DEF Unsupported, Reset, AsmRefuses, CreateFails, PlayFails, Unregister, Fails, FailsAs, TurnsAway,
     GoTo
<1>5. ASSUME NEW r \in Plays, Work(r) PROVE FALSE
  BY <1>1, <1>5 DEF Work, WorkerBegins, WorkerReturns, WorkerChecks, WorkerSetsPlay,
     WorkerEnds, EndLocks,
     EndUnregisters, EndDestroys, threadVars
<1>6. ASSUME Asm \/ Clients PROVE FALSE
  BY <1>1, <1>6, AsmWrites DEF threadVars
<1> QED
  BY <1>2, <1>3, <1>4, <1>5, <1>6 DEF Next, Serve

-----------------------------------------------------------------------------
(* Theorems.                                                               *)

\* The slot mutex has one holder, who is in one of the two critical sections (g_slot_mutex in
\* MMSoundMgrCodecPlay and _MMSoundMgrCodecStopCallback, mm_sound_mgr_codec.c), also while the
\* table is reset and whatever fails; and all variables keep their types.
THEOREM SlotMutexHeld == Spec => [](TypeOK /\ LockHeld)
<1>1. SlotsInv => TypeOK /\ LockHeld
  BY DEF SlotsInv
<1> QED
  BY SlotsInit, SlotsNext, <1>1, PTL DEF Spec

\* The table is not found full as long as no more requests have come than it has slots
\* (_MMSoundMgrCodecGetEmptySlot, MANAGER_HANDLE_MAX).
THEOREM TableHasRoom ==
  ASSUME IsFiniteSet(Plays), Cardinality(Plays) <= NumSlots
  PROVE  Spec => []NeverFull
<1>1. Init => Occupied /\ NeverFull
  BY Names DEF Init, Occupied, NeverFull, At
<1>2. SlotsInv /\ Occupied /\ NeverFull /\ [Next]_vars => (Occupied /\ NeverFull)'
  <2>1. ASSUME Occupied, NeverFull, UNCHANGED vars PROVE (Occupied /\ NeverFull)'
    BY <2>1 DEF Occupied, NeverFull, Past, At, vars, slotVars, threadVars
  <2> QED
    BY <2>1, OccupiedNext, RoomNext
<1> QED
  BY SlotsInit, SlotsNext, <1>1, <1>2, PTL DEF Spec

\* The invariants about owners until the table is reset.
OwnersInv == SlotsInv /\ Owned /\ Placed

LEMMA OwnersInit == Init => OwnersInv
  BY SlotsInit, OwnedInit DEF OwnersInv

LEMMA OwnersStay == OwnersInv /\ NoReset /\ [Next]_vars => OwnersInv'
<1>1. ASSUME OwnersInv, UNCHANGED vars PROVE (Owned /\ Placed)'
  BY <1>1 DEF OwnersInv, Owned, Placed, Holds, Live, vars, slotVars, threadVars, instVars
<1> QED
  BY <1>1, SlotsNext, OwnedNext, PlacedNext DEF OwnersInv

LEMMA NotReset == NeverFull => NoReset
  BY DEF NeverFull, NoReset, Reset

LEMMA OwnersNext == OwnersInv /\ NeverFull /\ [Next]_vars => OwnersInv'
  BY OwnersStay, NotReset

\* As long as the table has not been found full, a worker finds its own instance in the slot it
\* was created for (slotid of _MMSoundMgrCodecStopCallback), with any faults and any stops.
THEOREM SlotsHaveOneOwner == Spec /\ []NeverFull => []OneOwner
<1>1. OwnersInv => OneOwner
  BY DEF OwnersInv, Owned, OneOwner
<1> QED
  BY OwnersInit, OwnersNext, <1>1, PTL DEF Spec

\* ... and no worker runs on a freed instance, and no slot refers to one, when every instance can
\* be played (the Destroy after a failed Play, mm_sound_mgr_codec.c:282, leaves worker and slot).
THEOREM FreedIsForgotten ==
  ASSUME "play" \notin Faults
  PROVE  Spec /\ []NeverFull => []NoUseAfterFree
<1>1. Init => FreedInv
  BY Names DEF Init, FreedInv
<1>2. OwnersInv /\ FreedInv /\ NeverFull /\ [Next]_vars => FreedInv'
  <2>1. ASSUME FreedInv, UNCHANGED vars PROVE FreedInv'
    BY <2>1 DEF FreedInv, vars, slotVars, instVars
  <2> QED
    BY <2>1, FreedNext, NotReset DEF OwnersInv
<1>3. FreedInv => NoUseAfterFree
  BY DEF FreedInv, NoUseAfterFree, Live
<1> QED
  BY OwnersInit, OwnersNext, <1>1, <1>2, <1>3, PTL DEF Spec

LEMMA RegisteredInit == Init => FailedInv /\ RegisteredInv /\ EntryExplained /\ ClosedInv
  BY DEF Init, FailedInv, RegisteredInv, EntryExplained, ClosedInv, InSession, WorkerAt, HasSource

LEMMA FailedStays ==
  ASSUME "play" \notin Faults
  PROVE  SlotsInv /\ FailedInv /\ [Next]_vars => FailedInv'
<1>1. ASSUME FailedInv, UNCHANGED vars PROVE FailedInv'
  BY <1>1 DEF FailedInv, vars, threadVars, instVars
<1> QED
  BY <1>1, FailedNext

\* When every instance can be played, what sounds is registered with the session manager until its
\* worker has ended (ASM_register_sound_ex and ASM_unregister_sound_ex of mm_sound_mgr_codec.c),
\* until a client dies (__check_dead_process, mm_sound_mgr_asm.c:649) or a request is turned away.
THEOREM SoundsAreRegistered ==
  ASSUME "play" \notin Faults
  PROVE  Spec => []SoundIsManaged
<1> DEFINE Calm == gone = {} /\ TurnedAway = {}
           Known == Calm => OwnersInv /\ RegisteredInv
<1>1. Init => Known
  BY OwnersInit, RegisteredInit
<1>2. SlotsInv /\ FailedInv /\ Known /\ [Next]_vars => Known'
  <2> SUFFICES ASSUME SlotsInv, FailedInv, Known, [Next]_vars, Calm' PROVE (OwnersInv /\ RegisteredInv)'
    OBVIOUS
  <2>1. gone = {} /\ TurnedAway = {} /\ TurnedAway' = {} /\ NoReset
    BY TurnedAwayNext, GoneGrows DEF NoReset
  <2>2. OwnersInv /\ RegisteredInv
    BY <2>1
  <2>3. OwnersInv'
    BY <2>1, <2>2, OwnersStay
  <2>4. ASSUME UNCHANGED vars PROVE RegisteredInv'
    BY <2>2, <2>4 DEF RegisteredInv, Managed, vars, threadVars, instVars, asmVars
  <2> QED
    BY <2>1, <2>2, <2>3, <2>4, RegisteredNext DEF OwnersInv
<1>3. Known => SoundIsManaged
  BY DEF RegisteredInv, SoundIsManaged, InSession
<1> HIDE DEF Known
<1> QED
  BY SlotsInit, SlotsNext, RegisteredInit, FailedStays, <1>1, <1>2, <1>3, PTL DEF Spec

\* As long as the table has not been found full and every instance can be played, nothing stays
\* registered but what was refused after it had been listed, unless a tone has no duration or its
\* creation fails (mm_sound_mgr_codec.c:386 sets need_asm_unregister, and the cleanup ignores it).
THEOREM RegistrationsGo ==
  ASSUME "play" \notin Faults, ZeroTime = {}, "create" \notin Faults \/ \A r \in Plays : HasSource(r)
  PROVE  Spec /\ []NeverFull => []RegistrationsReleased
<1>1. OwnersInv /\ FailedInv /\ EntryExplained /\ NeverFull /\ [Next]_vars => EntryExplained'
  <2>1. ASSUME EntryExplained, UNCHANGED vars PROVE EntryExplained'
    BY <2>1 DEF EntryExplained, Managed, vars, threadVars, instVars, asmVars
  <2> QED
    BY <2>1, EntryNext, NotReset DEF OwnersInv
<1>2. EntryExplained => RegistrationsReleased
  BY DEF EntryExplained, RegistrationsReleased, Settled, Ends, Live, InSession, At
<1>3. OwnersInv => SlotsInv
  BY DEF OwnersInv
<1> QED
  BY OwnersInit, OwnersNext, RegisteredInit, FailedStays, <1>1, <1>2, <1>3, PTL DEF Spec

\* ... and the source of every sound in memory is closed once, on every way through
\* MMSoundMgrCodecPlay but the one whose Play fails (mm_sound_mgr_ipc.c, mm_sound_mgr_codec.c).
THEOREM SourcesClosedOnce ==
  ASSUME "play" \notin Faults, \A r \in Plays : Origin[r] # "file"
  PROVE  Spec /\ []NeverFull => []SourcesReleased
<1>1. OwnersInv /\ FailedInv /\ ClosedInv /\ NeverFull /\ [Next]_vars => ClosedInv'
  <2>1. ASSUME ClosedInv, UNCHANGED vars PROVE ClosedInv'
    BY <2>1 DEF ClosedInv, HasSource, WorkerAt, vars, threadVars, instVars
  <2> QED
    BY <2>1, ClosedNext, NotReset DEF OwnersInv
<1>2. OwnersInv /\ ClosedInv => SourcesReleased
  <2> SUFFICES ASSUME OwnersInv, ClosedInv, NEW r \in Plays, Settled(r)
               PROVE  closes[r] = IF HasSource(r) THEN 1 ELSE 0
    BY DEF SourcesReleased
  <2>1. pc[r] \in {"failed", "refused"} \/ worker[r] = "gone"
    BY DEF Settled, Ends, Live, OwnersInv, SlotsInv, Numbered
  <2> QED
    BY <2>1 DEF ClosedInv, WorkerAt
<1>3. OwnersInv => SlotsInv
  BY DEF OwnersInv
<1> QED
  BY OwnersInit, OwnersNext, RegisteredInit, FailedStays, <1>1, <1>2, <1>3, PTL DEF Spec

\* Until a request is turned away, the client that is told of the end of a sound is the one that
\* played it, and for a tone there is none, unless creations fail, which leave a callback in the
\* idle slot (_MMSoundMgrCodecStopCallback, and mm_sound_mgr_codec.c:272).
THEOREM CallbacksAreOwn ==
  ASSUME "create" \notin Faults
  PROVE  Spec => []OwnCallback
<1> DEFINE Told == TurnedAway = {} => OwnersInv /\ MessageInv
<1>1. Init => Told
  <2>1. Init => MessageInv
    BY DEF Init, MessageInv, Live, Filling, EmptySlot
  <2> QED
    BY <2>1, OwnersInit
<1>2. SlotsInv /\ Told /\ [Next]_vars => Told'
  <2> SUFFICES ASSUME SlotsInv, Told, [Next]_vars, TurnedAway' = {} PROVE (OwnersInv /\ MessageInv)'
    OBVIOUS
  <2>1. TurnedAway = {} /\ NoReset
    BY TurnedAwayNext DEF NoReset
  <2>2. OwnersInv /\ MessageInv
    BY <2>1
  <2>3. OwnersInv'
    BY <2>1, <2>2, OwnersStay
  <2>4. ASSUME UNCHANGED vars PROVE MessageInv'
    BY <2>2, <2>4 DEF MessageInv, Live, vars, slotVars, threadVars, instVars
  <2> QED
    BY <2>1, <2>2, <2>3, <2>4, MessageNext DEF OwnersInv
<1>3. Told => OwnCallback
  BY DEF MessageInv, OwnCallback, Live
<1> HIDE DEF Told
<1> QED
  BY SlotsInit, SlotsNext, <1>1, <1>2, <1>3, PTL DEF Spec
=============================================================================
