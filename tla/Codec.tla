-------------------------------- MODULE Codec --------------------------------
(***************************************************************************)
(* Playing system sounds in the server: the codec manager                  *)
(* (server/mm_sound_mgr_codec.c) with its table of slots under             *)
(* g_slot_mutex, the play and stop requests that pool threads bring to it  *)
(* (server/mm_sound_mgr_ipc.c), and the worker thread of each sound in the *)
(* wave and tone plugins.                                                  *)
(*                                                                         *)
(* The audio session manager is seen here as what it is to this component: *)
(* a second mutex, whose holder may call a playing sound back and waits    *)
(* for the handler, which needs the first mutex, for at most 1500 ms.  It  *)
(* has a sound listed under the process that asked for it, and forgets the *)
(* sound when that process is gone, while the worker plays on.             *)
(*                                                                         *)
(* A play request brings one source, one plugin instance and one worker,   *)
(* so all of them bear the name of the request.                            *)
(***************************************************************************)
EXTENDS Integers

CONSTANTS
  Plays,       \* play requests, each served once by a thread of its own
  NumSlots,    \* MANAGER_HANDLE_MAX
  Kind,        \* Kind[r]: what the request is to the slot table
  Origin,      \* Origin[r]: the kind of IPC message it came in
  Endless,     \* requests with repeat_count -1
  ZeroTime,    \* tones of no duration
  Unmanaged,   \* requests whose session is a call or a video call
  Faults,      \* what may fail: "parse", "create", "play", or a client, which may "die"
  Nobody, Other

ASSUME CodecAssumption ==
  /\ NumSlots \in Nat \ {0}
  /\ Kind \in [Plays -> {"SOUND", "KEYTONE", "LOCALE"}]
  /\ Origin \in [Plays -> {"file", "memory", "dtmf"}]
  /\ \A r \in Plays : Origin[r] = "dtmf" => Kind[r] = "SOUND" /\ r \notin Unmanaged
  /\ Endless \subseteq Plays
  /\ ZeroTime \subseteq {r \in Plays : Origin[r] = "dtmf"}
  /\ Unmanaged \subseteq Plays
  /\ Faults \subseteq {"parse", "create", "play", "die"}
  /\ Nobody \notin Plays /\ Other \notin Plays /\ Nobody # Other

VARIABLES
  slot,        \* g_slots
  slotLock,    \* g_slot_mutex: its holder
  pc,          \* pc[r]: where the thread of request r is
  mine,        \* mine[r]: *slotid, the handle the request returns
  worker,      \* worker[r]: where the plugin's thread for r is
  st,          \* st[r]: the state field of the plugin instance
  crashed,     \* the server has stopped an instance that is none
  freed,       \* plugin instances given to free()
  closes,      \* closes[r]: how often the source of r was closed
  asmLock,     \* g_mutex_asm: its holder
  calling,     \* the sound whose callback that holder waits for
  pending,     \* sounds whose callback has been asked for and has not run
  registered,  \* sounds with an entry in the list of the session manager
  playing,     \* ... in the state PLAYING
  stopReq,     \* stopReq[r]: what became of the client's request to stop r
  gone         \* requests whose client has died

slotVars   == <<slot, slotLock>>
threadVars == <<pc, mine>>
instVars   == <<worker, st, crashed, freed, closes>>
asmVars    == <<asmLock, calling, pending, registered, playing>>
clientVars == <<stopReq, gone>>
vars == <<slotVars, threadVars, instVars, asmVars, clientVars>>

Slots   == 0 .. NumSlots - 1
NoSlot  == -1
Players == Plays \cup {Nobody}

\* __mmsound_mgr_codec_handle_t: status, plughandle, whose session and callback data, whose
\* client callback.
Slot == [status : {"IDLE", "SOUND", "KEYTONE", "LOCALE"}, inst : Players, of : Players, msg : Players]

EmptySlot == [status |-> "IDLE", inst |-> Nobody, of |-> Nobody, msg |-> Nobody]

Managed(r)   == r \notin Unmanaged
HasSource(r) == Origin[r] # "dtmf"

SlotFree == slotLock = <<Nobody, "free">>
HasSlotLock(r, role) == slotLock = <<r, role>>
LockSlots(r, role) == SlotFree /\ slotLock' = <<r, role>>
UnlockSlots == slotLock' = <<Nobody, "free">>

At(r, where) == pc[r] = where
GoTo(r, where) == pc' = [pc EXCEPT ![r] = where]
WorkerAt(r, where) == worker[r] = where
WorkerTo(r, where) == worker' = [worker EXCEPT ![r] = where]

\* MMSoundMgrCodecStop on slot s, with the slot mutex taken and released in the same step.  A slot
\* that is taken and has no instance has handle -1, which no plugin notices, or none, which the tone
\* plugin does not notice: the server may crash.
CodecStop(s) ==
  \/ /\ s \in Slots => slot[s].status = "IDLE"
     /\ UNCHANGED <<st, crashed>>
  \/ /\ s \in Slots /\ slot[s].status # "IDLE" /\ slot[s].inst = Nobody
     /\ crashed' \in BOOLEAN
     /\ UNCHANGED st
  \/ /\ s \in Slots /\ slot[s].status # "IDLE" /\ slot[s].inst # Nobody
     /\ st' = [st EXCEPT ![slot[s].inst] = "STOP"]
     /\ UNCHANGED crashed
-----------------------------------------------------------------------------
(* A play request.                                                         *)

\* The session of o ends: its entry goes.  If it has gone before, its handle may be anybody's.
Forget(o) ==
  \E v \in IF o \in registered THEN {o} ELSE registered \cup {Nobody} :
    registered' = registered \ {v} /\ playing' = playing \ {v}

\* Mutant: the source of a memory request is left to the codec manager.
FailsOpen(r, n) ==
  /\ GoTo(r, "failed")
  /\ closes' = [closes EXCEPT ![r] = @ + n]

\* What the IPC handler does when the codec manager refuses: it closes the source of a memory
\* request, and n is what the codec manager has closed before.
FailsAs(r, end, n) ==
  /\ GoTo(r, end)
  /\ closes' = [closes EXCEPT ![r] = @ + n + IF Origin[r] = "memory" THEN 1 ELSE 0]

Fails(r, n) == FailsAs(r, "failed", n)

\* A request that has no slot goes to the cleanup past the initialisation of need_asm_unregister:
\* that of a sound may end a session, too, with a handle that has never been set.
TurnsAway(r) ==
  \/ Fails(r, 0)
  \/ /\ HasSource(r) /\ Managed(r)
     /\ GoTo(r, "unregister")
     /\ UNCHANGED closes

\* The request has a pool thread, and its source is open.
Start(r) ==
  /\ At(r, "idle")
  /\ GoTo(r, IF Kind[r] = "SOUND" THEN "alloc" ELSE "find")
  /\ UNCHANGED <<slotVars, mine, instVars, asmVars, clientVars>>

\* No plugin can parse the source.
Unsupported(r) ==
  /\ At(r, "idle")
  /\ "parse" \in Faults /\ HasSource(r)
  /\ TurnsAway(r)
  /\ UNCHANGED <<slotVars, mine, worker, st, crashed, freed, asmVars, clientVars>>

\* _MMSoundMgrCodecFindKeytoneSlot and ...FindLocaleSlot: the first slot of the request's kind.
FindOld(r) ==
  /\ At(r, "find") /\ SlotFree
  /\ LET old == {s \in Slots : slot[s].status = Kind[r]}
     IN \/ /\ old = {}
           /\ GoTo(r, "alloc")
           /\ UNCHANGED mine
        \/ \E s \in old :
             /\ \A q \in old : s <= q
             /\ mine' = [mine EXCEPT ![r] = s]
             /\ GoTo(r, "stopOld")
  /\ UNCHANGED <<slotVars, instVars, asmVars, clientVars>>

\* ... which is stopped, if anything is still in it.
StopOld(r) ==
  /\ At(r, "stopOld") /\ SlotFree
  /\ CodecStop(mine[r])
  /\ GoTo(r, "alloc")
  /\ UNCHANGED <<slotVars, mine, worker, freed, closes, asmVars, clientVars>>

IdleSlots == {s \in Slots : slot[s].status = "IDLE"}

\* Mutant: the slot is only claimed when its data are filled in.
TakeUnclaimed(r) ==
  /\ At(r, "alloc") /\ SlotFree
  /\ \E s \in IdleSlots :
       /\ \A q \in IdleSlots : s <= q
       /\ mine' = [mine EXCEPT ![r] = s]
  /\ GoTo(r, "lock")
  /\ UNCHANGED <<slotVars, instVars, asmVars, clientVars>>

\* _MMSoundMgrCodecGetEmptySlot
Take(r) ==
  /\ At(r, "alloc") /\ SlotFree
  /\ \E s \in IdleSlots :
       /\ \A q \in IdleSlots : s <= q
       /\ mine' = [mine EXCEPT ![r] = s]
       /\ slot' = [slot EXCEPT ![s].status = "SOUND"]
  /\ GoTo(r, "lock")
  /\ UNCHANGED <<slotLock, instVars, asmVars, clientVars>>

\* ... which finds none.
TableFull(r) ==
  /\ At(r, "alloc") /\ SlotFree
  /\ IdleSlots = {}
  /\ mine' = [mine EXCEPT ![r] = NoSlot]
  /\ GoTo(r, "reset")
  /\ UNCHANGED <<slotVars, instVars, asmVars, clientVars>>

\* "Temporal code for reset": every slot is declared idle, without the mutex and whatever is in
\* it (the loop over the slots is one step here).
Reset(r) ==
  /\ At(r, "reset")
  /\ slot' = [s \in Slots |-> [slot[s] EXCEPT !.status = "IDLE"]]
  /\ TurnsAway(r)
  /\ UNCHANGED <<slotLock, mine, worker, st, crashed, freed, asmVars, clientVars>>

\* The long critical section of MMSoundMgrCodecPlay begins.
Lock(r) ==
  /\ At(r, "lock")
  /\ LockSlots(r, "play")
  /\ slot' = IF Kind[r] = "SOUND" THEN slot ELSE [slot EXCEPT ![mine[r]].status = Kind[r]]
  /\ GoTo(r, IF Managed(r) THEN "register" ELSE "create")
  /\ UNCHANGED <<mine, instVars, asmVars, clientVars>>

\* ASM_register_sound_ex calls __asm_process_message in this thread.
AsmEnter(r) ==
  /\ At(r, "register")
  /\ asmLock = Nobody
  /\ asmLock' = r
  /\ GoTo(r, "registering")
  /\ UNCHANGED <<slotVars, mine, instVars, calling, pending, registered, playing, clientVars>>

\* Mutant: an early return that leaves the mutex locked.
AsmRefusesLocked(r) ==
  /\ At(r, "registering") /\ calling = Nobody
  /\ asmLock' = Nobody
  /\ Fails(r, 0)
  /\ UNCHANGED <<slotVars, mine, worker, st, crashed, freed, calling, pending, registered, playing, clientVars>>

\* The conflict policy is against the sound: the slot stays taken.  It may have been listed before
\* the policy found that out, and then it stays listed.
AsmRefuses(r) ==
  /\ At(r, "registering") /\ calling = Nobody
  /\ asmLock' = Nobody
  /\ UnlockSlots
  /\ \/ Fails(r, 0) /\ UNCHANGED <<registered, playing>>
     \/ /\ FailsAs(r, "refused", 0)
        /\ registered' = registered \cup {r} /\ playing' = playing \cup {r}
  /\ UNCHANGED <<slot, mine, worker, st, crashed, freed, calling, pending, clientVars>>

\* Mutant: only a sound that interrupts nothing is registered.
AsmGrantsUnlisted(r) ==
  /\ At(r, "registering") /\ calling = Nobody
  /\ asmLock' = Nobody
  /\ registered' = IF pending = {} THEN registered \cup {r} ELSE registered
  /\ playing' = playing \cup {r}
  /\ GoTo(r, "create")
  /\ UNCHANGED <<slotVars, mine, instVars, calling, pending, clientVars>>

AsmGrants(r) ==
  /\ At(r, "registering") /\ calling = Nobody
  /\ asmLock' = Nobody
  /\ registered' = registered \cup {r}
  /\ playing' = playing \cup {r}
  /\ GoTo(r, "create")
  /\ UNCHANGED <<slotVars, mine, instVars, calling, pending, clientVars>>

\* What a request writes into its slot; a tone sets no callback of its client.
Filled(r) == [slot[mine[r]] EXCEPT !.of = r, !.msg = IF HasSource(r) THEN r ELSE @]

\* The slot's data are filled in, the plugin makes an instance and starts its worker.
Create(r) ==
  /\ At(r, "create")
  /\ slot' = [slot EXCEPT ![mine[r]] = [Filled(r) EXCEPT !.inst = r]]
  /\ st' = [st EXCEPT ![r] = "READY"]
  /\ WorkerTo(r, "wait")
  /\ GoTo(r, "play")
  /\ UNCHANGED <<slotLock, mine, crashed, freed, closes, asmVars, clientVars>>

\* Mutant: no cleanup.
CreateFailsRegistered(r) ==
  /\ At(r, "create")
  /\ "create" \in Faults
  /\ slot' = [slot EXCEPT ![mine[r]] = [Filled(r) EXCEPT !.status = "IDLE"]]
  /\ UnlockSlots
  /\ Fails(r, 0)
  /\ UNCHANGED <<mine, worker, st, crashed, freed, asmVars, clientVars>>

\* The audio device cannot be opened.  A tone keeps its registration.
CreateFails(r) ==
  /\ At(r, "create")
  /\ "create" \in Faults
  /\ slot' = [slot EXCEPT ![mine[r]] = [Filled(r) EXCEPT !.status = "IDLE"]]
  /\ UnlockSlots
  /\ IF Managed(r) /\ HasSource(r)
     THEN GoTo(r, "unregister") /\ UNCHANGED closes
     ELSE Fails(r, 0)
  /\ UNCHANGED <<mine, worker, st, crashed, freed, asmVars, clientVars>>

Play(r) ==
  /\ At(r, "play")
  /\ st' = [st EXCEPT ![r] = "BEGIN"]
  /\ UnlockSlots
  /\ GoTo(r, "done")
  /\ UNCHANGED <<slot, mine, worker, crashed, freed, closes, asmVars, clientVars>>

\* There is nothing to play: the instance is destroyed, its worker and its slot stay.
PlayFails(r) ==
  /\ At(r, "play")
  /\ "play" \in Faults /\ HasSource(r)
  /\ freed' = freed \cup {r}
  /\ UnlockSlots
  /\ IF Managed(r)
     THEN GoTo(r, "unregister") /\ closes' = [closes EXCEPT ![r] = @ + 1]
     ELSE Fails(r, 1)
  /\ UNCHANGED <<slot, mine, worker, st, crashed, asmVars, clientVars>>

\* The cleanup of MMSoundMgrCodecPlay, outside the slot mutex.  The handle of a request that was
\* turned away is 0, whosever that is.
Unregister(r) ==
  /\ At(r, "unregister")
  /\ asmLock = Nobody
  /\ Forget(IF mine[r] = NoSlot THEN Nobody ELSE r)
  /\ Fails(r, 0)
  /\ UNCHANGED <<slotVars, mine, worker, st, crashed, freed, asmLock, calling, pending, clientVars>>
-----------------------------------------------------------------------------
(* The worker of a sound.  What it reads from a freed instance is anything. *)

Sees(r, S) == r \in freed \/ st[r] \in S

\* The start signal, for which the worker polls its state.
WorkerBegins(r) ==
  /\ WorkerAt(r, "wait")
  /\ r \notin ZeroTime
  /\ Sees(r, {"BEGIN", "PLAY", "STOP"})
  /\ WorkerTo(r, "begun")
  /\ UNCHANGED <<slotVars, threadVars, st, crashed, freed, closes, asmVars, clientVars>>

\* A tone without a duration: the thread returns, and nobody is told.
WorkerReturns(r) ==
  /\ WorkerAt(r, "wait")
  /\ r \in ZeroTime
  /\ WorkerTo(r, "gone")
  /\ UNCHANGED <<slotVars, threadVars, st, crashed, freed, closes, asmVars, clientVars>>

\* The wave plugin looks whether it has been stopped already; the tone plugin does not.
WorkerChecks(r) ==
  /\ WorkerAt(r, "begun")
  /\ \/ /\ ~HasSource(r) \/ Sees(r, {"BEGIN", "PLAY"})
        /\ WorkerTo(r, "starting")
     \/ /\ HasSource(r) /\ Sees(r, {"STOP"})
        /\ WorkerTo(r, "sounding")
  /\ UNCHANGED <<slotVars, threadVars, st, crashed, freed, closes, asmVars, clientVars>>

WorkerSetsPlay(r) ==
  /\ WorkerAt(r, "starting")
  /\ st' = [st EXCEPT ![r] = "PLAY"]
  /\ WorkerTo(r, "sounding")
  /\ UNCHANGED <<slotVars, threadVars, crashed, freed, closes, asmVars, clientVars>>

\* The loop over the samples ends by itself or because of the state; the device is closed.
WorkerEnds(r) ==
  /\ WorkerAt(r, "sounding")
  /\ r \notin Endless \/ Sees(r, {"BEGIN", "STOP"})
  /\ st' = [st EXCEPT ![r] = "NONE"]
  /\ WorkerTo(r, "ended")
  /\ UNCHANGED <<slotVars, threadVars, crashed, freed, closes, asmVars, clientVars>>

\* _MMSoundMgrCodecStopCallback, for the slot number the instance was created with.
EndLocks(r) ==
  /\ WorkerAt(r, "ended")
  /\ LockSlots(r, "worker")
  /\ WorkerTo(r, "locked")
  /\ UNCHANGED <<slot, threadVars, st, crashed, freed, closes, asmVars, clientVars>>

\* The session of whatever is in the slot ends (a slot that has been cleared names handle 0).
EndUnregisters(r) ==
  /\ WorkerAt(r, "locked")
  /\ LET o == slot[mine[r]].of
     IN \/ o # Nobody /\ ~Managed(o) /\ UNCHANGED <<registered, playing>>
        \/ /\ o = Nobody \/ Managed(o)
           /\ asmLock = Nobody
           /\ Forget(o)
  /\ WorkerTo(r, "unregistered")
  /\ UNCHANGED <<slotVars, threadVars, st, crashed, freed, closes, asmLock, calling, pending, clientVars>>

\* Mutant: the slot becomes idle but keeps its data.
ClearedStatus(s) == [slot EXCEPT ![s].status = "IDLE"]

\* Mutant: the slot is left as it is.
NotCleared(s) == slot

Cleared(s) == [slot EXCEPT ![s] = EmptySlot]

\* The client is told, the instance and its source go, the slot is cleared.
EndDestroys(r) ==
  /\ WorkerAt(r, "unregistered")
  /\ LET i == slot[mine[r]].inst
     IN /\ freed' = freed \cup ({i} \ {Nobody})
        /\ closes' = IF i # Nobody /\ HasSource(i) THEN [closes EXCEPT ![i] = @ + 1] ELSE closes
  /\ slot' = Cleared(mine[r])
  /\ UnlockSlots
  /\ WorkerTo(r, "gone")
  /\ UNCHANGED <<threadVars, st, crashed, asmVars, clientVars>>
-----------------------------------------------------------------------------
(* The session manager and the callbacks into this server.                 *)

\* The holder of the session mutex calls a playing sound back.
Ask(s) ==
  /\ calling = Nobody
  /\ s \in playing
  /\ calling' = s
  /\ pending' = pending \cup {s}
  /\ playing' = playing \ {s}
  /\ UNCHANGED <<slotVars, threadVars, instVars, registered, clientVars>>

\* Another sound of this server asks to play, or another process does.
AsmInterrupts(r, s) ==
  /\ At(r, "registering")
  /\ Ask(s)
  /\ UNCHANGED asmLock

OtherInterrupts(s) ==
  /\ asmLock \in {Nobody, Other}
  /\ Ask(s)
  /\ asmLock' = Other

OtherDone ==
  /\ asmLock = Other /\ calling = Nobody
  /\ asmLock' = Nobody
  /\ UNCHANGED <<slotVars, threadVars, instVars, calling, pending, registered, playing, clientVars>>

\* sound_codec_asm_callback, in time or late: it stops the slot it was registered with.  A sound
\* that was refused has none.
Handler(s) ==
  /\ s \in pending /\ SlotFree /\ ~At(s, "refused")
  /\ CodecStop(mine[s])
  /\ pending' = pending \ {s}
  /\ calling' = IF calling = s THEN Nobody ELSE calling
  /\ UNCHANGED <<slotVars, threadVars, worker, freed, closes, asmLock, registered, playing, clientVars>>

\* Mutant: poll waits for ever.
AsmNeverTimesOut == FALSE

\* The session manager stops waiting after 1500 ms.
AsmTimesOut ==
  /\ calling # Nobody
  /\ calling' = Nobody
  /\ UNCHANGED <<slotVars, threadVars, instVars, asmLock, pending, registered, playing, clientVars>>

\* The process of a sound is gone (__check_dead_process, emergent_exit): whoever holds the session
\* mutex takes the entry off the list, and the worker is not told.
ForgetDead(s) ==
  /\ s \in gone \cap registered
  /\ calling = Nobody
  /\ asmLock' = IF asmLock = Nobody THEN Other ELSE asmLock
  /\ registered' = registered \ {s}
  /\ playing' = playing \ {s}
  /\ UNCHANGED <<slotVars, threadVars, instVars, calling, pending, clientVars>>
-----------------------------------------------------------------------------
(* Clients.                                                                *)

\* The client of a sound asks to stop it (once), with the handle it was given.
StopRequest(r) ==
  /\ At(r, "done") /\ stopReq[r] = "no" /\ r \notin gone /\ SlotFree
  /\ CodecStop(mine[r])
  /\ stopReq' = [stopReq EXCEPT ![r] =
                   IF slot[mine[r]].status = "IDLE" \/ slot[mine[r]].inst = Nobody
                   THEN "refused" ELSE "accepted"]
  /\ UNCHANGED <<slotVars, threadVars, worker, freed, closes, asmVars, gone>>

\* The client dies; its request stays with the server.
Dies(r) ==
  /\ "die" \in Faults
  /\ r \notin gone /\ ~At(r, "idle")
  /\ gone' = gone \cup {r}
  /\ UNCHANGED <<slotVars, threadVars, instVars, asmVars, stopReq>>
-----------------------------------------------------------------------------
Init ==
  /\ slot = [s \in Slots |-> EmptySlot]
  /\ slotLock = <<Nobody, "free">>
  /\ pc = [r \in Plays |-> "idle"]
  /\ mine = [r \in Plays |-> NoSlot]
  /\ worker = [r \in Plays |-> "none"]
  /\ st = [r \in Plays |-> "NONE"]
  /\ freed = {} /\ crashed = FALSE
  /\ closes = [r \in Plays |-> 0]
  /\ asmLock = Nobody /\ calling = Nobody /\ pending = {} /\ registered = {} /\ playing = {}
  /\ stopReq = [r \in Plays |-> "no"]
  /\ gone = {}

\* The steps of the thread that serves request r, once it has started.
Serve(r) ==
  \/ FindOld(r) \/ StopOld(r) \/ Take(r) \/ TableFull(r) \/ Reset(r) \/ Lock(r)
  \/ AsmEnter(r) \/ AsmRefuses(r) \/ AsmGrants(r)
  \/ Create(r) \/ CreateFails(r) \/ Play(r) \/ PlayFails(r) \/ Unregister(r)

Work(r) ==
  \/ WorkerBegins(r) \/ WorkerReturns(r) \/ WorkerChecks(r) \/ WorkerSetsPlay(r) \/ WorkerEnds(r)
  \/ EndLocks(r) \/ EndUnregisters(r) \/ EndDestroys(r)

Asm ==
  \/ \E r, s \in Plays : AsmInterrupts(r, s)
  \/ \E s \in Plays : OtherInterrupts(s) \/ Handler(s) \/ ForgetDead(s)
  \/ OtherDone \/ AsmTimesOut

Clients == \E r \in Plays : StopRequest(r) \/ Dies(r)

Next ==
  /\ ~crashed
  /\ \/ \E r \in Plays : Start(r) \/ Unsupported(r) \/ Serve(r) \/ Work(r)
     \/ Asm \/ Clients

\* What reads its state from a freed instance and waits for a change may wait for ever.
MayWait(r) == r \in freed /\ worker[r] \in {"wait", "sounding"}

\* Threads that can run do; the session manager finishes what it does and stops waiting after
\* 1500 ms.  No handler has to run, and no client has to call.
Spec ==
  /\ Init /\ [][Next]_vars
  /\ \A r \in Plays : /\ WF_vars(~crashed /\ Serve(r))
                      /\ WF_vars(~crashed /\ ~MayWait(r) /\ Work(r))
  /\ WF_vars(~crashed /\ AsmTimesOut) /\ WF_vars(~crashed /\ OtherDone)
-----------------------------------------------------------------------------
(* Properties.                                                             *)

Live(r) == worker[r] \notin {"none", "gone"}

Ends == {"done", "failed", "refused"}

\* Nothing of the request is left to run.
Settled(r) == pc[r] \in Ends /\ ~Live(r)

\* The requests that no plugin could parse, or whose coming has reset the full table.
TurnedAway == {r \in Plays : pc[r] \in {"unregister", "failed"} /\ mine[r] = NoSlot}

\* A worker finds its own instance in the slot it was created for, whatever other requests,
\* stops and callbacks do to the table meanwhile.
OneOwner == \A r \in Plays : Live(r) => slot[mine[r]].inst = r

\* A freed instance has no worker, and no slot that a stop request would accept refers to it.
NoUseAfterFree ==
  /\ \A r \in freed : ~Live(r)
  /\ \A s \in Slots : slot[s].status # "IDLE" => slot[s].inst \notin freed

\* Unless a client has died or a request has been turned away: what sounds is known to the session
\* manager, so that a call can silence it. The handle of a dead client's sound is free for another
\* while the sound goes on, and its end takes that one off the list; so may the cleanup of a
\* request that was turned away.
SoundIsManaged ==
  gone = {} /\ TurnedAway = {} =>
    \A r \in Plays : Managed(r) /\ worker[r] \in {"begun", "starting", "sounding"} => r \in registered

\* Until a request is turned away (when the table is full every slot is declared idle): the client
\* that is told of the end of a sound is the one that played it; a tone has none.
OwnCallback ==
  TurnedAway = {} =>
    \A r \in Plays : worker[r] = "unregistered" =>
      slot[mine[r]].msg = IF Origin[r] = "dtmf" THEN Nobody ELSE r

\* "Will be closed a sources" (the log message on failure): when a request and its sound are
\* over, the source has been closed, and once only.
SourcesReleased == \A r \in Plays : Settled(r) => closes[r] = IF HasSource(r) THEN 1 ELSE 0

\* When a request and its sound are over, no entry of it is left with the session manager, unless
\* that refused the sound after it had listed it.
RegistrationsReleased == \A r \in Plays : Settled(r) /\ ~At(r, "refused") => r \notin registered

\* Every play request is answered, although its thread waits for the session manager while it
\* keeps everybody else, the handler it waits for included, from the slots, and also when the table
\* was found full; or the server has crashed over a slot without an instance.
RequestsReturn ==
  \A r \in Plays : (pc[r] \notin {"idle"} \cup Ends) ~> (pc[r] \in Ends \/ crashed)

\* A sound that is not repeated for ever ends, and its slot is given back, unless its instance was
\* freed before: the worker of a sound that could not be played polls what was its state.
SoundsEnd ==
  \A r \in Plays \ (Endless \cup ZeroTime) :
    (worker[r] = "wait") ~> (worker[r] = "gone" \/ r \in freed \/ crashed)

\* "Playing sound file will be stopped" (include/mm_sound.h): a stop request that was accepted
\* ends the sound.
StopIsEffective ==
  \A r \in Plays : (stopReq[r] = "accepted") ~> (~Live(r) \/ crashed)
-----------------------------------------------------------------------------
(* Further statements that the code does not keep; README.md says where    *)
(* each of them fails.                                                     *)

\* "Playing sound file will be stopped" (include/mm_sound.h): a stop request is accepted as long
\* as the sound is being played.
StopIsAccepted ==
  [][\A r \in Plays : stopReq'[r] = "refused" /\ stopReq[r] = "no" => worker[r] # "sounding"]_vars

\* "It does not call stop callback" (include/mm_sound.h): the end of a sound that its client
\* stopped is not reported to the client.
NoCallbackAfterStop ==
  \A r \in Plays :
    worker[r] = "unregistered" /\ stopReq[r] = "accepted" => slot[mine[r]].msg = Nobody
=============================================================================
