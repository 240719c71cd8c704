------------------------------ MODULE AsmServer ------------------------------
(***************************************************************************)
(* The audio session manager of the sound server                           *)
(* (server/mm_sound_mgr_asm.c): the list of sound instances, the           *)
(* processing of one request at a time under g_mutex_asm, the walk over    *)
(* the list that compares the request with everything that sounds, and the *)
(* callbacks of that walk, each of which waits for the client's answer or  *)
(* for the 1500 ms poll timeout.                                           *)
(*                                                                         *)
(* A request is processed in several steps because processes die, send     *)
(* further requests and answer callbacks while the server works on it.     *)
(***************************************************************************)
EXTENDS Integers, Sequences, SequencesExt, AsmPolicy

CONSTANTS
  Pids,        \* client processes (instance_id)
  MaxHandle,   \* ASM_SERVER_HANDLE_MAX
  Resources,   \* bits of ASM_resource_t
  Uses,        \* Uses[p]: the events process p registers
  Claims,      \* Claims[p]: the resource sets p asks for
  MaxHeld,     \* bound: MaxHeld[p] handles at a time for process p
  MaxQueue,    \* bound: requests waiting in the queue
  AnswerRoom,  \* answers for which the queue asm_snd_msgid has room
  AskStates,   \* bound: the states clients set
  Misnamed,    \* events under which clients speak of an instance of another event
  DieBusy,     \* may a process die while the server still has a request of its?
  IsGcf        \* the vconf key VCONFKEY_ADMIN_GCF_TEST

ASSUME AsmAssumption ==
  /\ MaxHandle \in Nat \ {0}
  /\ Uses \in [Pids -> SUBSET Events]
  /\ Claims \in [Pids -> SUBSET SUBSET Resources]
  /\ MaxHeld \in [Pids -> Nat]
  /\ MaxQueue \in Nat \ {0}
  /\ AnswerRoom \in Nat \ {0}
  /\ AskStates \subseteq {"NONE", "PLAYING", "STOP", "PAUSE"}
  /\ Misnamed \subseteq Events
  /\ DieBusy \in BOOLEAN
  /\ IsGcf \in BOOLEAN

VARIABLES
  list,            \* head_list .. tail_list, newest entry first
  statusPlaying,   \* g_sound_status_playing, as the set of events whose bit is set
  statusPause,     \* g_sound_status_pause
  session,         \* what MMSoundMgrSessionGetSession returns
  pc,              \* where the holder of g_mutex_asm is; "idle" = mutex free
  cur,             \* the request being processed
  cursor,          \* temp_list of the walk, as a position in list
  pass,            \* which loop of the comparison the walk is in
  updated,         \* updatedflag
  quiet,           \* no_conflict_flag
  reply,           \* asm_snd_msg: alloc_handle and result_sound_command
  inbox,           \* the System V queue asm_rcv_msgid
  unread,          \* answers in asm_snd_msgid to processes that died before they read them
  held,            \* the handles the clients believe they own
  alive            \* processes for which isPIDExist holds

walkVars   == <<cursor, pass, updated, quiet, reply>>
statusVars == <<statusPlaying, statusPause>>
clientVars == <<inbox, unread, held, alive>>
vars == <<list, statusVars, session, pc, cur, walkVars, clientVars>>

Handles  == 0 .. MaxHandle - 1
NoHandle == -1
States   == {"NONE", "PLAYING", "STOP", "PAUSE"}
Sessions == {"MEDIA", "VOICECALL", "VOIP", "FMRADIO", "NOTIFICATION"}
Requests == {"REGISTER", "UNREGISTER", "SETSTATE", "GETMYSTATE", "EMERGENT_EXIT"}
Answers  == {"NONE", "STOP", "PAUSE", "PLAYING", "IGNORE"}
Commands == {"UNSET", "NONE", "PLAY", "STOP"}

Entry == [pid : Pids, handle : Handles, event : Events, state : States,
          resume : BOOLEAN, resource : SUBSET Resources, dirty : BOOLEAN]

Request == [pid : Pids, req : Requests, handle : Handles \cup {NoHandle}, event : Events,
            state : States, resource : SUBSET Resources]

NoRequest == [pid |-> "none"]
NoReply   == [alloc |-> NoHandle, cmd |-> "UNSET"]
Reply     == [alloc : Handles \cup {NoHandle}, cmd : Commands]
-----------------------------------------------------------------------------
(* The list and what is derived from it.                                   *)

EventsIn(l, st) == {l[i].event : i \in {j \in DOMAIN l : l[j].state = st}}

\* Mutant: the status words are not cleared first.
UpdatePhoneStatusNoReset(l) ==
  /\ statusPlaying' = statusPlaying \cup EventsIn(l, "PLAYING")
  /\ statusPause'   = statusPause \cup EventsIn(l, "PAUSE")

\* updatePhoneStatus: recompute both status words from the list.
UpdatePhoneStatus(l) ==
  /\ statusPlaying' = EventsIn(l, "PLAYING")
  /\ statusPause'   = EventsIn(l, "PAUSE")

HandlesIn(l) == {l[i].handle : i \in DOMAIN l}

Own(e, p, h) == e.pid = p /\ e.handle = h

\* __isItPlayingNow
IsItPlayingNow(l, p, h) == \E i \in DOMAIN l : Own(l[i], p, h) /\ l[i].state = "PLAYING"

\* Where a search from head_list for an entry that satisfies Test stops: at most one position.
FirstIn(l, Test(_)) == {i \in DOMAIN l : Test(l[i]) /\ \A j \in DOMAIN l : Test(l[j]) => i <= j}

PlaceOf(l, p, h) == FirstIn(l, LAMBDA e : Own(e, p, h))

\* __asm_change_state_list; IGNORE, which changes nothing, is left to AfterPause and AfterMix.
ChangeState(l, p, h, st, res) ==
  [i \in DOMAIN l |-> IF i \in PlaceOf(l, p, h)
                      THEN [l[i] EXCEPT !.state = st, !.resource = res] ELSE l[i]]

\* __asm_change_need_resume_list
NeedResume(l, p, h) ==
  [i \in DOMAIN l |-> IF i \in PlaceOf(l, p, h) THEN [l[i] EXCEPT !.resume = TRUE] ELSE l[i]]

\* __asm_register_list: the new instance becomes the head of the list.
Register(l, m) ==
  Cons([pid |-> m.pid, handle |-> m.handle, event |-> m.event, state |-> m.state,
        resume |-> FALSE, resource |-> m.resource, dirty |-> FALSE], l)

\* Mutant: the head goes, wherever the handle is.
UnregisterHead(l, h) == IF h \in HandlesIn(l) THEN {Tail(l)} ELSE {l}

\* __asm_unregister_list: what is left when the first entry with this handle goes, whoever owns
\* it (a set of one list, so that no position has to be chosen).
Unregister(l, h) ==
  IF h \in HandlesIn(l) THEN {RemoveAt(l, i) : i \in FirstIn(l, LAMBDA e : e.handle = h)} ELSE {l}

\* p's monitor instance.
MonitorOf(l, p) == FirstIn(l, LAMBDA e : e.pid = p /\ e.event = "MONITOR")

\* __find_clean_monitor_handle
HasCleanMonitor(l, p) == \E m \in MonitorOf(l, p) : ~l[m].dirty

\* __set_all_monitor_clean
SetAllMonitorClean(l) == [i \in DOMAIN l |-> [l[i] EXCEPT !.dirty = FALSE]]

\* MMSoundMgrSessionSetSession, as far as this component can see it.
StartSession(s) == session' = s
EndSession      == session' = "MEDIA"
-----------------------------------------------------------------------------
(* Clients.  A process sends nothing while it waits for an answer, nor after *)
(* it has announced its end.                                               *)

\* UNREGISTER and the states other than PLAYING are not answered: the process goes on at once.
Unanswered(m) == m.req = "UNREGISTER" \/ (m.req = "SETSTATE" /\ m.state # "PLAYING")

\* The server has a request of p, answered or not.
Busy(p) == cur.pid = p \/ \E i \in DOMAIN inbox : inbox[i].pid = p

Waiting(p) ==
  \/ cur.pid = p /\ ~Unanswered(cur)
  \/ \E i \in DOMAIN inbox : inbox[i].pid = p /\ ~Unanswered(inbox[i])

Send(m) ==
  /\ m.pid \in alive
  /\ ~Waiting(m.pid)
  /\ Len(inbox) < MaxQueue
  /\ inbox' = Append(inbox, m)
  /\ UNCHANGED <<list, statusVars, session, pc, cur, walkVars, unread, alive>>

HeldBy(p) == {g \in held : g.pid = p}

SendRegister(p) ==
  /\ Cardinality(HeldBy(p)) < MaxHeld[p]
  /\ \E ev \in Uses[p], st \in AskStates \cap {"NONE", "PLAYING"}, res \in Claims[p] :
       Send([pid |-> p, req |-> "REGISTER", handle |-> NoHandle, event |-> ev,
             state |-> st, resource |-> res])
  /\ UNCHANGED held

SendSetState(p) ==
  \E g \in HeldBy(p) : \E ev \in {g.event} \cup Misnamed, st \in AskStates, res \in Claims[p] :
    /\ Send([pid |-> p, req |-> "SETSTATE", handle |-> g.handle, event |-> ev,
             state |-> st, resource |-> res])
    /\ UNCHANGED held

SendUnregister(p) ==
  \E g \in HeldBy(p) : \E ev \in {g.event} \cup Misnamed :
    /\ Send([pid |-> p, req |-> "UNREGISTER", handle |-> g.handle, event |-> ev,
             state |-> "NONE", resource |-> {}])
    /\ held' = held \ {g}

\* A process asks for its own state, or announces its abnormal end and gives up its handles
\* (the server reads neither the event nor the state of these requests).
SendPlain(p) ==
  \E r \in {"GETMYSTATE", "EMERGENT_EXIT"} :
    /\ Send([pid |-> p, req |-> r, handle |-> NoHandle, event |-> EventSeq[1],
             state |-> "NONE", resource |-> {}])
    /\ held' = IF r = "EMERGENT_EXIT" THEN {g \in held : g.pid # p} ELSE held

\* A process dies; what it has already sent stays in the queue.
Die(p) ==
  /\ p \in alive
  /\ DieBusy \/ ~Busy(p)
  /\ alive' = alive \ {p}
  /\ held'  = {g \in held : g.pid # p}
  /\ UNCHANGED <<list, statusVars, session, pc, cur, walkVars, inbox, unread>>
-----------------------------------------------------------------------------
(* The server: one request at a time, with g_mutex_asm held.               *)

\* msgrcv of the main loop and the lock; EMERGENT_EXIT and UNREGISTER skip the dead-process check.
Accept ==
  /\ pc = "idle"
  /\ inbox # << >>
  /\ cur'   = Head(inbox)
  /\ inbox' = Tail(inbox)
  /\ pc' = CASE Head(inbox).req = "UNREGISTER"    -> "unregister"
             [] Head(inbox).req = "EMERGENT_EXIT" -> "emergent"
             [] OTHER                             -> "reap"
  /\ UNCHANGED <<list, statusVars, session, walkVars, unread, held, alive>>

\* Back to the main loop: the mutex is released and the locals are gone.
Idle ==
  /\ pc' = "idle"
  /\ cur' = NoRequest
  /\ cursor' = 1
  /\ pass' = "playing"
  /\ updated' = FALSE
  /\ quiet' = FALSE
  /\ reply' = NoReply

\* __asm_snd_message: msgsnd waits, with g_mutex_asm held, until the queue has room.  A process
\* that lives takes its answer at once; nobody takes that of one that has died.  What the request
\* changes in the list before the answer is sent is part of the same step.
SendAnswer ==
  /\ unread < AnswerRoom
  /\ unread' = IF cur.pid \in alive THEN unread ELSE unread + 1

\* The resume callbacks of __asm_do_all_resume_callback do not wait for an answer, so none of
\* them changes a state; they only forget that the instance was interrupted.
ResumeAll(l) == [i \in DOMAIN l |-> [l[i] EXCEPT !.resume = FALSE]]

DoUnregister ==
  /\ pc = "unregister"
  /\ \E rest \in Unregister(list, cur.handle) :
       /\ list' = IF IsNeedResume(cur.event) THEN ResumeAll(rest) ELSE rest
       /\ UpdatePhoneStatus(rest)
  /\ IF IsNeedResume(cur.event) THEN EndSession ELSE UNCHANGED session
  /\ Idle
  /\ UNCHANGED clientVars

\* emergent_exit: one entry of the process per turn of the loop, looked up by handle.
EmergentExit ==
  /\ pc = "emergent"
  /\ \E i \in FirstIn(list, LAMBDA e : e.pid = cur.pid) :
       list' \in Unregister(list, list[i].handle)
  /\ UpdatePhoneStatus(list')
  /\ UNCHANGED <<session, pc, cur, walkVars, clientVars>>

EmergentDone ==
  /\ pc = "emergent"
  /\ \A i \in DOMAIN list : list[i].pid # cur.pid
  /\ Idle
  /\ UNCHANGED <<list, statusVars, session, clientVars>>

\* __check_dead_process: one dead entry per turn.
ReapOne ==
  /\ pc = "reap"
  /\ \E i \in DOMAIN list :
       /\ list[i].pid \notin alive
       /\ list' = RemoveAt(list, i)
  /\ UNCHANGED <<statusVars, session, pc, cur, walkVars, clientVars>>

\* ... and its last statement, after which the request is looked at.
ReapDone ==
  /\ pc = "reap"
  /\ \A i \in DOMAIN list : list[i].pid \in alive
  /\ UpdatePhoneStatus(list)
  /\ pc' = "dispatch"
  /\ UNCHANGED <<list, session, cur, walkVars, clientVars>>

\* Mutant: the scan for used handles starts behind the head.
FreeHandlesBehindHead == Handles \ {list[i].handle : i \in DOMAIN list \ {1}}

FreeHandles == Handles \ HandlesIn(list)

\* The head of __asm_compare_priority_matrix: without a sounding instance there is no conflict.
StartCompare(h) ==
  /\ cur' = [cur EXCEPT !.handle = h]
  /\ IF statusPlaying = {}
     THEN /\ reply' = [alloc |-> h, cmd |-> "NONE"]
          /\ quiet' = TRUE
          /\ pc' = "walked"
     ELSE /\ UNCHANGED <<reply, quiet>>
          /\ pc' = "walk"
  /\ UNCHANGED <<list, statusVars, session, cursor, pass, updated, clientVars>>

\* __asm_get_empty_handle hands out the lowest handle no entry has.
DispatchRegister ==
  /\ pc = "dispatch"
  /\ cur.req = "REGISTER"
  /\ \E h \in FreeHandles :
       /\ \A g \in FreeHandles : h <= g
       /\ StartCompare(h)

\* All handles are taken: NoReply, as reply still is, is the answer.  Its alloc_handle is -1 and
\* its command and state have not been written; the client is taken to look at the handle first
\* (external library).
RegisterFull ==
  /\ pc = "dispatch"
  /\ cur.req = "REGISTER"
  /\ FreeHandles = {}
  /\ SendAnswer
  /\ Idle
  /\ UNCHANGED <<list, statusVars, session, inbox, held, alive>>

\* Mutant: also for what plays already.
DispatchPlayAgain ==
  /\ pc = "dispatch"
  /\ cur.req = "SETSTATE"
  /\ cur.state = "PLAYING"
  /\ StartCompare(cur.handle)

DispatchPlay ==
  /\ pc = "dispatch"
  /\ cur.req = "SETSTATE"
  /\ cur.state = "PLAYING"
  /\ ~IsItPlayingNow(list, cur.pid, cur.handle)
  /\ StartCompare(cur.handle)

\* Any other state change is not compared with anything; nor is PLAYING for what plays already.
SetStateDirectly ==
  /\ pc = "dispatch"
  /\ cur.req = "SETSTATE"
  /\ cur.state = "PLAYING" => IsItPlayingNow(list, cur.pid, cur.handle)
  /\ list' = ChangeState(list, cur.pid, cur.handle, cur.state, cur.resource)
  /\ UpdatePhoneStatus(list')
  /\ IF cur.state = "STOP" /\ cur.event \in RadioEvents /\ session = "FMRADIO"
     THEN EndSession ELSE UNCHANGED session
  /\ IF cur.state = "PLAYING" THEN SendAnswer ELSE UNCHANGED unread
  /\ Idle
  /\ UNCHANGED <<inbox, held, alive>>

\* Of this answer only the state is written.
AnswerMyState ==
  /\ pc = "dispatch"
  /\ cur.req = "GETMYSTATE"
  /\ SendAnswer
  /\ Idle
  /\ UNCHANGED <<list, statusVars, session, inbox, held, alive>>
-----------------------------------------------------------------------------
(* The walk over the sounding instances.                                   *)

Visited == list[cursor]
Mine(e) == Own(e, cur.pid, cur.handle)
Foreign(e) == e.pid # cur.pid
Clash(e) == e.resource \cap cur.resource # {}
CaseOf(e) == IF IsGcf /\ pass = "playing" THEN Mix ELSE SoundCase(e.event, cur.event)

Walking(where) == pc = where /\ cursor <= Len(list)

Next1 == cursor' = cursor + 1

\* The request takes effect in the list, once per walk.  A new head shifts the walk by one.
Commit(l) ==
  IF updated THEN l
  ELSE IF cur.req = "REGISTER" THEN Register(l, cur)
  ELSE ChangeState(l, cur.pid, cur.handle, cur.state, cur.resource)

CommitAndStep(l, cmd) ==
  /\ list' = Commit(l)
  /\ UpdatePhoneStatus(list')
  /\ updated' = TRUE
  /\ cursor' = IF updated \/ cur.req # "REGISTER" THEN cursor + 1 ELSE cursor + 2
  /\ reply' = [alloc |-> cur.handle, cmd |-> cmd]

\* Instances that do not sound, and the requester's own.
WalkSkip ==
  /\ Walking("walk")
  /\ Visited.state # "PLAYING" \/ Mine(Visited)
  /\ Next1
  /\ UNCHANGED <<list, statusVars, session, pc, cur, pass, updated, quiet, reply, clientVars>>

Sounding(e) == e.state = "PLAYING" /\ ~Mine(e)

\* Whether the visited instance has to be called back before the request may proceed.
MustCallBack(e) ==
  /\ Foreign(e)
  /\ CaseOf(e) \in {StopCurrent, PauseCurrent} \/ (CaseOf(e) = Mix /\ Clash(e))

\* A request that does not ask to play, an instance of the same process, and a mix without a
\* resource conflict: the request takes effect.
WalkPass ==
  /\ Walking("walk")
  /\ Sounding(Visited)
  /\ \/ cur.state # "PLAYING" /\ CommitAndStep(list, "NONE")
     \/ /\ cur.state = "PLAYING"
        /\ CaseOf(Visited) # CaseNone
        /\ CaseOf(Visited) = RefuseNew => ~Foreign(Visited)
        /\ ~MustCallBack(Visited)
        /\ CommitAndStep(list, "PLAY")
  /\ UNCHANGED <<session, pc, cur, pass, quiet, clientVars>>

\* ASM_CASE_1PLAY_2STOP against another process: refuse, and skip the rest of the list.
WalkRefuse ==
  /\ Walking("walk")
  /\ Sounding(Visited)
  /\ cur.state = "PLAYING"
  /\ CaseOf(Visited) = RefuseNew
  /\ Foreign(Visited)
  /\ reply' = [alloc |-> cur.handle, cmd |-> "STOP"]
  /\ cursor' = Len(list) + 1
  /\ UNCHANGED <<list, statusVars, session, pc, cur, pass, updated, quiet, clientVars>>

\* The default branch of the switch.
WalkCaseNone ==
  /\ Walking("walk")
  /\ Sounding(Visited)
  /\ cur.state = "PLAYING"
  /\ CaseOf(Visited) = CaseNone
  /\ reply' = [alloc |-> cur.handle, cmd |-> "NONE"]
  /\ Next1
  /\ UNCHANGED <<list, statusVars, session, pc, cur, pass, updated, quiet, clientVars>>

CallBackPc(e) == IF HasCleanMonitor(list, e.pid) THEN "monitor" ELSE "worker"

WalkInterrupt ==
  /\ Walking("walk")
  /\ Sounding(Visited)
  /\ cur.state = "PLAYING"
  /\ MustCallBack(Visited)
  /\ pc' = CallBackPc(Visited)
  /\ UNCHANGED <<list, statusVars, session, cur, walkVars, clientVars>>

\* The STOP callback of the process's monitor instance returned; the result is ignored.
MonitorReturned ==
  /\ pc = "monitor"
  /\ \E m \in MonitorOf(list, Visited.pid) :
       LET dirty == [list EXCEPT ![m] = [@ EXCEPT !.dirty = TRUE]]
       IN list' = IF pass = "playing" /\ IsNeedResume(cur.event)
                  THEN NeedResume(dirty, list[m].pid, list[m].handle) ELSE dirty
  /\ pc' = "worker"
  /\ UNCHANGED <<statusVars, session, cur, walkVars, clientVars>>

\* Mutants: an ignored STOP leaves the instance playing; IGNORE is recorded as a state.
AfterStopIgnored(e, res) ==
  IF res = "IGNORE" THEN list
  ELSE ChangeState(list, e.pid, e.handle, IF res = "STOP" THEN "STOP" ELSE "NONE", {})

AfterPauseIgnored(e, res) ==
  ChangeState(list, e.pid, e.handle, IF res \in {"IGNORE", "PAUSE"} THEN res ELSE "NONE", {})

\* The new state and resource of the instance that was called back.
AfterStop(e, res) == ChangeState(list, e.pid, e.handle, IF res = "STOP" THEN "STOP" ELSE "NONE", {})

AfterPause(e, res) ==
  CASE res = "IGNORE"          -> list
    [] res = "PAUSE"           -> ChangeState(list, e.pid, e.handle, "PAUSE", e.resource)
    [] res \in {"NONE","STOP"} -> ChangeState(list, e.pid, e.handle, "NONE", {})
    [] OTHER                   -> ChangeState(list, e.pid, e.handle, "NONE", e.resource)

AfterMix(e, res) ==
  CASE res = "IGNORE"          -> list
    [] res \in {"NONE","STOP"} -> ChangeState(list, e.pid, e.handle, "NONE", {})
    [] OTHER                   -> ChangeState(list, e.pid, e.handle, "NONE", e.resource)

Resumable(l, e) ==
  IF IsNeedResume(cur.event) /\ CaseOf(e) # Mix THEN NeedResume(l, e.pid, e.handle) ELSE l

\* The callback of the sounding instance returned, and the request takes effect.
WorkerReturned(res) ==
  /\ pc = "worker"
  /\ pass = "playing"
  /\ LET after == CASE CaseOf(Visited) = StopCurrent  -> AfterStop(Visited, res)
                    [] CaseOf(Visited) = PauseCurrent -> AfterPause(Visited, res)
                    [] OTHER                          -> AfterMix(Visited, res)
     IN CommitAndStep(Resumable(after, Visited), "PLAY")
  /\ IF CaseOf(Visited) = StopCurrent /\ Visited.event \in RadioEvents /\ session = "FMRADIO"
     THEN EndSession ELSE UNCHANGED session
  /\ pc' = "walk"
  /\ UNCHANGED <<cur, pass, quiet, clientVars>>

\* End of the list: every monitor may be called again.
WalkEnd ==
  /\ pc = "walk"
  /\ cursor > Len(list)
  /\ list' = SetAllMonitorClean(list)
  /\ pc' = "walked"
  /\ UNCHANGED <<statusVars, session, cur, walkVars, clientVars>>
-----------------------------------------------------------------------------
(* The second loop: paused instances that hold a resource the request      *)
(* needs.                                                                  *)

\* Mutant: only after a walk that granted the request.
StartPausedPassGranted ==
  /\ pc = "walked"
  /\ IF statusPause # {} /\ cur.resource # {} /\ reply.cmd = "PLAY"
     THEN pc' = "pausedWalk" /\ pass' = "paused" /\ cursor' = 1
     ELSE pc' = "finish" /\ UNCHANGED <<pass, cursor>>
  /\ UNCHANGED <<list, statusVars, session, cur, updated, quiet, reply, clientVars>>

StartPausedPass ==
  /\ pc = "walked"
  /\ IF statusPause # {} /\ cur.resource # {} /\ (reply.cmd = "PLAY" \/ quiet)
     THEN pc' = "pausedWalk" /\ pass' = "paused" /\ cursor' = 1
     ELSE pc' = "finish" /\ UNCHANGED <<pass, cursor>>
  /\ UNCHANGED <<list, statusVars, session, cur, updated, quiet, reply, clientVars>>

PausedOwn ==
  /\ Walking("pausedWalk")
  /\ Visited.state = "PAUSE"
  /\ Mine(Visited)
  /\ list' = IF cur.req = "SETSTATE"
             THEN ChangeState(list, cur.pid, cur.handle, cur.state, cur.resource) ELSE list
  /\ UpdatePhoneStatus(list')
  /\ Next1
  /\ UNCHANGED <<session, pc, cur, pass, updated, quiet, reply, clientVars>>

MustRelease(e) ==
  /\ e.state = "PAUSE"
  /\ ~Mine(e)
  /\ cur.state = "PLAYING"
  /\ CaseOf(e) \in {PauseCurrent, StopCurrent}
  /\ Foreign(e)
  /\ Clash(e)

PausedSkip ==
  /\ Walking("pausedWalk")
  /\ ~(Visited.state = "PAUSE" /\ Mine(Visited))
  /\ ~MustRelease(Visited)
  /\ Next1
  /\ UNCHANGED <<list, statusVars, session, pc, cur, pass, updated, quiet, reply, clientVars>>

PausedInterrupt ==
  /\ Walking("pausedWalk")
  /\ MustRelease(Visited)
  /\ pc' = CallBackPc(Visited)
  /\ UNCHANGED <<list, statusVars, session, cur, walkVars, clientVars>>

\* Whatever the paused client answers, it is taken to have given the resource up.
PausedReturned(res) ==
  /\ pc = "worker"
  /\ pass = "paused"
  /\ list' = ChangeState(list, Visited.pid, Visited.handle, "NONE", {})
  /\ UpdatePhoneStatus(list')
  /\ pc' = "pausedWalk"
  /\ Next1
  /\ UNCHANGED <<session, cur, pass, updated, quiet, reply, clientVars>>

PausedEnd ==
  /\ pc = "pausedWalk"
  /\ cursor > Len(list)
  /\ pc' = "finish"
  /\ UNCHANGED <<list, statusVars, session, cur, walkVars, clientVars>>

Returned(res) == WorkerReturned(res) \/ PausedReturned(res)

\* The client's handler ran and wrote its answer to the return pipe in time.
CallbackAnswered ==
  /\ pc = "worker"
  /\ Visited.pid \in alive
  /\ \E res \in Answers : Returned(res)

\* A pipe of the client could not be opened or written, or poll failed: -1, which is either
\* ASM_CB_RES_IGNORE or none of the listed values (the enumeration is outside the repository).
CallbackFailed == \E res \in {"IGNORE", "OTHER"} : Returned(res)

\* Mutant: poll waits for ever.
CallbackNeverTimesOut == FALSE

\* poll gave up after 1500 ms: the result is 0, ASM_CB_RES_NONE.
CallbackTimedOut == Returned("NONE")

\* The session that the processed request starts.
SessionAfter ==
  CASE cur.req = "REGISTER" /\ cur.event \in VoiceCallEvents -> "VOICECALL"
    [] cur.req = "REGISTER" /\ cur.event = "VIDEOCALL"       -> "VOIP"
    [] cur.req = "SETSTATE" /\ reply.cmd # "STOP" /\ cur.event = "ALARM"           -> "NOTIFICATION"
    [] cur.req = "SETSTATE" /\ reply.cmd # "STOP" /\ cur.event \in RadioEvents     -> "FMRADIO"
    [] OTHER                                                 -> session

\* The client learns its handle, unless its registration was refused (external library).
Learn ==
  IF cur.req = "REGISTER" /\ reply.cmd # "STOP" /\ cur.pid \in alive
  THEN held \cup {[pid |-> cur.pid, handle |-> reply.alloc, event |-> cur.event]}
  ELSE held

\* "Finally, no conflict", the answer, and the session change that follows it.
Finish ==
  /\ pc = "finish"
  /\ IF quiet
     THEN list' = Commit(list) /\ UpdatePhoneStatus(list')
     ELSE UNCHANGED <<list, statusVars>>
  /\ StartSession(SessionAfter)
  /\ held' = Learn
  /\ SendAnswer
  /\ Idle
  /\ UNCHANGED <<inbox, alive>>
-----------------------------------------------------------------------------
Init ==
  /\ list = << >>
  /\ statusPlaying = {} /\ statusPause = {}
  /\ session = "MEDIA"
  /\ pc = "idle"
  /\ cur = NoRequest
  /\ cursor = 1 /\ pass = "playing" /\ updated = FALSE /\ quiet = FALSE /\ reply = NoReply
  /\ inbox = << >>
  /\ unread = 0
  /\ held = {}
  /\ alive = Pids

Clients == \E p \in Pids : SendRegister(p) \/ SendSetState(p) \/ SendUnregister(p) \/ SendPlain(p)

Server ==
  \/ Accept \/ DoUnregister \/ EmergentExit \/ EmergentDone \/ ReapOne \/ ReapDone
  \/ DispatchRegister \/ RegisterFull \/ DispatchPlay \/ SetStateDirectly \/ AnswerMyState
  \/ WalkSkip \/ WalkPass \/ WalkRefuse \/ WalkCaseNone \/ WalkInterrupt \/ WalkEnd
  \/ MonitorReturned
  \/ CallbackTimedOut
  \/ StartPausedPass \/ PausedOwn \/ PausedSkip \/ PausedInterrupt \/ PausedEnd
  \/ Finish

Next ==
  \/ Clients
  \/ \E p \in Pids : Die(p)
  \/ CallbackAnswered \/ CallbackFailed
  \/ Server

\* The server thread runs, and poll ends every wait for a callback after 1500 ms; nothing obliges
\* a client to send, to answer or to die.
Spec == Init /\ [][Next]_vars /\ WF_vars(Server)
-----------------------------------------------------------------------------
(* Properties.                                                             *)

\* The kinds of value each variable takes.
TypeOK ==
  /\ list \in Seq(Entry)
  /\ statusPlaying \subseteq Events
  /\ statusPause \subseteq Events
  /\ session \in Sessions
  /\ pc \in {"idle", "unregister", "emergent", "reap", "dispatch", "walk", "monitor", "worker",
             "walked", "pausedWalk", "finish"}
  /\ cur \in Request \cup {NoRequest}
  /\ cursor \in Nat \ {0}
  /\ pass \in {"playing", "paused"}
  /\ updated \in BOOLEAN
  /\ quiet \in BOOLEAN
  /\ reply \in Reply
  /\ inbox \in Seq(Request)
  /\ unread \in 0 .. AnswerRoom
  /\ held \subseteq [pid : Pids, handle : Handles, event : Events]
  /\ alive \subseteq Pids

\* No two instances carry the same handle, although a registration chooses its handle long
\* before it enters the list, with callbacks of unbounded number in between.
HandlesUnique ==
  \A i, j \in DOMAIN list : list[i].handle = list[j].handle => i = j

\* The cached status words, one of them published in vconf, agree with the list whenever the
\* dead-process check is not in the middle of its loop.
StatusConsistent ==
  pc # "reap" => /\ statusPlaying = EventsIn(list, "PLAYING")
                 /\ statusPause   = EventsIn(list, "PAUSE")

\* The answer structure is an uninitialised local of __asm_process_message.  The comparison writes
\* its command on every way through both loops, so neither the client nor the session change that
\* follows the comparison reads garbage.  It says nothing of the answers that are sent without a
\* comparison (RegisterFull, AnswerMyState).
ComparisonAnswers == pc \in {"walked", "pausedWalk", "finish"} => reply.cmd # "UNSET"

Comparing == {"walk", "monitor", "worker", "walked", "pausedWalk", "finish"}
Returning == {"monitor", "worker"}

\* What makes these hold throughout a request: the handle chosen for a registration stays free
\* until the instance is listed, the position the walk has reached is still an instance when the
\* callback returns, and a walk without an answer yet has a sounding instance ahead of it.
WalkInv ==
  /\ pc # "idle" => cur \in Request
  /\ pc \in Comparing /\ cur.req = "REGISTER" =>
       /\ cur.handle \in Handles
       /\ updated \/ cur.handle \notin HandlesIn(list)
  /\ reply.cmd # "UNSET" => pc \in Comparing /\ reply.alloc = cur.handle
  /\ pc \notin Comparing => cursor = 1
  /\ pc \in Comparing \ {"walk"} \/ pass = "playing"
  /\ pc \in Returning => cursor <= Len(list) /\ (pass = "paused" => reply.cmd # "UNSET")
  /\ pc = "walk" /\ reply.cmd = "UNSET" =>
       \E i \in DOMAIN list : cursor <= i /\ Sounding(list[i])

IInv == TypeOK /\ HandlesUnique /\ StatusConsistent /\ ComparisonAnswers /\ WalkInv

OwnedIn(l) == {<<l[i].handle, l[i].pid>> : i \in DOMAIN l}

Table == INSTANCE HandleTable
           WITH Owners <- Pids, MaxHandles <- MaxHandle, owned <- OwnedIn(list)

\* The list is a table of handles each of which has one owner, although the server decides on a
\* handle, waits for callbacks, and enters it into the list in different steps.
HandsOutHandles == Table!Spec

\* The step that answers the request.
Answered == pc = "finish" /\ pc' = "idle"

\* Nothing of another process plays that the request stops or may not disturb ...
Silenced(e, m) ==
  (e.state = "PLAYING" /\ e.pid # m.pid) =>
    SoundCase(e.event, m.event) \notin {RefuseNew, StopCurrent}

\* ... and nothing paused that has to give way to it keeps a resource it claims.
Freed(e, m) ==
  (e.state = "PAUSE" /\ e.pid # m.pid /\ e.resource \cap m.resource # {}) =>
    SoundCase(e.event, m.event) \notin {PauseCurrent, StopCurrent}

\* A client is told to play only when every instance of another process that its event stops,
\* or that may not be disturbed by it, is silent in the list.
GrantSilencesConflicts ==
  [][(Answered /\ reply.cmd = "PLAY" /\ ~IsGcf) =>
       \A i \in DOMAIN list' : Silenced(list'[i], cur)]_vars

\* ... and no paused instance of another process that has to give way keeps a resource the
\* granted request claims.
GrantFreesResources ==
  [][(Answered /\ (reply.cmd = "PLAY" \/ quiet) /\ cur.state = "PLAYING") =>
       \A i \in DOMAIN list' : Freed(list'[i], cur)]_vars

\* The instances that the first loop, and the second, have dealt with.
Heard(i)    == pc \notin {"walk", "monitor", "worker"} \/ pass = "paused" \/ i < cursor
Released(i) == pc = "finish" \/ (pass = "paused" /\ i < cursor)

\* What these two rest on: unless the request has been refused, what lies behind the walk is
\* silent, or released, and neither the new head nor the callbacks make any of it sound again.
GrantInv ==
  /\ reply.cmd = "PLAY" \/ pc \in Returning => cur.state = "PLAYING"
  /\ reply.cmd = "STOP" => /\ pc = "walk" => cursor > Len(list)
                           /\ pc \in Returning => pass = "paused"
  /\ pc = "pausedWalk" => pass = "paused"
  /\ pc \in Returning /\ pass = "playing" => CaseOf(Visited) # RefuseNew
  /\ pc \in Comparing /\ cur.state = "PLAYING" =>
       \A i \in DOMAIN list :
         /\ ~IsGcf /\ reply.cmd # "STOP" /\ Heard(i) => Silenced(list[i], cur)
         /\ (reply.cmd = "PLAY" \/ quiet) /\ Released(i) => Freed(list[i], cur)

\* A handle a live client was given stands for an instance of that client in the list.
HeldIsListed ==
  \A g \in held : \E i \in DOMAIN list : Own(list[i], g.pid, g.handle) /\ list[i].event = g.event

\* The requests the server has: the one it works on, at 0, and those in the queue.
Turns    == DOMAIN inbox \cup (IF pc = "idle" THEN {} ELSE {0})
Asked(i) == IF i = 0 THEN cur ELSE inbox[i]

\* A process that waits for an answer has sent nothing since.
InOrder == \A i, j \in Turns : i < j /\ Asked(i).pid = Asked(j).pid => Unanswered(Asked(i))

\* A handle that is given back still stands for an instance, which nobody believes it owns, and
\* is given back once.
GivenBack ==
  \A i \in Turns : Asked(i).req = "UNREGISTER" =>
    /\ \E n \in DOMAIN list : Own(list[n], Asked(i).pid, Asked(i).handle)
    /\ \A g \in held : g.handle # Asked(i).handle
    /\ \A j \in Turns \ {i} : Asked(j).req = "UNREGISTER" => Asked(j).handle # Asked(i).handle

\* The handle chosen for a registration is nobody's yet; a registration that succeeds has entered
\* the list, or will when it is answered.
Fresh ==
  pc \in Comparing /\ cur.req = "REGISTER" =>
    /\ \A g \in held : g.handle # cur.handle
    /\ \A i \in DOMAIN inbox : inbox[i].req = "UNREGISTER" => inbox[i].handle # cur.handle
    /\ updated => \E n \in DOMAIN list :
                     Own(list[n], cur.pid, cur.handle) /\ list[n].event = cur.event
    /\ reply.cmd \in {"NONE", "PLAY"} => quiet \/ updated

\* Instances are for events that their processes use.
UsesOwn ==
  /\ \A n \in DOMAIN list : list[n].event \in Uses[list[n].pid]
  /\ \A i \in Turns : Asked(i).req = "REGISTER" => Asked(i).event \in Uses[Asked(i).pid]

\* What HeldIsListed rests on when no process dies with a request in the queue, and none uses an
\* event for which the matrix has no case.
HeldInv ==
  /\ HeldIsListed
  /\ \A g \in held : g.pid \in alive
  /\ \A i \in Turns : Asked(i).pid \in alive
  /\ \A i \in Turns : Asked(i).req = "EMERGENT_EXIT" => HeldBy(Asked(i).pid) = {}
  /\ pc = "unregister" => cur.req = "UNREGISTER"
  /\ pc = "emergent" => cur.req = "EMERGENT_EXIT"
  /\ updated => pc \in Comparing
  /\ InOrder /\ GivenBack /\ Fresh /\ UsesOwn

\* "CASE_1PLAY_2STOP" (the policy's name): the instance whose request was refused is not
\* playing as far as the list is concerned.
RefusedIsSilent ==
  [][(Answered /\ reply.cmd = "STOP") => ~IsItPlayingNow(list', cur.pid, cur.handle)]_vars

\* Whatever the clients do, die or fail to answer, the server gets back to its queue, unless the
\* queue of answers is full of those to processes that have died: then it waits in msgsnd for
\* ever, with the mutex held.
ServerReturns == (pc # "idle") ~> (pc = "idle" \/ unread = AnswerRoom)
-----------------------------------------------------------------------------
(* Further statements that the code does not keep; README.md says where    *)
(* each of them fails.                                                     *)

\* "Make all monitor handle dirty flag clean" (the comment before the reset): between requests
\* every monitor instance may be called back.
MonitorsCleanWhenIdle == pc = "idle" => \A i \in DOMAIN list : ~list[i].dirty

\* RESUME is the end of the interruption: nobody is resumed while another call, alarm or video
\* call that interrupts the instance is still playing.
ResumeAfterLastInterruption ==
  [][\A i \in DOMAIN list, j \in DOMAIN list' :
       (list[i].handle = list'[j].handle /\ list[i].resume /\ ~list'[j].resume) =>
         ~\E k \in DOMAIN list' :
            /\ list'[k].state = "PLAYING"
            /\ IsNeedResume(list'[k].event)
            /\ SoundCase(list'[k].event, list'[j].event) = RefuseNew]_vars
=============================================================================
