------------------------------- MODULE Session -------------------------------
(***************************************************************************)
(* Sessions and audio devices (server/mm_sound_mgr_session.c): which       *)
(* devices are available, which one plays and which one records, and where *)
(* the sound is routed.                                                    *)
(*                                                                         *)
(* The state is one global structure.  Its lock is commented out, so the   *)
(* thread that watches the ear jack, the one that watches the bluetooth    *)
(* cards, the event loop that reports the headset profile and the dock,    *)
(* the session manager's thread and the pool threads of route requests all *)
(* work on it at the same time.  A step here is a group of statements      *)
(* between two calls out of the file (callbacks to clients, a pause of     *)
(* everything that plays, a sound that is played to its end), or between   *)
(* two accesses to the structure whose order matters.  What is available   *)
(* and what is active are two words of bits, and every macro that clears   *)
(* or sets some of them loads the word and stores it again: between the    *)
(* two, and between the macros of one update, other handlers run.          *)
(***************************************************************************)
EXTENDS Integers, FiniteSets

CONSTANTS
  Accessories,   \* which of WIRED, A2DP, SCO, DOCK the device has
  Sessions,      \* bound: the sessions the session manager starts
  Subsessions,   \* bound: the subsessions clients set
  Routes,        \* bound: the routes clients ask for
  MaxBusy,       \* bound: how many handlers are under way at once
  FailsAt        \* where telling a client, or setting the path, may fail: "routeCall", "routeMedia"

VARIABLES
  available,    \* device_available
  active,       \* device_active
  session,
  subsession,
  path,         \* the output the audio system was last told to use
  calls,        \* calls that the session manager has started and not ended
  at,           \* at[x]: where the handler of accessory x, of "asm" or of "ipc" is
  wish,         \* the devices of the route request
  before,       \* ... and the active devices when it came (old_active)
  todo,         \* todo[x]: the bits that x has yet to clear, and to set, in one of the words
  copy,         \* copy[x]: the word that x has loaded and is about to store, if any
  torn          \* (for the properties) two handlers were changing the active devices at a time

words == <<available, active, copy>>
vars  == <<words, todo, torn, session, subsession, path, calls, at, wish, before>>

Outs == {"SPEAKER", "RECEIVER", "WIRED_OUT", "SCO_OUT", "A2DP_OUT", "DOCK_OUT"}
Ins  == {"MIC", "WIRED_IN", "SCO_IN"}
Devices == Outs \cup Ins

CallSessions == {"VOICECALL", "VOIP"}

OutOf(x) == CASE x = "WIRED" -> "WIRED_OUT" [] x = "SCO"  -> "SCO_OUT"
              [] x = "A2DP"  -> "A2DP_OUT"  [] x = "DOCK" -> "DOCK_OUT"
InsOf(x) == CASE x = "WIRED" -> {"WIRED_IN"} [] x = "SCO" -> {"SCO_IN"} [] OTHER -> {}
DevicesOf(x) == {OutOf(x)} \cup InsOf(x)

\* The routes of common/mm_sound_utils.c.
ValidRoutes ==
  {{"SPEAKER"}, {"WIRED_OUT"}, {"A2DP_OUT"}, {"MIC"}, {"WIRED_IN"}, {"MIC", "RECEIVER"},
   {"MIC", "SPEAKER"}, {"MIC", "WIRED_OUT"}, {"WIRED_IN", "WIRED_OUT"}, {"SCO_IN", "SCO_OUT"}}

ASSUME SessionAssumption ==
  /\ Accessories \subseteq {"WIRED", "A2DP", "SCO", "DOCK"}
  /\ Sessions \subseteq {"VOICECALL", "VOIP", "NOTIFICATION", "FMRADIO"}
  /\ Subsessions \subseteq {"VOICE", "RINGTONE", "MEDIA"}
  /\ Routes \subseteq ValidRoutes
  /\ MaxBusy \in Nat
  /\ FailsAt \subseteq {"routeCall", "routeMedia"}

Actors == Accessories \cup {"asm", "ipc"}

\* One event loop reports both.
SameThread(x) == IF x \in {"SCO", "DOCK"} THEN {"SCO", "DOCK"} \cap Accessories ELSE {x}

\* An update: the bits of a word to be cleared, and those to be set.
Update(w, clear, set) == [word |-> w, clear |-> clear, set |-> set]
Done == Update("none", {}, {})

Busy == {x \in Actors : at[x] # "idle" \/ todo[x] # Done}

MayStart(x) == Cardinality(Busy) < MaxBusy /\ SameThread(x) \cap Busy = {}

\* x has done all that led it here.
At(x, where) == at[x] = where /\ todo[x] = Done
GoTo(x, where) == at' = [at EXCEPT ![x] = where]

IsCommunication == session \in CallSessions
-----------------------------------------------------------------------------
(* Clearing and setting bits, with the lock commented out.                 *)

\* SET_PLAYBACK_ONLY_ACTIVE and SET_CAPTURE_ONLY_ACTIVE clear the devices of a kind first.
KindsOf(set) == UNION {kind \in {Outs, Ins} : kind \cap set # {}}

\* x is going to change the active devices ...
ChangeActive(x, clear, set) ==
  /\ todo' = [todo EXCEPT ![x] = Update("active", clear, set)]
  /\ torn' = (torn \/ \E y \in Actors \ {x} : todo[y].word = "active")

\* Mutant: the inputs that were active stay so.
OnlyPlayback(x, set) == ChangeActive(x, KindsOf(set \cap Outs), set)

\* ... to these alone.
Only(x, set) == ChangeActive(x, KindsOf(set), set)

\* x is going to change the available devices (SET_AVAILABLE, UNSET_AVAILABLE).
ChangeAvailable(x, clear, set) ==
  todo' = [todo EXCEPT ![x] = Update("available", clear, set)] /\ UNCHANGED torn

\* The part of an update that is done in one go: the outputs before the inputs, and of either the
\* bits to be cleared before those to be set.
Part(u) ==
  CASE u.clear \cap Outs # {} -> Update(u.word, u.clear \cap Outs, {})
    [] u.clear \cap Outs = {} /\ u.set \cap Outs # {} -> Update(u.word, {}, u.set \cap Outs)
    [] (u.clear \cup u.set) \cap Outs = {} /\ u.clear # {} -> Update(u.word, u.clear, {})
    [] OTHER -> u

\* x loads the word ...
Load(x) ==
  /\ todo[x] # Done
  /\ copy[x] = {}
  /\ copy' = [copy EXCEPT ![x] = {IF todo[x].word = "active" THEN active ELSE available}]
  /\ UNCHANGED <<available, active, todo, torn, session, subsession, path, calls, at, wish, before>>

\* ... and stores it with the bits of this part cleared and set, whatever it has become since.
Store(x) ==
  LET u    == todo[x]
      part == Part(u)
      rest == Update(u.word, u.clear \ part.clear, u.set \ part.set)
  IN  /\ \E was \in copy[x] :
           LET now == (was \ part.clear) \cup part.set
           IN  \/ u.word = "active" /\ active' = now /\ UNCHANGED available
               \/ u.word = "available" /\ available' = now /\ UNCHANGED active
      /\ copy' = [copy EXCEPT ![x] = {}]
      /\ todo' = [todo EXCEPT ![x] = IF rest.clear \cup rest.set = {} THEN Done ELSE rest]
      /\ UNCHANGED <<torn, session, subsession, path, calls, at, wish, before>>
-----------------------------------------------------------------------------
(* Routing.                                                                *)

PathOrder == <<"SPEAKER", "RECEIVER", "WIRED_OUT", "SCO_OUT", "A2DP_OUT", "DOCK_OUT">>

\* The first of these devices that is active; anything if the variable is left uninitialised.
FirstActive(order) ==
  IF \E i \in DOMAIN order : order[i] \in active
  THEN {order[i] : i \in {j \in DOMAIN order : order[j] \in active
                                             /\ \A k \in 1 .. j - 1 : order[k] \notin active}}
  ELSE Outs

\* __set_sound_path_for_current_active; a ring tone goes to speaker and headset, or to the headset
\* alone when the sound is off.
PathForActive ==
  IF IsCommunication /\ subsession = "RINGTONE" THEN {"DUAL", "WIRED_OUT"} ELSE FirstActive(PathOrder)

\* _set_path_with_notification, the end of most handlers.
SetPath(x) ==
  /\ At(x, "path")
  /\ path' \in IF session = "NOTIFICATION" THEN {path} ELSE PathForActive
  /\ GoTo(x, "idle")
  /\ UNCHANGED <<words, todo, torn, session, subsession, calls, wish, before>>
-----------------------------------------------------------------------------
(* Accessories come and go.                                                *)

\* MMSoundMgrSessionSetDeviceAvailable(.., AVAILABLE); of a wired accessory the type matters.
Plug(x) ==
  /\ MayStart(x)
  /\ OutOf(x) \notin available
  /\ \E ins \in IF x = "WIRED" THEN SUBSET InsOf(x) ELSE {InsOf(x)} :
       /\ ChangeAvailable(x, {}, {OutOf(x)} \cup ins)
       /\ GoTo(x, CASE x = "SCO" -> "idle" [] x # "SCO" /\ ins # {} -> "plugMic" [] OTHER -> "plug")
  /\ UNCHANGED <<words, session, subsession, path, calls, wish, before>>

\* Mutant: the dock's handler sets no path either.
SetsPathWired(x) == x = "WIRED"

\* Which handler sets the path at its end; bluetooth's leaves it alone.
SetsPath(x) == x # "A2DP"

\* handle_headset_on, handle_bt_a2dp_on and handle_dock_on.
Activate(x) ==
  /\ At(x, "plug") \/ At(x, "plugMic")
  /\ IF IsCommunication
     THEN GoTo(x, "idle") /\ UNCHANGED <<todo, torn>>
     ELSE /\ Only(x, {OutOf(x)} \cup (IF At(x, "plugMic") THEN {"WIRED_IN"} ELSE {}))
          /\ GoTo(x, IF SetsPath(x) THEN "path" ELSE "idle")
  /\ UNCHANGED <<words, session, subsession, path, calls, wish, before>>

Unplug(x) ==
  /\ MayStart(x)
  /\ OutOf(x) \in available
  /\ ChangeAvailable(x, DevicesOf(x), {})
  /\ GoTo(x, "unplug")
  /\ UNCHANGED <<words, session, subsession, path, calls, wish, before>>

\* The handler returns unless the accessory was active (an input counts for SCO only).
CheckActive(x) ==
  /\ At(x, "unplug")
  /\ GoTo(x, IF OutOf(x) \in active \/ (x = "SCO" /\ "SCO_IN" \in active)
             THEN "deactivate" ELSE "idle")
  /\ UNCHANGED <<words, todo, torn, session, subsession, path, calls, wish, before>>

\* After everything that plays has been paused (and the dock's sound has been played).
Deactivate(x) ==
  /\ At(x, "deactivate")
  /\ ChangeActive(x, DevicesOf(x), {})
  /\ GoTo(x, IF x = "WIRED" THEN "decide" ELSE "selectOut")
  /\ UNCHANGED <<words, session, subsession, path, calls, wish, before>>

\* During a call the choice is left to the application.
Decide(x) ==
  /\ At(x, "decide")
  /\ GoTo(x, IF IsCommunication THEN "idle" ELSE "selectOut")
  /\ UNCHANGED <<words, todo, torn, session, subsession, path, calls, wish, before>>

\* The choice by priority for playback and for capture.
BestOut == CASE "A2DP_OUT"  \in available -> "A2DP_OUT"
             [] "A2DP_OUT" \notin available /\ "DOCK_OUT" \in available -> "DOCK_OUT"
             [] {"A2DP_OUT", "DOCK_OUT"} \cap available = {} /\ "WIRED_OUT" \in available -> "WIRED_OUT"
             [] OTHER -> "SPEAKER"
BestIn  == CASE "SCO_IN" \in available /\ IsCommunication -> "SCO_IN"
             [] ~("SCO_IN" \in available /\ IsCommunication) /\ "WIRED_IN" \in available -> "WIRED_IN"
             [] OTHER -> "MIC"

\* _select_playback_active_device: it looks whether a device is active, and sets one if not.
SelectOut(x) ==
  /\ At(x, "selectOut")
  /\ IF active \cap Outs = {} THEN ChangeActive(x, {}, {BestOut}) ELSE UNCHANGED <<todo, torn>>
  /\ GoTo(x, IF x \in {"WIRED", "SCO"} THEN "selectIn" ELSE "path")
  /\ UNCHANGED <<words, session, subsession, path, calls, wish, before>>

\* _select_capture_active_device
SelectIn(x) ==
  /\ At(x, "selectIn")
  /\ IF active \cap Ins = {} THEN ChangeActive(x, {}, {BestIn}) ELSE UNCHANGED <<todo, torn>>
  /\ GoTo(x, "path")
  /\ UNCHANGED <<words, session, subsession, path, calls, wish, before>>
-----------------------------------------------------------------------------
(* Sessions, started and ended by the thread of the session manager.       *)

\* MMSoundMgrSessionSetSession(.., SESSION_START): a call whenever one is registered, a
\* notification or the radio unless that is the session already.
StartSession(s) ==
  /\ MayStart("asm")
  /\ s \in CallSessions \/ session # s
  /\ session' = s
  /\ calls' = calls \cup ({s} \cap CallSessions)
  /\ GoTo("asm", CASE s \in CallSessions -> "callStart" [] s = "FMRADIO" -> "radioStart"
                   [] s = "NOTIFICATION" -> "notiStart")
  /\ UNCHANGED <<words, todo, torn, subsession, path, wish, before>>

\* SESSION_END: whatever the session was, it is MEDIA now.  The end of an alarm is reported even
\* if the alarm never sounded.
EndSession(s) ==
  /\ MayStart("asm")
  /\ s \in CallSessions => s \in calls
  /\ s = "FMRADIO" => session = s
  /\ session' = "MEDIA"
  /\ calls' = calls \ {s}
  /\ GoTo("asm", CASE s \in CallSessions -> "callEnd" [] s = "FMRADIO" -> "radioEnd"
                   [] s = "NOTIFICATION" -> "path")
  /\ UNCHANGED <<words, todo, torn, subsession, path, wish, before>>

\* The receiver is there during calls; the clients are told.
Receiver ==
  /\ \/ At("asm", "callStart") /\ ChangeAvailable("asm", {}, {"RECEIVER"})
                               /\ GoTo("asm", "routeCall")
     \/ At("asm", "callEnd")   /\ ChangeAvailable("asm", {"RECEIVER"}, {})
                               /\ GoTo("asm", "routeMedia")
  /\ UNCHANGED <<words, session, subsession, path, calls, wish, before>>

\* A client could not be told, or the audio system could not be told that the call's path is not
\* used any more (avsys_audio_set_path_ex): nothing else is done.
RouteFails ==
  /\ \E place \in FailsAt : At("asm", place)
  /\ GoTo("asm", "idle")
  /\ UNCHANGED <<words, todo, torn, session, subsession, path, calls, wish, before>>

\* __set_playback_route_communication(SESSION_START): speaker to receiver, A2DP to SCO.
RouteCall ==
  /\ At("asm", "routeCall")
  /\ CASE "SPEAKER" \in active -> Only("asm", {"RECEIVER"})
       [] "SPEAKER" \notin active /\ "A2DP_OUT" \in active -> Only("asm", {"SCO_OUT", "SCO_IN"})
       [] OTHER -> UNCHANGED <<todo, torn>>
  /\ GoTo("asm", "path")
  /\ UNCHANGED <<words, session, subsession, path, calls, wish, before>>

\* Mutant: the default is left out.
AfterCallKept ==
  CASE "RECEIVER" \in active -> {"SPEAKER"}
    [] "RECEIVER" \notin active /\ "SCO_OUT" \in active -> {"A2DP_OUT", "MIC"}
    [] OTHER -> {}

KeptAfterCall == {"SPEAKER", "WIRED_OUT"}

\* What is made active after a call: the speaker for the receiver, A2DP for SCO, nothing if the
\* code is content with what is active, and the default otherwise.
AfterCall ==
  CASE "RECEIVER" \in active -> {"SPEAKER"}
    [] "RECEIVER" \notin active /\ "SCO_OUT" \in active ->
         {"A2DP_OUT", IF "WIRED_IN" \in available THEN "WIRED_IN" ELSE "MIC"}
    [] {"RECEIVER", "SCO_OUT"} \cap active = {} /\ KeptAfterCall \cap active # {} -> {}
    [] OTHER -> {"SPEAKER", "MIC"}

RouteMedia ==
  /\ At("asm", "routeMedia")
  /\ IF AfterCall = {} THEN UNCHANGED <<todo, torn>> ELSE Only("asm", AfterCall)
  /\ path' = "NONE"
  /\ GoTo("asm", "path")
  /\ UNCHANGED <<words, session, subsession, calls, wish, before>>

\* __set_playback_route_fmradio
RouteRadio ==
  /\ \/ At("asm", "radioStart") /\ path' \in FirstActive(<<"SPEAKER", "WIRED_OUT", "A2DP_OUT">>)
                                /\ GoTo("asm", "idle")
     \/ At("asm", "radioEnd")   /\ path' = "NONE"
                                /\ GoTo("asm", "path")
  /\ UNCHANGED <<words, todo, torn, session, subsession, calls, wish, before>>

\* __set_sound_path_to_dual
RouteNotification ==
  /\ At("asm", "notiStart")
  /\ path' = "DUAL"
  /\ GoTo("asm", "idle")
  /\ UNCHANGED <<words, todo, torn, session, subsession, calls, wish, before>>

\* MMSoundMgrSessionSetSubSession
SetSubSession(s) ==
  /\ MayStart("asm")
  /\ subsession' = s
  /\ GoTo("asm", "path")
  /\ UNCHANGED <<words, todo, torn, session, path, calls, wish, before>>
-----------------------------------------------------------------------------
(* Route requests of clients.                                              *)

\* Mutant: only the input is looked at.
CanActivateIn(r) == r \cap Ins \subseteq available

CanActivate(r) == r \subseteq available

\* MMSoundMgrSessionSetDeviceActive: a route with a missing device is refused.
AskRoute(r) ==
  /\ MayStart("ipc")
  /\ CanActivate(r)
  /\ before' = active
  /\ wish' = r
  /\ GoTo("ipc", "update")
  /\ UNCHANGED <<words, todo, torn, session, subsession, path, calls>>

UpdateActive ==
  /\ At("ipc", "update")
  /\ Only("ipc", wish)
  /\ GoTo("ipc", "compare")
  /\ UNCHANGED <<words, session, subsession, path, calls, wish, before>>

\* The path is set if the update has changed anything.
CompareActive ==
  /\ At("ipc", "compare")
  /\ GoTo("ipc", IF active = before THEN "idle" ELSE "path")
  /\ wish' = {} /\ before' = {}
  /\ UNCHANGED <<words, todo, torn, session, subsession, path, calls>>
-----------------------------------------------------------------------------
\* _set_initial_active_device, with whatever is connected at that time.
Init ==
  /\ \E present \in SUBSET (Accessories \ {"DOCK"}) :
       \E ins \in SUBSET ({"WIRED_IN"} \cap UNION {InsOf(x) : x \in present}) :
         available = {"SPEAKER", "MIC"} \cup {OutOf(x) : x \in present} \cup ins
                       \cup ({"SCO_IN"} \cap UNION {InsOf(x) : x \in present})
  /\ session = "MEDIA"
  /\ active = {BestOut, BestIn}
  /\ subsession = "VOICE"
  /\ path \in PathForActive
  /\ calls = {}
  /\ at = [x \in Actors |-> "idle"]
  /\ wish = {} /\ before = {}
  /\ todo = [x \in Actors |-> Done]
  /\ copy = [x \in Actors |-> {}]
  /\ torn = FALSE

Accessory(x) ==
  Plug(x) \/ Activate(x) \/ Unplug(x) \/ CheckActive(x) \/ Deactivate(x) \/ Decide(x)
    \/ SelectOut(x) \/ SelectIn(x)

Asm ==
  \/ \E s \in Sessions : StartSession(s) \/ EndSession(s)
  \/ Receiver \/ RouteFails \/ RouteCall \/ RouteMedia \/ RouteRadio \/ RouteNotification
  \/ \E s \in Subsessions : SetSubSession(s)

Ipc == UpdateActive \/ CompareActive \/ \E r \in Routes : AskRoute(r)

Next ==
  \/ \E x \in Accessories : Accessory(x)
  \/ Asm \/ Ipc
  \/ \E x \in Actors : Load(x) \/ Store(x) \/ SetPath(x)

Spec == Init /\ [][Next]_vars
-----------------------------------------------------------------------------
(* Properties.                                                             *)

\* The kinds of value each variable takes.
TypeOK ==
  /\ available \subseteq Devices
  /\ active \subseteq Devices
  /\ session \in Sessions \cup {"MEDIA"}
  /\ subsession \in Subsessions \cup {"VOICE"}
  /\ path \in Outs \cup {"NONE", "DUAL"}
  /\ calls \subseteq Sessions \cap CallSessions
  /\ at \in [Actors -> {"idle", "plug", "plugMic", "unplug", "deactivate", "decide", "selectOut",
                        "selectIn", "path", "callStart", "callEnd", "routeCall", "routeMedia",
                        "radioStart", "radioEnd", "notiStart", "update", "compare"}]
  /\ wish \subseteq Devices
  /\ before \subseteq Devices
  /\ todo \in [Actors -> [word : {"none", "active", "available"},
                          clear : SUBSET Devices, set : SUBSET Devices]]
  /\ copy \in [Actors -> SUBSET SUBSET Devices]
  /\ torn \in BOOLEAN

Quiet == Busy = {}

\* What becomes of a word when the updates under way are done.
Due(updates, name, word) ==
  LET writers == {x \in Actors : updates[x].word = name}
  IN  (word \ UNION {updates[x].clear : x \in writers}) \cup UNION {updates[x].set : x \in writers}

ActiveDue    == Due(todo, "active", active)
AvailableDue == Due(todo, "available", available)

\* Unless two handlers have changed the active devices at the same time: once every handler is done
\* and no call is on, there is a device that plays. The thread that took the headset away looks at
\* the session after it has taken the device away, and the thread that ends a call looks at the
\* devices after it has ended the session; either may find an update of the other half done.
OutputExists == ~torn /\ Quiet /\ calls = {} => active \cap Outs # {}

\* What OutputExists rests on. A call session is that of a call that is on ...
CallIsOn == session \in CallSessions => session \in calls

\* ... one handler at a time changes the active devices, and what it has loaded is what they are;
\* and the one that takes an output away without making another one active is going to choose ...
OneWriter ==
  /\ \A x, y \in Actors : todo[x].word = "active" /\ todo[y].word = "active" => x = y
  /\ \A x \in Actors : todo[x].word = "active" => copy[x] \subseteq {active}
  /\ \A x \in Actors : todo[x] = Done => copy[x] = {}
  /\ \A x \in Actors :
       todo[x].word = "active" /\ todo[x].clear \cap Outs # {} /\ todo[x].set \cap Outs = {} =>
         x \in Accessories /\ at[x] \in {"decide", "selectOut"}

\* ... and if no device is going to play, a call is on or someone is going to choose one: the end
\* of a call after the session has been reset, or an accessory's handler that has taken the device
\* away and not yet looked.
SomeoneChooses ==
  ActiveDue \cap Outs = {} =>
    \/ calls # {}
    \/ at["asm"] \in {"callEnd", "routeMedia"}
    \/ \E x \in Accessories : at[x] \in {"decide", "selectOut"}

OutputInv == CallIsOn /\ (~torn => OneWriter /\ SomeoneChooses)

\* One device that plays and one that records at most.
OneOfAKind(s) == \A d, e \in s : {d, e} \subseteq Outs \/ {d, e} \subseteq Ins => d = e

\* Unless two handlers have changed the active devices at the same time: in the middle of an update
\* too, and although a handler decides on what another one has half done.
OneActive == ~torn => OneOfAKind(active)

\* With one handler at a time, the device that plays is there; bluetooth, whose two profiles
\* stand for each other during a call, is another matter.
OutputAvailable ==
  Quiet => active \cap Outs \subseteq available \cup {"A2DP_OUT", "SCO_OUT"}

\* With one handler at a time, the audio system plays where the active device says, as soon as
\* no call, radio or notification has its own idea, and unless it is up to the bluetooth sink.
PathFollowsActive ==
  Quiet /\ session = "MEDIA" /\ calls = {} => path \in active \/ "A2DP_OUT" \in active

\* What these two rest on. One handler is under way; a device that plays is there unless the handler
\* that took it away has not looked at it yet, be it an accessory's or that of a call that ends.
Serial == ~torn /\ \A x, y \in Busy : x = y

AvailableInv ==
  /\ \A x \in Actors : todo[x].word = "available" => copy[x] \subseteq {available}
  /\ "SPEAKER" \in AvailableDue
  /\ at["asm"] = "routeCall" => "RECEIVER" \in AvailableDue
  /\ \A x \in Accessories : at[x] \in {"plug", "plugMic"} => OutOf(x) \in AvailableDue
  /\ at["ipc"] = "update" => wish \subseteq AvailableDue /\ before = ActiveDue
  /\ \A d \in ActiveDue \cap Outs :
       \/ d \in AvailableDue \cup {"A2DP_OUT", "SCO_OUT"}
       \/ d = "RECEIVER" /\ at["asm"] = "routeMedia"
       \/ \E x \in Accessories : d \in DevicesOf(x) /\ at[x] \in {"unplug", "deactivate"}

\* ... and the path follows unless a handler is on its way to set it.
PathInv ==
  /\ at["asm"] = "radioStart" => session = "FMRADIO"
  /\ at["asm"] = "notiStart"  => session = "NOTIFICATION"
  /\ session = "MEDIA" /\ calls = {} =>
       \/ path \in ActiveDue \/ "A2DP_OUT" \in ActiveDue
       \/ \E x \in Actors : at[x] \in {"decide", "selectOut", "selectIn", "path", "callEnd",
                                       "routeMedia", "radioEnd"}
       \/ at["ipc"] = "compare" /\ ActiveDue # before

-----------------------------------------------------------------------------
(* Further statements that the code does not keep; README.md says where    *)
(* each of them fails.                                                     *)

\* "For voicecall session, activation device is up-to application policy": no accessory becomes
\* the device that plays by being plugged in during a call.
NoAutoActivationInCall ==
  [][\A x \in Accessories :
       at[x] \in {"plug", "plugMic"} /\ calls # {} /\ at["asm"] = "idle" => todo'[x].word # "active"]_vars

\* "(+)LOCKED" (the log message of LOCK_SESSION): with the handlers locked out of each other's
\* updates, each of which leaves one device of a kind, one device plays and one records at most.
OneActiveWhenQuiet == Quiet => OneOfAKind(active)

\* "Failed to set active state to unavailable device" (the log message of the check).
ActiveIsAvailable == Quiet => active \subseteq available
=============================================================================
