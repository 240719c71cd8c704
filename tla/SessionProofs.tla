---------------------------- MODULE SessionProofs ----------------------------
(***************************************************************************)
(* Proofs about Session, for every set of accessories, sessions and        *)
(* routes, and any number of handlers under way: the types; that as long   *)
(* as no two handlers were changing the active devices at the same time,   *)
(* the system is never left without a device that plays and at most one    *)
(* device plays and one records; and, with one handler at a time, that the *)
(* device that plays is there and the audio path follows it.               *)
(***************************************************************************)
EXTENDS Session, FiniteSetTheorems, TLAPS

\* Where a handler can be.
Places == {"idle", "plug", "plugMic", "unplug", "deactivate", "decide", "selectOut",
           "selectIn", "path", "callStart", "callEnd", "routeCall", "routeMedia",
           "radioStart", "radioEnd", "notiStart", "update", "compare"}

\* What an actor can have to do.
Updates == [word : {"none", "active", "available"}, clear : SUBSET Devices, set : SUBSET Devices]

-----------------------------------------------------------------------------
(* Devices.                                                                *)

\* The devices of an accessory, and those that are chosen, are devices of their kind.
LEMMA KindsOfDevices ==
  /\ Outs \cap Ins = {}
  /\ \A x \in Accessories : OutOf(x) \in Outs /\ InsOf(x) \subseteq Ins
  /\ BestOut \in Outs /\ BestIn \in Ins
  BY SessionAssumption DEF Outs, Ins, OutOf, InsOf, BestOut, BestIn

\* The outputs among which the path is chosen are outputs.
LEMMA PathIsOutput ==
  /\ PathForActive \subseteq Outs \cup {"DUAL"}
  /\ FirstActive(<<"SPEAKER", "WIRED_OUT", "A2DP_OUT">>) \subseteq Outs
<1>1. \A i \in DOMAIN PathOrder : PathOrder[i] \in Outs
  BY DEF PathOrder, Outs
<1>2. FirstActive(PathOrder) \subseteq Outs
  BY <1>1 DEF FirstActive
<1>3. \A i \in DOMAIN <<"SPEAKER", "WIRED_OUT", "A2DP_OUT">> :
        <<"SPEAKER", "WIRED_OUT", "A2DP_OUT">>[i] \in Outs
  BY DEF Outs
<1>4. FirstActive(<<"SPEAKER", "WIRED_OUT", "A2DP_OUT">>) \subseteq Outs
  BY <1>3 DEF FirstActive
<1> QED
  BY <1>2, <1>4 DEF PathForActive, Outs

\* A route has devices only, and one of a kind.
LEMMA RoutesAreDevices ==
  \A r \in Routes : r \subseteq Devices /\ OneOfAKind(r)
<1>1. Routes \subseteq ValidRoutes
  BY SessionAssumption
<1>2. \A r \in ValidRoutes : r \subseteq Devices
  BY DEF ValidRoutes, Devices, Outs, Ins
<1>3. \A r \in ValidRoutes : OneOfAKind(r)
  BY DEF ValidRoutes, OneOfAKind, Outs, Ins
<1> QED
  BY <1>1, <1>2, <1>3

\* A change to some devices alone clears each kind it sets, and no other.
LEMMA KindsAreCleared ==
  ASSUME NEW set
  PROVE  /\ KindsOf(set) \subseteq Devices
         /\ \A kind \in {Outs, Ins} : set \cap kind # {} => kind \subseteq KindsOf(set)
         /\ KindsOf(set) \cap Outs # {} => set \cap Outs # {}
         /\ KindsOf(set) \cap Ins # {} => set \cap Ins # {}
  BY KindsOfDevices DEF KindsOf, Devices

-----------------------------------------------------------------------------
(* What becomes of a word.                                                 *)

\* x alone is to change the word.
SoleWriter(updates, name, x) ==
  /\ x \in Actors
  /\ updates[x].word = name
  /\ \A y \in Actors \ {x} : updates[y].word # name

\* Then it is what x makes of it; and nothing happens to it if nobody is to change it.
LEMMA DueOne ==
  ASSUME NEW updates, NEW name, NEW word, NEW x, SoleWriter(updates, name, x)
  PROVE  Due(updates, name, word) = (word \ updates[x].clear) \cup updates[x].set
<1> DEFINE writers == {y \in Actors : updates[y].word = name}
<1>1. writers = {x}
  BY DEF SoleWriter
<1>2. UNION {updates[y].clear : y \in writers} = updates[x].clear
  BY <1>1
<1>3. UNION {updates[y].set : y \in writers} = updates[x].set
  BY <1>1
<1> QED
  BY <1>2, <1>3 DEF Due

LEMMA DueNone ==
  ASSUME NEW updates, NEW name, NEW word, \A y \in Actors : updates[y].word # name
  PROVE  Due(updates, name, word) = word
<1> DEFINE writers == {y \in Actors : updates[y].word = name}
<1>1. writers = {}
  OBVIOUS
<1>2. UNION {updates[y].clear : y \in writers} = {} /\ UNION {updates[y].set : y \in writers} = {}
  BY <1>1
<1> QED
  BY <1>2 DEF Due

\* The updates of the other word do not matter.
LEMMA DueSame ==
  ASSUME NEW before1, NEW after1, NEW name, NEW word,
         \A y \in Actors : before1[y].word = name \/ after1[y].word = name => before1[y] = after1[y]
  PROVE  Due(before1, name, word) = Due(after1, name, word)
<1>1. {y \in Actors : before1[y].word = name} = {y \in Actors : after1[y].word = name}
  OBVIOUS
<1> DEFINE writers == {y \in Actors : before1[y].word = name}
<1>2. {before1[y].clear : y \in writers} = {after1[y].clear : y \in writers}
  OBVIOUS
<1>3. {before1[y].set : y \in writers} = {after1[y].set : y \in writers}
  OBVIOUS
<1> QED
  BY <1>1, <1>2, <1>3 DEF Due

\* A part of an update and its rest are the update; the rest clears no outputs.
LEMMA PartAndRest ==
  ASSUME NEW u \in Updates, NEW word
  PROVE  /\ Part(u).clear \subseteq u.clear /\ Part(u).set \subseteq u.set
         /\ (((word \ Part(u).clear) \cup Part(u).set) \ (u.clear \ Part(u).clear))
                \cup (u.set \ Part(u).set)
              = (word \ u.clear) \cup u.set
         /\ (u.clear \ Part(u).clear) \cap Outs = {}
<1>1. CASE u.clear \cap Outs # {}
  BY <1>1 DEF Part, Update
<1>2. CASE u.clear \cap Outs = {} /\ u.set \cap Outs # {}
  BY <1>2 DEF Part, Update
<1>3. CASE (u.clear \cup u.set) \cap Outs = {} /\ u.clear # {}
  BY <1>3 DEF Part, Update
<1>4. CASE u.clear = {} /\ u.set \cap Outs = {}
  <2>1. Part(u) = u
    BY <1>4 DEF Part
  <2> QED
    BY <1>4, <2>1
<1> QED
  BY <1>1, <1>2, <1>3, <1>4

-----------------------------------------------------------------------------
(* The handlers' steps, seen from outside.                                 *)

\* The update of the active devices that x is to make when it goes on at w: an output is cleared
\* without another one being set by an accessory's handler that is going to choose; and what is
\* set is one of a kind, which is cleared before or has no active device.
Orderly(x, w, clear, set) ==
  /\ clear \cap Outs # {} /\ set \cap Outs = {} => x \in Accessories /\ w \in {"decide", "selectOut"}
  /\ OneOfAKind(wish) => OneOfAKind(set)
  /\ \A kind \in {Outs, Ins} : set \cap kind # {} => kind \subseteq clear \/ active \cap kind = {}

Changes(x, w) ==
  \/ UNCHANGED <<todo, torn>>
  \/ \E clear, set \in SUBSET Devices : ChangeAvailable(x, clear, set)
  \/ \E clear, set \in SUBSET Devices : ChangeActive(x, clear, set) /\ Orderly(x, w, clear, set)

\* A step of the handler of x, to w.
Handles(x, w) ==
  /\ GoTo(x, w)
  /\ MayStart(x) \/ at[x] # "idle"
  /\ todo[x] = Done
  /\ UNCHANGED words
  /\ Changes(x, w)

\* What starts has nothing left to do.
LEMMA StartsDone ==
  ASSUME NEW x \in Actors, MayStart(x) PROVE at[x] = "idle" /\ todo[x] = Done
<1>1. x \in SameThread(x)
  BY DEF SameThread, Actors
<1> QED
  BY <1>1 DEF MayStart, Busy

\* Making devices of their kinds the only active ones is orderly.
LEMMA OnlyIsOrderly ==
  ASSUME NEW x, NEW w \in Places, NEW set \in SUBSET Devices, Only(x, set),
         OneOfAKind(wish) => OneOfAKind(set)
  PROVE  Changes(x, w)
<1>1. KindsOf(set) \in SUBSET Devices
  BY KindsAreCleared
<1>2. Orderly(x, w, KindsOf(set), set)
  BY KindsAreCleared DEF Orderly
<1> QED
  BY <1>1, <1>2 DEF Only, Changes

LEMMA AccessoryHandles ==
  ASSUME TypeOK, NEW x \in Accessories, Accessory(x)
  PROVE  \E w \in Places : Handles(x, w)
<1>1. x \in Actors
  BY DEF Actors
<1>2. OutOf(x) \in Devices /\ InsOf(x) \subseteq Devices /\ "WIRED_IN" \in Devices /\ "WIRED_IN" \in Ins
  BY KindsOfDevices DEF Devices, Ins
<1>3. DevicesOf(x) \in SUBSET Devices
  BY <1>2 DEF DevicesOf
<1>4. BestOut \in Outs /\ BestIn \in Ins /\ OutOf(x) \in Outs /\ Outs \cap Ins = {}
  BY KindsOfDevices
<1>5. CASE Plug(x)
  <2>1. todo[x] = Done
    BY <1>1, <1>5, StartsDone DEF Plug
  <2>2. PICK ins \in SUBSET InsOf(x) :
          /\ ChangeAvailable(x, {}, {OutOf(x)} \cup ins)
          /\ GoTo(x, CASE x = "SCO" -> "idle" [] x # "SCO" /\ ins # {} -> "plugMic" [] OTHER -> "plug")
    BY <1>5 DEF Plug
  <2>3. {} \in SUBSET Devices /\ {OutOf(x)} \cup ins \in SUBSET Devices
    BY <1>2
  <2>4. \A w : Changes(x, w)
    BY <2>2, <2>3 DEF Changes
  <2>5. \E w \in Places : GoTo(x, w)
    BY <2>2 DEF Places
  <2> QED
    BY <1>5, <2>1, <2>4, <2>5 DEF Plug, Handles
<1>6. CASE Activate(x)
  <2>1. at[x] # "idle" /\ todo[x] = Done /\ UNCHANGED words
    BY <1>6 DEF Activate, At
  <2>2. CASE IsCommunication
    BY <1>6, <2>1, <2>2 DEF Activate, Handles, Changes, Places
  <2>3. CASE ~IsCommunication
    <3>1. PICK ins \in {{}, {"WIRED_IN"}} : Only(x, {OutOf(x)} \cup ins)
      BY <1>6, <2>3 DEF Activate
    <3>2. {OutOf(x)} \cup ins \in SUBSET Devices /\ OneOfAKind({OutOf(x)} \cup ins)
      BY <1>2, <1>4 DEF OneOfAKind
    <3>3. \A w \in Places : Changes(x, w)
      BY <3>1, <3>2, OnlyIsOrderly
    <3>4. \E w \in Places : GoTo(x, w)
      BY <1>6, <2>3 DEF Activate, Places
    <3> QED
      BY <2>1, <3>3, <3>4 DEF Handles
  <2> QED
    BY <2>2, <2>3
<1>7. CASE Unplug(x)
  <2>1. todo[x] = Done
    BY <1>1, <1>7, StartsDone DEF Unplug
  <2>2. Changes(x, "unplug")
    BY <1>3, <1>7 DEF Unplug, Changes
  <2> QED
    BY <1>7, <2>1, <2>2 DEF Unplug, Handles, Places
<1>8. CASE CheckActive(x) \/ Decide(x)
  BY <1>8 DEF CheckActive, Decide, At, Handles, Changes, Places
<1>9. CASE Deactivate(x)
  <2>1. \A w \in {"decide", "selectOut"} : Orderly(x, w, DevicesOf(x), {})
    BY DEF Orderly, OneOfAKind
  <2>2. \A w \in {"decide", "selectOut"} : Changes(x, w)
    BY <1>3, <1>9, <2>1 DEF Deactivate, Changes
  <2> QED
    BY <1>9, <2>2 DEF Deactivate, At, Handles, Places
<1>10. CASE SelectOut(x)
  <2>1. at[x] # "idle" /\ todo[x] = Done /\ UNCHANGED words
    BY <1>10 DEF SelectOut, At
  <2>2. \A w : Changes(x, w)
    <3>1. CASE active \cap Outs = {}
      <4>1. \A w : Orderly(x, w, {}, {BestOut})
        BY <1>4, <3>1 DEF Orderly, OneOfAKind
      <4>2. {} \in SUBSET Devices /\ {BestOut} \in SUBSET Devices
        BY <1>4 DEF Devices
      <4> QED
        BY <1>10, <3>1, <4>1, <4>2 DEF SelectOut, Changes
    <3>2. CASE active \cap Outs # {}
      BY <1>10, <3>2 DEF SelectOut, Changes
    <3> QED
      BY <3>1, <3>2
  <2>3. \E w \in Places : GoTo(x, w)
    BY <1>10 DEF SelectOut, Places
  <2> QED
    BY <2>1, <2>2, <2>3 DEF Handles
<1>11. CASE SelectIn(x)
  <2>1. at[x] # "idle" /\ todo[x] = Done /\ UNCHANGED words
    BY <1>11 DEF SelectIn, At
  <2>2. \A w : Changes(x, w)
    <3>1. CASE active \cap Ins = {}
      <4>1. \A w : Orderly(x, w, {}, {BestIn})
        BY <1>4, <3>1 DEF Orderly, OneOfAKind
      <4>2. {} \in SUBSET Devices /\ {BestIn} \in SUBSET Devices
        BY <1>4 DEF Devices
      <4> QED
        BY <1>11, <3>1, <4>1, <4>2 DEF SelectIn, Changes
    <3>2. CASE active \cap Ins # {}
      BY <1>11, <3>2 DEF SelectIn, Changes
    <3> QED
      BY <3>1, <3>2
  <2>3. GoTo(x, "path")
    BY <1>11 DEF SelectIn
  <2> QED
    BY <2>1, <2>2, <2>3 DEF Handles, Places
<1> QED
  BY <1>5, <1>6, <1>7, <1>8, <1>9, <1>10, <1>11 DEF Accessory

LEMMA AsmHandles ==
  ASSUME TypeOK, Asm
  PROVE  \E w \in Places : Handles("asm", w)
<1>1. "asm" \in Actors
  BY DEF Actors
<1>2. \A s \in Sessions : s \in CallSessions \/ s = "FMRADIO" \/ s = "NOTIFICATION"
  BY SessionAssumption DEF CallSessions
<1>3. ASSUME NEW s \in Sessions, StartSession(s) \/ EndSession(s)
      PROVE  \E w \in Places : Handles("asm", w)
  <2>1. todo["asm"] = Done /\ MayStart("asm") /\ UNCHANGED words
    BY <1>1, <1>3, StartsDone DEF StartSession, EndSession
  <2>2. \E w \in Places : GoTo("asm", w)
    BY <1>2, <1>3 DEF StartSession, EndSession, Places, CallSessions
  <2>3. \A w : Changes("asm", w)
    BY <1>3 DEF StartSession, EndSession, Changes
  <2> QED
    BY <2>1, <2>2, <2>3 DEF Handles
<1>4. ASSUME NEW s \in Subsessions, SetSubSession(s) PROVE Handles("asm", "path")
  BY <1>1, <1>4, StartsDone DEF SetSubSession, Handles, Changes
<1>5. CASE Receiver
  <2>1. at["asm"] # "idle" /\ todo["asm"] = Done /\ UNCHANGED words
    BY <1>5 DEF Receiver, At
  <2>2. {"RECEIVER"} \in SUBSET Devices /\ {} \in SUBSET Devices
    BY DEF Devices, Outs
  <2>3. \A w : Changes("asm", w)
    BY <1>5, <2>2 DEF Receiver, Changes
  <2>4. \E w \in Places : GoTo("asm", w)
    BY <1>5 DEF Receiver, Places
  <2> QED
    BY <2>1, <2>3, <2>4 DEF Handles
<1>6. CASE RouteFails
  <2>1. "idle" \notin FailsAt
    BY SessionAssumption
  <2>2. at["asm"] # "idle" /\ todo["asm"] = Done
    BY <1>6, <2>1 DEF RouteFails, At
  <2> QED
    BY <1>6, <2>2 DEF RouteFails, Handles, Changes, Places
<1>7. CASE RouteCall
  <2>1. at["asm"] # "idle" /\ todo["asm"] = Done /\ UNCHANGED words /\ GoTo("asm", "path")
    BY <1>7 DEF RouteCall, At
  <2>2. \A s \in {{"RECEIVER"}, {"SCO_OUT", "SCO_IN"}} : s \in SUBSET Devices /\ OneOfAKind(s)
    BY DEF Devices, Outs, Ins, OneOfAKind
  <2>3. UNCHANGED <<todo, torn>> \/ \E s \in {{"RECEIVER"}, {"SCO_OUT", "SCO_IN"}} : Only("asm", s)
    BY <1>7 DEF RouteCall
  <2>4. Changes("asm", "path")
    BY <2>2, <2>3, OnlyIsOrderly DEF Changes, Places
  <2> QED
    BY <2>1, <2>4 DEF Handles, Places
<1>8. CASE RouteMedia
  <2>1. at["asm"] # "idle" /\ todo["asm"] = Done /\ UNCHANGED words /\ GoTo("asm", "path")
    BY <1>8 DEF RouteMedia, At
  <2>2. AfterCall \in SUBSET Devices /\ OneOfAKind(AfterCall)
    BY DEF AfterCall, Devices, Outs, Ins, OneOfAKind
  <2>3. UNCHANGED <<todo, torn>> \/ \E s \in SUBSET Devices : OneOfAKind(s) /\ Only("asm", s)
    BY <1>8, <2>2 DEF RouteMedia
  <2>4. Changes("asm", "path")
    BY <2>3, OnlyIsOrderly DEF Changes, Places
  <2> QED
    BY <2>1, <2>4 DEF Handles, Places
<1>9. CASE RouteRadio \/ RouteNotification
  BY <1>9 DEF RouteRadio, RouteNotification, At, Handles, Changes, Places
<1> QED
  BY <1>3, <1>4, <1>5, <1>6, <1>7, <1>8, <1>9 DEF Asm, Places

LEMMA IpcHandles ==
  ASSUME TypeOK, Ipc
  PROVE  \E w \in Places : Handles("ipc", w)
<1>1. "ipc" \in Actors
  BY DEF Actors
<1>2. ASSUME NEW r \in Routes, AskRoute(r) PROVE Handles("ipc", "update")
  BY <1>1, <1>2, StartsDone DEF AskRoute, Handles, Changes
<1>3. CASE UpdateActive
  <2>1. at["ipc"] # "idle" /\ todo["ipc"] = Done /\ UNCHANGED words /\ GoTo("ipc", "compare")
    BY <1>3 DEF UpdateActive, At
  <2>2. wish \in SUBSET Devices
    BY DEF TypeOK
  <2>3. \E s \in SUBSET Devices : (OneOfAKind(wish) => OneOfAKind(s)) /\ Only("ipc", s)
    BY <1>3, <2>2 DEF UpdateActive
  <2>4. Changes("ipc", "compare")
    BY <2>3, OnlyIsOrderly DEF Places
  <2> QED
    BY <2>1, <2>4 DEF Handles, Places
<1>4. CASE CompareActive
  BY <1>4 DEF CompareActive, At, Handles, Changes, Places
<1> QED
  BY <1>2, <1>3, <1>4 DEF Ipc, Places

LEMMA PathHandles ==
  ASSUME TypeOK, NEW x \in Actors, SetPath(x)
  PROVE  Handles(x, "idle")
  BY DEF SetPath, At, Handles, Changes

\* Every step is that of a handler, or loads or stores a word.
LEMMA StepOf ==
  ASSUME TypeOK, Next
  PROVE  \E x \in Actors : Load(x) \/ Store(x) \/ \E w \in Places : Handles(x, w)
<1>1. Accessories \subseteq Actors /\ "asm" \in Actors /\ "ipc" \in Actors /\ "idle" \in Places
  BY DEF Actors, Places
<1> QED
  BY <1>1, AccessoryHandles, AsmHandles, IpcHandles, PathHandles DEF Next

-----------------------------------------------------------------------------
(* The types.                                                              *)

LEMMA TypeInit == Init => TypeOK
<1> SUFFICES ASSUME Init PROVE TypeOK
  OBVIOUS
<1>1. available \subseteq Devices
  BY KindsOfDevices DEF Init, Devices, Outs, Ins
<1>2. active \subseteq Devices
  BY KindsOfDevices DEF Init, Devices
<1>3. path \in Outs \cup {"NONE", "DUAL"}
  BY PathIsOutput DEF Init
<1>4. Done \in Updates
  BY DEF Done, Update, Updates
<1> QED
  BY <1>1, <1>2, <1>3, <1>4 DEF Init, TypeOK, Updates

\* What a handler leaves in the words, in its update and in its place.
LEMMA TypeHandles ==
  ASSUME TypeOK, NEW x \in Actors, NEW w \in Places, Handles(x, w)
  PROVE  /\ available' \subseteq Devices /\ active' \subseteq Devices
         /\ at' \in [Actors -> Places]
         /\ todo' \in [Actors -> Updates]
         /\ copy' \in [Actors -> SUBSET SUBSET Devices]
         /\ torn' \in BOOLEAN
<1>1. at' \in [Actors -> Places]
  BY DEF Handles, GoTo, TypeOK, Places
<1>2. todo' \in [Actors -> Updates]
  <2>1. todo \in [Actors -> Updates]
    BY DEF TypeOK, Updates
  <2>2. ASSUME NEW name \in {"active", "available"}, NEW clear \in SUBSET Devices,
               NEW set \in SUBSET Devices
        PROVE  Update(name, clear, set) \in Updates
    BY DEF Update, Updates
  <2> QED
    BY <2>1, <2>2 DEF Handles, Changes, ChangeAvailable, ChangeActive
<1>3. torn' \in BOOLEAN
  BY DEF TypeOK, Handles, Changes, ChangeAvailable, ChangeActive
<1> QED
  BY <1>1, <1>2, <1>3 DEF Handles, words, TypeOK

LEMMA TypeLoad ==
  ASSUME TypeOK, NEW x \in Actors, Load(x) PROVE TypeOK'
<1>1. copy' \in [Actors -> SUBSET SUBSET Devices]
  BY DEF TypeOK, Load
<1> QED
  BY <1>1 DEF TypeOK, Load

LEMMA TypeStore ==
  ASSUME TypeOK, NEW x \in Actors, Store(x) PROVE TypeOK'
<1>1. todo[x] \in Updates
  BY DEF TypeOK, Updates
<1> DEFINE u    == todo[x]
           rest == Update(u.word, u.clear \ Part(u).clear, u.set \ Part(u).set)
<1>2. Part(u).clear \subseteq Devices /\ Part(u).set \subseteq Devices
  BY <1>1, PartAndRest DEF Updates
<1>3. rest \in Updates /\ Done \in Updates
  BY <1>1 DEF Update, Updates, Done
<1>4. todo' \in [Actors -> Updates] /\ copy' \in [Actors -> SUBSET SUBSET Devices]
  BY <1>3 DEF TypeOK, Store, Updates
<1>5. available' \subseteq Devices /\ active' \subseteq Devices
  BY <1>2 DEF TypeOK, Store
<1> QED
  BY <1>4, <1>5 DEF TypeOK, Store, Updates

LEMMA TypeNext == TypeOK /\ [Next]_vars => TypeOK'
<1> SUFFICES ASSUME TypeOK, [Next]_vars PROVE TypeOK'
  OBVIOUS
<1>1. CASE UNCHANGED vars
  BY <1>1 DEF TypeOK, vars, words
<1>2. ASSUME NEW x \in Accessories, Accessory(x) PROVE TypeOK'
  <2>1. x \in Actors /\ \E w \in Places : Handles(x, w)
    BY <1>2, AccessoryHandles DEF Actors
  <2>2. UNCHANGED <<session, subsession, path, calls, wish, before>>
    BY <1>2 DEF Accessory, Plug, Activate, Unplug, CheckActive, Deactivate, Decide, SelectOut, SelectIn
  <2> QED
    BY <2>1, <2>2, TypeHandles DEF TypeOK, Places, Updates
<1>3. CASE Asm
  <2>1. "asm" \in Actors /\ \E w \in Places : Handles("asm", w)
    BY <1>3, AsmHandles DEF Actors
  <2> USE DEF Asm, StartSession, EndSession, Receiver, RouteFails, RouteCall, RouteMedia,
              RouteRadio, RouteNotification, SetSubSession
  <2>2. session' \in Sessions \cup {"MEDIA"} /\ subsession' \in Subsessions \cup {"VOICE"}
    BY <1>3 DEF TypeOK
  <2>3. path' \in Outs \cup {"NONE", "DUAL"}
    BY <1>3, PathIsOutput DEF TypeOK
  <2>4. calls' \subseteq Sessions \cap CallSessions
    BY <1>3 DEF TypeOK
  <2>5. UNCHANGED <<wish, before>>
    BY <1>3
  <2> QED
    BY <2>1, <2>2, <2>3, <2>4, <2>5, TypeHandles DEF TypeOK, Places, Updates
<1>4. CASE Ipc
  <2>1. "ipc" \in Actors /\ \E w \in Places : Handles("ipc", w)
    BY <1>4, IpcHandles DEF Actors
  <2>2. wish' \subseteq Devices /\ before' \subseteq Devices
    BY <1>4, RoutesAreDevices DEF TypeOK, Ipc, AskRoute, UpdateActive, CompareActive
  <2>3. UNCHANGED <<session, subsession, path, calls>>
    BY <1>4 DEF Ipc, AskRoute, UpdateActive, CompareActive
  <2> QED
    BY <2>1, <2>2, <2>3, TypeHandles DEF TypeOK, Places, Updates
<1>5. ASSUME NEW x \in Actors, SetPath(x) PROVE TypeOK'
  <2>1. Handles(x, "idle") /\ "idle" \in Places
    BY <1>5, PathHandles DEF Places
  <2>2. path' \in Outs \cup {"NONE", "DUAL"}
    BY <1>5, PathIsOutput DEF SetPath, TypeOK
  <2>3. UNCHANGED <<session, subsession, calls, wish, before>>
    BY <1>5 DEF SetPath
  <2> QED
    BY <2>1, <2>2, <2>3, TypeHandles DEF TypeOK, Places, Updates
<1> QED
  BY <1>1, <1>2, <1>3, <1>4, <1>5, TypeLoad, TypeStore DEF Next

\* Every variable keeps its type, whatever the handlers interleave.
THEOREM TypeCorrect == Spec => []TypeOK
  BY TypeInit, TypeNext, PTL DEF Spec

-----------------------------------------------------------------------------
(* One handler at a time changes the active devices, unless torn is set.   *)

LEMMA WriterInit == Init => OneWriter
  BY DEF Init, OneWriter, Done, Update

\* A handler that is going to change the active devices is the only one, or sets torn.
LEMMA WriterHandles ==
  ASSUME TypeOK, OneWriter, ~torn', NEW x \in Actors, NEW w \in Places, Handles(x, w)
  PROVE  OneWriter'
<1>1. /\ todo \in [Actors -> Updates] /\ at \in [Actors -> Places]
      /\ copy \in [Actors -> SUBSET SUBSET Devices]
  BY DEF TypeOK, Updates, Places
<1>2. todo[x] = Done /\ copy[x] = {} /\ UNCHANGED words
  BY DEF Handles, OneWriter
<1>3. at' = [at EXCEPT ![x] = w]
  BY DEF Handles, GoTo
<1>4. CASE UNCHANGED <<todo, torn>>
  <2>1. \A y \in Actors : todo[y].word = "active" => at'[y] = at[y]
    BY <1>1, <1>2, <1>3 DEF Done, Update
  <2> QED
    BY <1>2, <1>4, <2>1 DEF OneWriter, words
<1>5. ASSUME NEW clear, NEW set, ChangeAvailable(x, clear, set) PROVE OneWriter'
  <2>1. todo'[x].word = "available" /\ \A y \in Actors \ {x} : todo'[y] = todo[y] /\ at'[y] = at[y]
    BY <1>1, <1>3, <1>5 DEF ChangeAvailable, Update
  <2> QED
    BY <1>2, <2>1 DEF OneWriter, words
<1>6. ASSUME NEW clear, NEW set, ChangeActive(x, clear, set), Orderly(x, w, clear, set)
      PROVE  OneWriter'
  <2>1. \A y \in Actors \ {x} : todo[y].word # "active"
    BY <1>6 DEF ChangeActive
  <2>2. /\ todo'[x].clear = clear /\ todo'[x].set = set
        /\ \A y \in Actors \ {x} : todo'[y] = todo[y]
        /\ at'[x] = w
    BY <1>1, <1>3, <1>6 DEF ChangeActive, Update
  <2> QED
    BY <1>2, <1>6, <2>1, <2>2 DEF OneWriter, words, Orderly
<1> QED
  BY <1>4, <1>5, <1>6 DEF Handles, Changes

LEMMA WriterLoad ==
  ASSUME TypeOK, OneWriter, NEW x \in Actors, Load(x) PROVE OneWriter'
<1>1. copy \in [Actors -> SUBSET SUBSET Devices]
  BY DEF TypeOK
<1>2. \A y \in Actors \ {x} : copy'[y] = copy[y]
  BY <1>1 DEF Load
<1>3. todo[x].word = "active" => copy'[x] = {active}
  BY <1>1 DEF Load
<1> QED
  BY <1>2, <1>3 DEF OneWriter, Load

\* What is left of an update clears no output, so that it is not in need of a choice.
LEMMA WriterStore ==
  ASSUME TypeOK, OneWriter, NEW x \in Actors, Store(x) PROVE OneWriter'
<1>1. todo \in [Actors -> Updates] /\ copy \in [Actors -> SUBSET SUBSET Devices]
  BY DEF TypeOK, Updates
<1>2. \A y \in Actors \ {x} : copy'[y] = copy[y] /\ todo'[y] = todo[y]
  BY <1>1 DEF Store
<1>3. /\ copy'[x] = {}
      /\ todo'[x].word \in {todo[x].word, "none"}
      /\ todo'[x].clear \cap Outs = {}
  <2>1. (todo[x].clear \ Part(todo[x]).clear) \cap Outs = {}
    BY <1>1, PartAndRest
  <2>2. copy'[x] = {}
    BY <1>1 DEF Store
  <2>3. todo'[x].word \in {todo[x].word, "none"} /\ todo'[x].clear \cap Outs = {}
    BY <1>1, <2>1 DEF Store, Done, Update
  <2> QED
    BY <2>2, <2>3
<1>4. todo[x].word \in {"active", "available"} /\ (todo[x].word = "available" => active' = active)
  BY DEF Store
<1>5. UNCHANGED at
  BY DEF Store
<1>6. \A y \in Actors \ {x} : todo[y].word = "active" => active' = active
  BY <1>4 DEF OneWriter
<1> QED
  BY <1>2, <1>3, <1>4, <1>5, <1>6 DEF OneWriter

LEMMA WriterNext ==
  ASSUME TypeOK, ~torn => OneWriter, [Next]_vars PROVE ~torn' => OneWriter'
<1> SUFFICES ASSUME ~torn' PROVE OneWriter'
  OBVIOUS
<1>1. CASE UNCHANGED vars
  BY <1>1 DEF OneWriter, vars, words
<1>2. CASE Next
  <2>1. PICK x \in Actors : Load(x) \/ Store(x) \/ \E w \in Places : Handles(x, w)
    BY <1>2, StepOf
  <2>2. ~torn
    BY <2>1 DEF TypeOK, Load, Store, Handles, Changes, ChangeAvailable, ChangeActive
  <2> QED
    BY <2>1, <2>2, WriterHandles, WriterLoad, WriterStore
<1> QED
  BY <1>1, <1>2

-----------------------------------------------------------------------------
(* What a step makes of the words that are due.                            *)

\* A handler that leaves the active devices alone, and one that is going to change them.
LEMMA ActiveDueHandles ==
  ASSUME TypeOK, OneWriter, ~torn', NEW x \in Actors, NEW w \in Places, Handles(x, w)
  PROVE  /\ UNCHANGED todo => ActiveDue' = ActiveDue
         /\ \A clear, set : ChangeAvailable(x, clear, set) => ActiveDue' = ActiveDue
         /\ \A clear, set : ChangeActive(x, clear, set) =>
              ActiveDue = active /\ ActiveDue' = (active \ clear) \cup set
<1>1. todo \in [Actors -> Updates] /\ todo[x] = Done /\ active' = active
  BY DEF TypeOK, Updates, Handles, words
<1>2. ASSUME UNCHANGED todo PROVE ActiveDue' = ActiveDue
  BY <1>1, <1>2 DEF ActiveDue, Due
<1>3. ASSUME NEW clear, NEW set, ChangeAvailable(x, clear, set) PROVE ActiveDue' = ActiveDue
  <2>1. \A y \in Actors : todo[y].word = "active" \/ todo'[y].word = "active" => todo[y] = todo'[y]
    BY <1>1, <1>3 DEF ChangeAvailable, Update, Done
  <2>2. Due(todo, "active", active) = Due(todo', "active", active)
    BY <2>1, DueSame
  <2> QED
    BY <1>1, <2>2 DEF ActiveDue, Due
<1>4. ASSUME NEW clear, NEW set, ChangeActive(x, clear, set)
      PROVE  ActiveDue = active /\ ActiveDue' = (active \ clear) \cup set
  <2>1. \A y \in Actors \ {x} : todo[y].word # "active" /\ todo'[y].word # "active"
    BY <1>1, <1>4 DEF ChangeActive
  <2>2. todo[x].word # "active" /\ todo'[x] = Update("active", clear, set)
    BY <1>1, <1>4 DEF ChangeActive, Done, Update
  <2>3. Due(todo, "active", active) = active
    <3>1. \A y \in Actors : todo[y].word # "active"
      BY <2>1, <2>2
    <3> QED
      BY <3>1, DueNone
  <2>4. Due(todo', "active", active) = (active \ clear) \cup set
    <3>1. todo'[x].word = "active" /\ todo'[x].clear = clear /\ todo'[x].set = set
      BY <2>2 DEF Update
    <3>2. PICK after, word : after = todo' /\ word = active
      OBVIOUS
    <3>3. Due(after, "active", word) = (word \ after[x].clear) \cup after[x].set
      <4>1. SoleWriter(after, "active", x)
        BY <2>1, <3>1, <3>2 DEF SoleWriter
      <4> HIDE <3>2
      <4> QED
        BY <4>1, DueOne
    <3> QED
      BY <3>1, <3>2, <3>3 DEF Due
  <2> QED
    BY <1>1, <2>3, <2>4 DEF ActiveDue, Due
<1> QED
  BY <1>2, <1>3, <1>4

\* Loads and stores carry an update out and change nothing of what is due.
LEMMA ActiveDueKept ==
  ASSUME TypeOK, OneWriter, NEW x \in Actors, Load(x) \/ Store(x)
  PROVE  ActiveDue' = ActiveDue
<1>1. todo \in [Actors -> Updates] /\ copy \in [Actors -> SUBSET SUBSET Devices]
  BY DEF TypeOK, Updates
<1>2. CASE Load(x)
  BY <1>2 DEF Load, ActiveDue, Due
<1>3. CASE Store(x) /\ todo[x].word = "available"
  <2>1. active' = active /\ \A y \in Actors \ {x} : todo'[y] = todo[y]
    BY <1>1, <1>3 DEF Store
  <2>2. todo'[x].word # "active"
    BY <1>1, <1>3 DEF Store, Done, Update
  <2>3. Due(todo, "active", active) = Due(todo', "active", active)
    BY <1>3, <2>1, <2>2, DueSame
  <2> QED
    BY <2>1, <2>3 DEF ActiveDue, Due
<1>4. CASE Store(x) /\ todo[x].word = "active"
  <2> DEFINE u     == todo[x]
             clear == u.clear \ Part(u).clear
             set   == u.set \ Part(u).set
  <2>1. active' = (active \ Part(u).clear) \cup Part(u).set
    BY <1>4 DEF Store, OneWriter
  <2>2. \A y \in Actors \ {x} : todo[y].word # "active" /\ todo'[y].word # "active"
    BY <1>1, <1>4 DEF Store, OneWriter
  <2>3. Due(todo, "active", active) = (active \ u.clear) \cup u.set
    <3>1. SoleWriter(todo, "active", x)
      BY <1>4, <2>2 DEF SoleWriter
    <3> QED
      BY <3>1, DueOne
  <2>4. u \in Updates
    BY <1>1
  <2>5. (active' \ clear) \cup set = (active \ u.clear) \cup u.set
    BY <2>1, <2>4, PartAndRest
  <2>6. Due(todo', "active", active') = (active' \ clear) \cup set
    <3>1. CASE clear \cup set = {}
      <4>1. todo'[x].word # "active"
        BY <1>1, <1>4, <3>1 DEF Store, Done, Update
      <4>2. \A y \in Actors : todo'[y].word # "active"
        BY <2>2, <4>1
      <4>3. Due(todo', "active", active') = active'
        BY <4>2, DueNone
      <4> QED
        BY <3>1, <4>3
    <3>2. CASE clear \cup set # {}
      <4>1. todo'[x].word = "active" /\ todo'[x].clear = clear /\ todo'[x].set = set
        BY <1>1, <1>4, <3>2 DEF Store, Update
      <4>2. PICK after, word : after = todo' /\ word = active'
        OBVIOUS
      <4>3. Due(after, "active", word) = (word \ after[x].clear) \cup after[x].set
        <5>1. SoleWriter(after, "active", x)
          BY <2>2, <4>1, <4>2 DEF SoleWriter
        <5> HIDE <4>2
        <5> QED
          BY <5>1, DueOne
      <4> QED
        BY <4>1, <4>2, <4>3 DEF Due
    <3> QED
      BY <3>1, <3>2
  <2> QED
    BY <2>3, <2>5, <2>6 DEF ActiveDue, Due
<1> QED
  BY <1>2, <1>3, <1>4 DEF Store

-----------------------------------------------------------------------------
(* There is always a device that plays.                                    *)

LEMMA OutputInit == Init => OutputInv
<1> SUFFICES ASSUME Init PROVE OutputInv
  OBVIOUS
<1>1. ActiveDue = active
  <2>1. \A x \in Actors : todo[x].word # "active"
    BY DEF Init, Done, Update
  <2> QED
    BY <2>1, DueNone DEF ActiveDue
<1> QED
  BY <1>1, WriterInit, KindsOfDevices DEF Init, OutputInv, CallIsOn, SomeoneChooses, CallSessions

\* A call session is that of a call that is on: only the session manager's thread changes either.
LEMMA CallIsOnNext ==
  ASSUME TypeOK, CallIsOn, Next PROVE CallIsOn'
<1>1. CASE UNCHANGED <<session, calls>>
  BY <1>1 DEF CallIsOn
<1>2. CASE \E s \in Sessions : StartSession(s) \/ EndSession(s)
  BY <1>2 DEF CallIsOn, StartSession, EndSession, CallSessions
<1>3. UNCHANGED <<session, calls>> \/ \E s \in Sessions : StartSession(s) \/ EndSession(s)
  BY DEF Next, Accessory, Plug, Activate, Unplug, CheckActive, Deactivate, Decide, SelectOut,
         SelectIn, Asm, Receiver, RouteFails, RouteCall, RouteMedia, RouteRadio,
         RouteNotification, SetSubSession, Ipc, AskRoute, UpdateActive, CompareActive, SetPath,
         Load, Store
<1> QED
  BY <1>1, <1>2, <1>3

\* A step after which a device is going to play, or that leaves the outputs and the choosers
\* alone, is safe.
LEMMA StillChosen ==
  ASSUME SomeoneChooses,
         \/ ActiveDue' \cap Outs # {}
         \/ /\ ActiveDue' \cap Outs = ActiveDue \cap Outs
            /\ calls \subseteq calls'
            /\ at["asm"] \in {"callEnd", "routeMedia"} => at'["asm"] \in {"callEnd", "routeMedia"}
            /\ \A x \in Accessories :
                 at[x] \in {"decide", "selectOut"} => at'[x] \in {"decide", "selectOut"}
  PROVE  SomeoneChooses'
  BY DEF SomeoneChooses

\* If a device plays now that is going to be taken away, the handler that does so is going to
\* choose: a handler that keeps what it finds half done is right to.
LEMMA TakenAwayChosen ==
  ASSUME TypeOK, OneWriter, active \cap Outs # {}, ActiveDue \cap Outs = {}
  PROVE  \E y \in Accessories : todo[y] # Done /\ at[y] \in {"decide", "selectOut"}
<1>1. PICK y \in Actors : todo[y].word = "active"
  <2>1. CASE \A y \in Actors : todo[y].word # "active"
    BY <2>1, DueNone DEF ActiveDue
  <2> QED
    BY <2>1
<1>2. \A z \in Actors \ {y} : todo[z].word # "active"
  BY <1>1 DEF OneWriter
<1>3. ActiveDue = (active \ todo[y].clear) \cup todo[y].set
  <2>1. SoleWriter(todo, "active", y)
    BY <1>1, <1>2 DEF SoleWriter
  <2> QED
    BY <2>1, DueOne DEF ActiveDue
<1>4. todo[y].clear \cap Outs # {} /\ todo[y].set \cap Outs = {}
  BY <1>3
<1> QED
  BY <1>1, <1>4 DEF OneWriter, Done, Update

\* An accessory that takes its device away is going to choose another one, unless a call is on
\* when it looks: the thread that ends the call resets the session first and looks afterwards.
LEMMA AccessoryChooses ==
  ASSUME TypeOK, CallIsOn, OneWriter, SomeoneChooses, ~torn', NEW x \in Accessories, Accessory(x)
  PROVE  SomeoneChooses'
<1>1. x \in Actors /\ x # "asm" /\ "asm" \in Actors /\ Accessories \subseteq Actors
  BY SessionAssumption DEF Actors
<1>2. at \in [Actors -> Places]
  BY DEF TypeOK, Places
<1>3. PICK w \in Places : Handles(x, w)
  BY AccessoryHandles
<1>4. /\ UNCHANGED todo => ActiveDue' = ActiveDue
      /\ \A clear, set : ChangeAvailable(x, clear, set) => ActiveDue' = ActiveDue
      /\ \A clear, set : ChangeActive(x, clear, set) =>
           ActiveDue = active /\ ActiveDue' = (active \ clear) \cup set
  BY <1>1, <1>3, ActiveDueHandles
<1>5. /\ at'[x] = w /\ \A y \in Actors \ {x} : at'[y] = at[y]
      /\ todo[x] = Done /\ active' = active
  BY <1>1, <1>2, <1>3 DEF Handles, GoTo, words
<1>6. UNCHANGED <<session, calls>>
  BY DEF Accessory, Plug, Activate, Unplug, CheckActive, Deactivate, Decide, SelectOut, SelectIn
<1>7. ASSUME at[x] \notin {"decide", "selectOut"}, ActiveDue' \cap Outs = ActiveDue \cap Outs
      PROVE  SomeoneChooses'
  BY <1>1, <1>5, <1>6, <1>7, StillChosen
<1>8. CASE Plug(x)
  <2>1. at[x] = "idle"
    BY <1>1, <1>8, StartsDone DEF Plug
  <2>2. ActiveDue' = ActiveDue
    BY <1>4, <1>8 DEF Plug
  <2> QED
    BY <1>7, <2>1, <2>2
<1>9. CASE Activate(x)
  <2>1. at[x] \in {"plug", "plugMic"}
    BY <1>9 DEF Activate, At
  <2>2. CASE IsCommunication
    BY <1>4, <1>7, <1>9, <2>1, <2>2 DEF Activate
  <2>3. CASE ~IsCommunication
    <3>1. PICK set : OutOf(x) \in set /\ Only(x, set)
      BY <1>9, <2>3 DEF Activate
    <3>2. OutOf(x) \in ActiveDue' /\ OutOf(x) \in Outs
      BY <1>4, <3>1, KindsOfDevices DEF Only
    <3> QED
      BY <3>2, StillChosen
  <2> QED
    BY <2>2, <2>3
<1>10. CASE Unplug(x)
  <2>1. at[x] = "idle"
    BY <1>1, <1>10, StartsDone DEF Unplug
  <2>2. ActiveDue' = ActiveDue
    BY <1>4, <1>10 DEF Unplug
  <2> QED
    BY <1>7, <2>1, <2>2
<1>11. CASE CheckActive(x)
  BY <1>4, <1>7, <1>11 DEF CheckActive, At
<1>12. CASE Deactivate(x)
  <2>1. at'[x] \in {"decide", "selectOut"}
    BY <1>1, <1>2, <1>12 DEF Deactivate, GoTo
  <2> QED
    BY <2>1 DEF SomeoneChooses
<1>13. CASE Decide(x)
  <2>1. CASE IsCommunication
    BY <1>13, <2>1 DEF Decide, IsCommunication, CallIsOn, SomeoneChooses
  <2>2. CASE ~IsCommunication
    <3>1. at'[x] = "selectOut"
      BY <1>1, <1>2, <1>13, <2>2 DEF Decide, GoTo
    <3> QED
      BY <3>1 DEF SomeoneChooses
  <2> QED
    BY <2>1, <2>2
<1>14. CASE SelectOut(x)
  <2>1. CASE active \cap Outs = {}
    <3>1. BestOut \in ActiveDue' /\ BestOut \in Outs
      BY <1>4, <1>14, <2>1, KindsOfDevices DEF SelectOut
    <3> QED
      BY <3>1, StillChosen
  <2>2. CASE active \cap Outs # {}
    <3>1. ActiveDue' = ActiveDue
      BY <1>4, <1>14, <2>2 DEF SelectOut
    <3>2. CASE ActiveDue \cap Outs # {}
      BY <3>1, <3>2, StillChosen
    <3>3. CASE ActiveDue \cap Outs = {}
      <4>1. PICK y \in Accessories : todo[y] # Done /\ at[y] \in {"decide", "selectOut"}
        BY <2>2, <3>3, TakenAwayChosen
      <4>2. y # x /\ at'[y] = at[y]
        BY <1>1, <1>5, <4>1
      <4> QED
        BY <4>1, <4>2 DEF SomeoneChooses
    <3> QED
      BY <3>2, <3>3
  <2> QED
    BY <2>1, <2>2
<1>15. CASE SelectIn(x)
  <2>1. ActiveDue' \cap Outs = ActiveDue \cap Outs
    <3>1. CASE active \cap Ins = {}
      BY <1>4, <1>15, <3>1, KindsOfDevices DEF SelectIn
    <3>2. CASE active \cap Ins # {}
      BY <1>4, <1>15, <3>2 DEF SelectIn
    <3> QED
      BY <3>1, <3>2
  <2> QED
    BY <1>7, <1>15, <2>1 DEF SelectIn, At
<1> QED
  BY <1>8, <1>9, <1>10, <1>11, <1>12, <1>13, <1>14, <1>15 DEF Accessory

\* The session manager's thread: a call that ends leaves a choice to be made, and makes it.
LEMMA AsmChooses ==
  ASSUME TypeOK, OneWriter, SomeoneChooses, ~torn', "routeMedia" \notin FailsAt, Asm
  PROVE  SomeoneChooses'
<1>1. "asm" \in Actors /\ Accessories \subseteq Actors \ {"asm"}
  BY SessionAssumption DEF Actors
<1>2. at \in [Actors -> Places]
  BY DEF TypeOK, Places
<1>3. PICK w \in Places : Handles("asm", w)
  BY AsmHandles
<1>4. /\ UNCHANGED todo => ActiveDue' = ActiveDue
      /\ \A clear, set : ChangeAvailable("asm", clear, set) => ActiveDue' = ActiveDue
      /\ \A clear, set : ChangeActive("asm", clear, set) =>
           ActiveDue = active /\ ActiveDue' = (active \ clear) \cup set
  BY <1>1, <1>3, ActiveDueHandles
<1>5. at'["asm"] = w /\ \A y \in Accessories : at'[y] = at[y]
  BY <1>1, <1>2, <1>3 DEF Handles, GoTo
<1>6. ASSUME at["asm"] \notin {"callEnd", "routeMedia"}, ActiveDue' = ActiveDue, calls \subseteq calls'
      PROVE  SomeoneChooses'
  BY <1>5, <1>6, StillChosen
<1>7. ASSUME NEW s \in Sessions, StartSession(s) PROVE SomeoneChooses'
  <2>1. at["asm"] = "idle" /\ calls \subseteq calls'
    BY <1>1, <1>7, StartsDone DEF StartSession
  <2>2. ActiveDue' = ActiveDue
    BY <1>4, <1>7 DEF StartSession
  <2> QED
    BY <1>6, <2>1, <2>2
<1>8. ASSUME NEW s \in Sessions, EndSession(s) PROVE SomeoneChooses'
  <2>1. at["asm"] = "idle" /\ ActiveDue' = ActiveDue
    BY <1>1, <1>4, <1>8, StartsDone DEF EndSession
  <2>2. CASE s \in CallSessions
    <3>1. at'["asm"] = "callEnd"
      BY <1>1, <1>2, <1>8, <2>2 DEF EndSession, CallSessions, GoTo
    <3> QED
      BY <3>1 DEF SomeoneChooses
  <2>3. CASE s \notin CallSessions
    <3>1. calls' = calls
      BY <1>8, <2>3 DEF EndSession, TypeOK
    <3> QED
      BY <1>6, <2>1, <3>1
  <2> QED
    BY <2>2, <2>3
<1>9. CASE Receiver
  <2>1. ActiveDue' = ActiveDue /\ calls' = calls
    BY <1>4, <1>9 DEF Receiver
  <2>2. at["asm"] = "callEnd" => at'["asm"] = "routeMedia"
    BY <1>1, <1>2, <1>9 DEF Receiver, GoTo, At
  <2>3. at["asm"] # "routeMedia"
    BY <1>9 DEF Receiver, At
  <2> QED
    BY <1>5, <2>1, <2>2, <2>3, StillChosen
<1>10. CASE RouteCall
  <2>1. at["asm"] = "routeCall" /\ calls' = calls
    BY <1>10 DEF RouteCall, At
  <2>2. CASE UNCHANGED todo
    BY <1>4, <1>6, <2>1, <2>2
  <2>3. CASE \E s \in {{"RECEIVER"}, {"SCO_OUT", "SCO_IN"}} : Only("asm", s)
    <3>1. PICK s \in {{"RECEIVER"}, {"SCO_OUT", "SCO_IN"}} : Only("asm", s)
      BY <2>3
    <3>2. s \subseteq ActiveDue'
      BY <1>4, <3>1 DEF Only
    <3> QED
      BY <3>2, StillChosen DEF Outs
  <2> QED
    BY <1>10, <2>2, <2>3 DEF RouteCall
<1>11. CASE RouteMedia
  <2>1. CASE AfterCall = {}
    <3>1. active \cap Outs # {} /\ ActiveDue' = ActiveDue
      BY <1>4, <1>11, <2>1 DEF RouteMedia, AfterCall, KeptAfterCall, Outs
    <3>2. CASE ActiveDue \cap Outs # {}
      BY <3>1, <3>2, StillChosen
    <3>3. CASE ActiveDue \cap Outs = {}
      <4>1. PICK y \in Accessories : at[y] \in {"decide", "selectOut"}
        BY <3>1, <3>3, TakenAwayChosen
      <4> QED
        BY <1>5, <4>1 DEF SomeoneChooses
    <3> QED
      BY <3>2, <3>3
  <2>2. CASE AfterCall # {}
    <3>1. AfterCall \cap Outs # {}
      BY <2>2 DEF AfterCall, KeptAfterCall, Outs
    <3>2. PICK s : s \cap Outs # {} /\ Only("asm", s)
      BY <1>11, <2>2, <3>1 DEF RouteMedia
    <3>3. s \subseteq ActiveDue'
      BY <1>4, <3>2 DEF Only
    <3> QED
      BY <3>2, <3>3, StillChosen
  <2> QED
    BY <2>1, <2>2
<1>12. CASE RouteRadio \/ RouteNotification
  <2>1. at["asm"] \in {"radioStart", "radioEnd", "notiStart"} /\ calls' = calls /\ UNCHANGED todo
    BY <1>12 DEF RouteRadio, RouteNotification, At
  <2> QED
    BY <1>4, <1>6, <2>1
<1>13. ASSUME NEW s \in Subsessions, SetSubSession(s) PROVE SomeoneChooses'
  <2>1. at["asm"] = "idle" /\ calls' = calls /\ UNCHANGED todo
    BY <1>1, <1>13, StartsDone DEF SetSubSession
  <2> QED
    BY <1>4, <1>6, <2>1
<1>14. CASE RouteFails
  <2>1. at["asm"] = "routeCall" /\ calls' = calls /\ UNCHANGED todo
    BY <1>14, SessionAssumption DEF RouteFails, At
  <2> QED
    BY <1>4, <1>6, <2>1
<1> QED
  BY <1>7, <1>8, <1>9, <1>10, <1>11, <1>12, <1>13, <1>14 DEF Asm

\* A route request changes the outputs to that of the route, if it has one.
LEMMA IpcChooses ==
  ASSUME TypeOK, OneWriter, SomeoneChooses, ~torn', Ipc
  PROVE  SomeoneChooses'
<1>1. "ipc" \in Actors /\ "asm" \in Actors \ {"ipc"} /\ Accessories \subseteq Actors \ {"ipc"}
  BY SessionAssumption DEF Actors
<1>2. PICK w \in Places : Handles("ipc", w)
  BY IpcHandles
<1>3. /\ UNCHANGED todo => ActiveDue' = ActiveDue
      /\ \A clear, set : ChangeActive("ipc", clear, set) =>
           ActiveDue = active /\ ActiveDue' = (active \ clear) \cup set
  BY <1>1, <1>2, ActiveDueHandles
<1>4. \A y \in Actors \ {"ipc"} : at'[y] = at[y]
  BY <1>2 DEF Handles, GoTo, TypeOK
<1>5. calls' = calls
  BY DEF Ipc, AskRoute, UpdateActive, CompareActive
<1>6. CASE UpdateActive
  <2>1. Only("ipc", wish)
    BY <1>6 DEF UpdateActive
  <2>2. ActiveDue = active /\ ActiveDue' = (active \ KindsOf(wish)) \cup wish
    <3>1. PICK clear, set : clear = KindsOf(wish) /\ set = wish
      OBVIOUS
    <3>2. ChangeActive("ipc", clear, set)
      BY <2>1, <3>1 DEF Only, ChangeActive
    <3> QED
      BY <1>3, <3>1, <3>2
  <2>3. CASE wish \cap Outs # {}
    <3>1. ActiveDue' \cap Outs # {}
      BY <2>2, <2>3
    <3> QED
      BY <3>1, StillChosen
  <2>4. CASE wish \cap Outs = {}
    <3>1. ActiveDue' \cap Outs = ActiveDue \cap Outs
      BY <2>2, <2>4, KindsAreCleared
    <3> QED
      BY <1>1, <1>4, <1>5, <3>1, StillChosen
  <2> QED
    BY <2>3, <2>4
<1>7. CASE UNCHANGED todo
  BY <1>1, <1>3, <1>4, <1>5, <1>7, StillChosen
<1> QED
  BY <1>6, <1>7 DEF Ipc, AskRoute, CompareActive

LEMMA PathChooses ==
  ASSUME TypeOK, OneWriter, SomeoneChooses, ~torn', NEW x \in Actors, SetPath(x)
  PROVE  SomeoneChooses'
<1>1. Handles(x, "idle") /\ "idle" \in Places
  BY PathHandles DEF Places
<1>2. ActiveDue' = ActiveDue
  BY <1>1, ActiveDueHandles DEF SetPath
<1>3. at[x] = "path" /\ calls' = calls
  BY DEF SetPath, At
<1>4. \A y \in Actors \ {x} : at'[y] = at[y]
  BY <1>1 DEF Handles, GoTo, TypeOK
<1>5. "asm" \in Actors /\ Accessories \subseteq Actors
  BY DEF Actors
<1> QED
  BY <1>2, <1>3, <1>4, <1>5, StillChosen

LEMMA WordChooses ==
  ASSUME TypeOK, OneWriter, SomeoneChooses, NEW x \in Actors, Load(x) \/ Store(x)
  PROVE  SomeoneChooses'
<1>1. ActiveDue' = ActiveDue /\ UNCHANGED <<calls, at>>
  BY ActiveDueKept DEF Load, Store
<1> QED
  BY <1>1, StillChosen

LEMMA OutputNext == "routeMedia" \notin FailsAt /\ TypeOK /\ OutputInv /\ [Next]_vars => OutputInv'
<1> SUFFICES ASSUME "routeMedia" \notin FailsAt, TypeOK, OutputInv, [Next]_vars PROVE OutputInv'
  OBVIOUS
<1>1. ~torn' => OneWriter'
  BY WriterNext DEF OutputInv
<1>2. CASE UNCHANGED vars
  BY <1>1, <1>2 DEF OutputInv, CallIsOn, SomeoneChooses, ActiveDue, Due, vars, words
<1>3. CASE Next
  <2>1. CallIsOn'
    BY <1>3, CallIsOnNext DEF OutputInv
  <2>2. ASSUME ~torn' PROVE SomeoneChooses'
    <3>1. ~torn
      <4>1. PICK x \in Actors : Load(x) \/ Store(x) \/ \E w \in Places : Handles(x, w)
        BY <1>3, StepOf
      <4> QED
        BY <2>2, <4>1 DEF TypeOK, Load, Store, Handles, Changes, ChangeAvailable, ChangeActive
    <3> QED
      BY <1>3, <2>2, <3>1, AccessoryChooses, AsmChooses, IpcChooses, PathChooses, WordChooses
         DEF Next, OutputInv
  <2> QED
    BY <1>1, <2>1, <2>2 DEF OutputInv
<1> QED
  BY <1>2, <1>3

\* When no handler is at work nobody is going to choose, and what is due is done.
LEMMA QuietHasOutput == TypeOK /\ OutputInv => OutputExists
<1> SUFFICES ASSUME TypeOK, OutputInv, ~torn, Quiet, calls = {} PROVE active \cap Outs # {}
  BY DEF OutputExists
<1>1. \A x \in Actors : at[x] = "idle" /\ todo[x] = Done
  BY DEF Quiet, Busy
<1>2. ActiveDue = active
  <2>1. \A x \in Actors : todo[x].word # "active"
    BY <1>1 DEF Done, Update
  <2> QED
    BY <2>1, DueNone DEF ActiveDue
<1> QED
  BY <1>1, <1>2 DEF OutputInv, SomeoneChooses, Actors

\* If the clients and the audio system can be told of the end of a call, and unless two handlers
\* have been changing the active devices at the same time, the handlers, in whatever order their
\* steps, loads and stores come, never leave the system without a device that plays.
THEOREM OutputAlwaysExists == ASSUME "routeMedia" \notin FailsAt PROVE Spec => []OutputExists
<1>1. Init => TypeOK /\ OutputInv
  BY TypeInit, OutputInit
<1>2. TypeOK /\ OutputInv /\ [Next]_vars => (TypeOK /\ OutputInv)'
  BY TypeNext, OutputNext
<1>3. TypeOK /\ OutputInv => OutputExists
  BY QuietHasOutput
<1> QED
  BY <1>1, <1>2, <1>3, PTL DEF Spec

-----------------------------------------------------------------------------
(* One device of a kind is active.                                         *)

\* What is active is one of a kind, and so will be what is set: the others have been cleared, or
\* are going to be.
OneInv ==
  /\ OneOfAKind(wish)
  /\ ~torn => /\ OneWriter
              /\ OneOfAKind(active)
              /\ \A x \in Actors : todo[x].word = "active" =>
                   /\ OneOfAKind(todo[x].set)
                   /\ \A kind \in {Outs, Ins} : todo[x].set \cap kind # {} =>
                        kind \subseteq todo[x].clear \/ active \cap kind = {}

LEMMA OneInit == Init => OneInv
<1> SUFFICES ASSUME Init PROVE OneInv
  OBVIOUS
<1>1. OneOfAKind({BestOut, BestIn})
  BY KindsOfDevices DEF OneOfAKind
<1>2. OneOfAKind({})
  BY DEF OneOfAKind
<1> QED
  BY <1>1, <1>2, WriterInit DEF Init, OneInv, Done, Update

\* A handler's step changes no word, and what it is going to do to it is orderly.
LEMMA OneHandles ==
  ASSUME TypeOK, OneInv, ~torn, ~torn', NEW x \in Actors, NEW w \in Places, Handles(x, w)
  PROVE  /\ OneOfAKind(active')
         /\ \A y \in Actors : todo'[y].word = "active" =>
              /\ OneOfAKind(todo'[y].set)
              /\ \A kind \in {Outs, Ins} : todo'[y].set \cap kind # {} =>
                   kind \subseteq todo'[y].clear \/ active' \cap kind = {}
<1>1. active' = active /\ todo \in [Actors -> Updates]
  BY DEF Handles, words, TypeOK, Updates
<1>2. CASE UNCHANGED todo
  BY <1>1, <1>2 DEF OneInv
<1>3. ASSUME NEW clear, NEW set, ChangeAvailable(x, clear, set)
      PROVE  todo'[x].word # "active" /\ \A y \in Actors \ {x} : todo'[y] = todo[y]
  BY <1>1, <1>3 DEF ChangeAvailable, Update
<1>4. ASSUME NEW clear, NEW set, ChangeActive(x, clear, set)
      PROVE  /\ todo'[x].clear = clear /\ todo'[x].set = set
             /\ \A y \in Actors \ {x} : todo'[y] = todo[y]
  BY <1>1, <1>4 DEF ChangeActive, Update
<1>5. CASE \E clear, set : ChangeAvailable(x, clear, set)
  BY <1>1, <1>3, <1>5 DEF OneInv
<1>6. CASE \E clear, set \in SUBSET Devices : ChangeActive(x, clear, set) /\ Orderly(x, w, clear, set)
  <2>1. PICK clear, set \in SUBSET Devices : ChangeActive(x, clear, set) /\ Orderly(x, w, clear, set)
    BY <1>6
  <2>2. OneOfAKind(set)
    BY <2>1 DEF Orderly, OneInv
  <2> QED
    BY <1>1, <1>4, <2>1, <2>2 DEF OneInv, Orderly
<1> QED
  BY <1>2, <1>5, <1>6 DEF Handles, Changes

\* A store sets one device of a kind when those of the kind have been cleared.
LEMMA OneStore ==
  ASSUME TypeOK, OneInv, ~torn, NEW x \in Actors, Store(x), todo[x].word = "active"
  PROVE  /\ OneOfAKind(active')
         /\ todo'[x].word = "active" =>
              /\ OneOfAKind(todo'[x].set)
              /\ \A kind \in {Outs, Ins} : todo'[x].set \cap kind # {} =>
                   kind \subseteq todo'[x].clear \/ active' \cap kind = {}
<1> DEFINE u     == todo[x]
           clear == u.clear \ Part(u).clear
           set   == u.set \ Part(u).set
<1>1. u \in Updates /\ todo \in [Actors -> Updates]
  BY DEF TypeOK, Updates
<1>2. active' = (active \ Part(u).clear) \cup Part(u).set
  BY DEF Store, OneInv, OneWriter
<1>3. todo'[x].word = "active" => todo'[x].clear = clear /\ todo'[x].set = set
  BY <1>1 DEF Store, Done, Update
<1>4. /\ OneOfAKind(active) /\ OneOfAKind(u.set)
      /\ \A kind \in {Outs, Ins} : u.set \cap kind # {} => kind \subseteq u.clear \/ active \cap kind = {}
  BY DEF OneInv
<1>5. OneOfAKind(set)
  BY <1>4 DEF OneOfAKind
<1>6. /\ OneOfAKind((active \ Part(u).clear) \cup Part(u).set)
      /\ \A kind \in {Outs, Ins} : set \cap kind # {} =>
           kind \subseteq clear \/ ((active \ Part(u).clear) \cup Part(u).set) \cap kind = {}
  <2>1. Outs \cap Ins = {} /\ Outs # {} /\ Ins # {} /\ u.set \subseteq Outs \cup Ins
    BY <1>1, KindsOfDevices DEF Updates, Devices, Outs, Ins
  <2>2. CASE u.clear \cap Outs # {}
    <3>1. Part(u).clear = u.clear \cap Outs /\ Part(u).set = {}
      BY <2>2 DEF Part, Update
    <3>2. OneOfAKind(active \ Part(u).clear)
      BY <1>4 DEF OneOfAKind
    <3> QED
      BY <1>4, <2>1, <3>1, <3>2
  <2>3. CASE u.clear \cap Outs = {} /\ u.set \cap Outs # {}
    <3>1. Part(u).clear = {} /\ Part(u).set = u.set \cap Outs
      BY <2>3 DEF Part, Update
    <3>2. active \cap Outs = {}
      BY <1>4, <2>1, <2>3
    <3>3. OneOfAKind(active \cup (u.set \cap Outs))
      BY <1>4, <2>1, <3>2 DEF OneOfAKind
    <3> QED
      BY <1>4, <2>1, <3>1, <3>3
  <2>4. CASE (u.clear \cup u.set) \cap Outs = {} /\ u.clear # {}
    <3>1. Part(u).clear = u.clear /\ Part(u).set = {}
      BY <2>4 DEF Part, Update
    <3>2. OneOfAKind(active \ u.clear)
      BY <1>4 DEF OneOfAKind
    <3> QED
      BY <1>4, <2>1, <3>1, <3>2
  <2>5. CASE u.clear = {} /\ u.set \cap Outs = {}
    <3>1. Part(u) = u
      BY <2>5 DEF Part
    <3>2. u.set \cap Ins # {} => active \cap Ins = {}
      BY <1>4, <2>1, <2>5
    <3>3. OneOfAKind(active \cup u.set)
      BY <1>4, <2>1, <2>5, <3>2 DEF OneOfAKind
    <3> QED
      BY <2>5, <3>1, <3>3
  <2> QED
    BY <2>2, <2>3, <2>4, <2>5
<1> QED
  BY <1>2, <1>3, <1>5, <1>6

LEMMA OneNext == TypeOK /\ OneInv /\ [Next]_vars => OneInv'
<1> SUFFICES ASSUME TypeOK, OneInv, [Next]_vars PROVE OneInv'
  OBVIOUS
<1>1. ~torn' => OneWriter'
  BY WriterNext DEF OneInv
<1>2. CASE UNCHANGED vars
  BY <1>1, <1>2 DEF OneInv, vars, words
<1>3. CASE Next
  <2>1. OneOfAKind(wish')
    <3>1. UNCHANGED wish \/ CompareActive \/ \E r \in Routes : AskRoute(r)
      BY <1>3 DEF Next, Accessory, Plug, Activate, Unplug, CheckActive, Deactivate, Decide, SelectOut,
                  SelectIn, Asm, StartSession, EndSession, Receiver, RouteFails, RouteCall, RouteMedia,
                  RouteRadio, RouteNotification, SetSubSession, Ipc, UpdateActive, SetPath, Load, Store
    <3>2. OneOfAKind({})
      BY DEF OneOfAKind
    <3> QED
      BY <3>1, <3>2, RoutesAreDevices DEF OneInv, CompareActive, AskRoute
  <2> DEFINE Ordered == \A y \in Actors : todo[y].word = "active" =>
                          /\ OneOfAKind(todo[y].set)
                          /\ \A kind \in {Outs, Ins} : todo[y].set \cap kind # {} =>
                               kind \subseteq todo[y].clear \/ active \cap kind = {}
  <2>2. ASSUME ~torn' PROVE OneOfAKind(active') /\ Ordered'
    <3>1. PICK x \in Actors : Load(x) \/ Store(x) \/ \E w \in Places : Handles(x, w)
      BY <1>3, StepOf
    <3>2. ~torn
      BY <2>2, <3>1 DEF TypeOK, Load, Store, Handles, Changes, ChangeAvailable, ChangeActive
    <3>3. CASE Load(x)
      BY <3>2, <3>3 DEF OneInv, Load
    <3>4. CASE \E w \in Places : Handles(x, w)
      BY <2>2, <3>2, <3>4, OneHandles
    <3>5. CASE Store(x)
      <4>1. todo \in [Actors -> Updates]
        BY DEF TypeOK, Updates
      <4>2. \A y \in Actors \ {x} : todo'[y] = todo[y]
        BY <3>5, <4>1 DEF Store
      <4>3. CASE todo[x].word = "active"
        <5>1. \A y \in Actors \ {x} : todo'[y].word # "active"
          BY <3>2, <4>2, <4>3 DEF OneInv, OneWriter
        <5> QED
          BY <3>2, <3>5, <4>3, <5>1, OneStore
      <4>4. CASE todo[x].word # "active"
        <5>1. active' = active /\ todo'[x].word # "active"
          BY <3>5, <4>1, <4>4 DEF Store, Done, Update
        <5> QED
          BY <3>2, <4>2, <5>1 DEF OneInv
      <4> QED
        BY <4>3, <4>4
    <3> QED
      BY <3>1, <3>3, <3>4, <3>5
  <2> QED
    BY <1>1, <2>1, <2>2 DEF OneInv
<1> QED
  BY <1>2, <1>3

\* Unless two handlers have been changing the active devices at the same time, no order of the
\* handlers' steps, loads and stores leaves two outputs or two inputs active, for a moment even.
THEOREM OneDeviceActive == Spec => []OneActive
<1>1. Init => TypeOK /\ OneInv
  BY TypeInit, OneInit
<1>2. TypeOK /\ OneInv /\ [Next]_vars => (TypeOK /\ OneInv)'
  BY TypeNext, OneNext
<1>3. OneInv => OneActive
  BY DEF OneInv, OneActive
<1> QED
  BY <1>1, <1>2, <1>3, PTL DEF Spec

-----------------------------------------------------------------------------
(* One handler at a time.                                                  *)

\* No handler is under way when one may start.
LEMMA StartsAlone ==
  ASSUME MaxBusy = 1, NEW x \in Actors, MayStart(x)
  PROVE  \A y \in Actors : at[y] = "idle" /\ todo[y] = Done
<1>1. IsFiniteSet(Actors)
  <2>1. IsFiniteSet({"WIRED", "A2DP"} \cup {"SCO", "DOCK"} \cup {"asm", "ipc"})
    <3>1. ASSUME NEW a, NEW b PROVE IsFiniteSet({a, b})
      <4>1. {a, b} = {a} \cup {b}
        OBVIOUS
      <4>2. IsFiniteSet({a})
        BY FS_Singleton
      <4>3. IsFiniteSet({a} \cup {b})
        BY <4>2, FS_AddElement
      <4> QED
        BY <4>1, <4>3
    <3> QED
      BY <3>1, FS_Union
  <2>2. Actors \subseteq {"WIRED", "A2DP"} \cup {"SCO", "DOCK"} \cup {"asm", "ipc"}
    BY SessionAssumption DEF Actors
  <2> QED
    BY <2>1, <2>2, FS_Subset
<1>2. IsFiniteSet(Busy)
  BY <1>1, FS_Subset DEF Busy
<1>3. Cardinality(Busy) \in Nat /\ Cardinality(Busy) < 1
  BY <1>2, FS_CardinalityType DEF MayStart
<1>4. Busy = {}
  BY <1>2, <1>3, FS_EmptySet
<1> QED
  BY <1>4 DEF Busy

\* A handler that starts or goes on is the only one, before and after the step.
LEMMA OnlyThis ==
  ASSUME TypeOK, Serial, MaxBusy = 1, NEW x \in Actors, NEW w \in Places, Handles(x, w)
  PROVE  /\ Serial'
         /\ at'[x] = w
         /\ \A y \in Actors \ {x} : at[y] = "idle" /\ at'[y] = "idle"
         /\ \A y \in Actors \ {x} : todo[y] = Done /\ todo'[y] = Done
<1>1. /\ at' = [at EXCEPT ![x] = w] /\ at \in [Actors -> Places]
      /\ todo \in [Actors -> Updates]
  BY DEF Handles, GoTo, TypeOK, Places, Updates
<1>2. \A y \in Actors \ {x} : at[y] = "idle" /\ todo[y] = Done
  BY StartsAlone DEF Handles, Serial, Busy
<1>3. at'[x] = w /\ \A y \in Actors \ {x} : at'[y] = "idle"
  BY <1>1, <1>2
<1>4. \A y \in Actors \ {x} : todo'[y] = Done
  BY <1>1, <1>2 DEF Handles, Changes, ChangeAvailable, ChangeActive
<1>5. ~torn'
  <2>1. \A y \in Actors \ {x} : todo[y].word # "active"
    BY <1>2 DEF Done, Update
  <2> QED
    BY <2>1 DEF Handles, Changes, ChangeAvailable, ChangeActive, Serial
<1>6. Busy' \subseteq {x}
  BY <1>3, <1>4 DEF Busy
<1> QED
  BY <1>2, <1>3, <1>4, <1>5, <1>6 DEF Serial

\* So is the one that loads and stores.
LEMMA OnlyWord ==
  ASSUME TypeOK, Serial, NEW x \in Actors, Load(x) \/ Store(x)
  PROVE  /\ Serial'
         /\ \A y \in Actors \ {x} : todo[y] = Done
<1>1. todo \in [Actors -> Updates] /\ x \in Busy /\ UNCHANGED <<at, torn>>
  BY DEF TypeOK, Updates, Busy, Load, Store, Done, Update
<1>2. \A y \in Actors \ {x} : at[y] = "idle" /\ todo[y] = Done
  BY <1>1 DEF Serial, Busy
<1>3. \A y \in Actors \ {x} : todo'[y] = todo[y]
  BY <1>1 DEF Load, Store
<1>4. Busy' \subseteq {x}
  BY <1>1, <1>2, <1>3 DEF Busy
<1> QED
  BY <1>1, <1>2, <1>4 DEF Serial

LEMMA SerialNext == MaxBusy = 1 /\ TypeOK /\ Serial /\ [Next]_vars => Serial'
<1>1. ASSUME MaxBusy = 1, TypeOK, Serial, Next PROVE Serial'
  BY <1>1, StepOf, OnlyThis, OnlyWord
<1> QED
  BY <1>1 DEF Serial, Busy, vars, words

LEMMA SerialInit == Init => Serial
  BY DEF Init, Serial, Busy

\* What is due is what there is before the only handler's step, and what it makes of it after.
LEMMA AloneDue ==
  ASSUME TypeOK, Serial, MaxBusy = 1, NEW x \in Actors, NEW w \in Places, Handles(x, w)
  PROVE  /\ ActiveDue = active /\ AvailableDue = available
         /\ UNCHANGED todo => ActiveDue' = active /\ AvailableDue' = available
         /\ \A clear, set : ChangeAvailable(x, clear, set) =>
              ActiveDue' = active /\ AvailableDue' = (available \ clear) \cup set
         /\ \A clear, set : ChangeActive(x, clear, set) =>
              ActiveDue' = (active \ clear) \cup set /\ AvailableDue' = available
<1>1. /\ todo \in [Actors -> Updates] /\ todo[x] = Done
      /\ active' = active /\ available' = available
  BY DEF TypeOK, Updates, Handles, words
<1>2. \A y \in Actors \ {x} : todo[y] = Done /\ todo'[y] = Done
  BY OnlyThis
<1>3. \A y \in Actors : todo[y].word \notin {"active", "available"}
  BY <1>1, <1>2 DEF Done, Update
<1>4. ActiveDue = active /\ AvailableDue = available
  <2>1. Due(todo, "active", active) = active
    BY <1>3, DueNone
  <2>2. Due(todo, "available", available) = available
    BY <1>3, DueNone
  <2> QED
    BY <2>1, <2>2 DEF ActiveDue, AvailableDue
<1>5. UNCHANGED todo => ActiveDue' = active /\ AvailableDue' = available
  BY <1>1, <1>4 DEF ActiveDue, AvailableDue, Due
<1>6. ASSUME NEW after, after = todo', NEW clear, NEW set, NEW name \in {"active", "available"},
             todo' = [todo EXCEPT ![x] = Update(name, clear, set)]
      PROVE  /\ after[x].word = name /\ after[x].clear = clear /\ after[x].set = set
             /\ \A y \in Actors \ {x} : after[y].word \notin {"active", "available"}
  BY <1>1, <1>2, <1>6 DEF Done, Update
<1>7. ASSUME NEW clear, NEW set, ChangeAvailable(x, clear, set)
      PROVE  ActiveDue' = active /\ AvailableDue' = (available \ clear) \cup set
  <2>1. PICK after, a, b : after = todo' /\ a = active /\ b = available
    OBVIOUS
  <2>2. /\ after[x].word = "available" /\ after[x].clear = clear /\ after[x].set = set
        /\ \A y \in Actors \ {x} : after[y].word \notin {"active", "available"}
    BY <1>6, <1>7, <2>1 DEF ChangeAvailable
  <2>3. \A y \in Actors : after[y].word # "active"
    BY <2>2
  <2>4. Due(after, "active", a) = a
    BY <2>3, DueNone
  <2>5. Due(after, "available", b) = (b \ after[x].clear) \cup after[x].set
    <3>1. SoleWriter(after, "available", x)
      BY <2>2 DEF SoleWriter
    <3> HIDE <2>1, <2>2, <1>7
    <3> QED
      BY <3>1, DueOne
  <2> QED
    BY <1>1, <2>1, <2>2, <2>4, <2>5 DEF ActiveDue, AvailableDue, Due
<1>8. ASSUME NEW clear, NEW set, ChangeActive(x, clear, set)
      PROVE  ActiveDue' = (active \ clear) \cup set /\ AvailableDue' = available
  <2>1. PICK after, a, b : after = todo' /\ a = active /\ b = available
    OBVIOUS
  <2>2. /\ after[x].word = "active" /\ after[x].clear = clear /\ after[x].set = set
        /\ \A y \in Actors \ {x} : after[y].word \notin {"active", "available"}
    BY <1>6, <1>8, <2>1 DEF ChangeActive
  <2>3. \A y \in Actors : after[y].word # "available"
    BY <2>2
  <2>4. Due(after, "available", b) = b
    BY <2>3, DueNone
  <2>5. Due(after, "active", a) = (a \ after[x].clear) \cup after[x].set
    <3>1. SoleWriter(after, "active", x)
      BY <2>2 DEF SoleWriter
    <3> HIDE <2>1, <2>2, <1>8
    <3> QED
      BY <3>1, DueOne
  <2> QED
    BY <1>1, <2>1, <2>2, <2>4, <2>5 DEF ActiveDue, AvailableDue, Due
<1> QED
  BY <1>4, <1>5, <1>7, <1>8

\* Loads and stores change nothing of the available devices that are due either.
LEMMA AvailableDueKept ==
  ASSUME TypeOK, Serial, NEW x \in Actors, Load(x) \/ Store(x),
         todo[x].word = "available" => copy[x] \subseteq {available}
  PROVE  AvailableDue' = AvailableDue
<1>1. todo \in [Actors -> Updates] /\ copy \in [Actors -> SUBSET SUBSET Devices]
  BY DEF TypeOK, Updates
<1>2. CASE Load(x)
  BY <1>2 DEF Load, AvailableDue, Due
<1>3. CASE Store(x) /\ todo[x].word = "active"
  <2>1. available' = available /\ \A y \in Actors \ {x} : todo'[y] = todo[y]
    BY <1>1, <1>3 DEF Store
  <2>2. todo'[x].word # "available"
    BY <1>1, <1>3 DEF Store, Done, Update
  <2>3. Due(todo, "available", available) = Due(todo', "available", available)
    BY <1>3, <2>1, <2>2, DueSame
  <2> QED
    BY <2>1, <2>3 DEF AvailableDue, Due
<1>4. CASE Store(x) /\ todo[x].word = "available"
  <2> DEFINE u     == todo[x]
             clear == u.clear \ Part(u).clear
             set   == u.set \ Part(u).set
  <2>1. available' = (available \ Part(u).clear) \cup Part(u).set
    BY <1>4 DEF Store
  <2>2. \A y \in Actors \ {x} : todo[y].word # "available" /\ todo'[y].word # "available"
    <3>1. \A y \in Actors \ {x} : todo[y] = Done
      BY <1>4, OnlyWord
    <3>2. \A y \in Actors \ {x} : todo'[y] = todo[y]
      BY <1>1, <1>4 DEF Store
    <3> QED
      BY <3>1, <3>2 DEF Done, Update
  <2>3. Due(todo, "available", available) = (available \ u.clear) \cup u.set
    <3>1. \A y \in Actors \ {x} : todo[y].word # "available"
      BY <2>2
    <3>2. PICK now, word : now = todo /\ word = available
      OBVIOUS
    <3>3. Due(now, "available", word) = (word \ now[x].clear) \cup now[x].set
      <4>1. SoleWriter(now, "available", x)
        BY <1>4, <3>1, <3>2 DEF SoleWriter
      <4> HIDE <3>2
      <4> QED
        BY <4>1, DueOne
    <3> QED
      BY <3>2, <3>3
  <2>4. u \in Updates
    BY <1>1
  <2>5. (available' \ clear) \cup set = (available \ u.clear) \cup u.set
    BY <2>1, <2>4, PartAndRest
  <2>6. Due(todo', "available", available') = (available' \ clear) \cup set
    <3>1. CASE clear \cup set = {}
      <4>1. todo'[x].word # "available"
        BY <1>1, <1>4, <3>1 DEF Store, Done, Update
      <4>2. \A y \in Actors : todo'[y].word # "available"
        BY <2>2, <4>1
      <4>3. Due(todo', "available", available') = available'
        BY <4>2, DueNone
      <4> QED
        BY <3>1, <4>3
    <3>2. CASE clear \cup set # {}
      <4>1. todo'[x].word = "available" /\ todo'[x].clear = clear /\ todo'[x].set = set
        BY <1>1, <1>4, <3>2 DEF Store, Update
      <4>2. PICK after, word : after = todo' /\ word = available'
        OBVIOUS
      <4>3. Due(after, "available", word) = (word \ after[x].clear) \cup after[x].set
        <5>1. SoleWriter(after, "available", x)
          BY <2>2, <4>1, <4>2 DEF SoleWriter
        <5> HIDE <4>2
        <5> QED
          BY <5>1, DueOne
      <4> QED
        BY <4>1, <4>2, <4>3 DEF Due
    <3> QED
      BY <3>1, <3>2
  <2> QED
    BY <2>3, <2>5, <2>6 DEF AvailableDue, Due
<1> QED
  BY <1>2, <1>3, <1>4 DEF Store

-----------------------------------------------------------------------------
(* The device that plays is there.                                         *)

\* The devices that need not be there to be active.
Bluetooth == {"A2DP_OUT", "SCO_OUT"}

SerialInv == TypeOK /\ Serial /\ OneWriter /\ AvailableInv

LEMMA AvailableInit == Init => AvailableInv
<1> SUFFICES ASSUME Init PROVE AvailableInv
  OBVIOUS
<1>1. \A x \in Actors : at[x] = "idle" /\ todo[x].word \notin {"active", "available"}
  BY DEF Init, Done, Update
<1>2. ActiveDue = active /\ AvailableDue = available
  <2>1. Due(todo, "active", active) = active
    BY <1>1, DueNone
  <2>2. Due(todo, "available", available) = available
    BY <1>1, DueNone
  <2> QED
    BY <2>1, <2>2 DEF ActiveDue, AvailableDue
<1>3. Accessories \subseteq Actors /\ "asm" \in Actors /\ "ipc" \in Actors
  BY DEF Actors
<1>4. BestOut \in available \cup Bluetooth
  BY DEF Init, BestOut, Bluetooth
<1>5. active \cap Outs \subseteq {BestOut}
  BY KindsOfDevices DEF Init
<1>6. "SPEAKER" \in available
  BY DEF Init
<1> QED
  BY <1>1, <1>2, <1>3, <1>4, <1>5, <1>6 DEF AvailableInv, Bluetooth

\* What the only handler finds: a device that is active is there, unless the handler itself has
\* taken it away.
LEMMA AvailableNow ==
  ASSUME MaxBusy = 1, SerialInv, NEW x \in Actors, NEW w \in Places, Handles(x, w)
  PROVE  /\ "SPEAKER" \in available
         /\ x = "asm" /\ at["asm"] = "routeCall" => "RECEIVER" \in available
         /\ \A a \in Accessories : at[a] \in {"plug", "plugMic"} => OutOf(a) \in available
         /\ at["ipc"] = "update" => wish \subseteq available /\ before = active
         /\ \A d \in active \cap Outs :
              \/ d \in available \cup Bluetooth
              \/ d = "RECEIVER" /\ x = "asm" /\ at[x] = "routeMedia"
              \/ x \in Accessories /\ d \in DevicesOf(x) /\ at[x] \in {"unplug", "deactivate"}
<1>1. ActiveDue = active /\ AvailableDue = available
  BY AloneDue DEF SerialInv
<1>2. \A y \in Actors \ {x} : at[y] = "idle"
  BY OnlyThis DEF SerialInv
<1>3. Accessories \subseteq Actors /\ "asm" \in Actors /\ "ipc" \in Actors
  BY DEF Actors
<1> QED
  BY <1>1, <1>2, <1>3 DEF SerialInv, AvailableInv, Bluetooth

\* What the only handler has to leave.
LEMMA AvailableStep ==
  ASSUME MaxBusy = 1, SerialInv, NEW x \in Actors, NEW w \in Places, Handles(x, w),
         "SPEAKER" \in AvailableDue',
         x = "asm" /\ w = "routeCall" => "RECEIVER" \in AvailableDue',
         x \in Accessories /\ w \in {"plug", "plugMic"} => OutOf(x) \in AvailableDue',
         x = "ipc" /\ w = "update" => wish' \subseteq AvailableDue' /\ before' = ActiveDue',
         \A d \in ActiveDue' \cap Outs :
           \/ d \in AvailableDue' \cup Bluetooth
           \/ d = "RECEIVER" /\ x = "asm" /\ w = "routeMedia"
           \/ x \in Accessories /\ d \in DevicesOf(x) /\ w \in {"unplug", "deactivate"}
  PROVE  AvailableInv'
<1>1. at'[x] = w /\ \A y \in Actors \ {x} : at'[y] = "idle" /\ todo'[y] = Done
  BY OnlyThis DEF SerialInv
<1>2. Accessories \subseteq Actors /\ "asm" \in Actors /\ "ipc" \in Actors
  BY DEF Actors
<1>3. \A y \in Actors : todo'[y].word = "available" => copy'[y] \subseteq {available'}
  <2>1. copy' = copy /\ copy[x] = {}
    BY DEF Handles, words, SerialInv, OneWriter
  <2> QED
    BY <1>1, <2>1 DEF Done, Update
<1>4. at'["asm"] = "routeCall" => "RECEIVER" \in AvailableDue'
  BY <1>1, <1>2
<1>5. \A a \in Accessories : at'[a] \in {"plug", "plugMic"} => OutOf(a) \in AvailableDue'
  BY <1>1, <1>2
<1>6. at'["ipc"] = "update" => wish' \subseteq AvailableDue' /\ before' = ActiveDue'
  BY <1>1, <1>2
<1>7. \A d \in ActiveDue' \cap Outs :
        \/ d \in AvailableDue' \cup {"A2DP_OUT", "SCO_OUT"}
        \/ d = "RECEIVER" /\ at'["asm"] = "routeMedia"
        \/ \E a \in Accessories : d \in DevicesOf(a) /\ at'[a] \in {"unplug", "deactivate"}
  BY <1>1 DEF Bluetooth
<1> QED
  BY <1>3, <1>4, <1>5, <1>6, <1>7 DEF AvailableInv

\* A step of an accessory's handler.
LEMMA AvailableAccessory ==
  ASSUME MaxBusy = 1, SerialInv, NEW x \in Accessories, Accessory(x)
  PROVE  AvailableInv'
<1>1. x \in Actors /\ x # "asm" /\ x # "ipc"
  BY SessionAssumption DEF Actors
<1>2. OutOf(x) \in Outs \ {"SPEAKER", "RECEIVER"} /\ InsOf(x) \subseteq Ins /\ Outs \cap Ins = {}
  BY SessionAssumption DEF Outs, Ins, OutOf, InsOf
<1>3. PICK w \in Places : Handles(x, w)
  BY AccessoryHandles DEF SerialInv
<1>4. at'[x] = w
  BY <1>1, <1>3, OnlyThis DEF SerialInv
<1>5. \A d \in active \cap Outs :
        d \in available \cup Bluetooth \/ (d \in DevicesOf(x) /\ at[x] \in {"unplug", "deactivate"})
  BY <1>1, <1>3, AvailableNow
<1>6. "SPEAKER" \in available /\ (at[x] \in {"plug", "plugMic"} => OutOf(x) \in available)
  BY <1>1, <1>3, AvailableNow
<1>7. /\ UNCHANGED todo => ActiveDue' = active /\ AvailableDue' = available
      /\ \A clear, set : ChangeAvailable(x, clear, set) =>
           ActiveDue' = active /\ AvailableDue' = (available \ clear) \cup set
      /\ \A clear, set : ChangeActive(x, clear, set) =>
           ActiveDue' = (active \ clear) \cup set /\ AvailableDue' = available
  BY <1>1, <1>3, AloneDue DEF SerialInv
<1>8. ASSUME "SPEAKER" \in AvailableDue',
             w \in {"plug", "plugMic"} => OutOf(x) \in AvailableDue',
             \A d \in ActiveDue' \cap Outs :
               d \in AvailableDue' \cup Bluetooth \/ (d \in DevicesOf(x) /\ w \in {"unplug", "deactivate"})
      PROVE  AvailableInv'
  BY <1>1, <1>3, <1>8, AvailableStep
<1>9. at \in [Actors -> Places]
  BY DEF SerialInv, TypeOK, Places
<1>10. CASE Plug(x)
  <2>1. at[x] = "idle"
    BY <1>1, <1>10, StartsDone DEF Plug
  <2>2. PICK ins : ChangeAvailable(x, {}, {OutOf(x)} \cup ins)
    BY <1>10 DEF Plug
  <2>3. ActiveDue' = active /\ OutOf(x) \in AvailableDue' /\ available \subseteq AvailableDue'
    BY <1>7, <2>2
  <2> QED
    BY <1>5, <1>6, <1>8, <2>1, <2>3
<1>11. CASE Activate(x)
  <2>1. at[x] \in {"plug", "plugMic"} /\ w \in {"idle", "path"}
    BY <1>1, <1>4, <1>9, <1>11 DEF Activate, At, GoTo
  <2>2. AvailableDue' = available /\ ActiveDue' \cap Outs \subseteq (active \cap Outs) \cup {OutOf(x)}
    <3>1. CASE IsCommunication
      BY <1>7, <1>11, <3>1 DEF Activate
    <3>2. CASE ~IsCommunication
      <4>1. PICK ins \in {{}, {"WIRED_IN"}} : Only(x, {OutOf(x)} \cup ins)
        BY <1>11, <3>2 DEF Activate
      <4>2. AvailableDue' = available /\ ActiveDue' \subseteq active \cup {OutOf(x)} \cup ins
        BY <1>7, <4>1 DEF Only
      <4> QED
        BY <4>2 DEF Outs
    <3> QED
      BY <3>1, <3>2
  <2>3. \A d \in ActiveDue' \cap Outs : d \in AvailableDue' \cup Bluetooth
    BY <1>5, <1>6, <2>1, <2>2
  <2> QED
    BY <1>6, <1>8, <2>1, <2>2, <2>3
<1>12. CASE Unplug(x)
  <2>1. at[x] = "idle" /\ w = "unplug"
    BY <1>1, <1>4, <1>9, <1>12, StartsDone DEF Unplug, GoTo
  <2>2. ActiveDue' = active /\ AvailableDue' = available \ DevicesOf(x)
    BY <1>7, <1>12 DEF Unplug
  <2>3. "SPEAKER" \notin DevicesOf(x)
    BY <1>2 DEF DevicesOf, Ins
  <2> QED
    BY <1>5, <1>6, <1>8, <2>1, <2>2, <2>3
<1>13. CASE CheckActive(x)
  <2>1. at[x] = "unplug" /\ ActiveDue' = active /\ AvailableDue' = available
    BY <1>7, <1>13 DEF CheckActive, At
  <2>2. CASE OutOf(x) \in active \/ (x = "SCO" /\ "SCO_IN" \in active)
    <3>1. w = "deactivate"
      BY <1>1, <1>4, <1>9, <1>13, <2>2 DEF CheckActive, GoTo
    <3> QED
      BY <1>5, <1>6, <1>8, <2>1, <3>1
  <2>3. CASE ~(OutOf(x) \in active \/ (x = "SCO" /\ "SCO_IN" \in active))
    <3>1. w = "idle"
      BY <1>1, <1>4, <1>9, <1>13, <2>3 DEF CheckActive, GoTo
    <3>2. \A d \in active \cap Outs : d \notin DevicesOf(x)
      BY <1>2, <2>3, KindsOfDevices DEF DevicesOf
    <3> QED
      BY <1>5, <1>6, <1>8, <2>1, <3>1, <3>2
  <2> QED
    BY <2>2, <2>3
<1>14. CASE Deactivate(x)
  <2>1. at[x] = "deactivate" /\ w \in {"decide", "selectOut"}
    BY <1>1, <1>4, <1>9, <1>14 DEF Deactivate, At, GoTo
  <2>2. AvailableDue' = available /\ ActiveDue' = active \ DevicesOf(x)
    BY <1>7, <1>14 DEF Deactivate
  <2>3. \A d \in ActiveDue' \cap Outs : d \in AvailableDue' \cup Bluetooth
    BY <1>5, <2>2
  <2> QED
    BY <1>6, <1>8, <2>1, <2>2, <2>3
<1>15. CASE Decide(x) \/ SelectOut(x) \/ SelectIn(x)
  <2>1. at[x] \in {"decide", "selectOut", "selectIn"}
    BY <1>15 DEF Decide, SelectOut, SelectIn, At
  <2>2. w \in {"idle", "selectOut", "selectIn", "path"}
    BY <1>1, <1>4, <1>9, <1>15 DEF Decide, SelectOut, SelectIn, GoTo
  <2>3. AvailableDue' = available /\ ActiveDue' \subseteq active \cup {BestOut, BestIn}
    BY <1>7, <1>15 DEF Decide, SelectOut, SelectIn
  <2>4. BestOut \in available \cup Bluetooth /\ BestIn \notin Outs
    BY <1>6, KindsOfDevices DEF BestOut, Bluetooth
  <2>5. \A d \in ActiveDue' \cap Outs : d \in AvailableDue' \cup Bluetooth
    BY <1>5, <2>1, <2>3, <2>4
  <2> QED
    BY <1>6, <1>8, <2>2, <2>3, <2>5
<1> QED
  BY <1>10, <1>11, <1>12, <1>13, <1>14, <1>15 DEF Accessory

\* A step of the session manager's thread: a call that ends takes the receiver away, and what is
\* active afterwards is there.
LEMMA AvailableAsm ==
  ASSUME MaxBusy = 1, "routeMedia" \notin FailsAt, SerialInv, Asm
  PROVE  AvailableInv'
<1>1. "asm" \in Actors /\ "asm" \notin Accessories
  BY SessionAssumption DEF Actors
<1>2. PICK w \in Places : Handles("asm", w)
  BY AsmHandles DEF SerialInv
<1>3. at'["asm"] = w
  BY <1>1, <1>2, OnlyThis DEF SerialInv
<1>4. \A d \in active \cap Outs :
        d \in available \cup Bluetooth \/ (d = "RECEIVER" /\ at["asm"] = "routeMedia")
  BY <1>1, <1>2, AvailableNow
<1>5. "SPEAKER" \in available /\ (at["asm"] = "routeCall" => "RECEIVER" \in available)
  BY <1>1, <1>2, AvailableNow
<1>6. /\ UNCHANGED todo => ActiveDue' = active /\ AvailableDue' = available
      /\ \A clear, set : ChangeAvailable("asm", clear, set) =>
           ActiveDue' = active /\ AvailableDue' = (available \ clear) \cup set
      /\ \A clear, set : ChangeActive("asm", clear, set) =>
           ActiveDue' = (active \ clear) \cup set /\ AvailableDue' = available
  BY <1>1, <1>2, AloneDue DEF SerialInv
<1>7. ASSUME "SPEAKER" \in AvailableDue', w = "routeCall" => "RECEIVER" \in AvailableDue',
             \A d \in ActiveDue' \cap Outs :
               d \in AvailableDue' \cup Bluetooth \/ (d = "RECEIVER" /\ w = "routeMedia")
      PROVE  AvailableInv'
  BY <1>1, <1>2, <1>7, AvailableStep
<1>8. at \in [Actors -> Places]
  BY DEF SerialInv, TypeOK, Places
<1>9. ASSUME NEW s \in Sessions, StartSession(s) \/ EndSession(s) PROVE AvailableInv'
  <2>1. at["asm"] = "idle" /\ ActiveDue' = active /\ AvailableDue' = available
    BY <1>1, <1>6, <1>9, StartsDone DEF StartSession, EndSession
  <2>2. s \in CallSessions \/ s = "FMRADIO" \/ s = "NOTIFICATION"
    BY SessionAssumption DEF CallSessions
  <2>3. w # "routeCall"
    BY <1>1, <1>3, <1>8, <1>9, <2>2 DEF StartSession, EndSession, CallSessions, GoTo
  <2> QED
    BY <1>4, <1>5, <1>7, <2>1, <2>3
<1>10. ASSUME NEW s \in Subsessions, SetSubSession(s) PROVE AvailableInv'
  <2>1. at["asm"] = "idle" /\ w = "path" /\ ActiveDue' = active /\ AvailableDue' = available
    BY <1>1, <1>3, <1>6, <1>8, <1>10, StartsDone DEF SetSubSession, GoTo
  <2> QED
    BY <1>4, <1>5, <1>7, <2>1
<1>11. CASE Receiver
  <2>1. at["asm"] \in {"callStart", "callEnd"}
    BY <1>11 DEF Receiver, At
  <2>2. \A d \in active \cap Outs : d \in available \cup Bluetooth
    BY <1>4, <2>1
  <2>3. CASE At("asm", "callStart")
    <3>1. ActiveDue' = active /\ AvailableDue' = available \cup {"RECEIVER"}
      BY <1>6, <1>11, <2>3 DEF Receiver, At
    <3> QED
      BY <1>5, <1>7, <2>2, <3>1
  <2>4. CASE At("asm", "callEnd")
    <3>1. ActiveDue' = active /\ AvailableDue' = available \ {"RECEIVER"} /\ w = "routeMedia"
      BY <1>1, <1>3, <1>6, <1>8, <1>11, <2>4 DEF Receiver, At, GoTo
    <3> QED
      BY <1>5, <1>7, <2>2, <3>1
  <2> QED
    BY <1>11, <2>3, <2>4 DEF Receiver
<1>12. CASE RouteFails
  <2>1. at["asm"] = "routeCall" /\ w = "idle" /\ ActiveDue' = active /\ AvailableDue' = available
    BY <1>1, <1>3, <1>6, <1>8, <1>12, SessionAssumption DEF RouteFails, At, GoTo
  <2> QED
    BY <1>4, <1>5, <1>7, <2>1
<1>13. CASE RouteCall
  <2>1. at["asm"] = "routeCall" /\ w = "path"
    BY <1>1, <1>3, <1>8, <1>13 DEF RouteCall, At, GoTo
  <2>2. AvailableDue' = available /\ ActiveDue' \cap Outs \subseteq (active \cap Outs) \cup {"RECEIVER", "SCO_OUT"}
    <3>1. CASE UNCHANGED todo
      BY <1>6, <3>1
    <3>2. CASE \E s \in {{"RECEIVER"}, {"SCO_OUT", "SCO_IN"}} : Only("asm", s)
      <4>1. PICK s \in {{"RECEIVER"}, {"SCO_OUT", "SCO_IN"}} : Only("asm", s)
        BY <3>2
      <4>2. AvailableDue' = available /\ ActiveDue' \subseteq active \cup s
        BY <1>6, <4>1 DEF Only
      <4> QED
        BY <4>2 DEF Outs
    <3> QED
      BY <1>13, <3>1, <3>2 DEF RouteCall
  <2>3. \A d \in ActiveDue' \cap Outs : d \in AvailableDue' \cup Bluetooth
    BY <1>4, <1>5, <2>1, <2>2 DEF Bluetooth
  <2> QED
    BY <1>5, <1>7, <2>1, <2>2, <2>3
<1>14. CASE RouteMedia
  <2>1. at["asm"] = "routeMedia" /\ w = "path"
    BY <1>1, <1>3, <1>8, <1>14 DEF RouteMedia, At, GoTo
  <2>2. AvailableDue' = available
        /\ \A d \in ActiveDue' \cap Outs : d \in {"SPEAKER"} \cup Bluetooth \/ (d \in active /\ d # "RECEIVER")
    <3>1. CASE AfterCall = {}
      <4>1. "RECEIVER" \notin active
        BY <3>1 DEF AfterCall
      <4>2. AvailableDue' = available /\ ActiveDue' = active
        BY <1>6, <1>14, <3>1 DEF RouteMedia
      <4> QED
        BY <4>1, <4>2
    <3>2. CASE AfterCall # {}
      <4>1. PICK s : s = AfterCall /\ Only("asm", s)
        BY <1>14, <3>2 DEF RouteMedia
      <4>2. AvailableDue' = available /\ ActiveDue' = (active \ KindsOf(s)) \cup s
        BY <1>6, <4>1 DEF Only
      <4>3. s \cap Outs # {} /\ s \cap Outs \subseteq {"SPEAKER"} \cup Bluetooth
        BY <3>2, <4>1 DEF AfterCall, KeptAfterCall, Outs, Bluetooth
      <4>4. Outs \subseteq KindsOf(s)
        BY <4>3, KindsAreCleared
      <4> QED
        BY <4>2, <4>3, <4>4
    <3> QED
      BY <3>1, <3>2
  <2>3. \A d \in ActiveDue' \cap Outs : d \in AvailableDue' \cup Bluetooth
    BY <1>4, <1>5, <2>2
  <2> QED
    BY <1>5, <1>7, <2>1, <2>2, <2>3
<1>15. CASE RouteRadio \/ RouteNotification
  <2>1. at["asm"] \in {"radioStart", "radioEnd", "notiStart"} /\ w \in {"idle", "path"}
    BY <1>1, <1>3, <1>8, <1>15 DEF RouteRadio, RouteNotification, At, GoTo
  <2>2. ActiveDue' = active /\ AvailableDue' = available
    BY <1>6, <1>15 DEF RouteRadio, RouteNotification
  <2> QED
    BY <1>4, <1>5, <1>7, <2>1, <2>2
<1> QED
  BY <1>9, <1>10, <1>11, <1>12, <1>13, <1>14, <1>15 DEF Asm

\* A route request sets what was there when it was checked: with one handler at a time, what is.
LEMMA AvailableIpc ==
  ASSUME MaxBusy = 1, SerialInv, Ipc
  PROVE  AvailableInv'
<1>1. "ipc" \in Actors /\ "ipc" \notin Accessories
  BY SessionAssumption DEF Actors
<1>2. PICK w \in Places : Handles("ipc", w)
  BY IpcHandles DEF SerialInv
<1>3. at'["ipc"] = w
  BY <1>1, <1>2, OnlyThis DEF SerialInv
<1>4. \A d \in active \cap Outs : d \in available \cup Bluetooth
  BY <1>1, <1>2, AvailableNow
<1>5. "SPEAKER" \in available /\ (at["ipc"] = "update" => wish \subseteq available)
  BY <1>1, <1>2, AvailableNow
<1>6. /\ UNCHANGED todo => ActiveDue' = active /\ AvailableDue' = available
      /\ \A clear, set : ChangeActive("ipc", clear, set) =>
           ActiveDue' = (active \ clear) \cup set /\ AvailableDue' = available
  BY <1>1, <1>2, AloneDue DEF SerialInv
<1>7. ASSUME "SPEAKER" \in AvailableDue',
             w = "update" => wish' \subseteq AvailableDue' /\ before' = ActiveDue',
             \A d \in ActiveDue' \cap Outs : d \in AvailableDue' \cup Bluetooth
      PROVE  AvailableInv'
  BY <1>1, <1>2, <1>7, AvailableStep
<1>8. at \in [Actors -> Places]
  BY DEF SerialInv, TypeOK, Places
<1>9. ASSUME NEW r \in Routes, AskRoute(r) PROVE AvailableInv'
  <2>1. ActiveDue' = active /\ AvailableDue' = available
    BY <1>6, <1>9 DEF AskRoute
  <2>2. wish' \subseteq available /\ before' = active
    BY <1>9 DEF AskRoute, CanActivate
  <2> QED
    BY <1>4, <1>5, <1>7, <2>1, <2>2
<1>10. CASE UpdateActive
  <2>1. at["ipc"] = "update" /\ w = "compare"
    BY <1>1, <1>3, <1>8, <1>10 DEF UpdateActive, At, GoTo
  <2>2. AvailableDue' = available /\ ActiveDue' \subseteq active \cup wish
    <3>1. PICK s : s = wish /\ Only("ipc", s)
      BY <1>10 DEF UpdateActive
    <3> QED
      BY <1>6, <3>1 DEF Only
  <2>3. \A d \in ActiveDue' \cap Outs : d \in AvailableDue' \cup Bluetooth
    BY <1>4, <1>5, <2>1, <2>2
  <2> QED
    BY <1>5, <1>7, <2>1, <2>2, <2>3
<1>11. CASE CompareActive
  <2>1. w \in {"idle", "path"} /\ ActiveDue' = active /\ AvailableDue' = available
    BY <1>1, <1>3, <1>6, <1>8, <1>11 DEF CompareActive, GoTo
  <2> QED
    BY <1>4, <1>5, <1>7, <2>1
<1> QED
  BY <1>9, <1>10, <1>11 DEF Ipc

LEMMA AvailablePath ==
  ASSUME MaxBusy = 1, SerialInv, NEW x \in Actors, SetPath(x)
  PROVE  AvailableInv'
<1>1. Handles(x, "idle") /\ "idle" \in Places
  BY PathHandles DEF SerialInv, Places
<1>2. at[x] = "path" /\ UNCHANGED todo
  BY DEF SetPath, At
<1>3. ActiveDue' = active /\ AvailableDue' = available
  BY <1>1, <1>2, AloneDue DEF SerialInv
<1>4. "SPEAKER" \in available /\ \A d \in active \cap Outs : d \in available \cup Bluetooth
  BY <1>1, <1>2, AvailableNow
<1> QED
  BY <1>1, <1>3, <1>4, AvailableStep

\* Loads and stores.
LEMMA AvailableWord ==
  ASSUME SerialInv, NEW x \in Actors, Load(x) \/ Store(x)
  PROVE  AvailableInv'
<1>1. TypeOK /\ Serial /\ OneWriter /\ AvailableInv
  BY DEF SerialInv
<1>2. ActiveDue' = ActiveDue
  BY <1>1, ActiveDueKept
<1>3. AvailableDue' = AvailableDue
  BY <1>1, AvailableDueKept DEF AvailableInv
<1>4. UNCHANGED <<at, wish, before>>
  BY DEF Load, Store
<1>5. \A y \in Actors : todo'[y].word = "available" => copy'[y] \subseteq {available'}
  <2>1. \A y \in Actors \ {x} : todo[y].word # "available"
    BY <1>1, OnlyWord DEF Done, Update
  <2>2. todo \in [Actors -> Updates] /\ copy \in [Actors -> SUBSET SUBSET Devices]
    BY <1>1 DEF TypeOK, Updates
  <2>3. \A y \in Actors \ {x} : todo'[y] = todo[y]
    BY <2>2 DEF Load, Store
  <2>4. todo'[x].word = "available" => copy'[x] \subseteq {available'}
    BY <2>2 DEF Load, Store
  <2> QED
    BY <2>1, <2>3, <2>4
<1> QED
  BY <1>1, <1>2, <1>3, <1>4, <1>5 DEF AvailableInv

LEMMA SerialInvNext ==
  MaxBusy = 1 /\ "routeMedia" \notin FailsAt /\ SerialInv /\ [Next]_vars => SerialInv'
<1> SUFFICES ASSUME MaxBusy = 1, "routeMedia" \notin FailsAt, SerialInv, [Next]_vars PROVE SerialInv'
  OBVIOUS
<1>1. TypeOK' /\ Serial' /\ OneWriter'
  BY TypeNext, SerialNext, WriterNext DEF SerialInv, Serial
<1>2. CASE UNCHANGED vars
  BY <1>1, <1>2 DEF SerialInv, AvailableInv, ActiveDue, AvailableDue, Due, vars, words
<1>3. CASE Next
  <2>1. AvailableInv'
    BY <1>3, AvailableAccessory, AvailableAsm, AvailableIpc, AvailablePath, AvailableWord DEF Next
  <2> QED
    BY <1>1, <2>1 DEF SerialInv
<1> QED
  BY <1>2, <1>3

\* When no handler is at work, what is due is done.
LEMMA QuietDue == Quiet => ActiveDue = active /\ AvailableDue = available
<1> SUFFICES ASSUME Quiet PROVE ActiveDue = active /\ AvailableDue = available
  OBVIOUS
<1>1. \A x \in Actors : todo[x].word \notin {"active", "available"}
  BY DEF Quiet, Busy, Done, Update
<1>2. Due(todo, "active", active) = active
  BY <1>1, DueNone
<1>3. Due(todo, "available", available) = available
  BY <1>1, DueNone
<1> QED
  BY <1>2, <1>3 DEF ActiveDue, AvailableDue

\* With one handler at a time, and if the clients and the audio system can be told of the end of a
\* call, the device that plays is there whenever no handler is under way: an accessory that is taken
\* away, and the receiver of a call that ends, do not stay active, and a route with a missing device
\* is refused.
THEOREM ActiveStaysAvailable ==
  ASSUME MaxBusy = 1, "routeMedia" \notin FailsAt PROVE Spec => []OutputAvailable
<1>1. Init => SerialInv
  BY TypeInit, SerialInit, WriterInit, AvailableInit DEF SerialInv
<1>2. SerialInv => OutputAvailable
  <2> SUFFICES ASSUME SerialInv, Quiet
               PROVE  active \cap Outs \subseteq available \cup {"A2DP_OUT", "SCO_OUT"}
    BY DEF OutputAvailable
  <2>1. \A x \in Actors : at[x] = "idle"
    BY DEF Quiet, Busy
  <2>2. Accessories \subseteq Actors /\ "asm" \in Actors
    BY DEF Actors
  <2> QED
    BY <2>1, <2>2, QuietDue DEF SerialInv, AvailableInv
<1> QED
  BY <1>1, <1>2, SerialInvNext, PTL DEF Spec


-----------------------------------------------------------------------------
(* The path follows the device that plays.                                 *)

\* Where a handler is on its way to set the path.
Pending == {"decide", "selectOut", "selectIn", "path", "callEnd", "routeMedia", "radioEnd"}

Followed == session = "MEDIA" /\ calls = {} => path \in ActiveDue \/ "A2DP_OUT" \in ActiveDue

\* A route request has changed something, and will find out.
Noticed == at["ipc"] = "compare" /\ ActiveDue # before

LEMMA FirstIsActive ==
  ASSUME active \cap Outs # {}, NEW p \in FirstActive(PathOrder) PROVE p \in active
<1>1. \A d \in Outs : \E i \in DOMAIN PathOrder : PathOrder[i] = d
  <2>1. DOMAIN PathOrder = 1 .. 6
    BY DEF PathOrder
  <2>2. /\ PathOrder[1] = "SPEAKER" /\ PathOrder[2] = "RECEIVER" /\ PathOrder[3] = "WIRED_OUT"
        /\ PathOrder[4] = "SCO_OUT" /\ PathOrder[5] = "A2DP_OUT" /\ PathOrder[6] = "DOCK_OUT"
    BY DEF PathOrder
  <2> QED
    BY <2>1, <2>2 DEF Outs
<1>2. \E i \in DOMAIN PathOrder : PathOrder[i] \in active
  BY <1>1
<1> QED
  BY <1>2 DEF FirstActive

LEMMA PathInit == Init => PathInv
<1> SUFFICES ASSUME Init PROVE PathInv
  OBVIOUS
<1>1. session = "MEDIA" /\ \A x \in Actors : at[x] = "idle" /\ todo[x] = Done
  BY DEF Init
<1>2. path \in FirstActive(PathOrder)
  BY <1>1 DEF Init, PathForActive, IsCommunication, CallSessions
<1>3. active \cap Outs # {}
  BY KindsOfDevices DEF Init
<1>4. path \in active
  BY <1>2, <1>3, FirstIsActive
<1>5. ActiveDue = active
  BY <1>1, QuietDue DEF Quiet, Busy
<1>6. "asm" \in Actors
  BY DEF Actors
<1> QED
  BY <1>1, <1>4, <1>5, <1>6 DEF PathInv

\* A step of x, the only handler: either it is on its way to set the path afterwards, or what it
\* leaves has been followed already, and the session manager has not announced more than it did.
LEMMA PathStep ==
  ASSUME MaxBusy = 1, SerialInv, PathInv, NEW x \in Actors, NEW w \in Places, Handles(x, w),
         \/ w \in Pending
         \/ x = "ipc" /\ Noticed'
         \/ at[x] \in Pending \/ (x = "ipc" /\ Noticed) \/ Followed => Followed',
         x = "asm" => (w = "radioStart" => session' = "FMRADIO")
                      /\ (w = "notiStart" => session' = "NOTIFICATION")
  PROVE  PathInv'
<1>1. at'[x] = w /\ \A y \in Actors \ {x} : at[y] = "idle" /\ at'[y] = "idle"
  BY OnlyThis DEF SerialInv
<1>2. /\ at'["asm"] = "radioStart" => session' = "FMRADIO"
      /\ at'["asm"] = "notiStart" => session' = "NOTIFICATION"
  BY <1>1 DEF Actors
<1>3. CASE w \in Pending
  BY <1>1, <1>2, <1>3 DEF PathInv, Pending
<1>4. CASE Noticed'
  BY <1>2, <1>4 DEF PathInv, Noticed
<1>5. CASE at[x] \in Pending \/ (x = "ipc" /\ Noticed) \/ Followed => Followed'
  <2>1. at[x] \in Pending \/ (x = "ipc" /\ Noticed) \/ Followed
    BY <1>1 DEF PathInv, Pending, Followed, Noticed, Actors
  <2>2. Followed'
    BY <1>5, <2>1
  <2> QED
    BY <1>2, <2>2 DEF PathInv, Followed
<1> QED
  BY <1>3, <1>4, <1>5

LEMMA PathAccessory ==
  ASSUME MaxBusy = 1, SerialInv, PathInv, NEW x \in Accessories, Accessory(x)
  PROVE  PathInv'
<1>1. x \in Actors /\ x # "asm" /\ x # "ipc"
  BY SessionAssumption DEF Actors
<1>2. UNCHANGED <<session, calls, path>>
  BY DEF Accessory, Plug, Activate, Unplug, CheckActive, Deactivate, Decide, SelectOut, SelectIn
<1>3. PICK w \in Places : Handles(x, w)
  BY AccessoryHandles DEF SerialInv
<1>4. at'[x] = w /\ at \in [Actors -> Places]
  BY <1>1, <1>3, OnlyThis DEF SerialInv, TypeOK, Places
<1>5. /\ ActiveDue = active
      /\ UNCHANGED todo => ActiveDue' = active
      /\ \A clear, set : ChangeAvailable(x, clear, set) => ActiveDue' = active
      /\ \A clear, set : ChangeActive(x, clear, set) => ActiveDue' = (active \ clear) \cup set
  BY <1>1, <1>3, AloneDue DEF SerialInv
<1>6. ASSUME w \in Pending \/ ((at[x] \in Pending \/ Followed) => Followed') PROVE PathInv'
  BY <1>1, <1>3, <1>6, PathStep
<1>7. CASE Plug(x) \/ Unplug(x)
  <2>1. at[x] = "idle" /\ ActiveDue' = ActiveDue
    BY <1>1, <1>5, <1>7, StartsDone DEF Plug, Unplug
  <2>2. (at[x] \in Pending \/ Followed) => Followed'
    BY <1>2, <2>1 DEF Followed, Pending
  <2> QED
    BY <1>6, <2>2
<1>8. CASE Activate(x)
  <2>1. CASE IsCommunication
    <3>1. Followed'
      BY <1>2, <2>1 DEF IsCommunication, CallSessions, Followed
    <3> QED
      BY <1>6, <3>1
  <2>2. CASE ~IsCommunication /\ x # "A2DP"
    <3>1. w = "path"
      BY <1>1, <1>4, <1>8, <2>2 DEF Activate, SetsPath, GoTo
    <3> QED
      BY <1>6, <3>1 DEF Pending
  <2>3. CASE ~IsCommunication /\ x = "A2DP"
    <3>1. PICK ins : Only(x, {OutOf(x)} \cup ins)
      BY <1>8, <2>3 DEF Activate
    <3>2. "A2DP_OUT" \in ActiveDue'
      BY <1>5, <2>3, <3>1 DEF Only, OutOf
    <3>3. Followed'
      BY <3>2 DEF Followed
    <3> QED
      BY <1>6, <3>3
  <2> QED
    BY <2>1, <2>2, <2>3
<1>9. CASE CheckActive(x)
  <2>1. at[x] = "unplug" /\ ActiveDue' = ActiveDue
    BY <1>5, <1>9 DEF CheckActive, At
  <2>2. (at[x] \in Pending \/ Followed) => Followed'
    BY <1>2, <2>1 DEF Followed, Pending
  <2> QED
    BY <1>6, <2>2
<1>10. CASE Deactivate(x) \/ SelectOut(x) \/ SelectIn(x)
  <2>1. w \in Pending
    BY <1>1, <1>4, <1>10 DEF Deactivate, SelectOut, SelectIn, Pending, GoTo
  <2> QED
    BY <1>6, <2>1
<1>11. CASE Decide(x)
  <2>1. CASE IsCommunication
    <3>1. Followed'
      BY <1>2, <2>1 DEF IsCommunication, CallSessions, Followed
    <3> QED
      BY <1>6, <3>1
  <2>2. CASE ~IsCommunication
    <3>1. w = "selectOut"
      BY <1>1, <1>4, <1>11, <2>2 DEF Decide, GoTo
    <3> QED
      BY <1>6, <3>1 DEF Pending
  <2> QED
    BY <2>1, <2>2
<1> QED
  BY <1>7, <1>8, <1>9, <1>10, <1>11 DEF Accessory

LEMMA PathAsm ==
  ASSUME MaxBusy = 1, "routeMedia" \notin FailsAt, SerialInv, PathInv, Asm
  PROVE  PathInv'
<1>1. "asm" \in Actors /\ "asm" # "ipc"
  BY DEF Actors
<1>2. PICK w \in Places : Handles("asm", w)
  BY AsmHandles DEF SerialInv
<1>3. at'["asm"] = w /\ at \in [Actors -> Places]
  BY <1>1, <1>2, OnlyThis DEF SerialInv, TypeOK, Places
<1>4. /\ ActiveDue = active
      /\ UNCHANGED todo => ActiveDue' = active
      /\ \A clear, set : ChangeAvailable("asm", clear, set) => ActiveDue' = active
  BY <1>1, <1>2, AloneDue DEF SerialInv
<1>5. ASSUME w \in Pending \/ ((at["asm"] \in Pending \/ Followed) => Followed'),
             w = "radioStart" => session' = "FMRADIO", w = "notiStart" => session' = "NOTIFICATION"
      PROVE  PathInv'
  BY <1>1, <1>2, <1>5, PathStep
<1>6. ASSUME NEW s \in Sessions, StartSession(s) PROVE PathInv'
  <2>1. session' = s /\ s # "MEDIA"
    BY <1>6, SessionAssumption DEF StartSession
  <2>2. s \in CallSessions \/ s = "FMRADIO" \/ s = "NOTIFICATION"
    BY SessionAssumption DEF CallSessions
  <2>3. (w = "radioStart" => s = "FMRADIO") /\ (w = "notiStart" => s = "NOTIFICATION")
    BY <1>1, <1>3, <1>6, <2>2 DEF StartSession, CallSessions, GoTo
  <2>4. Followed'
    BY <2>1 DEF Followed
  <2> QED
    BY <1>5, <2>1, <2>3, <2>4
<1>7. ASSUME NEW s \in Sessions, EndSession(s) PROVE PathInv'
  <2>1. s \in CallSessions \/ s = "FMRADIO" \/ s = "NOTIFICATION"
    BY SessionAssumption DEF CallSessions
  <2>2. w \in {"callEnd", "radioEnd", "path"}
    BY <1>1, <1>3, <1>7, <2>1 DEF EndSession, CallSessions, GoTo
  <2> QED
    BY <1>5, <2>2 DEF Pending
<1>8. ASSUME NEW s \in Subsessions, SetSubSession(s) PROVE PathInv'
  <2>1. w = "path"
    BY <1>1, <1>3, <1>8 DEF SetSubSession, GoTo
  <2> QED
    BY <1>5, <2>1 DEF Pending
<1>9. CASE Receiver
  <2>1. CASE At("asm", "callStart")
    <3>1. at["asm"] = "callStart" /\ UNCHANGED <<session, calls, path>> /\ ActiveDue' = ActiveDue
      BY <1>4, <1>9, <2>1 DEF Receiver, At
    <3>2. w = "routeCall"
      BY <1>1, <1>3, <1>9, <2>1 DEF Receiver, At, GoTo
    <3>3. (at["asm"] \in Pending \/ Followed) => Followed'
      BY <3>1 DEF Followed, Pending
    <3> QED
      BY <1>5, <3>2, <3>3
  <2>2. CASE At("asm", "callEnd")
    <3>1. w = "routeMedia"
      BY <1>1, <1>3, <1>9, <2>2 DEF Receiver, At, GoTo
    <3> QED
      BY <1>5, <3>1 DEF Pending
  <2> QED
    BY <1>9, <2>1, <2>2 DEF Receiver
<1>10. CASE RouteFails
  <2>1. at["asm"] = "routeCall" /\ UNCHANGED <<session, calls, path>> /\ ActiveDue' = ActiveDue
    BY <1>4, <1>10, SessionAssumption DEF RouteFails, At
  <2>2. w = "idle"
    BY <1>1, <1>3, <1>10 DEF RouteFails, GoTo
  <2>3. (at["asm"] \in Pending \/ Followed) => Followed'
    BY <2>1 DEF Followed, Pending
  <2> QED
    BY <1>5, <2>2, <2>3
<1>11. CASE RouteCall \/ RouteMedia
  <2>1. w = "path"
    BY <1>1, <1>3, <1>11 DEF RouteCall, RouteMedia, GoTo
  <2> QED
    BY <1>5, <2>1 DEF Pending
<1>12. CASE RouteRadio
  <2>1. CASE At("asm", "radioStart")
    <3>1. session = "FMRADIO" /\ session' = session /\ w = "idle"
      BY <1>1, <1>3, <1>12, <2>1 DEF RouteRadio, PathInv, At, GoTo
    <3>2. Followed'
      BY <3>1 DEF Followed
    <3> QED
      BY <1>5, <3>1, <3>2
  <2>2. CASE At("asm", "radioEnd")
    <3>1. w = "path"
      BY <1>1, <1>3, <1>12, <2>2 DEF RouteRadio, At, GoTo
    <3> QED
      BY <1>5, <3>1 DEF Pending
  <2> QED
    BY <1>12, <2>1, <2>2 DEF RouteRadio
<1>13. CASE RouteNotification
  <2>1. session = "NOTIFICATION" /\ session' = session /\ w = "idle"
    BY <1>1, <1>3, <1>13 DEF RouteNotification, PathInv, At, GoTo
  <2>2. Followed'
    BY <2>1 DEF Followed
  <2> QED
    BY <1>5, <2>1, <2>2
<1> QED
  BY <1>6, <1>7, <1>8, <1>9, <1>10, <1>11, <1>12, <1>13 DEF Asm

\* A route request that changes nothing sets no path: with one handler at a time, old_active is
\* what is active.
LEMMA PathIpc ==
  ASSUME MaxBusy = 1, SerialInv, PathInv, Ipc
  PROVE  PathInv'
<1>1. "ipc" \in Actors /\ "ipc" # "asm"
  BY DEF Actors
<1>2. PICK w \in Places : Handles("ipc", w)
  BY IpcHandles DEF SerialInv
<1>3. at'["ipc"] = w /\ at \in [Actors -> Places]
  BY <1>1, <1>2, OnlyThis DEF SerialInv, TypeOK, Places
<1>4. ActiveDue = active /\ (UNCHANGED todo => ActiveDue' = active)
  BY <1>1, <1>2, AloneDue DEF SerialInv
<1>5. UNCHANGED <<session, calls, path>>
  BY DEF Ipc, AskRoute, UpdateActive, CompareActive
<1>6. ASSUME \/ w \in Pending
             \/ Noticed'
             \/ at["ipc"] \in Pending \/ Noticed \/ Followed => Followed'
      PROVE  PathInv'
  BY <1>1, <1>2, <1>6, PathStep
<1>7. ASSUME NEW r \in Routes, AskRoute(r) PROVE PathInv'
  <2>1. at["ipc"] = "idle" /\ ActiveDue' = ActiveDue
    BY <1>1, <1>4, <1>7, StartsDone DEF AskRoute
  <2>2. (at["ipc"] \in Pending \/ Noticed \/ Followed) => Followed'
    BY <1>5, <2>1 DEF Followed, Pending, Noticed
  <2> QED
    BY <1>6, <2>2
<1>8. CASE UpdateActive
  <2>1. at["ipc"] = "update" /\ w = "compare" /\ before' = before
    BY <1>1, <1>3, <1>8 DEF UpdateActive, At, GoTo
  <2>2. before = ActiveDue
    BY <2>1 DEF SerialInv, AvailableInv
  <2>3. CASE ActiveDue' = before
    <3>1. (at["ipc"] \in Pending \/ Noticed \/ Followed) => Followed'
      BY <1>5, <2>1, <2>2, <2>3 DEF Followed, Pending, Noticed
    <3> QED
      BY <1>6, <3>1
  <2>4. CASE ActiveDue' # before
    <3>1. Noticed'
      BY <1>3, <2>1, <2>4 DEF Noticed
    <3> QED
      BY <1>6, <3>1
  <2> QED
    BY <2>3, <2>4
<1>9. CASE CompareActive
  <2>1. at["ipc"] = "compare" /\ ActiveDue' = ActiveDue
    BY <1>4, <1>9 DEF CompareActive, At
  <2>2. CASE active = before
    <3>1. (at["ipc"] \in Pending \/ Noticed \/ Followed) => Followed'
      BY <1>4, <1>5, <2>1, <2>2 DEF Followed, Pending, Noticed
    <3> QED
      BY <1>6, <3>1
  <2>3. CASE active # before
    <3>1. w = "path"
      BY <1>1, <1>3, <1>9, <2>3 DEF CompareActive, GoTo
    <3> QED
      BY <1>6, <3>1 DEF Pending
  <2> QED
    BY <2>2, <2>3
<1> QED
  BY <1>7, <1>8, <1>9 DEF Ipc

\* The path that is set is that of a device that plays: without a call there is one.
LEMMA PathPath ==
  ASSUME MaxBusy = 1, SerialInv, SomeoneChooses, PathInv, NEW x \in Actors, SetPath(x)
  PROVE  PathInv'
<1>1. at[x] = "path" /\ UNCHANGED <<todo, session, calls, active>>
  BY DEF SetPath, At, words
<1>2. Handles(x, "idle") /\ "idle" \in Places
  BY PathHandles DEF SerialInv, Places
<1>3. \A y \in Actors \ {x} : at[y] = "idle"
  BY <1>2, OnlyThis DEF SerialInv
<1>4. ActiveDue = active /\ ActiveDue' = active
  BY <1>1, <1>2, AloneDue DEF SerialInv
<1>5. Followed'
  <2> SUFFICES ASSUME session = "MEDIA", calls = {} PROVE path' \in active
    BY <1>1, <1>4 DEF Followed
  <2>1. active \cap Outs # {}
    <3>1. \A y \in Actors : at[y] \notin {"callEnd", "routeMedia", "decide", "selectOut"}
      BY <1>1, <1>3
    <3>2. "asm" \in Actors /\ Accessories \subseteq Actors
      BY DEF Actors
    <3> QED
      BY <1>4, <3>1, <3>2 DEF SomeoneChooses
  <2>2. path' \in FirstActive(PathOrder)
    BY DEF SetPath, PathForActive, IsCommunication, CallSessions
  <2> QED
    BY <2>1, <2>2, FirstIsActive
<1> QED
  BY <1>2, <1>5, PathStep

\* Loads and stores change nothing of what is due.
LEMMA PathWord ==
  ASSUME SerialInv, PathInv, NEW x \in Actors, Load(x) \/ Store(x)
  PROVE  PathInv'
<1>1. ActiveDue' = ActiveDue
  BY ActiveDueKept DEF SerialInv
<1>2. UNCHANGED <<at, session, calls, path, before>>
  BY DEF Load, Store
<1> QED
  BY <1>1, <1>2 DEF PathInv

\* With one handler at a time, and if the clients and the audio system can be told of the end of a
\* call, the audio system plays where the active device says whenever no handler is under way and no
\* call, radio or notification has its own idea: each handler that changes what is active sets the
\* path at its end.
THEOREM PathAlwaysFollows ==
  ASSUME MaxBusy = 1, "routeMedia" \notin FailsAt PROVE Spec => []PathFollowsActive
<1> DEFINE Inv == SerialInv /\ OutputInv /\ PathInv
<1>1. Init => Inv
  BY TypeInit, SerialInit, WriterInit, AvailableInit, OutputInit, PathInit DEF SerialInv
<1>2. Inv /\ [Next]_vars => Inv'
  <2> SUFFICES ASSUME SerialInv, OutputInv, PathInv, [Next]_vars PROVE Inv'
    OBVIOUS
  <2>1. SerialInv' /\ OutputInv'
    BY SerialInvNext, OutputNext DEF SerialInv
  <2>2. CASE UNCHANGED vars
    BY <2>1, <2>2 DEF PathInv, ActiveDue, Due, vars, words
  <2>3. CASE Next
    <3>1. SomeoneChooses
      BY DEF OutputInv, SerialInv, Serial
    <3>2. PathInv'
      BY <2>3, <3>1, PathAccessory, PathAsm, PathIpc, PathPath, PathWord DEF Next
    <3> QED
      BY <2>1, <3>2
  <2> QED
    BY <2>2, <2>3
<1>3. Inv => PathFollowsActive
  <2> SUFFICES ASSUME PathInv, Quiet, session = "MEDIA", calls = {}
               PROVE  path \in active \/ "A2DP_OUT" \in active
    BY DEF PathFollowsActive
  <2>1. (\A x \in Actors : at[x] = "idle") /\ "ipc" \in Actors
    BY DEF Quiet, Busy, Actors
  <2> QED
    BY <2>1, QuietDue DEF PathInv
<1> QED
  BY <1>1, <1>2, <1>3, PTL DEF Spec
=============================================================================
