------------------------------ MODULE PcmProofs ------------------------------
(***************************************************************************)
(* Proofs about Pcm, for any number of streams, every way of opening them, *)
(* and callbacks that fail, are late, or arrive in the middle of a call:   *)
(* the streams are clients of AsmServer, so that its invariant holds with  *)
(* them; a stream that sounds is listed as playing; a stream that takes    *)
(* data is not corked; a closed stream leaves no registration behind;      *)
(* streams sound together only as the matrix allows; and streams and       *)
(* session manager together implement Arbiter.                             *)
(***************************************************************************)
EXTENDS Pcm, AsmClientProofs

-----------------------------------------------------------------------------
(* The inductive invariant.                                                *)

Listed(p, h) == <<h, p>> \in OwnedIn(list)

\* What a stream is doing while a request of its is with the server.
Suits(m) ==
  /\ m \in Request
  /\ \/ /\ m.req = "REGISTER" /\ m.state = "NONE"
        /\ at[m.pid] = "opening" /\ m.event = how[m.pid].event
     \/ /\ m.req = "SETSTATE" /\ m.state = "PLAYING"
        /\ at[m.pid] = "starting" /\ m.handle = handle[m.pid]
     \/ /\ m.req = "SETSTATE" /\ m.state = "STOP"
        /\ corked[m.pid] /\ at[m.pid] \notin {"granted", "marked"}
     \/ /\ m.req = "UNREGISTER"
        /\ Listed(m.pid, m.handle)
        /\ \A p \in Pids : IsOpen(p) => handle[p] # m.handle

\* What may stand behind a request: a process that waits sends nothing, and no handle is given
\* up that has been given up before, or is being handed out.
Follows(m, n) ==
  /\ ~Unanswered(m) => n.pid # m.pid
  /\ m.req \in {"REGISTER", "UNREGISTER"} /\ n.req = "UNREGISTER" => n.handle # m.handle

Queued ==
  /\ \A i \in DOMAIN inbox : Suits(inbox[i])
  /\ \A i, j \in DOMAIN inbox : i < j => Follows(inbox[i], inbox[j])
  /\ pc # "idle" => Suits(cur) /\ \A i \in DOMAIN inbox : Follows(cur, inbox[i])
  /\ \A i \in DOMAIN inbox : inbox[i].req = "REGISTER" => inbox[i].handle = NoHandle
  /\ pc \notin Comparing /\ pc # "idle" /\ cur.req = "REGISTER" => cur.handle = NoHandle

\* The comparison is about to list what it has decided, or has done so.
Compared ==
  /\ reply.cmd = "STOP" => cur.state = "PLAYING"
  /\ pc = "unregister" => cur.req = "UNREGISTER"
  /\ pc \in Comparing => cur.req = "REGISTER" \/ (cur.req = "SETSTATE" /\ cur.state = "PLAYING")
  /\ quiet => ~updated /\ pc \in {"walked", "pausedWalk", "finish"}
  /\ reply.cmd \in {"PLAY", "NONE"} => quiet \/ updated
  /\ updated => pc \in Comparing
  /\ updated /\ cur.req = "REGISTER" => Listed(cur.pid, cur.handle)
  /\ updated /\ cur.req = "SETSTATE" => Playing(cur.pid, cur.handle)
  /\ pc \in Returning => Visited.pid # cur.pid

\* An open stream has its handle, and the list has its instance.
Lent == \A p \in Pids : IsOpen(p) => Given(p) \in held /\ Listed(p, handle[p])

Leaving(p, h) ==
  \/ pc # "idle" /\ cur.req = "UNREGISTER" /\ cur.pid = p /\ cur.handle = h
  \/ \E i \in DOMAIN inbox :
       inbox[i].req = "UNREGISTER" /\ inbox[i].pid = p /\ inbox[i].handle = h

\* Why p has an instance h in the list.
Explained(p, h) ==
  \/ h \in orphans
  \/ IsOpen(p) /\ h = handle[p]
  \/ Leaving(p, h)
  \/ pc \in Comparing /\ cur.req = "REGISTER" /\ cur.pid = p /\ cur.handle = h

ListExplained == \A p, h : Listed(p, h) => Explained(p, h)

StreamTypes ==
  /\ how \in [Pids -> Ways]
  /\ at \in [Pids -> Places]
  /\ handle \in [Pids -> Handles]
  /\ started \in [Pids -> BOOLEAN]
  /\ corked \in [Pids -> BOOLEAN]
  /\ asked \in [Pids -> 0 .. MaxUnread]
  /\ handler \in [Pids -> Handling]
  /\ stale \in [Pids -> BOOLEAN]
  /\ orphans \subseteq Handles
  /\ missed \in [Pids -> BOOLEAN]

\* Monitors are not streams, so no callback goes to one.
NoMonitors ==
  /\ \A p \in Pids : how[p].event # "MONITOR"
  /\ "MONITOR" \notin Named(list)
  /\ pc # "monitor"

\* The stream by itself: what its two threads leave behind.
Silent(p) ==
  /\ at[p] \in {"closed", "opening", "closing", "stopped"} => corked[p]
  /\ at[p] \in {"closed", "opening", "corking", "stopped"} => ~started[p]
  /\ stale[p] => missed[p]

\* A stream whose callbacks have all been answered in time: one callback at a time, the server
\* waits for it, and the start and the callback have not crossed.
InTime(p) ==
  /\ ~Undisturbed(p) => pc \in Returning /\ Visited.pid = p
  /\ asked[p] = 0 \/ (asked[p] = 1 /\ handler[p] = "idle")
  /\ at[p] \in {"granted", "marked"} => handler[p] = "idle"
  /\ at[p] = "marked" => started[p]
  /\ handler[p] \in {"corking", "answering", "stray"} => ~started[p]
  /\ started[p] /\ at[p] \notin {"granted", "marked", "closing"} => ~corked[p]
  /\ ~started[p] /\ handler[p] # "corking" /\ at[p] \notin {"granted", "marked", "corking"} =>
       corked[p]
  /\ Undisturbed(p) /\ (at[p] \in {"granted", "marked"} \/ Audible(p)) =>
       Playing(p, handle[p])

StreamInv == \A p \in Pids : Silent(p) /\ (~missed[p] => InTime(p))

PInv ==
  /\ IInv /\ StreamTypes /\ alive = Pids
  /\ Queued /\ Compared /\ Lent
  /\ ListExplained
  /\ NoMonitors
  /\ StreamInv
-----------------------------------------------------------------------------
(* The list, as the streams see it.                                        *)

LEMMA PlayingNow ==
  ASSUME NEW l, NEW p, NEW h
  PROVE  IsItPlayingNow(l, p, h) <=> <<h, p>> \in PlayingIn(l)
BY DEF IsItPlayingNow, Own, PlayingIn

\* What plays is listed.
LEMMA PlayingIsListed == \A p, h : Playing(p, h) => Listed(p, h)
BY DEF Playing, Listed, PlayingIn, OwnedIn

\* A list whose handles, owners and states are those of another one.
LEMMA SameStates ==
  ASSUME NEW l, NEW k, DOMAIN k = DOMAIN l,
         \A i \in DOMAIN l : k[i].handle = l[i].handle /\ k[i].pid = l[i].pid /\ k[i].state = l[i].state
  PROVE  PlayingIn(k) = PlayingIn(l)
BY DEF PlayingIn

LEMMA FlagsKeepPlaying ==
  ASSUME NEW l \in Seq(Entry), NEW p, NEW h,
         NEW k \in {ResumeAll(l), SetAllMonitorClean(l), NeedResume(l, p, h)}
  PROVE  PlayingIn(k) = PlayingIn(l)
<1>1. \A i \in DOMAIN l : l[i] \in Entry
  BY ElementOfSeq, LenProperties
<1>2. CASE k = ResumeAll(l)
  BY <1>1, <1>2, SameStates DEF ResumeAll, Entry
<1>3. CASE k = SetAllMonitorClean(l)
  BY <1>1, <1>3, SameStates DEF SetAllMonitorClean, Entry
<1>4. CASE k = NeedResume(l, p, h)
  BY <1>1, <1>4, SameStates DEF NeedResume, Entry
<1> QED
  BY <1>2, <1>3, <1>4

\* A change of state concerns one instance, and one that is set to play plays.
LEMMA ChangePlaying ==
  ASSUME NEW l \in Seq(Entry), NEW p, NEW h, NEW st \in States, NEW res \in SUBSET Resources
  PROVE  /\ OwnedIn(ChangeState(l, p, h, st, res)) = OwnedIn(l)
         /\ Named(ChangeState(l, p, h, st, res)) \subseteq Named(l)
         /\ PlayingIn(l) \ {<<h, p>>} \subseteq PlayingIn(ChangeState(l, p, h, st, res))
         /\ st = "PLAYING" => PlayingIn(l) \subseteq PlayingIn(ChangeState(l, p, h, st, res))
         /\ st = "PLAYING" /\ Unique(l) /\ <<h, p>> \in OwnedIn(l) =>
              <<h, p>> \in PlayingIn(ChangeState(l, p, h, st, res))
<1> DEFINE k == ChangeState(l, p, h, st, res)
<1>1. \A i \in DOMAIN l : l[i] \in Entry
  BY ElementOfSeq, LenProperties
<1>2. SameHandles(k, l)
  BY ChangeStateKeeps
<1>3. \A i \in DOMAIN l : i \notin PlaceOf(l, p, h) => k[i] = l[i]
  BY DEF ChangeState
<1>4. \A i \in PlaceOf(l, p, h) : i \in DOMAIN l /\ Own(l[i], p, h)
  BY DEF PlaceOf, FirstIn
<1>5. \A i \in PlaceOf(l, p, h) : k[i].state = st
  BY <1>1, <1>4 DEF ChangeState, Entry
<1> HIDE DEF k
<1>6. OwnedIn(k) = OwnedIn(l) /\ Named(k) \subseteq Named(l)
  BY <1>2, SameHandlesRemains DEF Remains
<1>7. ASSUME NEW o \in PlayingIn(l), o # <<h, p>> \/ st = "PLAYING"
      PROVE  o \in PlayingIn(k)
  <2>1. PICK i \in DOMAIN l : o = <<l[i].handle, l[i].pid>> /\ l[i].state = "PLAYING"
    BY DEF PlayingIn
  <2>2. k[i].state = "PLAYING"
    BY <1>3, <1>4, <1>5, <1>7, <2>1 DEF Own
  <2> QED
    BY <1>2, <2>1, <2>2 DEF PlayingIn, SameHandles
<1>8. ASSUME st = "PLAYING", Unique(l), <<h, p>> \in OwnedIn(l)
      PROVE  <<h, p>> \in PlayingIn(k)
  <2>1. PICK i \in DOMAIN l : l[i].handle = h /\ l[i].pid = p
    BY <1>8 DEF OwnedIn
  <2>2. \A j \in DOMAIN l : Own(l[j], p, h) => j = i
    BY <1>8, <2>1 DEF Unique, Own
  <2>3. i \in PlaceOf(l, p, h)
    BY <2>1, <2>2, LenProperties DEF PlaceOf, FirstIn, Own
  <2> QED
    BY <1>2, <1>5, <1>8, <2>1, <2>3 DEF PlayingIn, SameHandles
<1> QED
  BY <1>6, <1>7, <1>8 DEF k

\* A registration changes nothing for the others.
LEMMA RegisterPlaying ==
  ASSUME NEW l \in Seq(Entry), NEW m \in Request, m.handle \in Handles
  PROVE  PlayingIn(l) \subseteq PlayingIn(Register(l, m))
<1>1. \A i \in DOMAIN l : \E n \in DOMAIN Register(l, m) : Register(l, m)[n] = l[i]
  BY RegisterAdds
<1> QED
  BY <1>1 DEF PlayingIn

\* The end of one does not, either.
LEMMA UnregisterPlaying ==
  ASSUME NEW l \in Seq(Entry), Unique(l), NEW p, NEW h, <<h, p>> \in OwnedIn(l),
         NEW k \in Unregister(l, h)
  PROVE  /\ k \in Seq(Entry) /\ Named(k) \subseteq Named(l)
         /\ OwnedIn(k) = OwnedIn(l) \ {<<h, p>>}
         /\ PlayingIn(l) \ {<<h, p>>} \subseteq PlayingIn(k)
<1>1. PICK n \in DOMAIN l : l[n].handle = h /\ l[n].pid = p
  BY DEF OwnedIn
<1>2. h \in HandlesIn(l)
  BY <1>1 DEF HandlesIn
<1>3. PICK i \in DOMAIN l : l[i].handle = h /\ k = RemoveAt(l, i)
  BY <1>2 DEF Unregister, FirstIn
<1>4. i = n
  BY <1>1, <1>3 DEF Unique
<1>5. /\ Remains(k, l) /\ OwnedIn(k) = OwnedIn(l) \ {<<h, p>>}
      /\ \A j \in DOMAIN l \ {i} : \E m \in DOMAIN k : k[m] = l[j]
  BY <1>1, <1>3, <1>4, RemoveAtRemains
<1>6. ASSUME NEW o \in PlayingIn(l) \ {<<h, p>>} PROVE o \in PlayingIn(k)
  <2>1. PICK j \in DOMAIN l : o = <<l[j].handle, l[j].pid>> /\ l[j].state = "PLAYING"
    BY DEF PlayingIn
  <2>2. PICK m \in DOMAIN k : k[m] = l[j]
    BY <1>1, <1>4, <1>5, <2>1
  <2> QED
    BY <2>1, <2>2 DEF PlayingIn
<1> QED
  BY <1>5, <1>6 DEF Remains
-----------------------------------------------------------------------------
(* The steps of the session manager, as the streams see them.              *)

\* Nothing leaves the list, and nothing comes into it but what is registered.
Grows ==
  /\ OwnedIn(list) \subseteq OwnedIn(list')
  /\ \A o \in OwnedIn(list') :
       o \in OwnedIn(list) \/ (pc \in Comparing /\ cur.req = "REGISTER" /\ o = <<cur.handle, cur.pid>>)
  /\ \A ev \in Named(list') :
       ev \in Named(list) \/ (pc \in Comparing /\ cur.req = "REGISTER" /\ ev = cur.event)

LEMMA ComparedFacts ==
  ASSUME PInv, pc \in Comparing
  PROVE  /\ list \in Seq(Entry) /\ Unique(list) /\ cur \in Request
         /\ cur.req = "REGISTER" => cur.handle \in Handles /\ cur.state = "NONE"
         /\ cur.req = "SETSTATE" =>
              cur.state = "PLAYING" /\ at[cur.pid] = "starting" /\ cur.handle = handle[cur.pid]
         /\ cur.req = "SETSTATE" => Listed(cur.pid, cur.handle)
         /\ cur.req \in {"REGISTER", "SETSTATE"}
         /\ cur.pid \in Pids /\ cur.state \in States /\ cur.resource \in SUBSET Resources
<1>1. /\ list \in Seq(Entry) /\ Unique(list) /\ cur \in Request
      /\ cur.req = "REGISTER" => cur.handle \in Handles
  BY ComparingFacts DEF PInv
<1>2. cur.pid \in Pids /\ cur.state \in States /\ cur.resource \in SUBSET Resources
  BY <1>1 DEF Request
<1>3. cur.req = "REGISTER" \/ (cur.req = "SETSTATE" /\ cur.state = "PLAYING")
  BY DEF PInv, Compared
<1>4. pc # "idle" /\ Suits(cur)
  BY DEF PInv, Queued, Comparing
<1>5. cur.req = "REGISTER" => cur.state = "NONE"
  BY <1>4 DEF Suits
<1>6. cur.req = "SETSTATE" => at[cur.pid] = "starting" /\ cur.handle = handle[cur.pid]
  BY <1>3, <1>4 DEF Suits
<1>7. cur.req = "SETSTATE" => Listed(cur.pid, cur.handle)
  BY <1>2, <1>6 DEF PInv, Lent, IsOpen
<1> QED
  BY <1>1, <1>2, <1>3, <1>5, <1>6, <1>7

\* What is entered into the list at the end of a comparison or before.
LEMMA CommitList ==
  ASSUME PInv, pc \in Comparing, NEW k, SameHandles(k, list),
         updated /\ cur.req = "SETSTATE" => <<cur.handle, cur.pid>> \in PlayingIn(k),
         NEW l, l = Commit(k)
  PROVE  /\ <<cur.handle, cur.pid>> \in OwnedIn(l)
         /\ OwnedIn(list) \subseteq OwnedIn(l)
         /\ \A o \in OwnedIn(l) :
              o \in OwnedIn(list) \/ (cur.req = "REGISTER" /\ o = <<cur.handle, cur.pid>>)
         /\ \A ev \in Named(l) : ev \in Named(list) \/ (cur.req = "REGISTER" /\ ev = cur.event)
         /\ cur.req = "SETSTATE" => <<cur.handle, cur.pid>> \in PlayingIn(l)
         /\ PlayingIn(k) \subseteq PlayingIn(l)
<1>1. /\ list \in Seq(Entry) /\ Unique(list) /\ cur \in Request
      /\ cur.req = "REGISTER" => cur.handle \in Handles
      /\ cur.req = "SETSTATE" => cur.state = "PLAYING" /\ <<cur.handle, cur.pid>> \in OwnedIn(list)
      /\ cur.req \in {"REGISTER", "SETSTATE"}
      /\ cur.state \in States /\ cur.resource \in SUBSET Resources
  BY ComparedFacts DEF Listed
<1>2. k \in Seq(Entry) /\ OwnedIn(k) = OwnedIn(list) /\ Unique(k) /\ Named(k) \subseteq Named(list)
  BY <1>1, SameHandlesRemains DEF SameHandles, Remains
<1>3. CASE updated
  <2>1. l = k
    BY <1>3 DEF Commit
  <2>2. cur.req = "REGISTER" => <<cur.handle, cur.pid>> \in OwnedIn(list)
    BY <1>3 DEF PInv, Compared, Listed
  <2> QED
    BY <1>1, <1>2, <1>3, <2>1, <2>2
<1>4. CASE ~updated /\ cur.req = "REGISTER"
  <2>1. l = Register(k, cur)
    BY <1>4 DEF Commit
  <2>2. OwnedIn(l) = OwnedIn(k) \cup {<<cur.handle, cur.pid>>} /\ Named(l) = Named(k) \cup {cur.event}
    BY <1>1, <1>2, <1>4, <2>1, RegisterAdds
  <2>3. PlayingIn(k) \subseteq PlayingIn(l)
    BY <1>1, <1>2, <1>4, <2>1, RegisterPlaying
  <2> QED
    BY <1>2, <1>4, <2>2, <2>3
<1>5. CASE ~updated /\ cur.req = "SETSTATE"
  <2>1. l = ChangeState(k, cur.pid, cur.handle, "PLAYING", cur.resource)
    BY <1>1, <1>5 DEF Commit
  <2>2. "PLAYING" \in States /\ <<cur.handle, cur.pid>> \in OwnedIn(k)
    BY <1>1, <1>2, <1>5 DEF States
  <2>3. /\ OwnedIn(l) = OwnedIn(k) /\ PlayingIn(k) \subseteq PlayingIn(l) /\ Named(l) \subseteq Named(k)
        /\ <<cur.handle, cur.pid>> \in PlayingIn(l)
    BY <1>1, <1>2, <2>1, <2>2, ChangePlaying
  <2> QED
    BY <1>2, <1>5, <2>2, <2>3
<1> QED
  BY <1>1, <1>3, <1>4, <1>5

\* The same when the list itself is what is completed.
LEMMA CommitSame ==
  ASSUME PInv, pc \in Comparing, NEW l, l = Commit(list)
  PROVE  /\ <<cur.handle, cur.pid>> \in OwnedIn(l)
         /\ OwnedIn(list) \subseteq OwnedIn(l)
         /\ \A o \in OwnedIn(l) :
              o \in OwnedIn(list) \/ (cur.req = "REGISTER" /\ o = <<cur.handle, cur.pid>>)
         /\ \A ev \in Named(l) : ev \in Named(list) \/ (cur.req = "REGISTER" /\ ev = cur.event)
         /\ cur.req = "SETSTATE" => <<cur.handle, cur.pid>> \in PlayingIn(l)
         /\ PlayingIn(list) \subseteq PlayingIn(l)
<1>1. SameHandles(list, list)
  BY ComparedFacts DEF SameHandles
<1>2. updated /\ cur.req = "SETSTATE" => <<cur.handle, cur.pid>> \in PlayingIn(list)
  BY DEF PInv, Compared, Playing
<1> QED
  BY <1>1, <1>2, CommitList

LEMMA InternalList ==
  ASSUME PInv, Internal, pc # "unregister"
  PROVE  Grows /\ PlayingIn(list) \subseteq PlayingIn(list')
<1>1. CASE list' = list
  BY <1>1 DEF Grows
<1>2. CASE WalkPass
  <2>1. pc = "walk" /\ pc \in Comparing /\ list' = Commit(list)
    BY <1>2 DEF WalkPass, Walking, CommitAndStep, Comparing
  <2> QED
    BY <2>1, CommitSame DEF Grows
<1>3. CASE WalkEnd
  <2>1. pc \in Comparing /\ list' = SetAllMonitorClean(list)
    BY <1>3 DEF WalkEnd, Comparing
  <2>2. list \in Seq(Entry)
    BY <2>1, ComparedFacts
  <2>3. SameHandles(list', list) /\ PlayingIn(list') = PlayingIn(list)
    BY <2>1, <2>2, ResetsKeep, FlagsKeepPlaying
  <2>4. OwnedIn(list') = OwnedIn(list) /\ Named(list') \subseteq Named(list)
    BY <2>2, <2>3, SameHandlesRemains DEF Remains
  <2> QED
    BY <2>3, <2>4 DEF Grows
<1> QED
  BY <1>1, <1>2, <1>3
     DEF Internal, Accept, DoUnregister, ReapDone, DispatchRegister, DispatchPlay, StartCompare, WalkSkip,
         WalkRefuse, StartPausedPass

\* An UNREGISTER takes away what its sender has given up.
LEMMA DoUnregisterList ==
  ASSUME PInv, DoUnregister
  PROVE  /\ OwnedIn(list') = OwnedIn(list) \ {<<cur.handle, cur.pid>>}
         /\ PlayingIn(list) \ {<<cur.handle, cur.pid>>} \subseteq PlayingIn(list')
         /\ Named(list') \subseteq Named(list)
<1>1. list \in Seq(Entry) /\ Unique(list)
  BY DEF PInv, IInv, TypeOK, HandlesUnique, Unique
<1>2. pc = "unregister" /\ cur.req = "UNREGISTER" /\ Suits(cur)
  BY DEF DoUnregister, PInv, Compared, Queued
<1>3. <<cur.handle, cur.pid>> \in OwnedIn(list)
  BY <1>2 DEF Suits, Listed
<1>4. PICK rest \in Unregister(list, cur.handle) : list' = rest \/ list' = ResumeAll(rest)
  BY DEF DoUnregister
<1>5. /\ rest \in Seq(Entry) /\ Named(rest) \subseteq Named(list)
      /\ OwnedIn(rest) = OwnedIn(list) \ {<<cur.handle, cur.pid>>}
      /\ PlayingIn(list) \ {<<cur.handle, cur.pid>>} \subseteq PlayingIn(rest)
  BY <1>1, <1>3, UnregisterPlaying
<1>6. SameHandles(ResumeAll(rest), rest) /\ PlayingIn(ResumeAll(rest)) = PlayingIn(rest)
  BY <1>5, ResetsKeep, FlagsKeepPlaying
<1>7. OwnedIn(ResumeAll(rest)) = OwnedIn(rest) /\ Named(ResumeAll(rest)) \subseteq Named(rest)
  BY <1>5, <1>6, SameHandlesRemains DEF Remains
<1> QED
  BY <1>4, <1>5, <1>6, <1>7

\* An answer concerns the instance that was called back.
LEMMA AnswerPlaying ==
  ASSUME list \in Seq(Entry), NEW e \in Entry, NEW res,
         NEW k \in {AfterStop(e, res), AfterPause(e, res), AfterMix(e, res)}
  PROVE  PlayingIn(list) \ {<<e.handle, e.pid>>} \subseteq PlayingIn(k)
<1>1. \A st \in States, r \in SUBSET Resources :
        PlayingIn(list) \ {<<e.handle, e.pid>>} \subseteq
          PlayingIn(ChangeState(list, e.pid, e.handle, st, r))
  BY ChangePlaying
<1>2. {"STOP", "NONE", "PAUSE"} \subseteq States /\ {} \in SUBSET Resources
      /\ e.resource \in SUBSET Resources
  BY DEF States, Entry
<1>3. CASE k = AfterStop(e, res)
  BY <1>1, <1>2, <1>3 DEF AfterStop
<1>4. CASE k = AfterPause(e, res)
  BY <1>1, <1>2, <1>4 DEF AfterPause
<1>5. CASE k = AfterMix(e, res)
  BY <1>1, <1>2, <1>5 DEF AfterMix
<1> QED
  BY <1>3, <1>4, <1>5

LEMMA WorkerFacts ==
  ASSUME PInv, pc = "worker"
  PROVE  /\ pc \in Comparing /\ pc \in Returning
         /\ Visited \in Entry /\ Visited.pid \in Pids /\ Visited.pid # cur.pid
<1>1. pc \in Comparing /\ pc \in Returning
  BY DEF Comparing, Returning
<1>2. cursor <= Len(list) /\ cursor \in Nat \ {0}
  BY <1>1 DEF PInv, IInv, WalkInv, TypeOK
<1>3. Visited \in Entry
  BY <1>1, <1>2, ComparingFacts DEF PInv, Visited
<1> QED
  BY <1>1, <1>3 DEF PInv, Compared, Entry

LEMMA ReturnedList ==
  ASSUME PInv, NEW res, Returned(res)
  PROVE  /\ Grows
         /\ \A o \in PlayingIn(list) : o[2] # Visited.pid => o \in PlayingIn(list')
         /\ updated' => <<cur.handle, cur.pid>> \in OwnedIn(list')
         /\ updated' /\ cur.req = "SETSTATE" => <<cur.handle, cur.pid>> \in PlayingIn(list')
<1>1. pc = "worker"
  BY DEF Returned, WorkerReturned, PausedReturned
<1>2. pc \in Comparing /\ Visited \in Entry /\ Visited.pid # cur.pid
  BY <1>1, WorkerFacts
<1>3. list \in Seq(Entry) /\ {} \in SUBSET Resources /\ "NONE" \in States
  BY <1>2, ComparedFacts DEF States
<1>4. updated /\ cur.req = "SETSTATE" => <<cur.handle, cur.pid>> \in PlayingIn(list)
  BY DEF PInv, Compared, Playing
<1>5. \A o \in PlayingIn(list) :
        o[2] # Visited.pid => o \in PlayingIn(list) \ {<<Visited.handle, Visited.pid>>}
  OBVIOUS
<1>6. CASE WorkerReturned(res)
  <2>1. PICK k \in {AfterStop(Visited, res), AfterPause(Visited, res), AfterMix(Visited, res)} :
          list' = Commit(Resumable(k, Visited)) /\ updated' = TRUE
    BY <1>6 DEF WorkerReturned, CommitAndStep
  <2>2. SameHandles(k, list) /\ PlayingIn(list) \ {<<Visited.handle, Visited.pid>>} \subseteq PlayingIn(k)
    BY <1>2, <1>3, AnswerKeeps, AnswerPlaying
  <2>3. /\ SameHandles(Resumable(k, Visited), list)
        /\ PlayingIn(Resumable(k, Visited)) = PlayingIn(k)
    <3>1. k \in Seq(Entry)
      BY <2>2 DEF SameHandles
    <3>2. /\ SameHandles(NeedResume(k, Visited.pid, Visited.handle), k)
          /\ PlayingIn(NeedResume(k, Visited.pid, Visited.handle)) = PlayingIn(k)
      BY <3>1, NeedResumeKeeps, FlagsKeepPlaying
    <3> QED
      BY <2>2, <3>2 DEF Resumable, SameHandles
  <2>4. updated /\ cur.req = "SETSTATE" =>
          <<cur.handle, cur.pid>> \in PlayingIn(Resumable(k, Visited))
    BY <1>2, <1>4, <2>2, <2>3
  <2>5. /\ <<cur.handle, cur.pid>> \in OwnedIn(list')
        /\ OwnedIn(list) \subseteq OwnedIn(list')
        /\ \A o \in OwnedIn(list') :
             o \in OwnedIn(list) \/ (cur.req = "REGISTER" /\ o = <<cur.handle, cur.pid>>)
        /\ \A ev \in Named(list') : ev \in Named(list) \/ (cur.req = "REGISTER" /\ ev = cur.event)
        /\ cur.req = "SETSTATE" => <<cur.handle, cur.pid>> \in PlayingIn(list')
        /\ PlayingIn(Resumable(k, Visited)) \subseteq PlayingIn(list')
    BY <1>2, <2>1, <2>3, <2>4, CommitList
  <2> QED
    BY <1>2, <1>5, <2>2, <2>3, <2>5 DEF Grows
<1>7. CASE PausedReturned(res)
  <2>1. list' = ChangeState(list, Visited.pid, Visited.handle, "NONE", {}) /\ updated' = updated
    BY <1>7 DEF PausedReturned
  <2>2. /\ OwnedIn(list') = OwnedIn(list) /\ Named(list') \subseteq Named(list)
        /\ PlayingIn(list) \ {<<Visited.handle, Visited.pid>>} \subseteq PlayingIn(list')
    BY <1>3, <2>1, ChangePlaying
  <2>3. updated => <<cur.handle, cur.pid>> \in OwnedIn(list)
    BY <1>2, ComparedFacts DEF PInv, Compared, Listed
  <2> QED
    BY <1>2, <1>4, <1>5, <2>1, <2>2, <2>3 DEF Grows
<1> QED
  BY <1>6, <1>7 DEF Returned

\* The answer to a request finds it in the list.
LEMMA FinishList ==
  ASSUME PInv, Finish
  PROVE  /\ Grows
         /\ PlayingIn(list) \subseteq PlayingIn(list')
         /\ cur.req = "REGISTER" => reply.cmd # "STOP" /\ <<cur.handle, cur.pid>> \in OwnedIn(list')
         /\ cur.req = "SETSTATE" /\ reply.cmd # "STOP" => <<cur.handle, cur.pid>> \in PlayingIn(list')
<1>1. pc = "finish" /\ pc \in Comparing
  BY DEF Finish, Comparing
<1>2. list' = list \/ list' = Commit(list)
  BY DEF Finish, statusVars
<1>3. reply.cmd \in {"PLAY", "NONE", "STOP"}
  BY <1>1 DEF PInv, IInv, TypeOK, ComparisonAnswers, Reply, Commands
<1>4. cur.req = "REGISTER" => reply.cmd # "STOP"
  BY <1>1, ComparedFacts DEF PInv, Compared
<1>5. updated => Commit(list) = list
  BY DEF Commit
<1>6. reply.cmd # "STOP" => list' = Commit(list)
  BY <1>2, <1>3, <1>5 DEF PInv, Compared, Finish
<1>7. CASE list' = Commit(list)
  BY <1>1, <1>4, <1>7, CommitSame DEF Grows
<1>8. CASE list' = list /\ reply.cmd = "STOP"
  BY <1>4, <1>8 DEF Grows
<1> QED
  BY <1>2, <1>6, <1>7, <1>8

LEMMA SetStateList ==
  ASSUME PInv, SetStateDirectly
  PROVE  /\ OwnedIn(list') = OwnedIn(list) /\ Named(list') \subseteq Named(list)
         /\ PlayingIn(list) \ {<<cur.handle, cur.pid>>} \subseteq PlayingIn(list')
         /\ cur.state = "PLAYING" => /\ PlayingIn(list) \subseteq PlayingIn(list')
                                     /\ <<cur.handle, cur.pid>> \in PlayingIn(list')
<1>1. list \in Seq(Entry) /\ Unique(list)
  BY DEF PInv, IInv, TypeOK, HandlesUnique, Unique
<1>2. pc = "dispatch" /\ cur \in Request
  BY DEF SetStateDirectly, PInv, IInv, WalkInv
<1>3. cur.state \in States /\ cur.resource \in SUBSET Resources
  BY <1>2 DEF Request
<1>4. list' = ChangeState(list, cur.pid, cur.handle, cur.state, cur.resource)
  BY DEF SetStateDirectly
<1>5. cur.state = "PLAYING" => <<cur.handle, cur.pid>> \in PlayingIn(list)
  BY PlayingNow DEF SetStateDirectly
<1> QED
  BY <1>1, <1>3, <1>4, <1>5, ChangePlaying
-----------------------------------------------------------------------------
(* The streams are clients of the session manager.                         *)

\* The requests of streams.
Requested(p, req, ev, h, st) ==
  [pid |-> p, req |-> req, handle |-> h, event |-> ev, state |-> st, resource |-> {}]

LEMMA AskedIs ==
  ASSUME NEW p, NEW req, NEW ev, NEW h, NEW st
  PROVE  Ask(p, req, ev, h, st) <=> Send(Requested(p, req, ev, h, st))
BY DEF Ask, Requested

\* A stream that is open speaks of the handle it has, under its event or under another one.
LEMMA OpenFacts ==
  ASSUME PInv, NEW p \in Pids, IsOpen(p)
  PROVE  /\ Given(p) \in HeldBy(p)
         /\ Given(p).handle = handle[p] /\ Given(p).pid = p
         /\ AskedEvent(p) \in {Given(p).event} \cup Misnamed
         /\ {} \in Claims[p] /\ {"NONE", "PLAYING", "STOP"} \subseteq AskStates
<1>1. Given(p) \in held
  BY DEF PInv, Lent
<1>2. Given(p).handle = handle[p] /\ Given(p).pid = p /\ Given(p).event = how[p].event
  BY DEF Given
<1>3. AskedEvent(p) = how[p].event \/ AskedEvent(p) \in Misnamed
  BY PcmAssumption DEF AskedEvent
<1> QED
  BY <1>1, <1>2, <1>3, PcmAssumption DEF HeldBy

LEMMA OpenSends ==
  ASSUME PInv, NEW p \in Pids, Open(p)
  PROVE  SendRegister(p)
<1>1. PICK o \in Opens[p] : Ask(p, "REGISTER", o.event, NoHandle, "NONE")
  BY DEF Open
<1>2. o.event \in Uses[p] /\ "NONE" \in AskStates \cap {"NONE", "PLAYING"} /\ {} \in Claims[p]
  BY PcmAssumption
<1>3. Cardinality(HeldBy(p)) < MaxHeld[p] /\ UNCHANGED held
  BY DEF Open
<1> QED
  BY <1>1, <1>2, <1>3 DEF SendRegister, Ask

LEMMA TellSends ==
  ASSUME PInv, NEW p \in Pids, Start(p) \/ StopTell(p)
  PROVE  SendSetState(p)
<1>1. PICK st \in {"PLAYING", "STOP"} : Ask(p, "SETSTATE", AskedEvent(p), handle[p], st)
  BY DEF Start, StopTell
<1>2. IsOpen(p) /\ UNCHANGED held
  BY DEF Start, StopTell, Goes, IsOpen
<1>3. PICK g \in HeldBy(p) : /\ g.handle = handle[p]
                             /\ AskedEvent(p) \in {g.event} \cup Misnamed
                             /\ {} \in Claims[p] /\ st \in AskStates
  BY <1>2, OpenFacts
<1> QED
  BY <1>1, <1>2, <1>3 DEF SendSetState, Ask

LEMMA CloseSends ==
  ASSUME PInv, NEW p \in Pids, CloseUnregister(p)
  PROVE  SendUnregister(p)
<1>1. Ask(p, "UNREGISTER", AskedEvent(p), handle[p], "NONE") /\ held' = held \ {Given(p)}
  BY DEF CloseUnregister
<1>2. IsOpen(p)
  BY DEF CloseUnregister, Goes, IsOpen
<1>3. PICK g \in HeldBy(p) : /\ g = Given(p) /\ g.handle = handle[p]
                             /\ AskedEvent(p) \in {g.event} \cup Misnamed
  BY <1>2, OpenFacts
<1> QED
  BY <1>1, <1>3 DEF SendUnregister, Ask

\* Every step of a stream or of the session manager is a step of AsmServer, or none of its.
LEMMA ClientStepIs ==
  ASSUME PInv, [PcmNext]_pcmVars
  PROVE  [Next]_vars
<1>1. CASE UNCHANGED pcmVars
  BY <1>1 DEF pcmVars
<1>2. CASE SessionManager
  <2>1. CASE FinishRequest \/ OpenRefused \/ SetState \/ Interrupt
    BY <2>1 DEF FinishRequest, OpenRefused, SetState, Interrupt, Next, Server
  <2>2. CASE Internal
    BY <2>2 DEF Internal, Next, Server
  <2>3. CASE GivesUp
    <3>1. pc = "worker"
      BY <2>3 DEF GivesUp
    <3>2. Visited.pid \in alive /\ "PAUSE" \in Answers
      BY <3>1, WorkerFacts DEF PInv, Answers
    <3>3. Returned("PAUSE") => CallbackAnswered
      BY <3>1, <3>2 DEF CallbackAnswered
    <3> QED
      BY <2>3, <3>3 DEF GivesUp, Next, Server
  <2> QED
    BY <1>2, <2>1, <2>2, <2>3 DEF SessionManager
<1>3. ASSUME NEW p \in Pids, Application(p)
      PROVE  [Next]_vars
  <2>1. SendRegister(p) \/ SendSetState(p) \/ SendUnregister(p) => Next
    BY DEF Next, Clients
  <2>2. CASE Open(p) \/ Start(p) \/ StopTell(p) \/ CloseUnregister(p)
    BY <2>1, <2>2, OpenSends, TellSends, CloseSends
  <2>3. CASE StartMark(p) \/ StartUncork(p) \/ Stop(p) \/ StopMark(p) \/ StopCork(p) \/ Close(p)
    BY <2>3 DEF StartMark, StartUncork, Stop, StopMark, StopCork, Close
  <2> QED
    BY <1>3, <2>2, <2>3 DEF Application
<1>4. ASSUME NEW p \in Pids, Handler(p)
      PROVE  [Next]_vars
  <2>1. CASE HandlerAnswers(p)
    <3>1. CASE AwaitsAnswer(p) /\ Returned("PAUSE")
      <4>1. pc = "worker" /\ Visited.pid \in alive /\ "PAUSE" \in Answers
        BY <3>1, WorkerFacts DEF AwaitsAnswer, PInv, Answers
      <4> QED
        BY <3>1, <4>1 DEF CallbackAnswered, Next
    <3> QED
      BY <2>1, <3>1 DEF HandlerAnswers
  <2>2. CASE HandlerChecks(p) \/ HandlerMarks(p) \/ HandlerCorks(p) \/ HandlerStrays(p)
    BY <2>2 DEF HandlerChecks, HandlerMarks, HandlerCorks, HandlerStrays
  <2> QED
    BY <1>4, <2>1, <2>2 DEF Handler
<1> QED
  BY <1>1, <1>2, <1>3, <1>4 DEF PcmNext
-----------------------------------------------------------------------------
(* The comparison.                                                         *)

\* Back in the queue there is no comparison.
LEMMA ComparedIdle == ASSUME Idle PROVE Compared'
BY DEF Idle, Compared, NoReply, Comparing, Returning

LEMMA ComparedSame ==
  ASSUME PInv, UNCHANGED <<list, pc, cur, walkVars>>
  PROVE  Compared'
BY DEF PInv, Compared, Listed, Playing, Visited, walkVars

LEMMA ComparedInternal ==
  ASSUME PInv, Internal
  PROVE  Compared'
<1> USE DEF Comparing, Returning
<1>1. /\ reply.cmd # "UNSET" => pc \in Comparing
      /\ updated => pc \in Comparing
  BY DEF PInv, IInv, WalkInv, Compared
<1>2. CASE Accept
  BY <1>1, <1>2 DEF Accept, PInv, Compared, walkVars
<1>3. CASE DoUnregister
  BY <1>3, ComparedIdle DEF DoUnregister
<1>4. CASE ReapDone
  BY <1>1, <1>4 DEF ReapDone, PInv, Compared, walkVars
<1>5. CASE DispatchRegister \/ DispatchPlay
  <2>1. /\ pc = "dispatch" /\ \E h : StartCompare(h)
        /\ cur.req = "REGISTER" \/ (cur.req = "SETSTATE" /\ cur.state = "PLAYING")
    BY <1>5 DEF DispatchRegister, DispatchPlay
  <2>2. cur \in Request
    BY <2>1 DEF PInv, IInv, WalkInv
  <2>3. cur'.req = cur.req /\ cur'.state = cur.state /\ ~updated' /\ pc' \in {"walk", "walked"}
    BY <1>1, <2>1, <2>2 DEF StartCompare, Request
  <2>4. \/ reply'.cmd = "UNSET" /\ ~quiet'
        \/ reply'.cmd = "NONE" /\ quiet' /\ pc' = "walked"
    <3>1. reply.cmd = "UNSET" /\ ~quiet
      BY <1>1, <2>1 DEF PInv, Compared
    <3>2. PICK h : StartCompare(h)
      BY <2>1
    <3>3. CASE statusPlaying = {}
      <4>1. reply' = [alloc |-> h, cmd |-> "NONE"] /\ quiet' = TRUE /\ pc' = "walked"
        BY <3>2, <3>3 DEF StartCompare
      <4> QED
        BY <4>1
    <3>4. CASE statusPlaying # {}
      <4>1. reply' = reply /\ quiet' = quiet
        BY <3>2, <3>4 DEF StartCompare
      <4> QED
        BY <3>1, <4>1
    <3> QED
      BY <3>3, <3>4
  <2> QED
    BY <2>1, <2>3, <2>4 DEF Compared
<1>6. CASE WalkPass
  <2>1. /\ pc = "walk" /\ pc' = "walk" /\ UNCHANGED <<cur, quiet>> /\ list' = Commit(list)
        /\ reply'.cmd \in {"PLAY", "NONE"} /\ updated' = TRUE
    BY <1>6 DEF WalkPass, Walking, CommitAndStep
  <2>2. /\ <<cur.handle, cur.pid>> \in OwnedIn(list')
        /\ cur.req = "SETSTATE" => <<cur.handle, cur.pid>> \in PlayingIn(list')
    BY <2>1, CommitSame
  <2>3. ~quiet /\ (cur.req = "REGISTER" \/ (cur.req = "SETSTATE" /\ cur.state = "PLAYING"))
    BY <2>1 DEF PInv, Compared
  <2> QED
    BY <2>1, <2>2, <2>3 DEF Compared, Listed, Playing
<1>7. CASE WalkSkip \/ WalkRefuse \/ WalkEnd \/ StartPausedPass
  <2>1. /\ pc \in {"walk", "walked"} /\ pc' \in {"walk", "walked", "pausedWalk", "finish"}
        /\ pc = "walked" => pc' # "walk"
        /\ UNCHANGED <<cur, updated, quiet>>
        /\ reply' = reply \/ (reply'.cmd = "STOP" /\ cur.state = "PLAYING")
        /\ quiet => pc = "walked" /\ pc' # "walk"
    BY <1>7 DEF WalkSkip, WalkRefuse, WalkEnd, StartPausedPass, Walking, walkVars, PInv, Compared
  <2>2. OwnedIn(list) \subseteq OwnedIn(list') /\ PlayingIn(list) \subseteq PlayingIn(list')
    BY <2>1, <1>7, InternalList DEF Internal, Grows
  <2> QED
    BY <2>1, <2>2 DEF PInv, Compared, Listed, Playing
<1> QED
  BY <1>2, <1>3, <1>4, <1>5, <1>6, <1>7 DEF Internal

LEMMA ComparedReturned ==
  ASSUME PInv, NEW res, Returned(res)
  PROVE  Compared'
<1> USE DEF Comparing, Returning
<1>1. /\ pc = "worker" /\ pc' \in {"walk", "pausedWalk"} /\ UNCHANGED <<cur, quiet>>
      /\ (updated' = TRUE /\ reply'.cmd = "PLAY") \/ UNCHANGED <<updated, reply>>
  BY DEF Returned, WorkerReturned, PausedReturned, CommitAndStep
<1>2. /\ updated' => <<cur.handle, cur.pid>> \in OwnedIn(list')
      /\ updated' /\ cur.req = "SETSTATE" => <<cur.handle, cur.pid>> \in PlayingIn(list')
  BY ReturnedList
<1>3. ~quiet /\ (cur.req = "REGISTER" \/ (cur.req = "SETSTATE" /\ cur.state = "PLAYING"))
  BY <1>1 DEF PInv, Compared
<1> QED
  BY <1>1, <1>2, <1>3 DEF PInv, Compared, Listed, Playing

LEMMA ComparedInterrupt ==
  ASSUME PInv, Interrupt
  PROVE  Compared'
<1> USE DEF Comparing, Returning
<1>1. /\ pc = "walk" /\ pc' \in {"monitor", "worker"} /\ Visited.pid # cur.pid
      /\ UNCHANGED <<list, cur, walkVars>>
  BY DEF Interrupt, WalkInterrupt, Walking, MustCallBack, Foreign, CallBackPc
<1> QED
  BY <1>1 DEF PInv, Compared, Listed, Playing, Visited, walkVars
-----------------------------------------------------------------------------
(* The kinds of step.                                                      *)

\* What a stream does without the session manager.
LocalAction(p) ==
  \/ StartMark(p) \/ StartUncork(p) \/ Stop(p) \/ StopMark(p) \/ StopCork(p) \/ Close(p)
  \/ HandlerChecks(p) \/ HandlerMarks(p) \/ HandlerCorks(p) \/ HandlerStrays(p)
  \/ HandlerAnswers(p) /\ UNCHANGED vars

Sending(p) == Open(p) \/ Start(p) \/ StopTell(p) \/ CloseUnregister(p)

LEMMA Kinds ==
  ASSUME PInv, PcmNext
  PROVE  \/ \E p \in Pids : LocalAction(p) \/ Sending(p)
         \/ \E p \in Pids : HandlerAnswers(p) /\ AwaitsAnswer(p) /\ Returned("PAUSE")
         \/ FinishRequest \/ OpenRefused \/ SetState \/ Interrupt \/ GivesUp \/ Internal
BY DEF PcmNext, SessionManager, Application, Handler, LocalAction, Sending, HandlerAnswers

LEMMA LocalFacts ==
  ASSUME PInv, NEW p \in Pids, LocalAction(p)
  PROVE  /\ UNCHANGED <<vars, how, handle, orphans>>
         /\ at' \in [Pids -> Places] /\ corked' \in [Pids -> BOOLEAN]
         /\ \A q \in Pids : q # p => at'[q] = at[q] /\ corked'[q] = corked[q]
         /\ \/ at'[p] = at[p]
            \/ /\ at[p] \in {"granted", "marked", "ready", "stopping", "corking"}
               /\ at'[p] \in {"marked", "ready", "stopping", "corking", "stopped", "closing"}
               /\ at'[p] = "marked" => at[p] = "granted"
         /\ corked[p] /\ at[p] # "marked" => corked'[p]
<1>1. at \in [Pids -> Places] /\ corked \in [Pids -> BOOLEAN]
  BY DEF PInv, StreamTypes
<1>2. UNCHANGED <<vars, how, handle, orphans>>
  BY DEF LocalAction, StartMark, StartUncork, Stop, StopMark, StopCork, Close,
         HandlerChecks, HandlerMarks, HandlerCorks, HandlerStrays, HandlerAnswers
<1>3. CASE HandlerChecks(p) \/ HandlerMarks(p) \/ HandlerCorks(p) \/ HandlerStrays(p) \/ HandlerAnswers(p)
  BY <1>1, <1>2, <1>3 DEF HandlerChecks, HandlerMarks, HandlerCorks, HandlerStrays, HandlerAnswers
<1>4. CASE StartMark(p) \/ Stop(p) \/ StopMark(p)
  BY <1>1, <1>2, <1>4 DEF StartMark, Stop, StopMark, Goes, Places
<1>5. CASE StartUncork(p) \/ StopCork(p) \/ Close(p)
  BY <1>1, <1>2, <1>5 DEF StartUncork, StopCork, Close, Goes, Places
<1> QED
  BY <1>3, <1>4, <1>5 DEF LocalAction

\* The request a stream sends, and where its thread goes.
LEMMA SendingFacts ==
  ASSUME PInv, NEW p \in Pids, Sending(p)
  PROVE  \E m \in Request :
           /\ m.pid = p /\ Send(m)
           /\ inbox' = Append(inbox, m) /\ inbox' \in Seq(Request)
           /\ UNCHANGED <<list, statusVars, session, pc, cur, walkVars, alive, handle, corked, orphans>>
           /\ at' \in [Pids -> Places] /\ how' \in [Pids -> Ways]
           /\ \A q \in Pids : q # p => at'[q] = at[q] /\ how'[q] = how[q]
           /\ ~(\E i \in DOMAIN inbox : inbox[i].pid = p /\ ~Unanswered(inbox[i]))
           /\ pc # "idle" /\ cur.pid = p => Unanswered(cur)
           /\ m.resource = {} /\ (m.req = "SETSTATE" => m.event = AskedEvent(p))
           /\ \/ /\ m.req = "REGISTER" /\ m.state = "NONE" /\ m.handle = NoHandle
                 /\ m.event = how'[p].event /\ at[p] = "closed" /\ at'[p] = "opening"
                 /\ UNCHANGED held /\ how'[p] \in Opens[p]
              \/ /\ m.req = "SETSTATE" /\ m.state = "PLAYING" /\ m.handle = handle[p]
                 /\ at[p] = "ready" /\ at'[p] = "starting" /\ UNCHANGED <<held, how>>
              \/ /\ m.req = "SETSTATE" /\ m.state = "STOP" /\ m.handle = handle[p]
                 /\ at[p] = "stopped" /\ at'[p] = "ready" /\ UNCHANGED <<held, how>>
              \/ /\ m.req = "UNREGISTER" /\ m.handle = handle[p]
                 /\ at[p] = "closing" /\ at'[p] = "closed"
                 /\ held' = held \ {Given(p)} /\ UNCHANGED how
<1>1. /\ at \in [Pids -> Places] /\ how \in [Pids -> Ways] /\ handle \in [Pids -> Handles]
      /\ inbox \in Seq(Request)
  BY DEF PInv, StreamTypes, IInv, TypeOK
<1>2. AskedEvent(p) \in Events /\ handle[p] \in Handles
  BY <1>1, FirstEvent DEF AskedEvent, Ways
<1>3. ASSUME NEW m \in Request, m.pid = p, Send(m)
      PROVE  /\ inbox' = Append(inbox, m) /\ inbox' \in Seq(Request)
             /\ UNCHANGED <<list, statusVars, session, pc, cur, walkVars, alive>>
             /\ ~(\E i \in DOMAIN inbox : inbox[i].pid = p /\ ~Unanswered(inbox[i]))
             /\ pc # "idle" /\ cur.pid = p => Unanswered(cur)
  BY <1>1, <1>3 DEF Send, Waiting
<1>4. CASE Open(p)
  <2>1. PICK o \in Opens[p] :
          Ask(p, "REGISTER", o.event, NoHandle, "NONE") /\ how' = [how EXCEPT ![p] = o]
    BY <1>4 DEF Open
  <2>2. o \in Ways
    BY PcmAssumption
  <2> DEFINE m == Requested(p, "REGISTER", o.event, NoHandle, "NONE")
  <2>3. /\ m \in Request /\ Send(m) /\ m.pid = p /\ m.req = "REGISTER" /\ m.state = "NONE"
        /\ m.handle = NoHandle /\ m.event = o.event /\ m.resource = {}
    BY <2>1, <2>2, AskedIs DEF Requested, Request, Requests, States, Ways
  <2>4. /\ at[p] = "closed" /\ at' = [at EXCEPT ![p] = "opening"]
        /\ UNCHANGED <<held, handle, corked, orphans>>
    BY <1>4 DEF Open, Goes
  <2>5. /\ at' \in [Pids -> Places] /\ at'[p] = "opening" /\ how' \in [Pids -> Ways] /\ how'[p] = o
        /\ \A q \in Pids : q # p => at'[q] = at[q] /\ how'[q] = how[q]
    BY <1>1, <2>1, <2>2, <2>4 DEF Places
  <2> QED
    BY <1>3, <2>3, <2>4, <2>5
<1>5. ASSUME NEW req \in {"SETSTATE", "UNREGISTER"}, NEW st \in {"NONE", "PLAYING", "STOP"},
             NEW from \in Places, NEW to \in Places,
             Ask(p, req, AskedEvent(p), handle[p], st), Goes(p, from, to),
             UNCHANGED <<how, handle, corked, orphans>>
      PROVE  \E m \in Request :
               /\ m.pid = p /\ Send(m) /\ m.req = req /\ m.state = st /\ m.handle = handle[p]
               /\ m.resource = {} /\ m.event = AskedEvent(p)
               /\ at[p] = from /\ at'[p] = to /\ at' \in [Pids -> Places]
               /\ \A q \in Pids : q # p => at'[q] = at[q]
  <2> DEFINE m == Requested(p, req, AskedEvent(p), handle[p], st)
  <2>1. /\ m \in Request /\ Send(m) /\ m.pid = p /\ m.req = req /\ m.state = st /\ m.handle = handle[p]
        /\ m.resource = {} /\ m.event = AskedEvent(p)
    BY <1>2, <1>5, AskedIs DEF Requested, Request, Requests, States
  <2>2. /\ at[p] = from /\ at'[p] = to /\ at' \in [Pids -> Places]
        /\ \A q \in Pids : q # p => at'[q] = at[q]
    BY <1>1, <1>5 DEF Goes
  <2> QED
    BY <2>1, <2>2
<1>6. CASE Start(p)
  <2>1. PICK m \in Request :
           /\ m.pid = p /\ Send(m) /\ m.req = "SETSTATE" /\ m.state = "PLAYING" /\ m.handle = handle[p]
           /\ m.resource = {} /\ m.event = AskedEvent(p)
           /\ at[p] = "ready" /\ at'[p] = "starting" /\ at' \in [Pids -> Places]
           /\ \A q \in Pids : q # p => at'[q] = at[q]
    BY <1>5, <1>6 DEF Start, Places
  <2> QED
    BY <1>1, <1>3, <1>6, <2>1 DEF Start
<1>7. CASE StopTell(p)
  <2>1. PICK m \in Request :
           /\ m.pid = p /\ Send(m) /\ m.req = "SETSTATE" /\ m.state = "STOP" /\ m.handle = handle[p]
           /\ m.resource = {} /\ m.event = AskedEvent(p)
           /\ at[p] = "stopped" /\ at'[p] = "ready" /\ at' \in [Pids -> Places]
           /\ \A q \in Pids : q # p => at'[q] = at[q]
    BY <1>5, <1>7 DEF StopTell, Places
  <2> QED
    BY <1>1, <1>3, <1>7, <2>1 DEF StopTell
<1>8. CASE CloseUnregister(p)
  <2>1. PICK m \in Request :
           /\ m.pid = p /\ Send(m) /\ m.req = "UNREGISTER" /\ m.state = "NONE" /\ m.handle = handle[p]
           /\ m.resource = {} /\ m.event = AskedEvent(p)
           /\ at[p] = "closing" /\ at'[p] = "closed" /\ at' \in [Pids -> Places]
           /\ \A q \in Pids : q # p => at'[q] = at[q]
    BY <1>5, <1>8 DEF CloseUnregister, Places
  <2> QED
    BY <1>1, <1>3, <1>8, <2>1 DEF CloseUnregister
<1> QED
  BY <1>4, <1>6, <1>7, <1>8 DEF Sending
-----------------------------------------------------------------------------
(* The requests on their way, the handles, and the reasons for what is     *)
(* listed: a stream by itself.                                             *)

LEMMA Processes == ASSUME PInv PROVE /\ \A i \in DOMAIN inbox : inbox[i] \in Request /\ inbox[i].pid \in Pids
                                     /\ pc # "idle" => cur \in Request /\ cur.pid \in Pids
BY DEF PInv, Queued, Suits, Request

LEMMA ListedTyped ==
  ASSUME PInv, NEW p, NEW h, Listed(p, h)
  PROVE  p \in Pids /\ h \in Handles
<1>1. \A i \in DOMAIN list : list[i] \in Entry
  BY ElementOfSeq, LenProperties DEF PInv, IInv, TypeOK
<1> QED
  BY <1>1 DEF Listed, OwnedIn, Entry

LEMMA LocalSuits ==
  ASSUME PInv, NEW p \in Pids, LocalAction(p), NEW m, Suits(m)
  PROVE  Suits(m)'
<1>1. m.pid \in Pids
  BY DEF Suits, Request
<1>2. \A q \in Pids : (at[q] = "opening" => at'[q] = "opening") /\ (at[q] = "starting" => at'[q] = "starting")
  BY LocalFacts
<1>3. \A q \in Pids : corked[q] /\ at[q] \notin {"granted", "marked"} =>
                        corked'[q] /\ at'[q] \notin {"granted", "marked"}
  BY LocalFacts
<1>4. \A q \in Pids : at'[q] \notin {"closed", "opening"} => at[q] \notin {"closed", "opening"}
  BY LocalFacts
<1>5. UNCHANGED <<list, how, handle>>
  BY LocalFacts DEF vars
<1> QED
  BY <1>1, <1>2, <1>3, <1>4, <1>5 DEF Suits, IsOpen, Listed

LEMMA LocalKeeps ==
  ASSUME PInv, NEW p \in Pids, LocalAction(p)
  PROVE  Queued' /\ Compared' /\ Lent' /\ ListExplained'
<1>1. UNCHANGED <<list, pc, cur, cursor, pass, updated, quiet, reply, inbox, held, how, handle, orphans>>
  BY LocalFacts DEF vars, walkVars, clientVars
<1>2. \A q \in Pids : IsOpen(q)' <=> IsOpen(q)
  BY LocalFacts DEF IsOpen
<1>3. Queued'
  <2>1. \A m, n : Follows(m, n)' <=> Follows(m, n)
    BY DEF Follows, Unanswered
  <2>2. \A m : Suits(m) => Suits(m)'
    BY LocalSuits
  <2>3. \A i \in DOMAIN inbox : Suits(inbox[i])
    BY DEF PInv, Queued
  <2>4. (\A i \in DOMAIN inbox : Suits(inbox[i]))'
    BY <1>1, <2>2, <2>3 DEF Suits, Listed, IsOpen
  <2>5. pc # "idle" => Suits(cur)
    BY DEF PInv, Queued
  <2>6. (pc # "idle" => Suits(cur))'
    BY <1>1, <2>2, <2>5 DEF Suits, Listed, IsOpen
  <2> QED
    BY <1>1, <2>1, <2>4, <2>6 DEF PInv, Queued, Follows, Unanswered
<1>4. Compared'
  BY <1>1, ComparedSame DEF walkVars
<1>5. Lent'
  BY <1>1, <1>2 DEF PInv, Lent, Given, Listed
<1>6. ListExplained'
  <2> SUFFICES ASSUME NEW q, NEW h, Listed(q, h)' PROVE Explained(q, h)'
    BY DEF ListExplained
  <2>1. Explained(q, h)
    BY <1>1 DEF PInv, ListExplained, Listed
  <2>2. q \in Pids
    BY <1>1, ListedTyped DEF Listed
  <2> QED
    BY <1>1, <1>2, <2>1, <2>2 DEF Explained, Leaving
<1> QED
  BY <1>3, <1>4, <1>5, <1>6
-----------------------------------------------------------------------------
(* ... and a stream that sends.                                            *)

\* Two instances with one handle are one.
LEMMA OneOwner ==
  ASSUME PInv, NEW p, NEW q, NEW h, Listed(p, h), Listed(q, h)
  PROVE  p = q
BY DEF PInv, IInv, HandlesUnique, Listed, OwnedIn

LEMMA SendingSuits ==
  ASSUME PInv, NEW p \in Pids, Sending(p), NEW m, Suits(m)
  PROVE  Suits(m)'
<1>1. m \in Request /\ m.pid \in Pids
  BY DEF Suits, Request
<1>2. UNCHANGED <<list, handle, corked>>
  BY SendingFacts
<1>3. \A q \in Pids : /\ at[q] \in {"opening", "starting"} => at'[q] = at[q] /\ how'[q] = how[q]
                      /\ at[q] \notin {"granted", "marked"} => at'[q] \notin {"granted", "marked"}
                      /\ at'[q] \notin {"closed", "opening"} => at[q] \notin {"closed", "opening"}
  BY SendingFacts
<1> QED
  BY <1>1, <1>2, <1>3 DEF Suits, IsOpen, Listed

\* A request that is sent says what its stream does.
LEMMA SentSuits ==
  ASSUME PInv, NEW p \in Pids, Sending(p), NEW m \in Request, m.pid = p,
         UNCHANGED <<list, handle, corked>>,
         \A q \in Pids : q # p => at'[q] = at[q],
         \/ /\ m.req = "REGISTER" /\ m.state = "NONE"
            /\ m.event = how'[p].event /\ at'[p] = "opening"
         \/ /\ m.req = "SETSTATE" /\ m.state = "PLAYING" /\ m.handle = handle[p]
            /\ at'[p] = "starting"
         \/ /\ m.req = "SETSTATE" /\ m.state = "STOP"
            /\ at[p] = "stopped" /\ at'[p] = "ready"
         \/ /\ m.req = "UNREGISTER" /\ m.handle = handle[p]
            /\ at[p] = "closing" /\ at'[p] = "closed"
  PROVE  Suits(m)'
<1>1. CASE m.req = "REGISTER"
  BY <1>1 DEF Suits
<1>2. CASE m.req = "SETSTATE" /\ m.state = "PLAYING"
  BY <1>2 DEF Suits
<1>3. CASE m.req = "SETSTATE" /\ m.state = "STOP"
  <2>1. corked[p]
    BY <1>3 DEF PInv, StreamInv, Silent
  <2> QED
    BY <1>3, <2>1 DEF Suits
<1>4. CASE m.req = "UNREGISTER"
  <2>1. at[p] = "closing" /\ at'[p] = "closed" /\ m.handle = handle[p]
    BY <1>4
  <2>2. Listed(p, handle[p])
    BY <2>1 DEF PInv, Lent, IsOpen
  <2>3. ASSUME NEW q \in Pids, IsOpen(q)' PROVE handle'[q] # m.handle
    <3>1. q # p /\ IsOpen(q)
      BY <2>1, <2>3 DEF IsOpen
    <3>2. Listed(q, handle[q])
      BY <3>1 DEF PInv, Lent
    <3> QED
      BY <2>1, <2>2, <3>1, <3>2, OneOwner
  <2>4. Listed(m.pid, m.handle)'
    BY <2>1, <2>2 DEF Listed
  <2> QED
    BY <1>4, <2>3, <2>4 DEF Suits
<1> QED
  BY <1>1, <1>2, <1>3, <1>4

\* Nobody gives up a handle that is given up already, or that the session manager gives away.
LEMMA GivesUpItsOwn ==
  ASSUME PInv, NEW p \in Pids, at[p] = "closing"
  PROVE  /\ \A i \in DOMAIN inbox :
              inbox[i].req \in {"REGISTER", "UNREGISTER"} => inbox[i].handle # handle[p]
         /\ pc # "idle" /\ cur.req \in {"REGISTER", "UNREGISTER"} => cur.handle # handle[p]
<1>1. IsOpen(p) /\ handle[p] \in Handles /\ NoHandle \notin Handles
  BY AsmAssumption DEF PInv, StreamTypes, IsOpen, Handles, NoHandle
<1>2. Listed(p, handle[p])
  BY <1>1 DEF PInv, Lent
<1>3. \A m : Suits(m) /\ m.req = "UNREGISTER" => m.handle # handle[p]
  BY <1>1 DEF Suits
<1>4. pc \in Comparing /\ cur.req = "REGISTER" => cur.handle # handle[p]
  <2> SUFFICES ASSUME pc \in Comparing, cur.req = "REGISTER", cur.handle = handle[p] PROVE FALSE
    OBVIOUS
  <2>1. handle[p] \in HandlesIn(list)
    BY <1>2 DEF Listed, OwnedIn, HandlesIn
  <2>2. updated
    BY <2>1, ComparingFacts DEF PInv
  <2>3. Listed(cur.pid, cur.handle)
    BY <2>2 DEF PInv, Compared
  <2>4. cur.pid = p
    BY <1>2, <2>3, OneOwner
  <2>5. pc # "idle" /\ at[cur.pid] = "opening"
    BY DEF Comparing, PInv, Queued, Suits
  <2> QED
    BY <2>4, <2>5
<1> QED
  BY <1>1, <1>3, <1>4 DEF PInv, Queued

LEMMA SendingKeeps ==
  ASSUME PInv, NEW p \in Pids, Sending(p)
  PROVE  Queued' /\ Compared' /\ Lent' /\ ListExplained'
<1>1. PICK m \in Request :
         /\ m.pid = p
         /\ inbox' = Append(inbox, m) /\ inbox' \in Seq(Request)
         /\ UNCHANGED <<list, statusVars, session, pc, cur, walkVars, alive, handle, corked, orphans>>
         /\ at' \in [Pids -> Places] /\ how' \in [Pids -> Ways]
         /\ \A q \in Pids : q # p => at'[q] = at[q] /\ how'[q] = how[q]
         /\ ~(\E i \in DOMAIN inbox : inbox[i].pid = p /\ ~Unanswered(inbox[i]))
         /\ pc # "idle" /\ cur.pid = p => Unanswered(cur)
         /\ \/ /\ m.req = "REGISTER" /\ m.state = "NONE" /\ m.handle = NoHandle
               /\ m.event = how'[p].event /\ at[p] = "closed" /\ at'[p] = "opening"
               /\ UNCHANGED held
            \/ /\ m.req = "SETSTATE" /\ m.state = "PLAYING" /\ m.handle = handle[p]
               /\ at[p] = "ready" /\ at'[p] = "starting" /\ UNCHANGED <<held, how>>
            \/ /\ m.req = "SETSTATE" /\ m.state = "STOP" /\ m.handle = handle[p]
               /\ at[p] = "stopped" /\ at'[p] = "ready" /\ UNCHANGED <<held, how>>
            \/ /\ m.req = "UNREGISTER" /\ m.handle = handle[p]
               /\ at[p] = "closing" /\ at'[p] = "closed"
               /\ held' = held \ {Given(p)} /\ UNCHANGED how
  BY SendingFacts
<1>2. inbox \in Seq(Request) /\ Len(inbox) \in Nat
  BY LenProperties DEF PInv, IInv, TypeOK
<1>3. /\ DOMAIN inbox = 1..Len(inbox) /\ DOMAIN inbox' = 1..(Len(inbox) + 1)
      /\ \A i \in DOMAIN inbox : inbox'[i] = inbox[i]
      /\ inbox'[Len(inbox) + 1] = m
  BY <1>1, <1>2
<1>4. \A i \in DOMAIN inbox' : (i \in DOMAIN inbox /\ inbox'[i] = inbox[i]) \/ (i = Len(inbox) + 1 /\ inbox'[i] = m)
  BY <1>2, <1>3
<1>5. Queued'
  <2>1. \A n : Suits(n) => Suits(n)'
    BY SendingSuits
  <2>2. Suits(m)'
    BY <1>1, SentSuits
  <2>3. \A n, k : Follows(n, k)' <=> Follows(n, k)
    BY DEF Follows, Unanswered
  <2>4. /\ \A i \in DOMAIN inbox : Follows(inbox[i], m)
        /\ pc # "idle" => Follows(cur, m)
    <3>1. m.req = "UNREGISTER" => m.handle = handle[p] /\ at[p] = "closing"
      BY <1>1
    <3> QED
      BY <1>1, <3>1, GivesUpItsOwn DEF Follows
  <2>5. /\ \A i \in DOMAIN inbox : Suits(inbox[i])
        /\ \A i, j \in DOMAIN inbox : i < j => Follows(inbox[i], inbox[j])
        /\ pc # "idle" => Suits(cur) /\ \A i \in DOMAIN inbox : Follows(cur, inbox[i])
        /\ \A i \in DOMAIN inbox : inbox[i].req = "REGISTER" => inbox[i].handle = NoHandle
        /\ pc \notin Comparing /\ pc # "idle" /\ cur.req = "REGISTER" => cur.handle = NoHandle
    BY DEF PInv, Queued
  <2>6. (\A i \in DOMAIN inbox : Suits(inbox[i]))'
    <3> SUFFICES ASSUME NEW i \in DOMAIN inbox' PROVE Suits(inbox[i])'
      OBVIOUS
    <3>1. CASE i \in DOMAIN inbox /\ inbox'[i] = inbox[i]
      <4>1. Suits(inbox[i])
        BY <2>5, <3>1
      <4> DEFINE n == inbox[i]
      <4> QED
        BY <1>1, <2>1, <3>1, <4>1 DEF Suits, Listed, IsOpen
    <3>2. CASE inbox'[i] = m
      BY <2>2, <3>2 DEF Suits, Listed, IsOpen
    <3> QED
      BY <1>4, <3>1, <3>2
  <2>7. (pc # "idle" => Suits(cur))'
    BY <1>1, <2>1, <2>5 DEF Suits, Listed, IsOpen
  <2>8. (\A i, j \in DOMAIN inbox : i < j => Follows(inbox[i], inbox[j]))'
    <3>1. ASSUME NEW i \in DOMAIN inbox', NEW j \in DOMAIN inbox', i < j
          PROVE  Follows(inbox'[i], inbox'[j])
      <4>1. i \in DOMAIN inbox /\ inbox'[i] = inbox[i]
        BY <1>2, <1>3, <3>1
      <4> QED
        BY <1>4, <2>4, <2>5, <3>1, <4>1
    <3> QED
      BY <3>1 DEF Follows, Unanswered
  <2>9. (pc # "idle" => \A i \in DOMAIN inbox : Follows(cur, inbox[i]))'
    <3>1. pc # "idle" => \A i \in DOMAIN inbox' : Follows(cur, inbox'[i])
      BY <1>4, <2>4, <2>5
    <3> QED
      BY <1>1, <3>1 DEF Follows, Unanswered
  <2>10. /\ (\A i \in DOMAIN inbox : inbox[i].req = "REGISTER" => inbox[i].handle = NoHandle)'
         /\ (pc \notin Comparing /\ pc # "idle" /\ cur.req = "REGISTER" => cur.handle = NoHandle)'
    BY <1>1, <1>4, <2>5
  <2> QED
    BY <2>6, <2>7, <2>8, <2>9, <2>10 DEF Queued
<1>6. Compared'
  BY <1>1, ComparedSame DEF walkVars
<1>7. Lent'
  <2> SUFFICES ASSUME NEW q \in Pids, IsOpen(q)' PROVE Given(q)' \in held' /\ Listed(q, handle[q])'
    BY DEF Lent
  <2>1. IsOpen(q) /\ how'[q] = how[q]
    BY <1>1 DEF IsOpen
  <2>2. Given(q) \in held /\ Listed(q, handle[q])
    BY <2>1 DEF PInv, Lent
  <2>3. Given(q)' = Given(q)
    BY <1>1, <2>1 DEF Given
  <2>4. at'[q] # "closed"
    BY DEF IsOpen
  <2>5. q # p => Given(q) # Given(p)
    BY DEF Given
  <2> QED
    BY <1>1, <2>2, <2>3, <2>4, <2>5 DEF Listed
<1>8. ListExplained'
  <2> SUFFICES ASSUME NEW q, NEW h, Listed(q, h)' PROVE Explained(q, h)'
    BY DEF ListExplained
  <2>1. Explained(q, h)
    BY <1>1 DEF PInv, ListExplained, Listed
  <2>2. q \in Pids
    BY <1>1, ListedTyped DEF Listed
  <2>3. CASE IsOpen(q) /\ h = handle[q]
    <3>1. CASE q = p /\ at[p] = "closing"
      <4>1. Len(inbox) + 1 \in DOMAIN inbox' /\ inbox'[Len(inbox) + 1] = m
        BY <1>2, <1>3
      <4>2. m.req = "UNREGISTER" /\ m.pid = q /\ m.handle = h
        BY <1>1, <2>3, <3>1
      <4>3. Leaving(q, h)'
        BY <4>1, <4>2 DEF Leaving
      <4> QED
        BY <4>3 DEF Explained
    <3>2. CASE q # p \/ at[p] # "closing"
      <4>1. IsOpen(q)' /\ h = handle'[q]
        BY <1>1, <2>2, <2>3, <3>2 DEF IsOpen
      <4> QED
        BY <4>1 DEF Explained
    <3> QED
      BY <3>1, <3>2
  <2>4. CASE Leaving(q, h)
    <3>1. Leaving(q, h)'
      BY <1>1, <1>2, <1>3, <2>4 DEF Leaving
    <3> QED
      BY <3>1 DEF Explained
  <2> QED
    BY <1>1, <2>1, <2>3, <2>4 DEF Explained
<1> QED
  BY <1>5, <1>6, <1>7, <1>8
-----------------------------------------------------------------------------
(* ... and the session manager.                                            *)

\* It goes on with its request, and no stream moves.
LEMMA FrameKeeps ==
  ASSUME PInv, Grows, UNCHANGED <<inbox, held, cur, how, at, handle, corked, orphans>>,
         pc # "idle", pc' # "idle", pc \in Comparing => pc' \in Comparing,
         pc' \notin Comparing => pc \notin Comparing
  PROVE  Queued' /\ Lent' /\ ListExplained'
<1>1. Queued'
  <2>1. \A m : Suits(m) => Suits(m)'
    BY DEF Suits, Grows, Listed, IsOpen
  <2>2. \A i \in DOMAIN inbox : Suits(inbox[i])
    BY DEF PInv, Queued
  <2>3. (\A i \in DOMAIN inbox : Suits(inbox[i]))'
    BY <2>1, <2>2 DEF Suits, Listed, IsOpen
  <2>4. Suits(cur)
    BY DEF PInv, Queued
  <2>5. Suits(cur)'
    BY <2>1, <2>4 DEF Suits, Listed, IsOpen
  <2> QED
    BY <2>3, <2>5 DEF PInv, Queued, Follows, Unanswered
<1>2. Lent'
  BY DEF PInv, Lent, IsOpen, Given, Listed, Grows
<1>3. ListExplained'
  <2> SUFFICES ASSUME NEW q, NEW h, Listed(q, h)' PROVE Explained(q, h)'
    BY DEF ListExplained
  <2>1. CASE Listed(q, h)
    BY <2>1 DEF PInv, ListExplained, Explained, IsOpen, Leaving
  <2>2. CASE pc \in Comparing /\ cur.req = "REGISTER" /\ cur.handle = h /\ cur.pid = q
    BY <2>2 DEF Explained
  <2>3. <<h, q>> \in OwnedIn(list')
    BY DEF Listed
  <2> QED
    BY <2>1, <2>2, <2>3 DEF Grows, Listed
<1> QED
  BY <1>1, <1>2, <1>3

\* The next request is looked at.
LEMMA AcceptOrders ==
  ASSUME PInv, Accept, UNCHANGED streamVars
  PROVE  Queued' /\ Lent' /\ ListExplained'
<1>1. /\ inbox \in Seq(Request) /\ inbox # << >> /\ pc = "idle"
      /\ cur' = Head(inbox) /\ inbox' = Tail(inbox)
      /\ pc' \in {"unregister", "emergent", "reap"}
      /\ UNCHANGED <<list, held, how, at, handle, corked, orphans>>
  BY DEF Accept, PInv, IInv, TypeOK, streamVars
<1>2. /\ 1 \in DOMAIN inbox /\ cur' = inbox[1]
      /\ \A i \in DOMAIN inbox' : i + 1 \in DOMAIN inbox /\ 1 < i + 1 /\ inbox'[i] = inbox[i + 1]
      /\ \A i, j \in DOMAIN inbox' : i < j => i + 1 < j + 1
  BY <1>1, HeadTailProperties, EmptySeq, LenProperties
<1>3. \A i \in DOMAIN inbox : i = 1 \/ (i - 1 \in DOMAIN inbox' /\ inbox'[i - 1] = inbox[i])
  BY <1>1, HeadTailProperties, EmptySeq, LenProperties
<1>4. Queued'
  <2>1. \A m : Suits(m) => Suits(m)'
    BY <1>1 DEF Suits, Listed, IsOpen
  <2>2. /\ \A i \in DOMAIN inbox : Suits(inbox[i])
        /\ \A i, j \in DOMAIN inbox : i < j => Follows(inbox[i], inbox[j])
        /\ \A i \in DOMAIN inbox : inbox[i].req = "REGISTER" => inbox[i].handle = NoHandle
    BY DEF PInv, Queued
  <2>3. /\ \A i \in DOMAIN inbox' : Suits(inbox'[i])
        /\ Suits(inbox[1])
    BY <1>2, <2>2
  <2>4. (\A i \in DOMAIN inbox : Suits(inbox[i]))' /\ Suits(cur)'
    <3>1. Suits(cur')
      BY <1>2, <2>3
    <3>2. ASSUME NEW i \in DOMAIN inbox' PROVE Suits(inbox[i])'
      <4>1. Suits(inbox'[i]) /\ UNCHANGED <<list, how, at, handle, corked>>
        BY <1>1, <2>3
      <4> QED
        BY <4>1 DEF Suits, Listed, IsOpen
    <3>3. Suits(cur)'
      BY <1>1, <3>1 DEF Suits, Listed, IsOpen
    <3> QED
      BY <3>2, <3>3
  <2>5. /\ \A i, j \in DOMAIN inbox' : i < j => Follows(inbox'[i], inbox'[j])
        /\ \A i \in DOMAIN inbox' : Follows(cur', inbox'[i])
        /\ \A i \in DOMAIN inbox' : inbox'[i].req = "REGISTER" => inbox'[i].handle = NoHandle
        /\ cur'.req = "REGISTER" => cur'.handle = NoHandle
    BY <1>2, <2>2
  <2> QED
    BY <1>1, <2>4, <2>5 DEF Queued, Follows, Unanswered
<1>5. Lent'
  BY <1>1 DEF PInv, Lent, IsOpen, Given, Listed
<1>6. ListExplained'
  <2> SUFFICES ASSUME NEW q, NEW h, Listed(q, h)' PROVE Explained(q, h)'
    BY DEF ListExplained
  <2>1. Explained(q, h)
    BY <1>1 DEF PInv, ListExplained, Listed
  <2>2. pc \notin Comparing
    BY <1>1 DEF Comparing
  <2>3. Leaving(q, h) => Leaving(q, h)'
    BY <1>1, <1>2, <1>3 DEF Leaving
  <2> QED
    BY <1>1, <2>1, <2>2, <2>3 DEF Explained, IsOpen
<1> QED
  BY <1>4, <1>5, <1>6

\* A comparison begins; the handle of a registration is nobody's.
LEMMA DispatchOrders ==
  ASSUME PInv, DispatchRegister \/ DispatchPlay, UNCHANGED streamVars
  PROVE  Queued' /\ Lent' /\ ListExplained'
<1>1. /\ pc = "dispatch" /\ pc' \in {"walk", "walked"}
      /\ UNCHANGED <<list, inbox, held, how, at, handle, corked, orphans>>
  BY DEF DispatchRegister, DispatchPlay, StartCompare, streamVars, clientVars
<1>2. cur \in Request /\ Suits(cur)
  BY <1>1 DEF PInv, Queued, Suits
<1>3. PICK h \in Handles \cup {NoHandle} :
        /\ cur' = [cur EXCEPT !.handle = h]
        /\ cur.req = "REGISTER" => h \notin HandlesIn(list)
        /\ cur.req # "REGISTER" => h = cur.handle
  BY <1>2 DEF DispatchRegister, DispatchPlay, StartCompare, FreeHandles, Request
<1>4. /\ cur' \in Request /\ cur'.handle = h
      /\ cur'.pid = cur.pid /\ cur'.req = cur.req /\ cur'.state = cur.state /\ cur'.event = cur.event
  BY <1>2, <1>3 DEF Request
<1>5. cur.req = "REGISTER" \/ (cur.req = "SETSTATE" /\ cur.state = "PLAYING")
  BY DEF DispatchRegister, DispatchPlay
<1>6. Queued'
  <2>1. \A m : Suits(m) => Suits(m)'
    BY <1>1 DEF Suits, Listed, IsOpen
  <2>2. /\ \A i \in DOMAIN inbox : Suits(inbox[i])
        /\ \A i \in DOMAIN inbox : Follows(cur, inbox[i])
    BY <1>1 DEF PInv, Queued
  <2>3. (\A i \in DOMAIN inbox : Suits(inbox[i]))'
    BY <1>1, <2>1, <2>2 DEF Suits, Listed, IsOpen
  <2>4. Suits(cur)'
    BY <1>1, <1>2, <1>3, <1>4, <1>5 DEF Suits
  <2>5. \A i \in DOMAIN inbox : Follows(cur', inbox[i])
    <3> SUFFICES ASSUME NEW i \in DOMAIN inbox, cur.req = "REGISTER", inbox[i].req = "UNREGISTER"
                 PROVE  inbox[i].handle # h
      BY <1>3, <1>4, <1>5, <2>2 DEF Follows, Unanswered
    <3>1. Listed(inbox[i].pid, inbox[i].handle)
      BY <2>2 DEF Suits
    <3> QED
      BY <1>3, <3>1 DEF Listed, OwnedIn, HandlesIn
  <2> QED
    BY <1>1, <2>3, <2>4, <2>5 DEF PInv, Queued, Follows, Unanswered, Comparing
<1>7. Lent'
  BY <1>1 DEF PInv, Lent, IsOpen, Given, Listed
<1>8. ListExplained'
  <2> SUFFICES ASSUME NEW q, NEW g, Listed(q, g)' PROVE Explained(q, g)'
    BY DEF ListExplained
  <2>1. Explained(q, g)
    BY <1>1 DEF PInv, ListExplained, Listed
  <2> QED
    BY <1>1, <1>4, <1>5, <2>1 DEF Explained, IsOpen, Leaving, Comparing
<1> QED
  BY <1>6, <1>7, <1>8

\* An instance goes that its stream has given up.
LEMMA UnregisterOrders ==
  ASSUME PInv, DoUnregister, UNCHANGED streamVars
  PROVE  Queued' /\ Lent' /\ ListExplained'
<1>1. /\ pc = "unregister" /\ pc' = "idle" /\ UNCHANGED <<inbox, held, how, at, handle, corked, orphans>>
      /\ cur.req = "UNREGISTER" /\ Suits(cur) /\ pc \notin Comparing
  BY DEF DoUnregister, Idle, clientVars, streamVars, PInv, Compared, Queued, Comparing
<1>2. OwnedIn(list') = OwnedIn(list) \ {<<cur.handle, cur.pid>>}
  BY DoUnregisterList
<1>3. Queued'
  <2>1. \A i \in DOMAIN inbox : Suits(inbox[i]) /\ Follows(cur, inbox[i])
    BY <1>1 DEF PInv, Queued
  <2>2. \A m : Suits(m) /\ Follows(cur, m) => Suits(m)'
    BY <1>1, <1>2 DEF Suits, Follows, Listed, IsOpen
  <2>3. (\A i \in DOMAIN inbox : Suits(inbox[i]))'
    BY <1>1, <2>1, <2>2 DEF Suits, Listed, IsOpen
  <2> QED
    BY <1>1, <2>3 DEF PInv, Queued, Follows, Unanswered
<1>4. Lent'
  BY <1>1, <1>2 DEF PInv, Lent, Suits, IsOpen, Given, Listed
<1>5. ListExplained'
  <2> SUFFICES ASSUME NEW q, NEW h, Listed(q, h)' PROVE Explained(q, h)'
    BY DEF ListExplained
  <2>1. Listed(q, h) /\ ~(h = cur.handle /\ q = cur.pid)
    BY <1>2 DEF Listed
  <2>2. Explained(q, h)
    BY <2>1 DEF PInv, ListExplained
  <2> QED
    BY <1>1, <2>1, <2>2 DEF Explained, IsOpen, Leaving
<1> QED
  BY <1>3, <1>4, <1>5
-----------------------------------------------------------------------------
(* The answers.                                                            *)

\* Where the stream goes whose request is answered.
Moves ==
  \/ /\ cur.req = "REGISTER" /\ at[cur.pid] = "opening" /\ at'[cur.pid] = "ready"
     /\ handle'[cur.pid] = cur.handle /\ <<cur.handle, cur.pid>> \in OwnedIn(list')
     /\ [pid |-> cur.pid, handle |-> cur.handle, event |-> how'[cur.pid].event] \in held'
     /\ UNCHANGED orphans
  \/ /\ cur.req = "REGISTER" /\ at[cur.pid] = "opening" /\ at'[cur.pid] = "closed"
     /\ orphans' = orphans \cup {cur.handle} \/ (pc \notin Comparing /\ UNCHANGED orphans)
  \/ /\ cur.req = "SETSTATE" /\ cur.state = "PLAYING" /\ at[cur.pid] = "starting"
     /\ at'[cur.pid] \in {"ready", "granted"} /\ UNCHANGED <<handle, orphans>>
  \/ cur.req = "SETSTATE" /\ cur.state = "STOP" /\ UNCHANGED <<at, handle, orphans>>

LEMMA OpenedFacts ==
  ASSUME PInv, Finish, cur.req = "REGISTER", Opened(cur.pid), UNCHANGED how
  PROVE  /\ at' \in [Pids -> Places] /\ handle' \in [Pids -> Handles] /\ orphans' \subseteq Handles
         /\ \A q \in Pids : q # cur.pid => at'[q] = at[q] /\ handle'[q] = handle[q]
         /\ held \subseteq held' /\ Moves
<1>1. pc = "finish" /\ pc \in Comparing
  BY DEF Finish, Comparing
<1>2. cur \in Request /\ cur.pid \in Pids /\ cur.handle \in Handles
  BY <1>1, ComparedFacts
<1>3. reply.alloc = cur.handle
  BY <1>1 DEF PInv, IInv, ComparisonAnswers, WalkInv
<1>4. /\ held' = held \cup {[pid |-> cur.pid, handle |-> cur.handle, event |-> cur.event]}
      /\ <<cur.handle, cur.pid>> \in OwnedIn(list')
  BY <1>2, <1>3, FinishList DEF Finish, Learn, PInv
<1>5. at[cur.pid] = "opening" /\ cur.event = how[cur.pid].event
  BY <1>1 DEF PInv, Queued, Suits
<1>6. /\ at \in [Pids -> Places] /\ handle \in [Pids -> Handles] /\ orphans \subseteq Handles
  BY DEF PInv, StreamTypes
<1>7. /\ handle' \in [Pids -> Handles] /\ handle'[cur.pid] = cur.handle
      /\ \A q \in Pids : q # cur.pid => handle'[q] = handle[q]
  BY <1>2, <1>3, <1>6 DEF Opened
<1>8. held \subseteq held' /\ [pid |-> cur.pid, handle |-> cur.handle, event |-> how'[cur.pid].event] \in held'
  BY <1>4, <1>5
<1>9. CASE at' = [at EXCEPT ![cur.pid] = "ready"] /\ UNCHANGED orphans
  <2>1. /\ at' \in [Pids -> Places] /\ at'[cur.pid] = "ready"
        /\ \A q \in Pids : q # cur.pid => at'[q] = at[q]
    BY <1>2, <1>6, <1>9 DEF Places
  <2> QED
    BY <1>2, <1>4, <1>5, <1>6, <1>7, <1>8, <1>9, <2>1 DEF Moves
<1>10. CASE at' = [at EXCEPT ![cur.pid] = "closed"] /\ orphans' = orphans \cup {reply.alloc}
  <2>1. /\ at' \in [Pids -> Places] /\ at'[cur.pid] = "closed"
        /\ \A q \in Pids : q # cur.pid => at'[q] = at[q]
    BY <1>2, <1>6, <1>10 DEF Places
  <2> QED
    BY <1>2, <1>3, <1>5, <1>6, <1>7, <1>8, <1>10, <2>1 DEF Moves
<1> QED
  BY <1>9, <1>10 DEF Opened

LEMMA StartAnsweredFacts ==
  ASSUME PInv, pc # "idle", cur.req = "SETSTATE", cur.state = "PLAYING",
         NEW granted \in BOOLEAN, StartAnswered(cur.pid, granted)
  PROVE  /\ at' \in [Pids -> Places] /\ UNCHANGED <<handle, orphans>>
         /\ \A q \in Pids : q # cur.pid => at'[q] = at[q]
         /\ at[cur.pid] = "starting" /\ at'[cur.pid] = (IF granted THEN "granted" ELSE "ready")
         /\ Moves
<1>1. cur.pid \in Pids /\ at[cur.pid] = "starting"
  BY DEF PInv, Queued, Suits, Request
<1>2. at \in [Pids -> Places]
  BY DEF PInv, StreamTypes
<1> QED
  BY <1>1, <1>2 DEF StartAnswered, Moves, Places

\* What an answer changes for the streams.
LEMMA AnswerFacts ==
  ASSUME PInv, FinishRequest \/ OpenRefused \/ SetState
  PROVE  /\ pc # "idle" /\ pc' = "idle" /\ UNCHANGED <<inbox, alive, how, corked>> /\ Idle
         /\ cur \in Request /\ cur.pid \in Pids
         /\ at' \in [Pids -> Places] /\ handle' \in [Pids -> Handles] /\ orphans' \subseteq Handles
         /\ \A q \in Pids : q # cur.pid => at'[q] = at[q] /\ handle'[q] = handle[q]
         /\ Grows /\ held \subseteq held' /\ Moves
<1> USE DEF Idle
<1>1. ASSUME pc # "idle" PROVE cur \in Request /\ cur.pid \in Pids /\ Suits(cur)
  BY <1>1 DEF PInv, Queued, Suits, Request
<1>2. at \in [Pids -> Places] /\ handle \in [Pids -> Handles] /\ orphans \subseteq Handles
  BY DEF PInv, StreamTypes
<1>3. CASE FinishRequest
  <2>1. /\ pc = "finish" /\ pc \in Comparing /\ pc # "idle" /\ Finish /\ Grows
        /\ UNCHANGED <<inbox, alive, how, corked>> /\ held' = Learn
    BY <1>3, FinishList DEF FinishRequest, Finish, Comparing
  <2>2. CASE cur.req = "REGISTER" /\ Opened(cur.pid)
    BY <1>1, <2>1, <2>2, OpenedFacts DEF Finish
  <2>3. CASE cur.req = "SETSTATE" /\ StartAnswered(cur.pid, reply.cmd # "STOP")
    <3>1. cur.state = "PLAYING"
      BY <2>1, <2>3 DEF PInv, Compared
    <3>2. held' = held
      BY <2>1, <2>3 DEF Learn
    <3> QED
      BY <1>1, <1>2, <2>1, <2>3, <3>1, <3>2, StartAnsweredFacts DEF Finish
  <2> QED
    BY <1>3, <2>2, <2>3 DEF FinishRequest
<1>4. CASE OpenRefused
  <2>1. /\ pc = "dispatch" /\ pc # "idle" /\ cur.req = "REGISTER" /\ pc \notin Comparing /\ Idle
        /\ UNCHANGED <<inbox, alive, how, corked, handle, orphans, held, list>>
        /\ at' = [at EXCEPT ![cur.pid] = "closed"]
    BY <1>4 DEF OpenRefused, RegisterFull, Comparing, clientVars
  <2>2. at[cur.pid] = "opening"
    BY <1>1, <2>1 DEF Suits
  <2> QED
    BY <1>1, <1>2, <2>1, <2>2 DEF Moves, Grows, Places
<1>5. CASE SetState
  <2>1. /\ pc = "dispatch" /\ pc # "idle" /\ cur.req = "SETSTATE" /\ SetStateDirectly /\ Idle
        /\ UNCHANGED <<inbox, alive, how, corked, held>>
    BY <1>5 DEF SetState, SetStateDirectly, clientVars
  <2>2. Grows
    BY <2>1, SetStateList DEF Grows
  <2>3. CASE cur.state = "PLAYING" /\ StartAnswered(cur.pid, TRUE)
    BY <1>1, <1>2, <2>1, <2>2, <2>3, StartAnsweredFacts
  <2>4. CASE cur.state = "STOP" /\ UNCHANGED <<at, missed, handle, orphans>>
    BY <1>1, <1>2, <2>1, <2>2, <2>4 DEF Moves
  <2> QED
    BY <1>5, <2>3, <2>4 DEF SetState
<1> QED
  BY <1>3, <1>4, <1>5

LEMMA AnswerOrders ==
  ASSUME PInv, FinishRequest \/ OpenRefused \/ SetState
  PROVE  Queued' /\ Lent' /\ ListExplained'
<1>1. /\ pc # "idle" /\ pc' = "idle" /\ UNCHANGED <<inbox, how, corked>>
      /\ cur \in Request /\ cur.pid \in Pids
      /\ \A q \in Pids : q # cur.pid => at'[q] = at[q] /\ handle'[q] = handle[q]
      /\ Grows /\ held \subseteq held' /\ Moves
  BY AnswerFacts
<1>2. \A q \in Pids : IsOpen(q) => IsOpen(q)' /\ handle'[q] = handle[q]
  BY <1>1 DEF Moves, IsOpen
<1>3. \A q \in Pids : IsOpen(q)' =>
        \/ IsOpen(q) /\ handle'[q] = handle[q]
        \/ q = cur.pid /\ cur.req = "REGISTER" /\ handle'[q] = cur.handle
  BY <1>1 DEF Moves, IsOpen
<1>4. Queued'
  <2>1. \A i \in DOMAIN inbox : Suits(inbox[i]) /\ Follows(cur, inbox[i])
    BY <1>1 DEF PInv, Queued
  <2>2. ASSUME NEW m, Suits(m), Follows(cur, m) PROVE Suits(m)'
    <3>1. m \in Request /\ m.pid \in Pids
      BY <2>2 DEF Suits, Request
    <3>2. m.pid # cur.pid \/ UNCHANGED <<at, handle>>
      BY <1>1, <2>2 DEF Follows, Moves, Unanswered
    <3>3. at'[m.pid] = at[m.pid] /\ handle'[m.pid] = handle[m.pid]
      BY <1>1, <3>1, <3>2
    <3>4. CASE m.req = "UNREGISTER"
      <4>1. Listed(m.pid, m.handle)'
        BY <1>1, <2>2, <3>4 DEF Suits, Listed, Grows
      <4>2. \A q \in Pids : IsOpen(q)' => handle'[q] # m.handle
        BY <1>3, <2>2, <3>4 DEF Suits, Follows
      <4> QED
        BY <3>1, <3>4, <4>1, <4>2 DEF Suits
    <3>5. CASE m.req # "UNREGISTER"
      BY <1>1, <2>2, <3>1, <3>3, <3>5 DEF Suits
    <3> QED
      BY <3>4, <3>5
  <2>3. (\A i \in DOMAIN inbox : Suits(inbox[i]))'
    BY <1>1, <2>1, <2>2 DEF Suits, Listed, IsOpen
  <2> QED
    BY <1>1, <2>3 DEF PInv, Queued, Follows, Unanswered
<1>5. Lent'
  <2> SUFFICES ASSUME NEW q \in Pids, IsOpen(q)' PROVE Given(q)' \in held' /\ Listed(q, handle[q])'
    BY DEF Lent
  <2>1. CASE IsOpen(q) /\ handle'[q] = handle[q]
    BY <1>1, <2>1 DEF PInv, Lent, Given, Listed, Grows
  <2>2. CASE ~IsOpen(q)
    <3>1. q = cur.pid /\ cur.req = "REGISTER" /\ at'[q] = "ready"
      BY <1>1, <1>3, <2>2 DEF Moves, IsOpen
    <3>2. /\ handle'[q] = cur.handle /\ <<cur.handle, q>> \in OwnedIn(list')
          /\ [pid |-> q, handle |-> cur.handle, event |-> how'[q].event] \in held'
      BY <1>1, <3>1 DEF Moves
    <3> QED
      BY <3>2 DEF Given, Listed
  <2> QED
    BY <1>2, <2>1, <2>2
<1>6. ListExplained'
  <2> SUFFICES ASSUME NEW q, NEW h, Listed(q, h)' PROVE Explained(q, h)'
    BY DEF ListExplained
  <2>1. Listed(q, h) \/ (pc \in Comparing /\ cur.req = "REGISTER" /\ cur.pid = q /\ cur.handle = h)
    BY <1>1 DEF Grows, Listed
  <2>2. q \in Pids
    BY <1>1, <2>1, ListedTyped
  <2>3. CASE pc \in Comparing /\ cur.req = "REGISTER" /\ cur.pid = q /\ cur.handle = h
    BY <1>1, <2>3 DEF Moves, Explained, IsOpen
  <2>4. CASE h \in orphans
    BY <1>1, <2>4 DEF Moves, Explained
  <2>5. CASE IsOpen(q) /\ h = handle[q]
    BY <1>2, <2>2, <2>5 DEF Explained
  <2>6. CASE Leaving(q, h)
    BY <1>1, <2>6 DEF Moves, Explained, Leaving
  <2>7. Listed(q, h) => Explained(q, h)
    BY DEF PInv, ListExplained
  <2> QED
    BY <2>1, <2>3, <2>4, <2>5, <2>6, <2>7 DEF Explained
<1> QED
  BY <1>4, <1>5, <1>6

\* Whatever the session manager does, the requests stay in order and the list explained.
LEMMA ManagerOrders ==
  ASSUME PInv, \/ SessionManager
               \/ \E p \in Pids : HandlerAnswers(p) /\ Returned("PAUSE")
  PROVE  Queued' /\ Compared' /\ Lent' /\ ListExplained'
<1>1. CASE FinishRequest \/ OpenRefused \/ SetState
  <2>1. Compared'
    BY <1>1, AnswerFacts, ComparedIdle
  <2> QED
    BY <1>1, <2>1, AnswerOrders
<1>2. CASE Internal
  <2>1. UNCHANGED streamVars
    BY <1>2 DEF Internal
  <2>2. CASE ReapDone \/ WalkSkip \/ WalkPass \/ WalkRefuse \/ WalkEnd \/ StartPausedPass
    <3>1. /\ pc # "idle" /\ pc' # "idle" /\ pc # "unregister"
          /\ pc \in Comparing => pc' \in Comparing
          /\ pc' \notin Comparing => pc \notin Comparing
          /\ UNCHANGED <<inbox, held, cur>>
      BY <2>2 DEF ReapDone, WalkSkip, WalkPass, WalkRefuse, WalkEnd, StartPausedPass, Walking,
         Comparing, clientVars
    <3>2. Grows
      BY <1>2, <3>1, InternalList
    <3> QED
      BY <1>2, <2>1, <3>1, <3>2, FrameKeeps, ComparedInternal DEF streamVars
  <2> QED
    BY <1>2, <2>1, <2>2, AcceptOrders, DispatchOrders, UnregisterOrders, ComparedInternal DEF Internal
<1>3. CASE Interrupt
  <2>1. /\ pc = "walk" /\ pc' \in {"monitor", "worker"}
        /\ UNCHANGED <<list, inbox, held, cur, how, at, handle, corked, orphans>>
    BY <1>3 DEF Interrupt, WalkInterrupt, Walking, CallBackPc, clientVars
  <2>2. Grows
    BY <2>1 DEF Grows
  <2> QED
    BY <1>3, <2>1, <2>2, FrameKeeps, ComparedInterrupt DEF Comparing
<1>4. ASSUME NEW res, Returned(res), UNCHANGED <<how, at, handle, corked, orphans>>
      PROVE  Queued' /\ Compared' /\ Lent' /\ ListExplained'
  <2>1. pc = "worker" /\ pc' \in {"walk", "pausedWalk"} /\ UNCHANGED <<inbox, held, cur>>
    BY <1>4 DEF Returned, WorkerReturned, PausedReturned, clientVars
  <2> QED
    BY <1>4, <2>1, FrameKeeps, ReturnedList, ComparedReturned DEF Comparing
<1>5. CASE GivesUp
  BY <1>4, <1>5 DEF GivesUp, CallbackTimedOut, CallbackFailed
<1>6. CASE \E p \in Pids : HandlerAnswers(p) /\ Returned("PAUSE")
  BY <1>4, <1>6 DEF HandlerAnswers
<1> QED
  BY <1>1, <1>2, <1>3, <1>5, <1>6 DEF SessionManager
-----------------------------------------------------------------------------
(* The types, and the monitors that are not there.                         *)

LEMMA ManagerNames ==
  ASSUME PInv, \/ SessionManager
               \/ \E p \in Pids : HandlerAnswers(p) /\ Returned("PAUSE")
  PROVE  "MONITOR" \notin Named(list') /\ pc' # "monitor"
<1>1. "MONITOR" \notin Named(list) /\ pc # "monitor"
  BY DEF PInv, NoMonitors
<1>2. pc \in Comparing /\ cur.req = "REGISTER" => cur.event # "MONITOR"
  <2>1. pc \in Comparing /\ cur.req = "REGISTER" => cur.event = how[cur.pid].event /\ cur.pid \in Pids
    BY DEF PInv, Queued, Suits, Comparing, Request
  <2> QED
    BY <2>1 DEF PInv, NoMonitors
<1>3. Grows => "MONITOR" \notin Named(list')
  BY <1>1, <1>2 DEF Grows
<1>4. CASE FinishRequest \/ OpenRefused \/ SetState
  BY <1>3, <1>4, AnswerFacts
<1>5. CASE Internal
  <2>1. pc' # "monitor"
    BY <1>1, <1>5 DEF Internal, Accept, DoUnregister, Idle, ReapDone, DispatchRegister, DispatchPlay,
         StartCompare, WalkSkip, WalkPass, WalkRefuse, WalkEnd, StartPausedPass
  <2>2. CASE DoUnregister
    BY <1>1, <2>1, <2>2, DoUnregisterList
  <2>3. CASE pc # "unregister"
    BY <1>3, <1>5, <2>1, <2>3, InternalList
  <2> QED
    BY <1>5, <2>2, <2>3
       DEF Internal, Accept, ReapDone, DispatchRegister, DispatchPlay, WalkSkip, WalkPass, WalkRefuse,
         WalkEnd, StartPausedPass, Walking
<1>6. CASE Interrupt
  <2>1. list' = list /\ pc' = CallBackPc(Visited)
    BY <1>6 DEF Interrupt, WalkInterrupt
  <2>2. \A q : MonitorOf(list, q) = {}
    BY <1>1 DEF MonitorOf, FirstIn, Named
  <2> QED
    BY <1>1, <2>1, <2>2 DEF CallBackPc, HasCleanMonitor
<1>7. ASSUME NEW res, Returned(res)
      PROVE  "MONITOR" \notin Named(list') /\ pc' # "monitor"
  BY <1>3, <1>7, ReturnedList DEF Returned, WorkerReturned, PausedReturned
<1> QED
  BY <1>4, <1>5, <1>6, <1>7 DEF SessionManager, GivesUp, CallbackTimedOut, CallbackFailed

LEMMA NoMonitorsKept ==
  ASSUME PInv, PcmNext
  PROVE  NoMonitors'
<1>1. NoMonitors
  BY DEF PInv
<1>2. ASSUME NEW p \in Pids, LocalAction(p) PROVE NoMonitors'
  BY <1>1, <1>2, LocalFacts DEF NoMonitors, vars
<1>3. ASSUME NEW p \in Pids, Sending(p) PROVE NoMonitors'
  <2>1. UNCHANGED <<list, pc>>
    BY <1>3, SendingFacts
  <2>2. \A q \in Pids : how'[q].event # "MONITOR"
    <3>1. CASE UNCHANGED how
      BY <1>1, <3>1 DEF NoMonitors
    <3>2. CASE Open(p)
      <4>1. PICK o \in Opens[p] : how' = [how EXCEPT ![p] = o]
        BY <3>2 DEF Open
      <4>2. o.event # "MONITOR"
        BY PcmAssumption
      <4>3. how \in [Pids -> Ways]
        BY DEF PInv, StreamTypes
      <4>4. \A q \in Pids : how'[q] = IF q = p THEN o ELSE how[q]
        BY <4>1, <4>3
      <4> QED
        BY <1>1, <4>2, <4>4 DEF NoMonitors
    <3> QED
      BY <1>3, <3>1, <3>2 DEF Sending, Start, StopTell, CloseUnregister
  <2> QED
    BY <1>1, <2>1, <2>2 DEF NoMonitors
<1>4. CASE SessionManager \/ \E p \in Pids : HandlerAnswers(p) /\ Returned("PAUSE")
  <2>1. UNCHANGED how
    BY <1>4 DEF SessionManager, FinishRequest, OpenRefused, SetState, Interrupt, GivesUp, Internal,
         HandlerAnswers, streamVars
  <2> QED
    BY <1>1, <1>4, <2>1, ManagerNames DEF NoMonitors
<1> QED
  BY <1>2, <1>3, <1>4, Kinds DEF SessionManager

LEMMA StreamTypesKept ==
  ASSUME PInv, PcmNext
  PROVE  StreamTypes' /\ alive' = Pids
<1> USE DEF StreamTypes
<1>0. StreamTypes /\ alive = Pids /\ MaxUnread \in Nat
  BY PcmAssumption DEF PInv
<1>1. ASSUME NEW p \in Pids, LocalAction(p) PROVE StreamTypes' /\ alive' = Pids
  <2>1. /\ UNCHANGED <<how, handle, orphans, alive>> /\ at' \in [Pids -> Places]
        /\ corked' \in [Pids -> BOOLEAN]
    BY <1>1, LocalFacts DEF vars, clientVars
  <2>2. CASE StartMark(p) \/ StartUncork(p) \/ Stop(p) \/ StopMark(p) \/ StopCork(p) \/ Close(p)
    BY <1>0, <2>1, <2>2 DEF StartMark, StartUncork, Stop, StopMark, StopCork, Close
  <2>3. CASE HandlerChecks(p)
    <3>1. asked[p] - 1 \in 0 .. MaxUnread
      BY <1>0, <2>3 DEF HandlerChecks
    <3> QED
      BY <1>0, <2>1, <2>3, <3>1 DEF HandlerChecks, Handling
  <2>4. CASE HandlerMarks(p) \/ HandlerCorks(p) \/ HandlerStrays(p)
    BY <1>0, <2>1, <2>4 DEF HandlerMarks, HandlerCorks, HandlerStrays, Handling
  <2>5. CASE HandlerAnswers(p) /\ UNCHANGED vars
    BY <1>0, <2>1, <2>5 DEF HandlerAnswers, Handling
  <2> QED
    BY <1>1, <2>2, <2>3, <2>4, <2>5 DEF LocalAction
<1>2. ASSUME NEW p \in Pids, Sending(p) PROVE StreamTypes' /\ alive' = Pids
  <2>1. /\ UNCHANGED <<handle, corked, orphans, alive>> /\ at' \in [Pids -> Places]
        /\ how' \in [Pids -> Ways]
    BY <1>2, SendingFacts
  <2>2. CASE Open(p) \/ Start(p) \/ StopTell(p)
    BY <1>0, <2>1, <2>2 DEF Open, Start, StopTell
  <2>3. CASE CloseUnregister(p)
    BY <1>0, <2>1, <2>3 DEF CloseUnregister, Handling
  <2> QED
    BY <1>2, <2>2, <2>3 DEF Sending
<1>3. CASE FinishRequest \/ OpenRefused \/ SetState
  <2>1. /\ UNCHANGED <<how, corked, alive>> /\ at' \in [Pids -> Places]
        /\ handle' \in [Pids -> Handles] /\ orphans' \subseteq Handles /\ cur.pid \in Pids
    BY <1>3, AnswerFacts
  <2> QED
    BY <1>0, <1>3, <2>1 DEF FinishRequest, OpenRefused, SetState, StartAnswered
<1>4. CASE Internal
  BY <1>0, <1>4
     DEF Internal, streamVars, Accept, DoUnregister, ReapDone, DispatchRegister, DispatchPlay,
         StartCompare, WalkSkip, WalkPass, WalkRefuse, WalkEnd, StartPausedPass, clientVars
<1>5. CASE Interrupt
  <2>1. asked[Visited.pid] < MaxUnread /\ Visited.pid \in Pids => asked[Visited.pid] + 1 \in 0 .. MaxUnread
    BY <1>0
  <2> QED
    BY <1>0, <1>5, <2>1 DEF Interrupt, WalkInterrupt, clientVars
<1>6. ASSUME NEW res, Returned(res) PROVE alive' = Pids
  BY <1>0, <1>6 DEF Returned, WorkerReturned, PausedReturned, clientVars
<1>7. CASE GivesUp
  BY <1>0, <1>6, <1>7 DEF GivesUp, CallbackTimedOut, CallbackFailed
<1>8. ASSUME NEW p \in Pids, HandlerAnswers(p), Returned("PAUSE") PROVE StreamTypes' /\ alive' = Pids
  BY <1>0, <1>6, <1>8 DEF HandlerAnswers, Handling
<1> QED
  BY <1>1, <1>2, <1>3, <1>4, <1>5, <1>7, <1>8, Kinds
-----------------------------------------------------------------------------
(* The two threads of a stream.                                            *)

Kept(q) == Silent(q) /\ (~missed[q] => InTime(q))

\* Nothing happens to q.
SameFor(q) ==
  /\ at'[q] = at[q] /\ handle'[q] = handle[q] /\ started'[q] = started[q] /\ corked'[q] = corked[q]
  /\ asked'[q] = asked[q] /\ handler'[q] = handler[q] /\ stale'[q] = stale[q]
  /\ missed'[q] = missed[q]

LEMMA StreamFrame ==
  ASSUME PInv, NEW q \in Pids, SameFor(q),
         ~missed[q] => Undisturbed(q) \/ (pc' \in Returning /\ Visited'.pid = q),
         Undisturbed(q) /\ (at[q] \in {"granted", "marked"} \/ Audible(q)) /\ Playing(q, handle[q]) =>
           <<handle[q], q>> \in PlayingIn(list')
  PROVE  Kept(q)'
<1>1. Kept(q)
  BY DEF PInv, StreamInv, Kept
<1>2. Silent(q)'
  BY <1>1 DEF Kept, Silent, SameFor
<1>3. ASSUME ~missed'[q] PROVE InTime(q)'
  <2>1. InTime(q)
    BY <1>1, <1>3 DEF Kept, SameFor
  <2>2. Undisturbed(q)' <=> Undisturbed(q)
    BY DEF Undisturbed, SameFor
  <2>3. Audible(q)' <=> Audible(q)
    BY DEF Audible, SameFor
  <2>4. ~Undisturbed(q)' => (pc' \in Returning /\ Visited'.pid = q)
    BY <1>3, <2>2 DEF SameFor
  <2>5. Undisturbed(q)' /\ (at'[q] \in {"granted", "marked"} \/ Audible(q)') =>
          <<handle'[q], q>> \in PlayingIn(list')
    BY <2>1, <2>2, <2>3 DEF InTime, SameFor
  <2> QED
    BY <2>1, <2>4, <2>5 DEF InTime, SameFor, Playing
<1> QED
  BY <1>2, <1>3 DEF Kept

\* A stream that could be heard is open.
LEMMA AudibleIsOpen ==
  ASSUME PInv, NEW q \in Pids, at[q] \in {"granted", "marked"} \/ Audible(q)
  PROVE  IsOpen(q)
BY DEF PInv, StreamInv, Silent, Audible, IsOpen

LEMMA LocalOwn ==
  ASSUME PInv, NEW p \in Pids, LocalAction(p)
  PROVE  Kept(p)'
<1> USE DEF Kept, Silent, InTime, Undisturbed, Audible
<1>1. /\ at \in [Pids -> Places] /\ started \in [Pids -> BOOLEAN] /\ corked \in [Pids -> BOOLEAN]
      /\ asked \in [Pids -> 0 .. MaxUnread] /\ handler \in [Pids -> Handling]
      /\ stale \in [Pids -> BOOLEAN] /\ missed \in [Pids -> BOOLEAN] /\ MaxUnread \in Nat
  BY PcmAssumption DEF PInv, StreamTypes
<1>2. Kept(p)
  BY DEF PInv, StreamInv
<1>3. UNCHANGED <<list, cursor, pc, handle>>
  BY LocalFacts DEF vars, walkVars
<1>4. Visited' = Visited /\ (Playing(p, handle[p])' <=> Playing(p, handle[p]))
  BY <1>3 DEF Visited, Playing
<1>5. CASE StartMark(p)
  BY <1>1, <1>2, <1>3, <1>4, <1>5 DEF StartMark, Goes
<1>6. CASE StartUncork(p)
  BY <1>1, <1>2, <1>3, <1>4, <1>6 DEF StartUncork, Goes
<1>7. CASE Stop(p)
  BY <1>1, <1>2, <1>3, <1>4, <1>7 DEF Stop, Goes
<1>8. CASE StopMark(p)
  BY <1>1, <1>2, <1>3, <1>4, <1>8 DEF StopMark, Goes
<1>9. CASE StopCork(p)
  BY <1>1, <1>2, <1>3, <1>4, <1>9 DEF StopCork, Goes
<1>10. CASE Close(p)
  BY <1>1, <1>2, <1>3, <1>4, <1>10 DEF Close, Goes
<1>11. CASE HandlerChecks(p)
  <2>1. UNCHANGED <<at, started, corked, stale>> /\ handler[p] = "idle" /\ asked[p] > 0
    BY <1>11 DEF HandlerChecks
  <2>2. /\ handler'[p] = IF started[p] THEN "draining" ELSE "answering"
        /\ asked'[p] = asked[p] - 1
    BY <1>1, <1>11 DEF HandlerChecks
  <2>3. missed'[p] <=> (missed[p] \/ at[p] \in {"granted", "marked"})
    BY <1>1, <1>11 DEF HandlerChecks
  <2>4. Silent(p)'
    BY <1>2, <2>1, <2>3
  <2>5. ASSUME ~missed[p], at[p] \notin {"granted", "marked"} PROVE InTime(p)'
    BY <1>1, <1>2, <1>3, <1>4, <2>1, <2>2, <2>5
  <2> QED
    BY <2>3, <2>4, <2>5
<1>12. CASE HandlerMarks(p)
  BY <1>1, <1>2, <1>3, <1>4, <1>12 DEF HandlerMarks
<1>13. CASE HandlerCorks(p)
  BY <1>1, <1>2, <1>3, <1>4, <1>13 DEF HandlerCorks
<1>14. CASE HandlerStrays(p)
  BY <1>1, <1>2, <1>3, <1>4, <1>14 DEF HandlerStrays
<1>15. CASE HandlerAnswers(p) /\ UNCHANGED vars
  <2>1. pc # "monitor"
    BY DEF PInv, NoMonitors
  <2>2. ~Returned("PAUSE")
    BY <1>3 DEF Returned, WorkerReturned, PausedReturned
  <2>3. ~AwaitsAnswer(p) /\ handler[p] = "answering"
    BY <1>15, <2>2 DEF HandlerAnswers
  <2>4. missed[p]
    BY <1>2, <2>1, <2>3 DEF AwaitsAnswer, Returning
  <2>5. UNCHANGED <<at, started, corked, missed>>
    BY <1>15, <2>2 DEF HandlerAnswers
  <2> QED
    BY <1>2, <2>4, <2>5
<1> QED
  BY <1>5, <1>6, <1>7, <1>8, <1>9, <1>10, <1>11, <1>12, <1>13, <1>14, <1>15 DEF LocalAction

LEMMA SendingOwn ==
  ASSUME PInv, NEW p \in Pids, Sending(p)
  PROVE  Kept(p)'
<1> USE DEF Kept, Silent, InTime, Undisturbed, Audible
<1>1. /\ at \in [Pids -> Places] /\ started \in [Pids -> BOOLEAN] /\ corked \in [Pids -> BOOLEAN]
      /\ asked \in [Pids -> 0 .. MaxUnread] /\ handler \in [Pids -> Handling]
      /\ stale \in [Pids -> BOOLEAN] /\ missed \in [Pids -> BOOLEAN] /\ MaxUnread \in Nat
  BY PcmAssumption DEF PInv, StreamTypes
<1>2. Kept(p)
  BY DEF PInv, StreamInv
<1>3. UNCHANGED <<list, cursor, pc, handle>>
  BY SendingFacts DEF walkVars
<1>4. Visited' = Visited /\ (Playing(p, handle[p])' <=> Playing(p, handle[p]))
  BY <1>3 DEF Visited, Playing
<1>5. CASE Open(p)
  BY <1>1, <1>2, <1>3, <1>4, <1>5 DEF Open, Goes
<1>6. CASE Start(p)
  BY <1>1, <1>2, <1>3, <1>4, <1>6 DEF Start, Goes
<1>7. CASE StopTell(p)
  BY <1>1, <1>2, <1>3, <1>4, <1>7 DEF StopTell, Goes
<1>8. CASE CloseUnregister(p)
  BY <1>1, <1>2, <1>3, <1>4, <1>8 DEF CloseUnregister, Goes
<1> QED
  BY <1>5, <1>6, <1>7, <1>8 DEF Sending

\* What a stream does by itself or asks for leaves the others alone.
LEMMA OthersKept ==
  ASSUME PInv, NEW p \in Pids, LocalAction(p) \/ Sending(p), NEW q \in Pids, q # p
  PROVE  Kept(q)'
<1>1. UNCHANGED <<list, cursor, pc, handle>>
  BY LocalFacts, SendingFacts DEF vars, walkVars
<1>2. SameFor(q)
  <2>1. StreamTypes
    BY DEF PInv
  <2>2. CASE Open(p) \/ Start(p) \/ StopTell(p) \/ CloseUnregister(p)
    BY <1>1, <2>1, <2>2 DEF Open, Start, StopTell, CloseUnregister, Goes, SameFor, StreamTypes
  <2>3. CASE StartMark(p) \/ StartUncork(p) \/ Stop(p) \/ StopMark(p) \/ StopCork(p) \/ Close(p)
    BY <1>1, <2>1, <2>3
       DEF StartMark, StartUncork, Stop, StopMark, StopCork, Close, Goes, SameFor, StreamTypes
  <2>4. CASE HandlerChecks(p) \/ HandlerMarks(p) \/ HandlerCorks(p) \/ HandlerAnswers(p) \/ HandlerStrays(p)
    BY <1>1, <2>1, <2>4
       DEF HandlerChecks, HandlerMarks, HandlerCorks, HandlerAnswers, HandlerStrays, SameFor, StreamTypes
  <2> QED
    BY <2>2, <2>3, <2>4 DEF LocalAction, Sending
<1>3. ~missed[q] => Undisturbed(q) \/ (pc' \in Returning /\ Visited'.pid = q)
  BY <1>1 DEF PInv, StreamInv, InTime, Visited
<1> QED
  BY <1>1, <1>2, <1>3, StreamFrame DEF Playing
-----------------------------------------------------------------------------
(* The session manager and the streams.                                    *)

\* Outside a callback nothing is under way that could still stop a stream in time.
LEMMA NoCallback ==
  ASSUME PInv, pc \notin Returning, NEW q \in Pids, ~missed[q]
  PROVE  Undisturbed(q)
BY DEF PInv, StreamInv, InTime

LEMMA InternalPlaying ==
  ASSUME PInv, Internal, NEW q \in Pids, IsOpen(q), Playing(q, handle[q])
  PROVE  <<handle[q], q>> \in PlayingIn(list')
<1>1. CASE DoUnregister
  <2>1. pc # "idle" /\ cur.req = "UNREGISTER"
    BY <1>1 DEF DoUnregister, PInv, Compared
  <2>2. handle[q] # cur.handle
    BY <2>1 DEF PInv, Queued, Suits
  <2> QED
    BY <1>1, <2>2, DoUnregisterList DEF Playing
<1>2. CASE pc # "unregister"
  BY <1>2, InternalList DEF Playing
<1> QED
  BY <1>1, <1>2
     DEF Internal, Accept, ReapDone, DispatchRegister, DispatchPlay, WalkSkip, WalkPass, WalkRefuse,
         WalkEnd, StartPausedPass, Walking

LEMMA InternalStreams ==
  ASSUME PInv, Internal, NEW q \in Pids
  PROVE  Kept(q)'
<1>1. pc \notin Returning /\ UNCHANGED streamVars
  BY DEF Internal, Accept, DoUnregister, ReapDone, DispatchRegister, DispatchPlay, WalkSkip, WalkPass,
         WalkRefuse, WalkEnd, StartPausedPass, Walking, Returning
<1>2. SameFor(q)
  BY <1>1 DEF streamVars, SameFor
<1> QED
  BY <1>1, <1>2, InternalPlaying, NoCallback, AudibleIsOpen, StreamFrame

LEMMA InterruptStreams ==
  ASSUME PInv, Interrupt, NEW q \in Pids
  PROVE  Kept(q)'
<1>1. /\ pc = "walk" /\ UNCHANGED <<list, cursor>> /\ pc' \in {"monitor", "worker"}
      /\ UNCHANGED <<how, at, handle, started, corked, handler, stale, orphans, missed>>
  BY DEF Interrupt, WalkInterrupt, Walking, CallBackPc, walkVars
<1>2. Visited' = Visited /\ pc \notin Returning /\ pc' \in Returning
  BY <1>1 DEF Visited, Returning
<1>3. asked \in [Pids -> 0 .. MaxUnread] /\ MaxUnread \in Nat
  BY PcmAssumption DEF PInv, StreamTypes
<1>4. asked'[q] = asked[q] \/ (q = Visited.pid /\ asked'[q] = asked[q] + 1)
  BY <1>3 DEF Interrupt
<1>5. CASE asked'[q] = asked[q]
  <2>1. SameFor(q)
    BY <1>1, <1>5 DEF SameFor
  <2> QED
    BY <1>1, <1>2, <2>1, NoCallback, StreamFrame DEF Playing
<1>6. CASE q = Visited.pid /\ asked'[q] = asked[q] + 1
  <2>1. Kept(q)
    BY DEF PInv, StreamInv, Kept
  <2>2. Silent(q)'
    BY <1>1, <2>1 DEF Kept, Silent
  <2>3. ASSUME ~missed'[q] PROVE InTime(q)'
    <3>1. InTime(q) /\ asked[q] = 0 /\ handler[q] = "idle"
      BY <1>1, <1>2, <2>1, <2>3, NoCallback DEF Kept, Undisturbed
    <3>2. asked'[q] = 1
      BY <1>6, <3>1
    <3> QED
      BY <1>1, <1>2, <1>6, <3>1, <3>2 DEF InTime, Undisturbed
  <2> QED
    BY <2>2, <2>3 DEF Kept
<1> QED
  BY <1>4, <1>5, <1>6

\* A callback that has returned has stopped its stream, or has missed it.
LEMMA ReturnedStreams ==
  ASSUME PInv, NEW p \in Pids, NEW q \in Pids,
         \/ GivesUp /\ p = Visited.pid
         \/ HandlerAnswers(p) /\ AwaitsAnswer(p) /\ Returned("PAUSE")
  PROVE  Kept(q)'
<1>1. StreamTypes /\ Kept(q)
  BY DEF PInv, StreamInv, Kept
<1>2. PICK res : Returned(res)
  BY DEF GivesUp, CallbackTimedOut, CallbackFailed
<1>3. pc = "worker" /\ Visited.pid = p
  BY DEF GivesUp, AwaitsAnswer
<1>4. /\ UNCHANGED <<how, at, handle, started, corked, asked, orphans>>
      /\ \A r \in Pids : r # p => /\ handler'[r] = handler[r] /\ stale'[r] = stale[r]
                                  /\ missed'[r] = missed[r]
  BY <1>1, <1>3 DEF GivesUp, HandlerAnswers, StreamTypes
<1>5. \A r \in Pids : r # p /\ Playing(r, handle[r]) => <<handle[r], r>> \in PlayingIn(list')
  BY <1>2, <1>3, ReturnedList DEF Playing
<1>6. CASE q # p
  <2>1. SameFor(q)
    BY <1>4, <1>6 DEF SameFor
  <2>2. ~missed[q] => Undisturbed(q)
    BY <1>3, <1>6 DEF PInv, StreamInv, InTime
  <2> QED
    BY <1>5, <1>6, <2>1, <2>2, StreamFrame
<1>7. CASE q = p /\ GivesUp
  <2>1. missed'[q] /\ UNCHANGED <<at, started, corked>>
    BY <1>1, <1>3, <1>7 DEF GivesUp, StreamTypes
  <2> QED
    BY <1>1, <2>1 DEF Kept, Silent
<1>8. CASE q = p /\ HandlerAnswers(p)
  <2>2. UNCHANGED stale /\ (missed'[q] <=> missed[q] \/ asked[q] > 0)
    BY <1>1, <1>3, <1>8 DEF HandlerAnswers, AwaitsAnswer, StreamTypes
  <2>3. handler[q] = "answering" /\ handler'[q] = "idle"
    BY <1>1, <1>8 DEF HandlerAnswers, StreamTypes
  <2>4. Silent(q)'
    BY <1>1, <1>4, <2>2 DEF Kept, Silent
  <2>5. ASSUME ~missed'[q] PROVE InTime(q)'
    <3>1. InTime(q) /\ asked[q] = 0
      BY <1>1, <2>2, <2>5 DEF Kept, InTime, StreamTypes
    <3>2. ~started[q] /\ at[q] \notin {"granted", "marked"} /\ ~Audible(q)
      BY <2>3, <3>1 DEF InTime, Audible
    <3> QED
      BY <1>4, <2>3, <3>1, <3>2 DEF InTime, Undisturbed, Audible
  <2> QED
    BY <2>4, <2>5 DEF Kept
<1> QED
  BY <1>6, <1>7, <1>8

\* An answer leaves alone the streams that it does not answer.
LEMMA AnswerOthers ==
  ASSUME PInv, FinishRequest \/ OpenRefused \/ SetState, NEW q \in Pids, q # cur.pid
  PROVE  Kept(q)'
<1>1. /\ StreamTypes /\ at'[q] = at[q] /\ handle'[q] = handle[q] /\ UNCHANGED corked
      /\ cur.pid \in Pids
  BY AnswerFacts DEF PInv
<1>2. SameFor(q) /\ pc \notin Returning
  BY <1>1 DEF FinishRequest, Finish, OpenRefused, RegisterFull, SetState, SetStateDirectly, StartAnswered,
         SameFor, StreamTypes, Returning
<1>3. PlayingIn(list) \ {<<cur.handle, cur.pid>>} \subseteq PlayingIn(list')
  BY FinishList, SetStateList DEF FinishRequest, OpenRefused, RegisterFull, SetState
<1>4. Playing(q, handle[q]) => <<handle[q], q>> \in PlayingIn(list')
  BY <1>3 DEF Playing
<1> QED
  BY <1>2, <1>4, NoCallback, StreamFrame

\* The answer to an open finds a stream that is neither started nor heard.
LEMMA OpenAnswered ==
  ASSUME PInv, FinishRequest \/ OpenRefused, cur.req = "REGISTER", NEW q \in Pids, q = cur.pid
  PROVE  Kept(q)'
<1>1. /\ Kept(q) /\ at[q] = "opening" /\ at'[q] \in {"ready", "closed"} /\ UNCHANGED corked
  BY AnswerFacts DEF PInv, StreamInv, Kept, Moves
<1>2. /\ UNCHANGED <<started, asked, handler, stale, missed>> /\ pc \notin Returning
  BY DEF FinishRequest, Finish, OpenRefused, RegisterFull, Returning
<1>3. corked[q] /\ ~started[q]
  BY <1>1 DEF Kept, Silent
<1>4. Silent(q)'
  BY <1>1, <1>2, <1>3 DEF Kept, Silent
<1>5. ASSUME ~missed'[q] PROVE InTime(q)'
  BY <1>1, <1>2, <1>3, <1>5, NoCallback DEF Kept, InTime, Undisturbed, Audible
<1> QED
  BY <1>4, <1>5 DEF Kept

\* The answer to a start is an agreement with what the list says, ...
LEMMA StartAnsweredStreams ==
  ASSUME PInv, pc # "idle", pc \notin Returning, cur.req = "SETSTATE", cur.state = "PLAYING",
         UNCHANGED <<how, started, corked, asked, handler, stale>>,
         NEW granted \in BOOLEAN, StartAnswered(cur.pid, granted),
         granted => <<cur.handle, cur.pid>> \in PlayingIn(list'),
         PlayingIn(list) \subseteq PlayingIn(list'),
         NEW q \in Pids, q = cur.pid
  PROVE  Kept(q)'
<1>1. /\ Kept(q) /\ StreamTypes
  BY DEF PInv, StreamInv, Kept
<1>2. /\ at[q] = "starting" /\ at'[q] = (IF granted THEN "granted" ELSE "ready") /\ UNCHANGED handle
  BY StartAnsweredFacts
<1>3. missed'[q] <=> missed[q] /\ ~(granted /\ Undisturbed(q) /\ ~stale[q])
  BY <1>1 DEF StartAnswered, StreamTypes
<1>4. granted => <<handle[q], q>> \in PlayingIn(list')
  <2>1. Suits(cur)
    BY DEF PInv, Queued
  <2> QED
    BY <2>1 DEF Suits
<1>5. Silent(q)'
  BY <1>1, <1>2, <1>3 DEF Kept, Silent
<1>6. ASSUME ~missed[q], ~granted PROVE InTime(q)'
  <2>1. InTime(q) /\ Undisturbed(q)
    BY <1>1, <1>6, NoCallback DEF Kept
  <2> QED
    BY <1>2, <1>6, <2>1 DEF InTime, Undisturbed, Audible, Playing
<1>7. ASSUME Undisturbed(q), granted PROVE InTime(q)'
  BY <1>2, <1>4, <1>7 DEF InTime, Undisturbed, Audible, Playing
<1>8. ASSUME ~missed'[q] PROVE InTime(q)'
  BY <1>3, <1>6, <1>7, <1>8, NoCallback
<1> QED
  BY <1>5, <1>8 DEF Kept

\* ... and the end of a stop finds a stream that is silent.
LEMMA StopHeard ==
  ASSUME PInv, SetState, cur.state = "STOP", NEW q \in Pids, q = cur.pid
  PROVE  Kept(q)'
<1>1. /\ SetStateDirectly /\ pc = "dispatch" /\ cur.req = "SETSTATE" /\ pc \notin Returning
      /\ UNCHANGED streamVars
  BY DEF SetState, SetStateDirectly, Returning, streamVars
<1>2. SameFor(q)
  BY <1>1 DEF SameFor, streamVars
<1>3. corked[q] /\ at[q] \notin {"granted", "marked"}
  BY <1>1 DEF PInv, Queued, Suits
<1> QED
  BY <1>1, <1>2, <1>3, NoCallback, StreamFrame DEF Audible

LEMMA AnswerStreams ==
  ASSUME PInv, FinishRequest \/ OpenRefused \/ SetState, NEW q \in Pids
  PROVE  Kept(q)'
<1>1. CASE q # cur.pid
  BY <1>1, AnswerOthers
<1>2. CASE q = cur.pid /\ cur.req = "REGISTER"
  BY <1>2, OpenAnswered DEF SetState, SetStateDirectly
<1>3. CASE q = cur.pid /\ FinishRequest /\ cur.req # "REGISTER"
  <2>1. /\ Finish /\ pc = "finish" /\ pc \in Comparing /\ pc \notin Returning /\ cur.req = "SETSTATE"
        /\ UNCHANGED <<how, started, corked, asked, handler, stale>>
        /\ StartAnswered(cur.pid, reply.cmd # "STOP")
    BY <1>3 DEF FinishRequest, Finish, Comparing, Returning
  <2>2. cur.state = "PLAYING"
    BY <2>1 DEF PInv, Compared
  <2>3. /\ reply.cmd # "STOP" => <<cur.handle, cur.pid>> \in PlayingIn(list')
        /\ PlayingIn(list) \subseteq PlayingIn(list')
    BY <2>1, FinishList
  <2> QED
    BY <1>3, <2>1, <2>2, <2>3, StartAnsweredStreams
<1>4. CASE q = cur.pid /\ SetState /\ cur.state = "PLAYING"
  <2>1. /\ SetStateDirectly /\ pc = "dispatch" /\ pc \notin Returning /\ cur.req = "SETSTATE"
        /\ UNCHANGED <<how, started, corked, asked, handler, stale>>
        /\ StartAnswered(cur.pid, TRUE)
    BY <1>4 DEF SetState, SetStateDirectly, Returning
  <2>2. /\ <<cur.handle, cur.pid>> \in PlayingIn(list')
        /\ PlayingIn(list) \subseteq PlayingIn(list')
    BY <1>4, <2>1, SetStateList
  <2> QED
    BY <1>4, <2>1, <2>2, StartAnsweredStreams
<1>5. CASE q = cur.pid /\ SetState /\ cur.state = "STOP"
  BY <1>5, StopHeard
<1> QED
  BY <1>1, <1>2, <1>3, <1>4, <1>5 DEF SetState, OpenRefused, RegisterFull
-----------------------------------------------------------------------------
(* The invariant.                                                          *)

LEMMA PInvInit == ASSUME PcmInit PROVE PInv
<1>1. IInv
  BY InitIInv DEF PcmInit
<1>2. 0 \in Handles /\ MaxUnread \in Nat
  BY PcmAssumption, AsmAssumption DEF Handles
<1>3. how \in [Pids -> Ways] /\ \A p \in Pids : how[p].event # "MONITOR"
  BY FirstEvent DEF PcmInit, Ways, EventSeq
<1>4. StreamTypes /\ alive = Pids
  BY <1>2, <1>3 DEF PcmInit, StreamTypes, Init, Places, Handling
<1>5. list = << >> /\ inbox = << >> /\ pc = "idle" /\ reply.cmd = "UNSET" /\ ~quiet /\ ~updated
  BY DEF PcmInit, Init, NoReply
<1>6. OwnedIn(list) = {} /\ Named(list) = {}
  BY <1>5 DEF OwnedIn, Named
<1>7. Queued /\ Compared
  BY <1>5 DEF Queued, Compared, Comparing, Returning
<1>8. Lent /\ ListExplained /\ NoMonitors
  BY <1>3, <1>5, <1>6 DEF PcmInit, Lent, IsOpen, ListExplained, Listed, NoMonitors
<1>9. StreamInv
  BY DEF PcmInit, StreamInv, Silent, InTime, Undisturbed, Audible
<1> QED
  BY <1>1, <1>4, <1>7, <1>8, <1>9 DEF PInv

LEMMA PInvStep == ASSUME PInv, PcmNext PROVE PInv'
<1>1. IInv'
  BY ClientStepIs, StepIInv DEF PInv
<1>2. StreamTypes' /\ alive' = Pids /\ NoMonitors'
  BY StreamTypesKept, NoMonitorsKept
<1>3. Queued' /\ Compared' /\ Lent' /\ ListExplained'
  BY Kinds, LocalKeeps, SendingKeeps, ManagerOrders DEF SessionManager
<1>4. ASSUME NEW q \in Pids PROVE Kept(q)'
  <2>1. ASSUME NEW p \in Pids, LocalAction(p) \/ Sending(p) PROVE Kept(q)'
    BY <2>1, OthersKept, LocalOwn, SendingOwn
  <2>2. ASSUME NEW p \in Pids, HandlerAnswers(p) /\ AwaitsAnswer(p) /\ Returned("PAUSE")
        PROVE  Kept(q)'
    BY <2>2, ReturnedStreams
  <2>3. CASE GivesUp
    <3>1. PICK p \in Pids : p = Visited.pid
      BY <2>3, WorkerFacts DEF GivesUp
    <3> QED
      BY <2>3, <3>1, ReturnedStreams
  <2>4. FinishRequest \/ OpenRefused \/ SetState => Kept(q)'
    BY AnswerStreams
  <2>5. Internal => Kept(q)'
    BY InternalStreams
  <2>6. Interrupt => Kept(q)'
    BY InterruptStreams
  <2> QED
    BY <2>1, <2>2, <2>3, <2>4, <2>5, <2>6, Kinds
<1>5. StreamInv'
  BY <1>4 DEF StreamInv, Kept
<1> QED
  BY <1>1, <1>2, <1>3, <1>5 DEF PInv

LEMMA PInvStutter == ASSUME PInv, UNCHANGED pcmVars PROVE PInv'
<1>1. IInv'
  BY ClientStepIs, StepIInv DEF PInv, pcmVars
<1>2. Queued' /\ Compared'
  <2>1. UNCHANGED <<list, pc, cur, cursor, pass, updated, quiet, reply, inbox, at, handle>>
    BY DEF pcmVars, vars, walkVars, clientVars, streamVars
  <2>2. Queued'
    <3>1. UNCHANGED <<how, corked>>
      BY DEF pcmVars, streamVars
    <3>2. (\A i \in DOMAIN inbox : Suits(inbox[i]))'
      <4>1. ASSUME NEW i \in DOMAIN inbox' PROVE Suits(inbox[i])'
        <5>1. Suits(inbox'[i])
          BY <2>1 DEF PInv, Queued
        <5> QED
          BY <2>1, <3>1, <5>1 DEF Suits, Listed, IsOpen
      <4> QED
        BY <4>1
    <3>3. pc # "idle" => Suits(cur) /\ Suits(cur)'
      <4>1. pc # "idle" => Suits(cur)
        BY DEF PInv, Queued
      <4> QED
        BY <2>1, <3>1, <4>1 DEF Suits, Listed, IsOpen
    <3> QED
      BY <2>1, <3>2, <3>3 DEF PInv, Queued, Follows, Unanswered
  <2>3. Compared'
    <3>1. Compared
      BY DEF PInv
    <3> QED
      BY <2>1, <3>1 DEF Compared, Listed, Playing, Visited
  <2> QED
    BY <2>2, <2>3
<1>3. Lent' /\ NoMonitors' /\ StreamTypes' /\ alive' = Pids
  BY DEF PInv, Lent, NoMonitors, StreamTypes, pcmVars, vars, clientVars, streamVars, IsOpen, Given, Listed
<1>4. ListExplained'
  BY DEF PInv, ListExplained, Explained, Leaving, pcmVars, vars, clientVars, streamVars, IsOpen, Listed
<1>5. StreamInv'
  BY DEF PInv, StreamInv, Silent, InTime, Undisturbed, Audible, Playing, Visited, pcmVars, vars, walkVars,
         streamVars
<1> QED
  BY <1>1, <1>2, <1>3, <1>4, <1>5 DEF PInv

\* Whatever the application's calls, sound_pcm_asm_callback and the session manager do in whatever
\* order, PInv is kept; the theorems below are what it says of each part.
THEOREM PcmInductive == PcmSpec => []PInv
<1>1. PcmInit => PInv
  BY PInvInit
<1>2. PInv /\ [PcmNext]_pcmVars => PInv'
  BY PInvStep, PInvStutter
<1> QED
  BY <1>1, <1>2, PTL DEF PcmSpec
-----------------------------------------------------------------------------
(* What follows.                                                           *)

\* The streams use the session manager as AsmServer's clients do: _pcm_sound_start, the stop and
\* close functions and the library's callback thread send one request at a time, and name the
\* handles they were given.
THEOREM StreamsAreClients == PcmSpec => IsClient
<1>1. PcmInit => Init
  BY DEF PcmInit
<1>2. PInv /\ [PcmNext]_pcmVars => [Next]_vars
  BY ClientStepIs
<1> QED
  BY <1>1, <1>2, PcmInductive, PTL DEF PcmSpec, IsClient

\* With streams for clients no two instances share a handle, the status words agree with the
\* list, and every comparison gives an answer.
THEOREM ManagerServesStreams == PcmSpec => [](HandlesUnique /\ StatusConsistent /\ ComparisonAnswers)
<1>1. PInv => HandlesUnique /\ StatusConsistent /\ ComparisonAnswers
  BY DEF PInv, IInv
<1> QED
  BY <1>1, PcmInductive, PTL

\* Every variable of a stream keeps to its type, its handle is one of the table's, and no pipe
\* holds more callbacks than MaxUnread.
THEOREM PcmTypeCorrect == PcmSpec => []PcmTypeOK
<1>1. PInv => PcmTypeOK
  BY DEF PInv, IInv, StreamTypes, PcmTypeOK
<1> QED
  BY <1>1, PcmInductive, PTL

\* A stream that is un-corked by _pcm_sound_start, or not yet corked by a stop, is one that the
\* session manager has as playing, unless a STOP callback was lost, late or too early.
THEOREM AudibleStaysListed == PcmSpec => []AudibleIsListed
<1>1. PInv => AudibleIsListed
  <2> SUFFICES ASSUME PInv, NEW p \in Pids, Audible(p), ~missed[p], Undisturbed(p)
               PROVE  IsItPlayingNow(list, p, handle[p])
    BY DEF AudibleIsListed
  <2>1. Playing(p, handle[p])
    BY DEF PInv, StreamInv, InTime
  <2> QED
    BY <2>1, PlayingNow DEF Playing
<1> QED
  BY <1>1, PcmInductive, PTL

\* is_started and the cork of the device agree between two calls of the application, however
\* the callback's stop and the application's start and stop interleave.
THEOREM StartedStaysAudible == PcmSpec => []StartedIsAudible
<1>1. PInv => StartedIsAudible
  BY DEF PInv, StreamInv, InTime, StartedIsAudible
<1> QED
  BY <1>1, PcmInductive, PTL

\* mm_sound_pcm_capture_close and mm_sound_pcm_play_close give back what their stream has got
\* from the session manager: the registration ends with the stream.
THEOREM ClosedStaysUnlisted == PcmSpec => []ClosedIsUnlisted
<1>1. PInv => ClosedIsUnlisted
  <2> SUFFICES ASSUME PInv, NEW i \in DOMAIN list, at[list[i].pid] = "closed"
               PROVE  Busy(list[i].pid) \/ list[i].handle \in orphans
    BY DEF ClosedIsUnlisted
  <2>1. Listed(list[i].pid, list[i].handle)
    BY DEF Listed, OwnedIn
  <2>2. Explained(list[i].pid, list[i].handle)
    BY <2>1 DEF PInv, ListExplained
  <2>3. ~IsOpen(list[i].pid)
    BY DEF IsOpen
  <2> QED
    BY <2>2, <2>3 DEF Explained, Leaving, Busy
<1> QED
  BY <1>1, PcmInductive, PTL
-----------------------------------------------------------------------------
(* What plays: no step but the one that grants a start makes an instance   *)
(* play that did not.                                                      *)

\* In k the instances of l are at their places, and none plays that does not in l.
Calmer(k, l) ==
  /\ SameHandles(k, l)
  /\ \A i \in DOMAIN l : k[i].state = "PLAYING" => l[i].state = "PLAYING"

\* The same of a list that some instances may have left.
From(k, l) ==
  \A n \in DOMAIN k : \E i \in DOMAIN l :
    SameInstance(k[n], l[i]) /\ (k[n].state = "PLAYING" => l[i].state = "PLAYING")

LEMMA CalmerIsFrom == ASSUME NEW k, NEW l, Calmer(k, l) PROVE From(k, l)
BY DEF Calmer, SameHandles, From, SameInstance

LEMMA CalmerTwice ==
  ASSUME NEW k, NEW l, NEW m, Calmer(k, l), Calmer(l, m)
  PROVE  Calmer(k, m)
BY DEF Calmer, SameHandles

LEMMA ChangeCalms ==
  ASSUME NEW l \in Seq(Entry), NEW p, NEW h, NEW st \in States, st # "PLAYING",
         NEW res \in SUBSET Resources
  PROVE  Calmer(ChangeState(l, p, h, st, res), l)
<1>1. \A i \in DOMAIN l : l[i] \in Entry
  BY ElementOfSeq, LenProperties
<1>2. \A i \in DOMAIN l : ChangeState(l, p, h, st, res)[i].state = "PLAYING" => l[i].state = "PLAYING"
  BY <1>1 DEF ChangeState, Entry
<1> QED
  BY <1>2, ChangeStateKeeps DEF Calmer

LEMMA FlagsCalm ==
  ASSUME NEW l \in Seq(Entry), NEW p, NEW h,
         NEW k \in {l, ResumeAll(l), SetAllMonitorClean(l), NeedResume(l, p, h)}
  PROVE  Calmer(k, l)
<1>1. \A i \in DOMAIN l : l[i] \in Entry
  BY ElementOfSeq, LenProperties
<1>2. CASE k = ResumeAll(l)
  BY <1>1, <1>2, ResetsKeep DEF ResumeAll, Entry, Calmer
<1>3. CASE k = SetAllMonitorClean(l)
  BY <1>1, <1>3, ResetsKeep DEF SetAllMonitorClean, Entry, Calmer
<1>4. CASE k = NeedResume(l, p, h)
  <2>1. \A i \in DOMAIN l : NeedResume(l, p, h)[i].state = l[i].state
    BY <1>1 DEF NeedResume, Entry
  <2> QED
    BY <1>4, <2>1, NeedResumeKeeps DEF Calmer
<1>5. CASE k = l
  BY <1>5 DEF Calmer, SameHandles
<1> QED
  BY <1>2, <1>3, <1>4, <1>5

LEMMA AnswerCalms ==
  ASSUME list \in Seq(Entry), NEW e \in Entry, NEW res,
         NEW k \in {AfterStop(e, res), AfterPause(e, res), AfterMix(e, res)}
  PROVE  Calmer(k, list)
<1>1. \A st \in {"STOP", "NONE", "PAUSE"}, r \in SUBSET Resources :
        Calmer(ChangeState(list, e.pid, e.handle, st, r), list)
  BY ChangeCalms DEF States
<1>2. {} \in SUBSET Resources /\ e.resource \in SUBSET Resources
  BY DEF Entry
<1>3. Calmer(list, list)
  BY FlagsCalm
<1>4. CASE k = AfterStop(e, res)
  BY <1>1, <1>2, <1>4 DEF AfterStop
<1>5. CASE k = AfterPause(e, res)
  BY <1>1, <1>2, <1>3, <1>5 DEF AfterPause
<1>6. CASE k = AfterMix(e, res)
  BY <1>1, <1>2, <1>3, <1>6 DEF AfterMix
<1> QED
  BY <1>4, <1>5, <1>6

LEMMA UnregisterFrom ==
  ASSUME NEW l \in Seq(Entry), NEW h, NEW k \in Unregister(l, h)
  PROVE  From(k, l) /\ k \in Seq(Entry)
<1>1. CASE k = l
  BY <1>1 DEF From, SameInstance
<1>2. ASSUME NEW i \in DOMAIN l, k = RemoveAt(l, i)
      PROVE  From(k, l) /\ k \in Seq(Entry)
  <2>1. k \in Seq(Entry) /\ \A n \in DOMAIN k : \E j \in DOMAIN l : k[n] = l[j]
    BY <1>2, RemoveAtRemains DEF Remains
  <2> QED
    BY <2>1 DEF From, SameInstance
<1>3. k = l \/ \E i \in DOMAIN l : k = RemoveAt(l, i)
  BY DEF Unregister, FirstIn
<1> QED
  BY <1>1, <1>2, <1>3

\* The comparison of a start, and the step with which it takes effect.
TakesEffect == Starting /\ (updated' \/ pc' = "idle")

\* Each instance was there, and played if it does unless it is the one whose start takes effect; or
\* it is the one that is registered.
Stems ==
  \A n \in DOMAIN list' :
    \/ \E i \in DOMAIN list :
         /\ SameInstance(list'[n], list[i])
         /\ list'[n].state = "PLAYING" => list[i].state = "PLAYING" \/ (TakesEffect /\ Mine(list[i]))
    \/ /\ pc \in Comparing /\ cur.req = "REGISTER" /\ list'[n].state # "PLAYING"
       /\ Mine(list'[n]) /\ list'[n].event = cur.event

LEMMA FromStems == ASSUME From(list', list) PROVE Stems
BY DEF From, Stems

LEMMA CommitStems ==
  ASSUME PInv, pc \in Comparing, NEW k, Calmer(k, list), list' = Commit(k), updated' \/ pc' = "idle"
  PROVE  Stems
<1>1. /\ list \in Seq(Entry) /\ cur \in Request
      /\ cur.req = "REGISTER" => cur.handle \in Handles /\ cur.state = "NONE"
      /\ cur.req \in {"REGISTER", "SETSTATE"}
      /\ cur.state \in States /\ cur.resource \in SUBSET Resources
  BY ComparedFacts
<1>2. k \in Seq(Entry) /\ From(k, list) /\ \A i \in DOMAIN k : k[i] \in Entry
  BY CalmerIsFrom, ElementOfSeq, LenProperties DEF Calmer, SameHandles
<1>3. CASE updated
  BY <1>2, <1>3, FromStems DEF Commit
<1>4. CASE ~updated /\ cur.req = "REGISTER"
  <2>1. /\ list' = Register(k, cur) /\ 1 \in DOMAIN list'
        /\ list'[1].handle = cur.handle /\ list'[1].pid = cur.pid /\ list'[1].event = cur.event
        /\ \A n \in DOMAIN list' : n = 1 \/ (n - 1 \in DOMAIN k /\ list'[n] = k[n - 1])
    BY <1>1, <1>2, <1>4, RegisterPlaces DEF Commit
  <2>2. list'[1].state = "NONE"
    BY <1>1, <1>2, <1>4, <2>1 DEF Register, Cons
  <2>3. \A n \in DOMAIN list' : n # 1 => \E i \in DOMAIN list :
          SameInstance(list'[n], list[i]) /\ (list'[n].state = "PLAYING" => list[i].state = "PLAYING")
    BY <1>2, <2>1 DEF From
  <2> QED
    BY <1>4, <2>1, <2>2, <2>3 DEF Stems, Mine, Own
<1>5. CASE ~updated /\ cur.req = "SETSTATE"
  <2>1. list' = ChangeState(k, cur.pid, cur.handle, cur.state, cur.resource)
    BY <1>5 DEF Commit
  <2>2. SameHandles(list', k) /\ DOMAIN list' = DOMAIN k
    <3>1. SameHandles(ChangeState(k, cur.pid, cur.handle, cur.state, cur.resource), k)
      BY <1>1, <1>2, ChangeStateKeeps
    <3> QED
      BY <2>1, <3>1 DEF SameHandles
  <2>3. ASSUME NEW n \in DOMAIN list', list'[n].state = "PLAYING", ~Mine(k[n])
        PROVE  k[n].state = "PLAYING"
    <3>1. n \notin PlaceOf(k, cur.pid, cur.handle)
      BY <2>3 DEF PlaceOf, FirstIn, Mine
    <3> QED
      BY <2>1, <2>2, <2>3, <3>1 DEF ChangeState
  <2>4. \A n \in DOMAIN list' : n \in DOMAIN list /\ SameInstance(list'[n], list[n]) /\ SameInstance(k[n], list[n])
    BY <2>2 DEF SameHandles, SameInstance, Calmer
  <2>5. TakesEffect
    BY <1>5 DEF TakesEffect, Starting
  <2> QED
    BY <2>3, <2>4, <2>5 DEF Stems, Calmer, Mine, Own, SameInstance
<1> QED
  BY <1>1, <1>3, <1>4, <1>5

LEMMA ReturnedStems ==
  ASSUME PInv, NEW res, Returned(res)
  PROVE  Stems
<1>1. pc = "worker" /\ pc \in Comparing /\ Visited \in Entry /\ list \in Seq(Entry)
  BY WorkerFacts, ComparedFacts DEF Returned, WorkerReturned, PausedReturned
<1>2. CASE WorkerReturned(res)
  <2>1. PICK k \in {AfterStop(Visited, res), AfterPause(Visited, res), AfterMix(Visited, res)} :
          list' = Commit(Resumable(k, Visited)) /\ updated' = TRUE
    BY <1>2 DEF WorkerReturned, CommitAndStep
  <2>2. Calmer(k, list) /\ k \in Seq(Entry)
    BY <1>1, AnswerCalms DEF Calmer, SameHandles
  <2>3. Calmer(Resumable(k, Visited), k)
    BY <2>2, FlagsCalm DEF Resumable
  <2> QED
    BY <1>1, <2>1, <2>2, <2>3, CalmerTwice, CommitStems
<1>3. CASE PausedReturned(res)
  <2>1. Calmer(list', list)
    BY <1>1, <1>3, ChangeCalms DEF PausedReturned, States
  <2> QED
    BY <2>1, CalmerIsFrom, FromStems
<1> QED
  BY <1>2, <1>3 DEF Returned

LEMMA SetStateStems ==
  ASSUME PInv, SetStateDirectly
  PROVE  Stems
<1>1. list \in Seq(Entry) /\ Unique(list) /\ cur \in Request
  BY DEF PInv, IInv, TypeOK, HandlesUnique, Unique, WalkInv, SetStateDirectly
<1>2. cur.state \in States /\ cur.resource \in SUBSET Resources
  BY <1>1 DEF Request
<1>3. list' = ChangeState(list, cur.pid, cur.handle, cur.state, cur.resource)
  BY DEF SetStateDirectly
<1>4. CASE cur.state # "PLAYING"
  BY <1>1, <1>2, <1>3, <1>4, ChangeCalms, CalmerIsFrom, FromStems
<1>5. CASE cur.state = "PLAYING"
  <2>1. PICK c \in DOMAIN list : Own(list[c], cur.pid, cur.handle) /\ list[c].state = "PLAYING"
    BY <1>5 DEF SetStateDirectly, IsItPlayingNow
  <2>2. SameHandles(list', list)
    BY <1>1, <1>2, <1>3, ChangeStateKeeps
  <2>3. list' = ChangeState(list, list[c].pid, list[c].handle, cur.state, cur.resource)
    BY <1>3, <2>1 DEF Own
  <2>4. \A i \in DOMAIN list : i # c => list'[i] = list[i]
    BY <1>1, <2>3, ChangeStateBut
  <2> QED
    BY <2>1, <2>2, <2>4 DEF SameHandles, Stems, SameInstance
<1> QED
  BY <1>4, <1>5

LEMMA EachStems ==
  ASSUME PInv, PcmNext
  PROVE  Stems
<1>1. list \in Seq(Entry)
  BY DEF PInv, IInv, TypeOK
<1>2. list' = list => Stems
  BY FlagsCalm, CalmerIsFrom, FromStems, <1>1
<1>3. ASSUME NEW p \in Pids, LocalAction(p) \/ Sending(p)
      PROVE  Stems
  BY <1>2, <1>3, LocalFacts, SendingFacts DEF vars
<1>4. CASE FinishRequest
  <2>1. pc \in Comparing /\ pc' = "idle" /\ (list' = list \/ list' = Commit(list))
    BY <1>4 DEF FinishRequest, Finish, Comparing, Idle
  <2> QED
    BY <1>1, <1>2, <2>1, FlagsCalm, CommitStems
<1>5. CASE OpenRefused \/ Interrupt
  BY <1>2, <1>5 DEF OpenRefused, RegisterFull, Interrupt, WalkInterrupt
<1>6. CASE SetState
  BY <1>6, SetStateStems DEF SetState
<1>7. ASSUME NEW res, Returned(res)
      PROVE  Stems
  BY <1>7, ReturnedStems
<1>8. CASE Internal
  <2>1. CASE DoUnregister
    <3>1. PICK rest \in Unregister(list, cur.handle) : list' = rest \/ list' = ResumeAll(rest)
      BY <2>1 DEF DoUnregister
    <3>2. From(rest, list) /\ rest \in Seq(Entry)
      BY <1>1, UnregisterFrom
    <3>3. From(list', rest)
      BY <3>1, <3>2, FlagsCalm, CalmerIsFrom
    <3>4. From(list', list)
      BY <3>2, <3>3 DEF From, SameInstance
    <3> QED
      BY <3>4, FromStems
  <2>2. CASE WalkPass
    <3>1. pc \in Comparing /\ list' = Commit(list) /\ updated'
      BY <2>2 DEF WalkPass, Walking, CommitAndStep, Comparing
    <3> QED
      BY <1>1, <3>1, FlagsCalm, CommitStems
  <2>3. CASE WalkEnd
    BY <1>1, <2>3, FlagsCalm, CalmerIsFrom, FromStems DEF WalkEnd
  <2>4. DoUnregister \/ WalkPass \/ WalkEnd \/ list' = list
    BY <1>8 DEF Internal, Accept, ReapDone, DispatchRegister, DispatchPlay, StartCompare, WalkSkip,
                WalkRefuse, StartPausedPass
  <2> QED
    BY <1>2, <2>1, <2>2, <2>3, <2>4
<1>9. CASE GivesUp
  BY <1>7, <1>9 DEF GivesUp, CallbackTimedOut, CallbackFailed
<1> QED
  BY <1>3, <1>4, <1>5, <1>6, <1>7, <1>8, <1>9, Kinds
-----------------------------------------------------------------------------
(* Streams that sound together.                                            *)

\* For every two streams the matrix lets the second join the first or stop it; to refuse it is
\* left to the case of two streams.
Orderly ==
  /\ ~IsGcf
  /\ \A p, q \in Pids : p # q => \A o \in Opens[p], u \in Opens[q] :
       \/ SoundCase(o.event, StartsAs(u)) \in {StopCurrent, Mix}
       \/ SoundCase(o.event, StartsAs(u)) = RefuseNew /\ Pids = {p, q}

Asks(m) == m.req = "SETSTATE" /\ m.state = "PLAYING"

\* A start names the event the stream has been opened with, and nobody claims a resource.
Phrased ==
  /\ \A i \in Turns : /\ Asked(i).resource = {}
                      /\ Asks(Asked(i)) => Asked(i).event = AskedEvent(Asked(i).pid)
  /\ pass = "playing" /\ pc # "pausedWalk"
  /\ \A p \in Pids : at[p] # "closed" => how[p] \in Opens[p]

\* An instance has the event of its stream.
NamedRight ==
  \A i \in DOMAIN list : LET e == list[i] IN
    /\ \E o \in Opens[e.pid] : e.event = o.event
    /\ IsOpen(e.pid) /\ e.handle = handle[e.pid] => e.event = how[e.pid].event
    /\ pc \in Comparing /\ cur.req = "REGISTER" /\ Mine(e) => e.event = cur.event

\* A stream has one instance that plays: its own, or that of a stream that has been closed.
OnePlays ==
  /\ \A p, h : Leaving(p, h) => p \in Pids /\ ~IsOpen(p) /\ \A k : Leaving(p, k) => k = h
  /\ \A p, h : Playing(p, h) => (IsOpen(p) /\ h = handle[p]) \/ Leaving(p, h)

\* From position c on, nothing of p plays.
SilentFrom(c, l, p) == \A i \in DOMAIN l : c <= i /\ l[i].pid = p => l[i].state # "PLAYING"

\* A start is not listed before it takes effect, which it does not when it is refused: the one
\* instance that was met then is that of the only other stream.
Pending ==
  /\ ~updated => ~Playing(cur.pid, cur.handle)
  /\ reply.cmd = "STOP" => ~updated /\ ~quiet
  /\ updated /\ pc \in {"walk", "worker"} =>
       \E p \in Pids \ {cur.pid} : SilentFrom(cursor, list, p)

\* The comparison of a start is that of a stream that does not sound, or has missed a stop.
Ungranted ==
  /\ pc \in Returning => Visited.state = "PLAYING"
  /\ Starting => (missed[cur.pid] \/ ~Audible(cur.pid)) /\ Pending

Joined ==
  \A p, q \in Pids : p # q /\ Granted(p) /\ Granted(q) => MayJoin(p, q) \/ MayJoin(q, p)

ClashInv == Phrased /\ NamedRight /\ OnePlays /\ Ungranted /\ Joined
-----------------------------------------------------------------------------
(* The steps, as far as that matters.                                      *)

\* A stream opens when its registration is answered, and closes with the request to unregister.
LEMMA OpensAndCloses ==
  ASSUME PInv, PcmNext, NEW q \in Pids
  PROVE  /\ IsOpen(q)' => /\ how'[q] = how[q]
                          /\ \/ IsOpen(q) /\ handle'[q] = handle[q]
                             \/ /\ ~IsOpen(q) /\ pc = "finish" /\ pc' = "idle"
                                /\ cur.req = "REGISTER" /\ q = cur.pid /\ handle'[q] = cur.handle
         /\ IsOpen(q) => (IsOpen(q)' /\ handle'[q] = handle[q]) \/ CloseUnregister(q)
         /\ at'[q] # "closed" => (at[q] # "closed" /\ how'[q] = how[q]) \/ how'[q] \in Opens[q]
<1> USE DEF IsOpen
<1>1. ASSUME NEW p \in Pids, LocalAction(p)
      PROVE  /\ handle' = handle /\ how' = how /\ (IsOpen(q)' <=> IsOpen(q))
             /\ at'[q] # "closed" => at[q] # "closed"
  BY <1>1, LocalFacts
<1>2. ASSUME NEW p \in Pids, Sending(p)
      PROVE  /\ handle' = handle
             /\ IsOpen(q)' => IsOpen(q) /\ how'[q] = how[q]
             /\ IsOpen(q) => IsOpen(q)' \/ CloseUnregister(q)
             /\ at'[q] # "closed" => (at[q] # "closed" /\ how'[q] = how[q]) \/ how'[q] \in Opens[q]
  <2>1. /\ handle' = handle
        /\ q # p => at'[q] = at[q] /\ how'[q] = how[q]
        /\ \/ at[p] = "closed" /\ at'[p] = "opening" /\ how'[p] \in Opens[p]
           \/ at[p] \in {"ready", "stopped"} /\ at'[p] \in {"starting", "ready"} /\ how' = how
           \/ at[p] = "closing" /\ at'[p] = "closed" /\ how' = how
    BY <1>2, SendingFacts
  <2>2. at[p] = "closing" => CloseUnregister(p)
    BY <1>2 DEF Sending, Open, Start, StopTell, Goes
  <2> QED
    BY <2>1, <2>2
<1>3. CASE FinishRequest \/ OpenRefused \/ SetState
  <2>1. /\ pc' = "idle" /\ how' = how /\ Moves
        /\ q # cur.pid => at'[q] = at[q] /\ handle'[q] = handle[q]
    BY <1>3, AnswerFacts
  <2>2. cur.req = "REGISTER" /\ at'[cur.pid] = "ready" => pc = "finish"
    <3>1. CASE FinishRequest
      BY <3>1 DEF FinishRequest, Finish
    <3>2. CASE OpenRefused
      <4>1. cur.pid \in Pids /\ at \in [Pids -> Places]
        BY <1>3, AnswerFacts DEF PInv, StreamTypes
      <4> QED
        BY <3>2, <4>1 DEF OpenRefused
    <3>3. CASE SetState
      BY <3>3 DEF SetState, SetStateDirectly
    <3> QED
      BY <1>3, <3>1, <3>2, <3>3
  <2> QED
    BY <2>1, <2>2 DEF Moves
<1>4. CASE Interrupt \/ GivesUp \/ Internal \/ \E p \in Pids : HandlerAnswers(p)
  <2>1. UNCHANGED <<how, at, handle>>
    BY <1>4 DEF Interrupt, GivesUp, Internal, HandlerAnswers, streamVars
  <2> QED
    BY <2>1
<1> QED
  BY <1>1, <1>2, <1>3, <1>4, Kinds

\* Which request is being worked on.
LEMMA CurNext ==
  ASSUME PInv, PcmNext
  PROVE  /\ pc' \in Comparing => \/ pc \in Comparing /\ cur' = cur
                                 \/ DispatchRegister \/ DispatchPlay
         /\ pc \in Comparing => pc' \in Comparing \/ (pc' = "idle" /\ FinishRequest)
         /\ pc' # "idle" => \/ Accept
                            \/ pc # "idle" /\ cur' = cur
                            \/ DispatchRegister \/ DispatchPlay
         /\ \/ Accept
            \/ inbox' = inbox
            \/ \E p \in Pids : Sending(p) /\ pc' = pc /\ cur' = cur
         /\ pc' = "idle" =>
              \/ pc = "idle" \/ DoUnregister
              \/ cur.req = "REGISTER" \/ (cur.req = "SETSTATE" /\ pc \in {"dispatch", "finish"})
<1> USE DEF Comparing
<1>1. ASSUME NEW p \in Pids, LocalAction(p)
      PROVE  UNCHANGED <<pc, cur, inbox>>
  BY <1>1, LocalFacts DEF vars, clientVars
<1>2. ASSUME NEW p \in Pids, Sending(p)
      PROVE  UNCHANGED <<pc, cur>>
  BY <1>2, SendingFacts
<1>3. CASE FinishRequest
  BY <1>3 DEF FinishRequest, Finish, Idle
<1>4. CASE OpenRefused \/ SetState
  BY <1>4 DEF OpenRefused, RegisterFull, SetState, SetStateDirectly, Idle, clientVars
<1>5. ASSUME NEW res, Returned(res)
      PROVE  /\ pc = "worker" /\ pc' \in {"walk", "pausedWalk"} /\ UNCHANGED <<cur, inbox>>
  BY <1>5 DEF Returned, WorkerReturned, PausedReturned, clientVars
<1>6. CASE Interrupt
  BY <1>6 DEF Interrupt, WalkInterrupt, Walking, CallBackPc, clientVars
<1>7. CASE GivesUp
  BY <1>5, <1>7 DEF GivesUp, CallbackTimedOut, CallbackFailed
<1>8. CASE Internal
  <2>1. CASE DoUnregister \/ ReapDone
    BY <2>1 DEF DoUnregister, ReapDone, Idle, clientVars
  <2>2. CASE DispatchRegister \/ DispatchPlay
    BY <2>2 DEF DispatchRegister, DispatchPlay, StartCompare, clientVars
  <2>3. CASE WalkSkip \/ WalkPass \/ WalkRefuse \/ WalkEnd \/ StartPausedPass
    BY <2>3 DEF WalkSkip, WalkPass, WalkRefuse, WalkEnd, StartPausedPass, Walking, clientVars
  <2>4. CASE Accept
    BY <2>4 DEF Accept
  <2> QED
    BY <1>8, <2>1, <2>2, <2>3, <2>4 DEF Internal
<1> QED
  BY <1>1, <1>2, <1>3, <1>4, <1>5, <1>6, <1>7, <1>8, Kinds

\* A handle is on its way out from the request to unregister it until that is served.
LEMMA LeavingNext ==
  ASSUME PInv, PcmNext, NEW p, NEW h
  PROVE  /\ Leaving(p, h)' => Leaving(p, h) \/ (p \in Pids /\ CloseUnregister(p) /\ h = handle[p])
         /\ Leaving(p, h) => Leaving(p, h)' \/ (DoUnregister /\ cur.pid = p /\ cur.handle = h)
         /\ p \in Pids /\ CloseUnregister(p) => Leaving(p, handle[p])'
<1>1. inbox \in Seq(Request) /\ Len(inbox) \in Nat /\ DOMAIN inbox = 1..Len(inbox)
  BY LenProperties DEF PInv, IInv, TypeOK
<1>2. ASSUME NEW q \in Pids, Sending(q)
      PROVE  /\ Leaving(p, h)' => Leaving(p, h) \/ (p = q /\ CloseUnregister(p) /\ h = handle[p])
             /\ Leaving(p, h) => Leaving(p, h)'
             /\ CloseUnregister(q) => Leaving(q, handle[q])'
  <2>1. PICK m \in Request :
          /\ m.pid = q /\ inbox' = Append(inbox, m) /\ UNCHANGED <<pc, cur, handle>>
          /\ m.req = "UNREGISTER" => m.handle = handle[q] /\ at[q] = "closing"
          /\ at[q] = "closing" => m.req = "UNREGISTER" /\ m.handle = handle[q]
    BY <1>2, SendingFacts
  <2>2. /\ DOMAIN inbox' = 1..(Len(inbox) + 1) /\ inbox'[Len(inbox) + 1] = m
        /\ \A i \in DOMAIN inbox : i \in DOMAIN inbox' /\ inbox'[i] = inbox[i]
    BY <1>1, <2>1, AppendProperties
  <2>3. \A i \in DOMAIN inbox' : i \in DOMAIN inbox \/ i = Len(inbox) + 1
    BY <1>1, <2>2
  <2>4. at[q] = "closing" <=> CloseUnregister(q)
    BY <1>2 DEF Sending, Open, Start, StopTell, CloseUnregister, Goes
  <2>5. Len(inbox) + 1 \in DOMAIN inbox'
    BY <1>1, <2>2
  <2>6. Leaving(p, h) => Leaving(p, h)'
    BY <2>1, <2>2 DEF Leaving
  <2>7. Leaving(p, h)' => Leaving(p, h) \/ (p = q /\ at[q] = "closing" /\ h = handle[q])
    BY <2>1, <2>2, <2>3 DEF Leaving
  <2>8. at[q] = "closing" => Leaving(q, handle[q])'
    BY <2>1, <2>2, <2>5 DEF Leaving
  <2> QED
    BY <2>4, <2>6, <2>7, <2>8
<1>3. ASSUME NEW q \in Pids, CloseUnregister(q)
      PROVE  Leaving(q, handle[q])'
  BY <1>2, <1>3 DEF Sending
<1>4. CASE Accept
  <2>1. /\ pc = "idle" /\ pc' # "idle" /\ inbox # << >> /\ cur' = Head(inbox) /\ inbox' = Tail(inbox)
    BY <1>4 DEF Accept
  <2>2. /\ cur' = inbox[1] /\ 1 \in DOMAIN inbox /\ DOMAIN inbox' = 1..(Len(inbox) - 1)
        /\ \A i \in 1..(Len(inbox) - 1) : inbox'[i] = inbox[i + 1]
    BY <1>1, <2>1, HeadTailProperties, EmptySeq
  <2>3. \A i \in DOMAIN inbox : i = 1 \/ (i - 1 \in DOMAIN inbox' /\ inbox'[i - 1] = inbox[i])
    BY <1>1, <2>2
  <2>4. \A i \in DOMAIN inbox' : i + 1 \in DOMAIN inbox /\ inbox'[i] = inbox[i + 1]
    BY <1>1, <2>2
  <2>5. Leaving(p, h) => Leaving(p, h)'
    BY <2>1, <2>2, <2>3 DEF Leaving
  <2>6. Leaving(p, h)' => Leaving(p, h)
    BY <2>1, <2>2, <2>4 DEF Leaving
  <2> QED
    BY <1>3, <2>5, <2>6
<1>5. CASE inbox' = inbox
  <2>1. \/ pc' # "idle" /\ pc # "idle" /\ cur' = cur
        \/ /\ DispatchRegister \/ DispatchPlay
           /\ cur.req # "UNREGISTER" /\ cur'.req # "UNREGISTER"
        \/ pc' = "idle" /\ (pc = "idle" \/ DoUnregister \/ cur.req # "UNREGISTER")
        \/ Accept
    <3>1. DispatchRegister \/ DispatchPlay => cur.req # "UNREGISTER" /\ cur'.req # "UNREGISTER"
      <4>1. ASSUME DispatchRegister \/ DispatchPlay
            PROVE  cur \in Request /\ cur.req # "UNREGISTER" /\ \E k : cur' = [cur EXCEPT !.handle = k]
        BY <4>1 DEF DispatchRegister, DispatchPlay, StartCompare, PInv, IInv, WalkInv
      <4> QED
        BY <4>1 DEF Request
    <3> QED
      BY <3>1, CurNext
  <2>2. DoUnregister => pc # "idle"
    BY DEF DoUnregister
  <2> QED
    BY <1>3, <1>4, <1>5, <2>1, <2>2 DEF Leaving
<1> QED
  BY <1>2, <1>3, <1>4, <1>5, CurNext
-----------------------------------------------------------------------------
(* The invariant is kept, part by part.                                    *)

\* The way a stream has been opened changes while it is closed.
LEMMA HowKept ==
  ASSUME PInv, PcmNext, NEW p \in Pids, at[p] # "closed"
  PROVE  how'[p] = how[p]
<1>1. ASSUME NEW q \in Pids, LocalAction(q) \/ Sending(q)
      PROVE  how'[p] = how[p]
  BY <1>1, LocalFacts, SendingFacts
<1>2. CASE FinishRequest \/ OpenRefused \/ SetState
  BY <1>2, AnswerFacts
<1>3. CASE Interrupt \/ GivesUp \/ Internal \/ \E q \in Pids : HandlerAnswers(q)
  BY <1>3 DEF Interrupt, GivesUp, Internal, HandlerAnswers, streamVars
<1> QED
  BY <1>1, <1>2, <1>3, Kinds

SameRequest(m, n) ==
  m.req = n.req /\ m.pid = n.pid /\ m.event = n.event /\ m.state = n.state /\ m.resource = n.resource

\* What the server is asked is what it was asked before, or what a stream asks now.
LEMMA TurnsNext ==
  ASSUME PInv, PcmNext, NEW i \in Turns'
  PROVE  \/ \E j \in Turns : SameRequest(Asked(i)', Asked(j))
         \/ \E p \in Pids, m \in Request :
              /\ Asked(i)' = m /\ Sending(p) /\ m.pid = p
              /\ m.resource = {} /\ (m.req = "SETSTATE" => how' = how /\ m.event = AskedEvent(p))
<1>1. inbox \in Seq(Request) /\ Len(inbox) \in Nat /\ DOMAIN inbox = 1..Len(inbox)
  BY LenProperties DEF PInv, IInv, TypeOK
<1>2. CASE \E p \in Pids : Sending(p) /\ pc' = pc /\ cur' = cur
  <2>1. PICK p \in Pids : Sending(p) /\ pc' = pc /\ cur' = cur
    BY <1>2
  <2>2. PICK m \in Request :
          /\ m.pid = p /\ inbox' = Append(inbox, m)
          /\ m.resource = {} /\ (m.req = "SETSTATE" => how' = how /\ m.event = AskedEvent(p))
    BY <2>1, SendingFacts
  <2>3. /\ DOMAIN inbox' = 1..(Len(inbox) + 1) /\ inbox'[Len(inbox) + 1] = m
        /\ \A j \in DOMAIN inbox : inbox'[j] = inbox[j]
    BY <1>1, <2>2, AppendProperties
  <2>4. CASE i = 0
    <3>1. i \in Turns /\ Asked(i)' = Asked(i)
      BY <1>1, <2>1, <2>3, <2>4 DEF Turns, Asked
    <3> QED
      BY <3>1 DEF SameRequest
  <2>5. CASE i # 0 /\ i \in DOMAIN inbox
    <3>1. i \in Turns /\ Asked(i)' = Asked(i)
      BY <2>3, <2>5 DEF Turns, Asked
    <3> QED
      BY <3>1 DEF SameRequest
  <2>6. CASE i # 0 /\ i \notin DOMAIN inbox
    <3>1. i \in DOMAIN inbox'
      BY <2>6 DEF Turns
    <3>2. i = Len(inbox) + 1
      BY <1>1, <2>3, <2>6, <3>1
    <3>3. Asked(i)' = m
      BY <2>3, <2>6, <3>2 DEF Asked
    <3> QED
      BY <2>1, <2>2, <3>3
  <2> QED
    BY <2>4, <2>5, <2>6
<1>3. CASE Accept
  <2>1. cur' = Head(inbox) /\ inbox' = Tail(inbox) /\ inbox # << >>
    BY <1>3 DEF Accept
  <2>2. /\ cur' = inbox[1] /\ 1 \in DOMAIN inbox /\ DOMAIN inbox' = 1..(Len(inbox) - 1)
        /\ \A j \in 1..(Len(inbox) - 1) : inbox'[j] = inbox[j + 1]
    BY <1>1, <2>1, HeadTailProperties, EmptySeq
  <2>3. i = 0 \/ i \in DOMAIN inbox'
    BY DEF Turns
  <2>4. i + 1 \in DOMAIN inbox /\ Asked(i)' = inbox[i + 1]
    BY <1>1, <2>2, <2>3 DEF Asked
  <2>5. i + 1 \in Turns /\ Asked(i + 1) = inbox[i + 1]
    BY <1>1, <2>4 DEF Turns, Asked
  <2> QED
    BY <2>4, <2>5 DEF SameRequest
<1>4. CASE inbox' = inbox /\ ~Accept
  <2>1. CASE i # 0
    <3>1. i \in Turns /\ Asked(i)' = Asked(i)
      BY <1>4, <2>1 DEF Turns, Asked
    <3> QED
      BY <3>1 DEF SameRequest
  <2>2. CASE i = 0
    <3>1. pc' # "idle"
      BY <1>1, <1>4, <2>2 DEF Turns
    <3>2. (pc # "idle" /\ cur' = cur) \/ DispatchRegister \/ DispatchPlay
      BY <1>4, <3>1, CurNext
    <3>3. pc # "idle" /\ SameRequest(cur', cur)
      <4>1. CASE DispatchRegister \/ DispatchPlay
        <5>1. pc # "idle" /\ \E k : cur' = [cur EXCEPT !.handle = k]
          BY <4>1 DEF DispatchRegister, DispatchPlay, StartCompare
        <5>2. cur \in Request
          BY <5>1 DEF PInv, IInv, WalkInv
        <5> QED
          BY <5>1, <5>2 DEF Request, SameRequest
      <4> QED
        BY <3>2, <4>1 DEF SameRequest
    <3>4. i \in Turns /\ Asked(i) = cur /\ Asked(i)' = cur'
      BY <2>2, <3>3 DEF Turns, Asked
    <3> QED
      BY <3>3, <3>4
  <2> QED
    BY <2>1, <2>2
<1> QED
  BY <1>2, <1>3, <1>4, CurNext

\* Who asks to play waits for the answer.
LEMMA AskerStarts ==
  ASSUME PInv, NEW i \in Turns
  PROVE  Asked(i) \in Request /\ (Asks(Asked(i)) => at[Asked(i).pid] = "starting")
<1>1. DOMAIN inbox = 1..Len(inbox)
  BY LenProperties DEF PInv, IInv, TypeOK
<1>2. Suits(Asked(i))
  <2>1. i = 0 => pc # "idle" /\ Asked(i) = cur
    BY <1>1 DEF Turns, Asked
  <2>2. i # 0 => i \in DOMAIN inbox /\ Asked(i) = inbox[i]
    BY DEF Turns, Asked
  <2> QED
    BY <2>1, <2>2 DEF PInv, Queued
<1> QED
  BY <1>2 DEF Suits, Asks

\* Nothing is claimed, so there is no second loop.
LEMMA PassKept ==
  ASSUME PInv, Phrased, PcmNext
  PROVE  pass' = "playing" /\ pc' # "pausedWalk"
<1>1. pass = "playing" /\ pc # "pausedWalk" /\ (pc # "idle" => cur.resource = {})
  BY DEF Phrased, Turns, Asked
<1>2. ASSUME NEW p \in Pids, LocalAction(p) \/ Sending(p)
      PROVE  UNCHANGED <<pc, pass>>
  BY <1>2, LocalFacts, SendingFacts DEF vars, walkVars
<1>3. CASE FinishRequest \/ OpenRefused \/ SetState
  BY <1>3, AnswerFacts DEF Idle
<1>4. ASSUME NEW res, Returned(res)
      PROVE  pass' = "playing" /\ pc' # "pausedWalk"
  BY <1>1, <1>4 DEF Returned, WorkerReturned, PausedReturned
<1>5. CASE Interrupt
  BY <1>1, <1>5 DEF Interrupt, WalkInterrupt, CallBackPc, walkVars
<1>6. CASE GivesUp
  BY <1>4, <1>6 DEF GivesUp, CallbackTimedOut, CallbackFailed
<1>7. CASE Internal
  BY <1>1, <1>7 DEF Internal, Accept, DoUnregister, Idle, ReapDone, DispatchRegister, DispatchPlay, StartCompare,
       WalkSkip, WalkPass, WalkRefuse, WalkEnd, StartPausedPass, walkVars
<1> QED
  BY <1>1, <1>2, <1>3, <1>4, <1>5, <1>6, <1>7, Kinds

LEMMA PhrasedKept ==
  ASSUME PInv, Phrased, PcmNext
  PROVE  Phrased'
<1>1. ASSUME NEW i \in Turns'
      PROVE  /\ Asked(i)'.resource = {}
             /\ Asks(Asked(i))' => Asked(i)'.event = AskedEvent(Asked(i).pid)'
  <2>1. CASE \E j \in Turns : SameRequest(Asked(i)', Asked(j))
    <3>1. PICK j \in Turns : SameRequest(Asked(i)', Asked(j))
      BY <2>1
    <3>2. /\ Asked(j).resource = {} /\ Asked(j).pid \in Pids
          /\ Asks(Asked(j)) => /\ Asked(j).event = AskedEvent(Asked(j).pid)
                               /\ how'[Asked(j).pid] = how[Asked(j).pid]
      BY AskerStarts, HowKept DEF Phrased, Request
    <3> QED
      BY <3>1, <3>2 DEF SameRequest, Asks, AskedEvent
  <2>2. CASE ~\E j \in Turns : SameRequest(Asked(i)', Asked(j))
    <3>1. PICK p \in Pids, m \in Request :
              /\ Asked(i)' = m /\ m.pid = p
              /\ m.resource = {} /\ (m.req = "SETSTATE" => how' = how /\ m.event = AskedEvent(p))
      BY <2>2, TurnsNext
    <3> QED
      BY <3>1 DEF Asks, AskedEvent
  <2> QED
    BY <2>1, <2>2
<1>2. \A p \in Pids : at'[p] # "closed" => how'[p] \in Opens[p]
  BY OpensAndCloses DEF Phrased
<1> QED
  BY <1>1, <1>2, PassKept DEF Phrased, Asks

\* A registration speaks of what its stream has been opened for.
LEMMA RegistersAsOpened ==
  ASSUME PInv, Phrased, pc \in Comparing, cur.req = "REGISTER"
  PROVE  /\ cur.pid \in Pids /\ ~IsOpen(cur.pid) /\ at[cur.pid] # "closed"
         /\ cur.event = how[cur.pid].event /\ how[cur.pid] \in Opens[cur.pid]
<1>1. pc # "idle" /\ cur.pid \in Pids
  BY ComparedFacts DEF Comparing
<1>2. at[cur.pid] = "opening" /\ cur.event = how[cur.pid].event
  BY <1>1 DEF PInv, Queued, Suits
<1> QED
  BY <1>1, <1>2 DEF Phrased, IsOpen

\* A registration that begins to be compared has a handle that no instance has.
LEMMA NewComparison ==
  ASSUME PInv, DispatchRegister \/ DispatchPlay
  PROVE  /\ pc = "dispatch" /\ list' = list /\ cur \in Request
         /\ SameRequest(cur', cur)
         /\ cur.req = "REGISTER" => \A i \in DOMAIN list : list[i].handle # cur'.handle
<1>1. pc = "dispatch" /\ cur \in Request /\ list' = list
  BY DEF DispatchRegister, DispatchPlay, StartCompare, PInv, IInv, WalkInv
<1>2. PICK h : /\ cur' = [cur EXCEPT !.handle = h]
               /\ cur.req = "REGISTER" => h \in FreeHandles
  BY DEF DispatchRegister, DispatchPlay, StartCompare
<1> QED
  BY <1>1, <1>2 DEF Request, SameRequest, FreeHandles, HandlesIn

LEMMA NamedRightKept ==
  ASSUME PInv, Phrased, NamedRight, PcmNext
  PROVE  NamedRight'
<1> SUFFICES ASSUME NEW i \in DOMAIN list'
             PROVE  /\ \E o \in Opens[list'[i].pid] : list'[i].event = o.event
                    /\ IsOpen(list[i].pid)' /\ list'[i].handle = handle'[list'[i].pid] =>
                         list'[i].event = how'[list'[i].pid].event
                    /\ pc' \in Comparing /\ cur'.req = "REGISTER" /\ Mine(list[i])' =>
                         list'[i].event = cur'.event
  BY DEF NamedRight
<1>1. CASE \E j \in DOMAIN list : SameInstance(list'[i], list[j])
  <2>1. PICK j \in DOMAIN list : SameInstance(list'[i], list[j])
    BY <1>1
  <2>2. PICK e \in Entry : e = list[j]
    BY ElementOfSeq, LenProperties DEF PInv, IInv, TypeOK
  <2>3. e.pid \in Pids /\ list'[i].pid = e.pid /\ list'[i].handle = e.handle /\ list'[i].event = e.event
    BY <2>1, <2>2 DEF Entry, SameInstance
  <2>4. /\ \E o \in Opens[e.pid] : e.event = o.event
        /\ IsOpen(e.pid) /\ e.handle = handle[e.pid] => e.event = how[e.pid].event
        /\ pc \in Comparing /\ cur.req = "REGISTER" /\ Mine(e) => e.event = cur.event
    BY <2>2 DEF NamedRight
  <2>5. IsOpen(e.pid)' /\ e.handle = handle'[e.pid] => e.event = how'[e.pid].event
    <3>1. CASE IsOpen(e.pid) /\ handle'[e.pid] = handle[e.pid]
      BY <2>3, <2>4, <3>1, OpensAndCloses
    <3>2. CASE pc = "finish" /\ cur.req = "REGISTER" /\ e.pid = cur.pid /\ handle'[e.pid] = cur.handle
      <4>1. pc \in Comparing
        BY <3>2 DEF Comparing
      <4> QED
        BY <2>3, <2>4, <3>2, <4>1, OpensAndCloses, RegistersAsOpened DEF Mine, Own
    <3> QED
      BY <2>3, <3>1, <3>2, OpensAndCloses
  <2>6. pc' \in Comparing /\ cur'.req = "REGISTER" /\ Own(e, cur'.pid, cur'.handle) => e.event = cur'.event
    <3>1. CASE pc \in Comparing /\ cur' = cur
      BY <2>4, <3>1 DEF Mine
    <3>2. CASE DispatchRegister \/ DispatchPlay
      BY <2>2, <3>2, NewComparison DEF SameRequest, Own
    <3> QED
      BY <3>1, <3>2, CurNext
  <2> QED
    BY <2>3, <2>4, <2>5, <2>6 DEF Mine, Own
<1>2. CASE /\ pc \in Comparing /\ cur.req = "REGISTER"
           /\ Mine(list'[i]) /\ list'[i].event = cur.event
  <2>1. list'[i].pid = cur.pid /\ list'[i].event = cur.event
    BY <1>2 DEF Mine, Own
  <2>2. how'[cur.pid] = how[cur.pid]
    BY <1>2, RegistersAsOpened, HowKept
  <2>3. pc' \in Comparing => cur' = cur
    BY <1>2, CurNext, NewComparison DEF Comparing
  <2> QED
    BY <1>2, <2>1, <2>2, <2>3, RegistersAsOpened
<1> QED
  BY <1>1, <1>2, EachStems DEF Stems

\* A stream opens when nothing of it is left to be unregistered.
LEMMA OpensAfterLeaving ==
  ASSUME PInv, OnePlays, PcmNext, NEW p \in Pids, NEW h, Leaving(p, h)
  PROVE  ~IsOpen(p)'
<1>1. ~IsOpen(p)
  BY DEF OnePlays
<1>2. CASE pc # "idle" /\ cur.req = "REGISTER" /\ p = cur.pid
  <2>1. PICK i \in DOMAIN inbox : inbox[i].req = "UNREGISTER" /\ inbox[i].pid = p
    BY <1>2 DEF Leaving
  <2>2. ~Unanswered(cur) /\ Follows(cur, inbox[i])
    BY <1>2 DEF PInv, Queued, Unanswered
  <2> QED
    BY <1>2, <2>1, <2>2 DEF Follows
<1> QED
  BY <1>1, <1>2, OpensAndCloses

LEMMA ClosesOpen == ASSUME NEW p \in Pids, CloseUnregister(p) PROVE IsOpen(p)
BY DEF CloseUnregister, Goes, IsOpen

LEMMA LeavesOnce ==
  ASSUME PInv, OnePlays, PcmNext, NEW p, NEW h, Leaving(p, h)'
  PROVE  p \in Pids /\ ~IsOpen(p)' /\ \A k : Leaving(p, k)' => k = h
<1>1. CASE Leaving(p, h)
  <2>1. p \in Pids /\ ~IsOpen(p) /\ \A k : Leaving(p, k) => k = h
    BY <1>1 DEF OnePlays
  <2>2. \A k : Leaving(p, k)' => Leaving(p, k) \/ CloseUnregister(p)
    BY LeavingNext
  <2> QED
    BY <1>1, <2>1, <2>2, OpensAfterLeaving, ClosesOpen
<1>2. CASE p \in Pids /\ CloseUnregister(p) /\ h = handle[p]
  <2>1. IsOpen(p) /\ Sending(p)
    BY <1>2, ClosesOpen DEF Sending
  <2>2. at'[p] = "closed"
    BY <1>2 DEF CloseUnregister, Goes, PInv, StreamTypes
  <2>3. \A k : ~Leaving(p, k)
    BY <2>1 DEF OnePlays
  <2>4. \A k : Leaving(p, k)' => k = handle[p]
    BY <2>3, LeavingNext
  <2> QED
    BY <1>2, <2>2, <2>4 DEF IsOpen
<1> QED
  BY <1>1, <1>2, LeavingNext

LEMMA OnePlaysKept ==
  ASSUME PInv, OnePlays, PcmNext
  PROVE  OnePlays'
<1>1. ASSUME NEW p \in Pids, NEW h, IsOpen(p), h = handle[p]
      PROVE  (IsOpen(p)' /\ h = handle'[p]) \/ Leaving(p, h)'
  <2>1. CASE CloseUnregister(p)
    <3>1. handle' = handle /\ Leaving(p, handle[p])'
      BY <2>1, LeavingNext DEF CloseUnregister
    <3> QED
      BY <1>1, <3>1
  <2> QED
    BY <1>1, <2>1, OpensAndCloses
<1>2. ASSUME NEW p, NEW h, Playing(p, h)'
      PROVE  (IsOpen(p)' /\ h = handle'[p]) \/ Leaving(p, h)'
  <2>1. PICK n \in DOMAIN list' :
          list'[n].handle = h /\ list'[n].pid = p /\ list'[n].state = "PLAYING"
    BY <1>2 DEF Playing, PlayingIn
  <2>2. PICK j \in DOMAIN list :
          /\ SameInstance(list'[n], list[j])
          /\ list[j].state = "PLAYING" \/ (TakesEffect /\ Mine(list[j]))
    BY <2>1, EachStems DEF Stems
  <2>3. PICK e \in Entry : e = list[j]
    BY ElementOfSeq, LenProperties DEF PInv, IInv, TypeOK
  <2>4. e.handle = h /\ e.pid = p /\ p \in Pids
    BY <2>1, <2>2, <2>3 DEF SameInstance, Entry
  <2>5. CASE Leaving(p, h)
    <3>1. <<h, p>> \in OwnedIn(list')
      BY <2>1 DEF OwnedIn
    <3>2. ~(DoUnregister /\ cur.pid = p /\ cur.handle = h)
      BY <3>1, DoUnregisterList
    <3> QED
      BY <2>5, <3>2, LeavingNext
  <2>6. CASE e.state = "PLAYING"
    <3>1. Playing(p, h)
      BY <2>3, <2>4, <2>6 DEF Playing, PlayingIn
    <3> QED
      BY <1>1, <2>4, <2>5, <3>1 DEF OnePlays
  <2>7. CASE TakesEffect /\ Mine(e)
    <3>1. IsOpen(p) /\ h = handle[p]
      BY <2>4, <2>7, ComparedFacts DEF TakesEffect, Starting, Mine, Own, IsOpen
    <3> QED
      BY <1>1, <2>4, <3>1
  <2> QED
    BY <2>2, <2>3, <2>6, <2>7
<1> QED
  BY <1>2, LeavesOnce DEF OnePlays

\* Of one stream there are not two that play.
LEMMA PlaysOnce ==
  ASSUME PInv, OnePlays, NEW i \in DOMAIN list, NEW j \in DOMAIN list,
         list[i].state = "PLAYING", list[j].state = "PLAYING", list[i].pid = list[j].pid
  PROVE  i = j
<1>1. Playing(list[i].pid, list[i].handle) /\ Playing(list[j].pid, list[j].handle)
  BY DEF Playing, PlayingIn
<1>2. list[i].handle = list[j].handle
  BY <1>1 DEF OnePlays
<1> QED
  BY <1>2 DEF PInv, IInv, HandlesUnique

\* When a start takes effect, or goes on after that, the visited stream is the one of which nothing
\* plays ahead.
LEMMA StartCommitted ==
  ASSUME PInv, OnePlays, Starting, cursor <= Len(list), Visited.state = "PLAYING", ~Mine(Visited),
         updated => \E p \in Pids \ {cur.pid} : SilentFrom(cursor, list, p),
         NEW k, Calmer(k, list), list' = Commit(k), cursor' = cursor + 1
  PROVE  \E p \in Pids \ {cur.pid} : SilentFrom(cursor, list, p)'
<1>1. /\ list \in Seq(Entry) /\ cur \in Request /\ cursor \in Nat \ {0}
      /\ cur.state \in States /\ cur.resource \in SUBSET Resources
      /\ at[cur.pid] = "starting" /\ cur.handle = handle[cur.pid]
  BY ComparedFacts DEF Starting, PInv, IInv, TypeOK
<1>2. cursor \in DOMAIN list /\ DOMAIN list \subseteq Nat
  BY <1>1, LenProperties
<1>3. k \in Seq(Entry) /\ DOMAIN k = DOMAIN list
  BY DEF Calmer, SameHandles
<1>4. CASE updated
  <2>1. list' = k
    BY <1>4 DEF Commit
  <2>2. PICK p \in Pids \ {cur.pid} : SilentFrom(cursor, list, p)
    BY <1>4
  <2>3. SilentFrom(cursor, list, p)'
    BY <1>1, <1>2, <2>1, <2>2 DEF SilentFrom, Calmer, SameHandles
  <2> QED
    BY <2>3
<1>5. CASE ~updated
  <2>1. list' = ChangeState(k, cur.pid, cur.handle, cur.state, cur.resource)
    BY <1>5 DEF Commit, Starting
  <2>2. /\ DOMAIN list' = DOMAIN list
        /\ \A i \in DOMAIN list : list'[i].pid = list[i].pid
    BY <1>1, <1>3, <2>1, ChangeStateKeeps DEF SameHandles, Calmer
  <2>3. Visited.pid \in Pids
    <3>1. \A i \in DOMAIN list : list[i] \in Entry
      BY <1>1, ElementOfSeq, LenProperties
    <3> QED
      BY <1>2, <3>1 DEF Visited, Entry
  <2>4. Visited.pid # cur.pid
    <3>1. ASSUME Visited.pid = cur.pid PROVE FALSE
      <4>1. Playing(cur.pid, Visited.handle)
        BY <1>2, <3>1 DEF Playing, PlayingIn, Visited
      <4>2. IsOpen(cur.pid)
        BY <1>1 DEF IsOpen
      <4>3. Visited.handle = cur.handle
        BY <1>1, <4>1, <4>2 DEF OnePlays
      <4> QED
        BY <3>1, <4>3 DEF Mine, Own
    <3> QED
      BY <3>1
  <2>5. ASSUME NEW i \in DOMAIN list, cursor + 1 <= i, list[i].pid = Visited.pid
        PROVE  list'[i].state # "PLAYING"
    <3>1. list'[i] = k[i]
      BY <1>3, <2>1, <2>4, <2>5, ChangeStateOthers DEF Calmer, SameHandles
    <3>2. i # cursor
      BY <1>1, <1>2, <2>5
    <3>3. list[i].state # "PLAYING"
      BY <1>2, <2>5, <3>2, PlaysOnce DEF Visited
    <3> QED
      BY <3>1, <3>3 DEF Calmer
  <2>6. PICK p \in Pids \ {cur.pid} : p = Visited.pid
    BY <2>3, <2>4
  <2>7. SilentFrom(cursor, list, p)'
    BY <2>2, <2>5, <2>6 DEF SilentFrom
  <2> QED
    BY <2>7
<1> QED
  BY <1>4, <1>5

\* What has been missed stays so, and no stream that is silent is heard, while a start waits.
LEMMA StaysUnheard ==
  ASSUME PInv, Starting, PcmNext, pc' # "idle", NEW p, p = cur.pid, missed[p] \/ ~Audible(p)
  PROVE  missed'[p] \/ ~Audible(p)'
<1>1. p \in Pids /\ at[p] = "starting" /\ missed \in [Pids -> BOOLEAN]
  BY ComparedFacts DEF Starting, PInv, StreamTypes
<1>2. missed[p] \/ corked[p]
  BY <1>1 DEF Audible
<1>3. ASSUME NEW q \in Pids, LocalAction(q)
      PROVE  (missed[p] => missed'[p]) /\ (corked[p] => corked'[p])
  <2>1. missed[p] => missed'[p]
    <3>1. CASE HandlerChecks(q) \/ HandlerAnswers(q)
      BY <1>1, <3>1 DEF HandlerChecks, HandlerAnswers
    <3>2. CASE ~(HandlerChecks(q) \/ HandlerAnswers(q))
      <4>1. missed' = missed
        BY <1>3, <3>2 DEF LocalAction, StartMark, StartUncork, Stop, StopMark, StopCork, Close,
               HandlerMarks, HandlerCorks, HandlerStrays
      <4> QED
        BY <4>1
    <3> QED
      BY <3>1, <3>2
  <2>2. corked[p] => corked'[p]
    BY <1>1, <1>3, LocalFacts
  <2> QED
    BY <2>1, <2>2
<1>4. ASSUME NEW q \in Pids, Sending(q)
      PROVE  missed' = missed /\ corked' = corked
  <2>1. CASE Open(q) \/ Start(q)
    BY <2>1 DEF Open, Start
  <2>2. CASE StopTell(q) \/ CloseUnregister(q)
    BY <2>2 DEF StopTell, CloseUnregister
  <2> QED
    BY <1>4, <2>1, <2>2 DEF Sending
<1>5. ASSUME NEW q \in Pids, HandlerAnswers(q)
      PROVE  (missed[p] => missed'[p]) /\ corked' = corked
  BY <1>1, <1>5 DEF HandlerAnswers
<1>6. CASE GivesUp
  <2>1. (missed[p] => missed'[p]) /\ corked' = corked
    BY <1>1, <1>6 DEF GivesUp
  <2> QED
    BY <1>2, <2>1 DEF Audible
<1>7. CASE Interrupt \/ Internal
  <2>1. missed' = missed /\ corked' = corked
    BY <1>7 DEF Interrupt, Internal, streamVars
  <2> QED
    BY <1>2, <2>1 DEF Audible
<1>8. ~(FinishRequest \/ OpenRefused \/ SetState)
  BY AnswerFacts
<1> QED
  BY <1>2, <1>3, <1>4, <1>5, <1>6, <1>7, <1>8, Kinds DEF Audible

\* While the server waits, what it waits for stays where it is.
LEMMA VisitedPlays ==
  ASSUME PInv, Ungranted, PcmNext, pc' \in Returning
  PROVE  Visited'.state = "PLAYING"
<1> USE DEF Returning
<1>1. ASSUME NEW p \in Pids, LocalAction(p) \/ Sending(p)
      PROVE  UNCHANGED <<list, cursor, pc>>
  BY <1>1, LocalFacts, SendingFacts DEF vars, walkVars
<1>2. CASE Interrupt
  BY <1>2 DEF Interrupt, WalkInterrupt, Sounding, Visited, walkVars
<1>3. ASSUME NEW res, Returned(res)
      PROVE  FALSE
  BY <1>3 DEF Returned, WorkerReturned, PausedReturned
<1>4. CASE FinishRequest \/ OpenRefused \/ SetState
  BY <1>4, AnswerFacts
<1>5. CASE GivesUp
  BY <1>3, <1>5 DEF GivesUp, CallbackTimedOut, CallbackFailed
<1>6. CASE Internal
  <2>1. CASE Accept
    BY <2>1 DEF Accept
  <2>2. CASE DoUnregister \/ ReapDone \/ DispatchRegister \/ DispatchPlay \/ WalkEnd \/ StartPausedPass
    BY <2>2 DEF DoUnregister, Idle, ReapDone, DispatchRegister, DispatchPlay, StartCompare, WalkEnd,
                StartPausedPass
  <2>3. CASE WalkSkip \/ WalkPass \/ WalkRefuse
    BY <2>3 DEF WalkSkip, WalkPass, WalkRefuse, Walking
  <2> QED
    BY <1>6, <2>1, <2>2, <2>3 DEF Internal
<1> QED
  BY <1>1, <1>2, <1>3, <1>4, <1>5, <1>6, Kinds DEF Ungranted, Visited


\* A comparison goes on, or it begins.
LEMMA StartingNext ==
  ASSUME PInv, PcmNext, Starting'
  PROVE  \/ Starting /\ cur' = cur /\ pc' \in Comparing
         \/ DispatchPlay /\ UNCHANGED streamVars
<1>1. pc' \in Comparing /\ cur'.req = "SETSTATE"
  BY DEF Starting
<1>2. CASE pc \in Comparing /\ cur' = cur
  BY <1>1, <1>2 DEF Starting
<1>3. CASE DispatchRegister
  BY <1>1, <1>3, NewComparison DEF SameRequest, DispatchRegister
<1>4. CASE DispatchPlay
  <2>1. pc = "dispatch" /\ pc' \in {"walk", "walked"}
    BY <1>4 DEF DispatchPlay, StartCompare
  <2>2. \A p \in Pids : ~LocalAction(p) /\ ~Sending(p)
    BY <2>1, LocalFacts, SendingFacts DEF vars
  <2>3. ~(FinishRequest \/ OpenRefused \/ SetState)
    BY <2>1, AnswerFacts
  <2>4. ~Interrupt /\ ~GivesUp /\ \A p \in Pids : ~AwaitsAnswer(p)
    BY <2>1 DEF Interrupt, WalkInterrupt, Walking, GivesUp, AwaitsAnswer
  <2>5. Internal
    BY <2>2, <2>3, <2>4, Kinds
  <2> QED
    BY <1>4, <2>5 DEF Internal
<1> QED
  BY <1>1, <1>2, <1>3, <1>4, CurNext

\* A comparison that begins is that of a stream that is not heard, or has missed a stop.
LEMMA DispatchUngranted ==
  ASSUME PInv, DispatchPlay, UNCHANGED streamVars
  PROVE  /\ missed[cur.pid] \/ ~Audible(cur.pid)
         /\ cur'.pid = cur.pid /\ cur'.handle = cur.handle
         /\ ~updated' /\ ~Playing(cur.pid, cur.handle)' /\ reply'.cmd # "STOP"
<1>1. /\ pc = "dispatch" /\ pc \notin Comparing /\ pc \notin Returning
      /\ cur.req = "SETSTATE" /\ cur.state = "PLAYING"
      /\ ~IsItPlayingNow(list, cur.pid, cur.handle) /\ StartCompare(cur.handle)
  BY DEF DispatchPlay, Comparing, Returning
<1>2. cur \in Request /\ cur.pid \in Pids /\ cur.handle = handle[cur.pid]
  BY <1>1 DEF PInv, Queued, Suits, Request
<1>3. ~Playing(cur.pid, cur.handle)
  BY <1>1, PlayingNow DEF Playing
<1>4. missed[cur.pid] \/ ~Audible(cur.pid)
  BY <1>1, <1>2, <1>3, NoCallback DEF PInv, StreamInv, InTime
<1>5. /\ cur' = [cur EXCEPT !.handle = cur.handle] /\ UNCHANGED <<list, updated>>
      /\ reply' = reply \/ reply' = [alloc |-> cur.handle, cmd |-> "NONE"]
  BY <1>1 DEF StartCompare
<1>6. cur'.pid = cur.pid /\ cur'.handle = cur.handle
  BY <1>2, <1>5 DEF Request
<1>7. ~updated /\ reply.cmd = "UNSET"
  BY <1>1 DEF PInv, Compared, IInv, WalkInv
<1>8. ~updated' /\ reply'.cmd # "STOP"
  BY <1>5, <1>7
<1>9. ~Playing(cur.pid, cur.handle)'
  BY <1>3, <1>5, <1>6 DEF Playing
<1> QED
  BY <1>4, <1>6, <1>8, <1>9

\* What plays at the place the walk has reached, and is another's: its event, and the case of it.
LEMMA VisitedFacts ==
  ASSUME PInv, Orderly, Phrased, NamedRight, Starting, cursor <= Len(list)
  PROVE  /\ cursor \in DOMAIN list /\ Visited \in Entry /\ Visited.pid \in Pids
         /\ Visited.pid # cur.pid =>
              \/ CaseOf(Visited) \in {StopCurrent, Mix}
              \/ CaseOf(Visited) = RefuseNew /\ Pids = {Visited.pid, cur.pid}
<1>1. /\ cursor \in Nat \ {0} /\ list \in Seq(Entry) /\ cur.pid \in Pids /\ pc # "idle"
      /\ at[cur.pid] = "starting" /\ Asks(cur)
  BY ComparedFacts DEF Starting, PInv, IInv, TypeOK, Comparing, Asks
<1>2. cursor \in DOMAIN list /\ \A i \in DOMAIN list : list[i] \in Entry
  BY <1>1, ElementOfSeq, LenProperties
<1>3. Visited \in Entry /\ Visited.pid \in Pids
  BY <1>2 DEF Visited, Entry
<1>4. PICK o \in Opens[Visited.pid] : Visited.event = o.event
  BY <1>2 DEF NamedRight, Visited
<1>5. how[cur.pid] \in Opens[cur.pid] /\ cur.event = AskedEvent(cur.pid)
  BY <1>1 DEF Phrased, Turns, Asked
<1>6. cur.event = StartsAs(how[cur.pid])
  BY <1>5 DEF AskedEvent, StartsAs
<1>7. CaseOf(Visited) = SoundCase(o.event, StartsAs(how[cur.pid]))
  BY <1>4, <1>6 DEF CaseOf, Orderly
<1> QED
  BY <1>1, <1>2, <1>3, <1>5, <1>7 DEF Orderly

LEMMA PendingSame ==
  ASSUME Pending, UNCHANGED <<cur, updated, quiet, reply, cursor>>,
         pc' \in {"walk", "worker"} => pc \in {"walk", "worker"},
         NEW k, Calmer(k, list), list' = k
  PROVE  Pending'
<1>1. Playing(cur.pid, cur.handle)' => Playing(cur.pid, cur.handle)
  BY DEF Playing, PlayingIn, Calmer, SameHandles
<1>2. \A p : SilentFrom(cursor, list, p) => SilentFrom(cursor, list, p)'
  BY DEF SilentFrom, Calmer, SameHandles
<1>3. ~updated' => ~Playing(cur.pid, cur.handle)'
  BY <1>1 DEF Pending
<1>4. reply'.cmd = "STOP" => ~updated' /\ ~quiet'
  BY DEF Pending
<1>5. updated' /\ pc' \in {"walk", "worker"} =>
        \E p \in Pids \ {cur.pid} : SilentFrom(cursor, list, p)'
  BY <1>2 DEF Pending
<1> QED
  BY <1>3, <1>4, <1>5 DEF Pending

\* The request takes effect with an answer that is not a refusal.
LEMMA PendingCommit ==
  ASSUME PInv, OnePlays, Starting, Pending, pc \in {"walk", "worker"},
         cursor <= Len(list), Visited.state = "PLAYING", ~Mine(Visited),
         NEW k, Calmer(k, list), CommitAndStep(k, "PLAY"), cur' = cur
  PROVE  Pending'
<1>1. /\ list' = Commit(k) /\ updated' /\ reply'.cmd = "PLAY"
      /\ cursor' = cursor + 1
  BY DEF CommitAndStep, Starting
<1>2. updated => \E p \in Pids \ {cur.pid} : SilentFrom(cursor, list, p)
  BY DEF Pending
<1>3. \E p \in Pids \ {cur.pid} : SilentFrom(cursor, list, p)'
  BY <1>1, <1>2, StartCommitted
<1> QED
  BY <1>1, <1>3 DEF Pending

LEMMA PendingWalk ==
  ASSUME PInv, Orderly, Phrased, NamedRight, OnePlays, Starting, Pending, cur' = cur,
         WalkSkip \/ WalkPass \/ WalkRefuse
  PROVE  Pending'
<1>1. /\ list \in Seq(Entry) /\ cur.state = "PLAYING" /\ pc = "walk" /\ cursor <= Len(list)
      /\ ~quiet /\ pc' = pc
  BY ComparedFacts DEF Starting, WalkSkip, WalkPass, WalkRefuse, Walking, PInv, Compared
<1>2. CASE WalkSkip
  <2>1. UNCHANGED <<list, updated, quiet, reply>> /\ cursor' = cursor + 1 /\ cursor \in Nat
    BY <1>2 DEF WalkSkip, Next1, PInv, IInv, TypeOK
  <2>2. DOMAIN list \subseteq Nat
    BY <1>1, LenProperties
  <2>3. \A p : SilentFrom(cursor, list, p) => SilentFrom(cursor, list, p)'
    BY <2>1, <2>2 DEF SilentFrom
  <2>4. Playing(cur.pid, cur.handle)' <=> Playing(cur.pid, cur.handle)
    BY <2>1 DEF Playing
  <2>5. updated' /\ pc' \in {"walk", "worker"} =>
          \E p \in Pids \ {cur.pid} : SilentFrom(cursor, list, p)'
    BY <1>1, <2>1, <2>3 DEF Pending
  <2> QED
    BY <2>1, <2>4, <2>5 DEF Pending
<1>3. CASE WalkPass
  BY <1>1, <1>3, FlagsCalm, PendingCommit DEF WalkPass, Sounding
<1>4. CASE WalkRefuse
  <2>1. /\ UNCHANGED <<list, updated, quiet>> /\ CaseOf(Visited) = RefuseNew /\ Visited.pid # cur.pid
        /\ Visited.state = "PLAYING"
    BY <1>4 DEF WalkRefuse, Foreign, Sounding
  <2>2. Pids = {Visited.pid, cur.pid} /\ cursor \in DOMAIN list
    BY <1>1, <2>1, VisitedFacts DEF RefuseNew, StopCurrent, Mix
  <2>3. cursor <= cursor
    BY DEF PInv, IInv, TypeOK
  <2>4. ~updated
    BY <1>1, <2>1, <2>2, <2>3 DEF Pending, SilentFrom, Visited
  <2>5. Playing(cur.pid, cur.handle)' <=> Playing(cur.pid, cur.handle)
    BY <2>1 DEF Playing
  <2> QED
    BY <1>1, <2>1, <2>4, <2>5 DEF Pending
<1> QED
  BY <1>2, <1>3, <1>4

LEMMA PendingReturned ==
  ASSUME PInv, OnePlays, Ungranted, Starting, pass = "playing", NEW res, Returned(res)
  PROVE  Pending'
<1>1. pc = "worker" /\ WorkerReturned(res) /\ cur' = cur
  BY DEF Returned, WorkerReturned, PausedReturned
<1>2. /\ Visited.state = "PLAYING" /\ Visited.pid # cur.pid /\ Visited \in Entry
      /\ cursor <= Len(list) /\ list \in Seq(Entry)
  BY <1>1, WorkerFacts, ComparedFacts DEF Ungranted, PInv, IInv, WalkInv
<1>3. PICK k \in {AfterStop(Visited, res), AfterPause(Visited, res), AfterMix(Visited, res)} :
        CommitAndStep(Resumable(k, Visited), "PLAY")
  BY <1>1 DEF WorkerReturned
<1>4. Calmer(k, list) /\ k \in Seq(Entry)
  BY <1>2, AnswerCalms DEF Calmer, SameHandles
<1>5. Calmer(Resumable(k, Visited), list)
  <2>1. Calmer(Resumable(k, Visited), k)
    BY <1>4, FlagsCalm DEF Resumable
  <2> QED
    BY <1>4, <2>1, CalmerTwice
<1> QED
  BY <1>1, <1>2, <1>3, <1>5, PendingCommit DEF Ungranted, Mine, Own

LEMMA PendingKept ==
  ASSUME PInv, Orderly, Phrased, NamedRight, OnePlays, Ungranted, PcmNext,
         Starting, cur' = cur, pc' \in Comparing
  PROVE  Pending'
<1> USE DEF Comparing
<1>1. list \in Seq(Entry) /\ Pending /\ pass = "playing" /\ pc # "pausedWalk"
  BY ComparedFacts DEF Starting, Ungranted, Phrased
<1>2. Calmer(list, list)
  BY <1>1, FlagsCalm
<1>3. ASSUME NEW p \in Pids, LocalAction(p) \/ Sending(p)
      PROVE  Pending'
  <2>1. UNCHANGED <<list, pc, cur, walkVars>>
    BY <1>3, LocalFacts, SendingFacts DEF vars
  <2> QED
    BY <1>1, <1>2, <2>1, PendingSame DEF walkVars
<1>4. CASE Interrupt
  <2>1. UNCHANGED <<list, cur, walkVars>> /\ pc = "walk"
    BY <1>4 DEF Interrupt, WalkInterrupt, Walking
  <2> QED
    BY <1>1, <1>2, <2>1, PendingSame DEF walkVars
<1>5. ASSUME NEW res, Returned(res)
      PROVE  Pending'
  BY <1>1, <1>5, PendingReturned
<1>6. ~(FinishRequest \/ OpenRefused \/ SetState)
  BY AnswerFacts
<1>7. CASE GivesUp
  BY <1>5, <1>7 DEF GivesUp, CallbackTimedOut, CallbackFailed
<1>8. CASE Internal
  <2>1. CASE WalkSkip \/ WalkPass \/ WalkRefuse
    BY <1>1, <2>1, PendingWalk
  <2>2. CASE WalkEnd
    <3>1. Calmer(SetAllMonitorClean(list), list)
      BY <1>1, FlagsCalm
    <3> QED
      BY <1>1, <2>2, <3>1, PendingSame DEF WalkEnd, walkVars
  <2>3. CASE StartPausedPass
    <3>1. cur.resource = {} /\ pc = "walked"
      BY <2>3 DEF Phrased, Turns, Asked, StartPausedPass
    <3>2. UNCHANGED <<list, cur, updated, quiet, reply, cursor>> /\ pc' = "finish"
      BY <2>3, <3>1 DEF StartPausedPass
    <3> QED
      BY <1>1, <1>2, <3>2, PendingSame
  <2>4. ~(Accept \/ DoUnregister \/ ReapDone \/ DispatchRegister \/ DispatchPlay)
    BY DEF Starting, Accept, DoUnregister, ReapDone, DispatchRegister, DispatchPlay
  <2> QED
    BY <1>8, <2>1, <2>2, <2>3, <2>4 DEF Internal
<1> QED
  BY <1>3, <1>4, <1>5, <1>6, <1>7, <1>8, Kinds

LEMMA UngrantedKept ==
  ASSUME PInv, Orderly, Phrased, NamedRight, OnePlays, Ungranted, PcmNext
  PROVE  Ungranted'
<1>1. ASSUME Starting'
      PROVE  (missed[cur.pid] \/ ~Audible(cur.pid))' /\ Pending'
  <2>1. CASE Starting /\ cur' = cur /\ pc' \in Comparing
    <3>1. PICK p : p = cur.pid
      OBVIOUS
    <3>2. missed'[p] \/ ~Audible(p)'
      BY <2>1, <3>1, StaysUnheard DEF Ungranted, Comparing
    <3>3. (missed[cur.pid] \/ ~Audible(cur.pid))'
      BY <2>1, <3>1, <3>2 DEF Audible
    <3> QED
      BY <2>1, <3>3, PendingKept
  <2>2. CASE DispatchPlay /\ UNCHANGED streamVars
    <3>1. /\ missed[cur.pid] \/ ~Audible(cur.pid)
          /\ cur'.pid = cur.pid
          /\ ~updated' /\ ~Playing(cur.pid, cur.handle)' /\ reply'.cmd # "STOP"
      BY <2>2, DispatchUngranted
    <3> QED
      BY <2>2, <3>1 DEF Audible, streamVars, Pending
  <2> QED
    BY <1>1, <2>1, <2>2, StartingNext
<1> QED
  BY <1>1, VisitedPlays DEF Ungranted

\* A start is granted with the answer to it.
LEMMA GrantedNext ==
  ASSUME PInv, OnePlays, Ungranted, PcmNext, NEW p \in Pids, Granted(p)'
  PROVE  /\ how'[p] = how[p]
         /\ Granted(p) \/ (FinishRequest /\ cur.req = "SETSTATE" /\ cur.pid = p /\ reply.cmd # "STOP")
<1>1. PICK h : h = handle'[p]
  OBVIOUS
<1>2. /\ IsOpen(p)' /\ <<h, p>> \in PlayingIn(list') /\ ~(Starting' /\ cur'.pid = p)
      /\ how'[p] = how[p]
  BY <1>1, OpensAndCloses DEF Granted, Playing
<1>3. CASE Starting /\ cur.pid = p
  <2>1. pc \in Comparing /\ cur.req = "SETSTATE" /\ IsOpen(p) /\ cur.handle = handle[p]
    BY <1>3, ComparedFacts DEF Starting, IsOpen
  <2>2. pc' = "idle" /\ FinishRequest
    <3>1. pc' \in Comparing => cur' = cur
      BY <2>1, CurNext, NewComparison DEF Comparing
    <3> QED
      BY <1>2, <1>3, <2>1, <3>1, CurNext DEF Starting
  <2>3. handle[p] = h
    BY <1>1, <1>2, <2>1, OpensAndCloses
  <2>4. ASSUME reply.cmd = "STOP" PROVE FALSE
    <3>1. ~updated /\ ~quiet /\ ~Playing(cur.pid, cur.handle)
      BY <1>3, <2>4 DEF Ungranted, Pending
    <3>2. list' = list
      BY <2>2, <3>1 DEF FinishRequest, Finish
    <3> QED
      BY <1>2, <1>3, <2>1, <2>3, <3>1, <3>2 DEF Playing
  <2> QED
    BY <1>2, <1>3, <2>1, <2>2, <2>4
<1>4. CASE ~(Starting /\ cur.pid = p)
  <2>1. PICK n \in DOMAIN list' :
          list'[n].handle = h /\ list'[n].pid = p /\ list'[n].state = "PLAYING"
    BY <1>2 DEF PlayingIn
  <2>2. PICK j \in DOMAIN list :
          /\ SameInstance(list'[n], list[j])
          /\ list[j].state = "PLAYING" \/ (TakesEffect /\ Mine(list[j]))
    BY <2>1, EachStems DEF Stems
  <2>3. list[j].pid = p /\ list[j].handle = h
    BY <2>1, <2>2 DEF SameInstance
  <2>4. list[j].state = "PLAYING"
    BY <1>4, <2>2, <2>3 DEF TakesEffect, Mine, Own
  <2>5. Playing(p, h)
    BY <2>3, <2>4 DEF Playing, PlayingIn
  <2>6. IsOpen(p) /\ h = handle[p]
    <3>1. Leaving(p, h) => ~IsOpen(p)'
      BY OpensAfterLeaving
    <3> QED
      BY <1>2, <2>5, <3>1 DEF OnePlays
  <2> QED
    BY <1>2, <1>4, <2>5, <2>6 DEF Granted
<1> QED
  BY <1>3, <1>4

\* ... to a stream which all others that have been told to play let in.
LEMMA GrantJoins ==
  ASSUME PInv, GrantInv, Orderly, Phrased, NamedRight,
         FinishRequest, cur.req = "SETSTATE", reply.cmd # "STOP", cur.pid \in Pids,
         NEW q \in Pids, q # cur.pid, IsOpen(q), Playing(q, handle[q])
  PROVE  MayJoin(q, cur.pid)
<1>1. pc = "finish" /\ pc \in Comparing /\ pc # "idle"
  BY DEF FinishRequest, Finish, Comparing
<1>2. cur.state = "PLAYING" /\ at[cur.pid] = "starting" /\ Asks(cur)
  BY <1>1, ComparedFacts DEF Asks
<1>3. PICK i \in DOMAIN list :
        list[i].handle = handle[q] /\ list[i].pid = q /\ list[i].state = "PLAYING"
  BY DEF Playing, PlayingIn
<1>4. Silenced(list[i], cur)
  BY <1>1, <1>2 DEF GrantInv, Orderly, Heard
<1>5. list[i].event = how[q].event
  BY <1>3 DEF NamedRight
<1>6. /\ how[q] \in Opens[q] /\ how[cur.pid] \in Opens[cur.pid]
      /\ cur.event = AskedEvent(cur.pid)
  BY <1>1, <1>2 DEF Phrased, Turns, Asked, IsOpen
<1>7. AskedEvent(cur.pid) = StartsAs(how[cur.pid])
  BY DEF AskedEvent, StartsAs
<1>8. SoundCase(how[q].event, AskedEvent(cur.pid)) \in {StopCurrent, Mix, RefuseNew}
  BY <1>6, <1>7 DEF Orderly
<1>9. SoundCase(how[q].event, AskedEvent(cur.pid)) \notin {RefuseNew, StopCurrent}
  BY <1>3, <1>4, <1>5, <1>6 DEF Silenced
<1> QED
  BY <1>8, <1>9 DEF MayJoin

LEMMA JoinedKept ==
  ASSUME PInv, GrantInv, Orderly, ClashInv, PcmNext
  PROVE  Joined'
<1> SUFFICES ASSUME NEW p \in Pids, NEW q \in Pids, p # q, Granted(p)', Granted(q)'
             PROVE  MayJoin(p, q)' \/ MayJoin(q, p)'
  BY DEF Joined
<1>1. how'[p] = how[p] /\ how'[q] = how[q]
  BY GrantedNext DEF ClashInv
<1>2. CASE Granted(p) /\ Granted(q)
  BY <1>1, <1>2 DEF ClashInv, Joined, MayJoin, AskedEvent
<1>3. CASE FinishRequest /\ cur.req = "SETSTATE" /\ cur.pid = p /\ reply.cmd # "STOP"
  <2>1. Granted(q)
    BY <1>3, GrantedNext DEF ClashInv
  <2>2. MayJoin(q, p)
    BY <1>3, <2>1, GrantJoins DEF Granted, ClashInv
  <2> QED
    BY <1>1, <2>2 DEF MayJoin, AskedEvent
<1>4. CASE FinishRequest /\ cur.req = "SETSTATE" /\ cur.pid = q /\ reply.cmd # "STOP"
  <2>1. Granted(p)
    BY <1>4, GrantedNext DEF ClashInv
  <2>2. MayJoin(p, q)
    BY <1>4, <2>1, GrantJoins DEF Granted, ClashInv
  <2> QED
    BY <1>1, <2>2 DEF MayJoin, AskedEvent
<1> QED
  BY <1>2, <1>3, <1>4, GrantedNext DEF ClashInv

LEMMA ClashStep == ASSUME PInv, GrantInv, Orderly, ClashInv, PcmNext PROVE ClashInv'
BY PhrasedKept, NamedRightKept, OnePlaysKept, UngrantedKept, JoinedKept DEF ClashInv

LEMMA ClashStutter == ASSUME ClashInv, UNCHANGED pcmVars PROVE ClashInv'
<1> USE DEF pcmVars, vars, walkVars, clientVars, streamVars
<1>1. Phrased'
  BY DEF ClashInv, Phrased, Turns, Asked, Asks, AskedEvent
<1>2. NamedRight'
  BY DEF ClashInv, NamedRight, IsOpen, Mine, Own
<1>3. OnePlays'
  BY DEF ClashInv, OnePlays, Leaving, Playing, IsOpen
<1>4. Ungranted'
  BY DEF ClashInv, Ungranted, Pending, Starting, SilentFrom, Playing, Audible, Visited
<1>5. Joined'
  BY DEF ClashInv, Joined, Granted, MayJoin, AskedEvent, Starting, Playing, IsOpen
<1> QED
  BY <1>1, <1>2, <1>3, <1>4, <1>5 DEF ClashInv

LEMMA ClashInit == ASSUME PcmInit PROVE ClashInv
<1>1. list = << >> /\ inbox = << >> /\ pc = "idle" /\ pass = "playing" /\ \A p \in Pids : at[p] = "closed"
  BY DEF PcmInit, Init
<1>2. Turns = {} /\ DOMAIN list = {} /\ DOMAIN inbox = {} /\ PlayingIn(list) = {}
  BY <1>1 DEF Turns, PlayingIn
<1>3. Phrased /\ NamedRight
  BY <1>1, <1>2 DEF Phrased, NamedRight
<1>4. OnePlays
  BY <1>1, <1>2 DEF OnePlays, Leaving, Playing
<1>5. Ungranted /\ Joined
  BY <1>1, <1>2 DEF Ungranted, Starting, Comparing, Returning, Joined, Granted, Playing
<1> QED
  BY <1>3, <1>4, <1>5 DEF ClashInv

\* Who can be heard, and has missed no stop, has been told to play.
LEMMA AudibleIsGranted ==
  ASSUME PInv, ClashInv, NEW p \in Pids, Audible(p), ~missed[p]
  PROVE  Granted(p)
<1>1. IsOpen(p) /\ ~(Starting /\ cur.pid = p) /\ InTime(p)
  BY AudibleIsOpen DEF ClashInv, Ungranted, PInv, StreamInv
<1>2. CASE Undisturbed(p)
  BY <1>1, <1>2 DEF InTime, Granted
<1>3. CASE ~Undisturbed(p)
  <2>1. pc \in Returning /\ Visited.pid = p /\ Visited.state = "PLAYING"
    BY <1>1, <1>3 DEF InTime, ClashInv, Ungranted
  <2>2. cursor \in DOMAIN list
    BY <2>1, LenProperties DEF PInv, IInv, TypeOK, WalkInv
  <2>3. Playing(p, Visited.handle)
    BY <2>1, <2>2 DEF Playing, PlayingIn, Visited
  <2>4. Visited.handle = handle[p]
    BY <1>1, <2>3 DEF ClashInv, OnePlays
  <2> QED
    BY <1>1, <2>3, <2>4 DEF Granted
<1> QED
  BY <1>2, <1>3

LEMMA ClashInductive ==
  ASSUME Orderly, PInv, GrantInv, ClashInv, [PcmNext]_pcmVars
  PROVE  (PInv /\ GrantInv /\ ClashInv)'
<1>1. PInv'
  BY PInvStep, PInvStutter
<1>2. GrantInv'
  BY <1>1, ClientStepIs, StepGrant DEF PInv
<1>3. ClashInv'
  BY ClashStep, ClashStutter
<1> QED
  BY <1>1, <1>2, <1>3

\* However opens, starts, stops, closes and callbacks of the streams of mm_sound_pcm_* interleave
\* in the applications and the session manager, streams that the matrix does not let sound
\* together do not, unless one has missed a stop.  It is so for streams of which the matrix lets
\* each join or stop each other one; with two streams, it may refuse one as well.
THEOREM StreamsNeverClash == ASSUME Orderly PROVE PcmSpec => []ClashesNeverSound
<1>1. PcmInit => PInv /\ GrantInv /\ ClashInv
  BY PInvInit, InitGrant, ClashInit DEF PcmInit
<1>2. PInv /\ GrantInv /\ ClashInv /\ [PcmNext]_pcmVars => (PInv /\ GrantInv /\ ClashInv)'
  BY ClashInductive
<1>3. PInv /\ ClashInv => ClashesNeverSound
  BY AudibleIsGranted DEF ClashInv, Joined, ClashesNeverSound
<1> QED
  BY <1>1, <1>2, <1>3, PTL DEF PcmSpec
-----------------------------------------------------------------------------
(* The abstract arbiter.                                                   *)

\* Nothing happens to q that the arbiter knows of.
Unmoved(q) ==
  /\ how'[q] = how[q] /\ missed'[q] = missed[q]
  /\ (Granted(q) <=> Granted(q)') /\ (Audible(q) <=> Audible(q)')

\* What may happen to p: it is opened, permitted, silenced by the server or lost to it, has missed
\* a stop, or begins or ceases to sound.
Moved(p) ==
  \/ /\ ~Granted(p) /\ ~Granted(p)' /\ ~Audible(p) /\ ~Audible(p)' /\ missed'[p] = missed[p]
  \/ /\ how'[p] = how[p]
     /\ (Audible(p) <=> Audible(p)')
     /\ \/ Granted(p)' /\ (missed'[p] => missed[p])
        \/ ~Granted(p)' /\ (missed[p] => missed'[p]) /\ (Audible(p) => missed'[p])
        \/ (Granted(p) <=> Granted(p)') /\ missed'[p]
  \/ /\ how'[p] = how[p] /\ missed'[p] = missed[p]
     /\ Granted(p) <=> Granted(p)'
     /\ Audible(p)' => Audible(p) \/ Granted(p) \/ missed[p]

\* At most one stream is concerned.
OneMoves ==
  \/ \A q \in Pids : Unmoved(q)
  \/ \E p \in Pids : Moved(p) /\ \A q \in Pids \ {p} : Unmoved(q)

\* What is still to be heard, or permitted anew, is as the arbiter wants it.
LEMMA MovedInOrder ==
  ASSUME PInv', ClashInv', NEW p \in Pids, how'[p] = how[p], Audible(p) <=> Audible(p)',
         missed'[p] => missed[p] \/ (Granted(p)' => Granted(p)),
         missed[p] => missed'[p] \/ Granted(p)'
  PROVE  Moved(p)
<1>1. (Audible(p) /\ ~missed[p] => Granted(p))'
  BY AudibleIsGranted, PTL
<1> QED
  BY <1>1 DEF Moved

\* Streams whose place, handle and device nothing happens to, while the list stays.
LEMMA Unconcerned ==
  ASSUME UNCHANGED <<list, pc, cur>>, NEW q \in Pids, how'[q] = how[q], missed'[q] = missed[q],
         handle'[q] = handle[q], at'[q] = at[q], corked'[q] = corked[q]
  PROVE  Unmoved(q)
BY DEF Unmoved, Granted, Playing, Starting, IsOpen, Audible

LEMMA LocalMoves ==
  ASSUME PInv, PInv', ClashInv', NEW p \in Pids, LocalAction(p)
  PROVE  OneMoves
<1>1. /\ UNCHANGED <<list, pc, cur, how, handle>>
      /\ \A q \in Pids \ {p} : at'[q] = at[q] /\ corked'[q] = corked[q]
      /\ IsOpen(p) <=> IsOpen(p)'
  BY LocalFacts DEF vars, IsOpen
<1>2. missed \in [Pids -> BOOLEAN]
  BY DEF PInv, StreamTypes
<1>3. /\ \A q \in Pids \ {p} : missed'[q] = missed[q]
      /\ missed'[p] = missed[p] \/ (missed'[p] /\ UNCHANGED <<at, corked>>)
  BY <1>2 DEF LocalAction, StartMark, StartUncork, Stop, StopMark, StopCork, Close, HandlerChecks,
              HandlerMarks, HandlerCorks, HandlerStrays, HandlerAnswers
<1>4. \A q \in Pids \ {p} : Unmoved(q)
  BY <1>1, <1>3, Unconcerned
<1>5. Granted(p) <=> Granted(p)'
  BY <1>1 DEF Granted, Playing, Starting
<1>6. CASE missed'[p] = missed[p]
  <2>1. (Audible(p) /\ ~missed[p] => Granted(p))'
    BY AudibleIsGranted, PTL
  <2>2. Moved(p)
    BY <1>1, <1>5, <1>6, <2>1 DEF Moved
  <2> QED
    BY <1>4, <2>2 DEF OneMoves
<1>7. CASE missed'[p] /\ UNCHANGED <<at, corked>>
  <2>1. Moved(p)
    BY <1>1, <1>5, <1>7 DEF Moved, Audible
  <2> QED
    BY <1>4, <2>1 DEF OneMoves
<1> QED
  BY <1>3, <1>6, <1>7

LEMMA SendingMoves ==
  ASSUME PInv, PInv', ClashInv', NEW p \in Pids, Sending(p)
  PROVE  OneMoves
<1>1. /\ UNCHANGED <<list, pc, cur, handle, corked, missed>>
      /\ \A q \in Pids : q # p => at'[q] = at[q] /\ how'[q] = how[q]
      /\ \/ at[p] = "closed" /\ at'[p] = "opening"
         \/ at[p] \in {"ready", "stopped"} /\ at'[p] \in {"starting", "ready"} /\ how' = how
         \/ at[p] = "closing" /\ at'[p] = "closed" /\ how' = how
  <2>1. UNCHANGED missed
    BY DEF Sending, Open, Start, StopTell, CloseUnregister
  <2> QED
    BY <2>1, SendingFacts
<1>2. \A q \in Pids \ {p} : Unmoved(q)
  BY <1>1, Unconcerned
<1>3. CASE at[p] = "closed" /\ at'[p] = "opening"
  <2>1. corked[p]
    BY <1>3 DEF PInv, StreamInv, Silent
  <2>2. Moved(p)
    BY <1>1, <1>3, <2>1 DEF Moved, Granted, IsOpen, Audible
  <2> QED
    BY <1>2, <2>2 DEF OneMoves
<1>4. CASE how' = how /\ at[p] \in {"ready", "stopped", "closing"}
            /\ at'[p] \in {"starting", "ready", "closed"}
  <2>1. Moved(p)
    BY <1>1, <1>4, MovedInOrder DEF Audible
  <2> QED
    BY <1>2, <2>1 DEF OneMoves
<1> QED
  BY <1>1, <1>3, <1>4

\* What the session manager does to the others than p: their instances play on.
LEMMA OthersUnmoved ==
  ASSUME PInv, ClashInv, PcmNext, NEW q \in Pids,
         how'[q] = how[q], missed'[q] = missed[q], handle'[q] = handle[q], at'[q] = at[q],
         corked'[q] = corked[q],
         ~(FinishRequest /\ cur.pid = q),
         IsOpen(q) /\ Playing(q, handle[q]) => <<handle[q], q>> \in PlayingIn(list'),
         ~(Starting' /\ cur'.pid = q) \/ (Starting /\ cur.pid = q)
  PROVE  Unmoved(q)
<1>1. Granted(q)' => Granted(q)
  BY GrantedNext DEF ClashInv
<1>2. Granted(q) => Granted(q)'
  <2>1. IsOpen(q) => IsOpen(q)'
    BY DEF IsOpen
  <2>2. IsOpen(q) /\ Playing(q, handle[q]) => Playing(q, handle[q])'
    BY DEF Playing
  <2> QED
    BY <2>1, <2>2 DEF Granted
<1> QED
  BY <1>1, <1>2 DEF Unmoved, Audible

LEMMA InternalMoves ==
  ASSUME PInv, ClashInv, PInv', ClashInv', PcmNext, Internal
  PROVE  OneMoves
<1>1. pc # "finish" /\ UNCHANGED streamVars
  BY DEF Internal, Accept, DoUnregister, ReapDone, DispatchRegister, DispatchPlay, WalkSkip, WalkPass,
         WalkRefuse, WalkEnd, StartPausedPass, Walking
<1>2. ~FinishRequest /\ UNCHANGED <<how, at, handle, corked, missed>>
  BY <1>1 DEF FinishRequest, Finish, streamVars
<1>3. ASSUME NEW q \in Pids, ~(Starting' /\ cur'.pid = q) \/ (Starting /\ cur.pid = q)
      PROVE  Unmoved(q)
  BY <1>2, <1>3, InternalPlaying, OthersUnmoved
<1>4. CASE Starting' /\ ~(Starting /\ cur' = cur)
  <2>1. DispatchPlay
    BY <1>4, StartingNext
  <2>2. PICK p \in Pids : p = cur.pid /\ p = cur'.pid
    <3>1. pc = "dispatch" /\ cur'.pid = cur.pid
      BY <2>1, NewComparison DEF SameRequest
    <3> QED
      BY <3>1, Processes
  <2>3. \A q \in Pids \ {p} : Unmoved(q)
    BY <1>3, <2>2
  <2>4. Moved(p)
    BY <1>2, <2>2, MovedInOrder DEF Audible
  <2> QED
    BY <2>2, <2>3, <2>4 DEF OneMoves
<1>5. CASE ~Starting' \/ (Starting /\ cur' = cur)
  BY <1>3, <1>5 DEF OneMoves
<1> QED
  BY <1>4, <1>5

LEMMA InterruptMoves ==
  ASSUME PInv, Interrupt
  PROVE  OneMoves
<1>1. /\ pc = "walk" /\ pc' \in {"monitor", "worker"}
      /\ UNCHANGED <<list, cur, how, at, handle, corked, missed>>
  BY DEF Interrupt, WalkInterrupt, Walking, CallBackPc
<1>2. ASSUME NEW q \in Pids PROVE Unmoved(q)
  BY <1>1 DEF Unmoved, Granted, Playing, Starting, IsOpen, Audible, Comparing
<1> QED
  BY <1>2 DEF OneMoves

LEMMA ReturnedMoves ==
  ASSUME PInv, ClashInv, PInv', ClashInv', PcmNext, NEW p \in Pids,
         \/ GivesUp /\ p = Visited.pid
         \/ HandlerAnswers(p) /\ AwaitsAnswer(p) /\ Returned("PAUSE")
  PROVE  OneMoves
<1>1. PICK res : Returned(res)
  BY DEF GivesUp, CallbackTimedOut, CallbackFailed
<1>2. pc = "worker" /\ Visited.pid = p
  BY DEF GivesUp, AwaitsAnswer
<1>3. pc \in Comparing /\ cur' = cur /\ ~FinishRequest
  BY <1>1, <1>2 DEF Comparing, FinishRequest, Finish, Returned, WorkerReturned, PausedReturned, CommitAndStep
<1>4. missed \in [Pids -> BOOLEAN]
  BY DEF PInv, StreamTypes
<1>5. /\ UNCHANGED <<how, at, handle, corked>>
      /\ \A q \in Pids \ {p} : missed'[q] = missed[q]
      /\ missed[p] => missed'[p]
  BY <1>2, <1>4 DEF GivesUp, HandlerAnswers, AwaitsAnswer
<1>6. ASSUME NEW q \in Pids \ {p} PROVE Unmoved(q)
  <2>1. Playing(q, handle[q]) => <<handle[q], q>> \in PlayingIn(list')
    BY <1>1, <1>2, <1>6, ReturnedList DEF Playing
  <2>2. Starting' => Starting
    BY <1>3 DEF Starting
  <2> QED
    BY <1>3, <1>5, <1>6, <2>1, <2>2, OthersUnmoved
<1>7. Granted(p)' => Granted(p)
  BY <1>3, GrantedNext DEF ClashInv
<1>8. Moved(p)
  BY <1>5, <1>7, MovedInOrder DEF Audible
<1> QED
  BY <1>6, <1>8 DEF OneMoves

LEMMA AnswerMoves ==
  ASSUME PInv, ClashInv, PInv', ClashInv', PcmNext, FinishRequest \/ OpenRefused \/ SetState
  PROVE  OneMoves
<1>0. PICK p \in Pids : p = cur.pid
  BY AnswerFacts
<1>1. /\ pc' = "idle" /\ UNCHANGED <<how, corked>>
      /\ \A q \in Pids \ {p} : at'[q] = at[q] /\ handle'[q] = handle[q]
      /\ Audible(p) <=> Audible(p)'
  BY <1>0, AnswerFacts DEF Moves, Audible
<1>2. missed \in [Pids -> BOOLEAN]
  BY DEF PInv, StreamTypes
<1>3. /\ \A q \in Pids \ {p} : missed'[q] = missed[q]
      /\ missed'[p] => missed[p]
      /\ missed[p] /\ ~missed'[p] => at'[p] = "granted" /\ Undisturbed(p)'
  <2>1. ASSUME NEW granted \in BOOLEAN, StartAnswered(p, granted), UNCHANGED <<asked, handler>>,
               at \in [Pids -> Places]
        PROVE  /\ \A q \in Pids \ {p} : missed'[q] = missed[q]
               /\ missed'[p] => missed[p]
               /\ missed[p] /\ ~missed'[p] => at'[p] = "granted" /\ Undisturbed(p)'
    BY <1>1, <1>2, <2>1 DEF StartAnswered, Undisturbed
  <2>2. at \in [Pids -> Places]
    BY DEF PInv, StreamTypes
  <2> QED
    BY <1>0, <2>1, <2>2 DEF FinishRequest, OpenRefused, SetState
<1>4. pc' \notin Comparing
  BY <1>1 DEF Comparing
<1>5. PlayingIn(list) \ {<<cur.handle, p>>} \subseteq PlayingIn(list')
  BY <1>0, FinishList, SetStateList DEF FinishRequest, OpenRefused, RegisterFull, SetState
<1>6. \A q \in Pids \ {p} : Unmoved(q)
  BY <1>0, <1>1, <1>3, <1>4, <1>5, OthersUnmoved DEF Starting, Playing
<1>7. missed[p] /\ ~missed'[p] => Granted(p)'
  <2> SUFFICES ASSUME missed[p], ~missed'[p] PROVE Granted(p)'
    OBVIOUS
  <2>1. InTime(p)'
    BY <1>1 DEF PInv, StreamInv
  <2> QED
    BY <1>3, <1>4, <2>1 DEF InTime, Granted, IsOpen, Starting
<1>8. Moved(p)
  BY <1>1, <1>3, <1>7, MovedInOrder
<1> QED
  BY <1>1, <1>6, <1>8 DEF OneMoves

\* A step of streams and session manager concerns one stream, and does to it what the arbiter may.
LEMMA StepMoves ==
  ASSUME PInv, ClashInv, PInv', ClashInv', PcmNext
  PROVE  OneMoves
<1>1. CASE \E p \in Pids : LocalAction(p) \/ Sending(p)
  BY <1>1, LocalMoves, SendingMoves
<1>2. CASE \E p \in Pids : HandlerAnswers(p) /\ AwaitsAnswer(p) /\ Returned("PAUSE")
  BY <1>2, ReturnedMoves
<1>3. CASE FinishRequest \/ OpenRefused \/ SetState
  BY <1>3, AnswerMoves
<1>4. CASE GivesUp
  <2>1. pc = "worker"
    BY <1>4 DEF GivesUp
  <2>2. PICK p \in Pids : p = Visited.pid
    BY <2>1, WorkerFacts
  <2> QED
    BY <1>4, <2>2, ReturnedMoves
<1>5. CASE Interrupt
  BY <1>5, InterruptMoves
<1>6. CASE Internal
  BY <1>6, InternalMoves
<1> QED
  BY <1>1, <1>2, <1>3, <1>4, <1>5, <1>6, Kinds

\* What the matrix lets one of two streams do to the other, as the arbiter has it.
LEMMA WaysMeet ==
  ASSUME NEW v \in Ways, NEW w \in Ways,
         SoundCase(v.event, StartsAs(w)) = Mix \/ SoundCase(w.event, StartsAs(v)) = Mix
  PROVE  {<<v, w>>, <<w, v>>}
           \cap {x \in Ways \X Ways : SoundCase(x[1].event, StartsAs(x[2])) = Mix} # {}
<1>1. ASSUME NEW x \in Ways, NEW y \in Ways, SoundCase(x.event, StartsAs(y)) = Mix
      PROVE  <<x, y>> \in {z \in Ways \X Ways : SoundCase(z[1].event, StartsAs(z[2])) = Mix}
  BY <1>1
<1> QED
  BY <1>1

\* A step that moves one stream like this is a step of the arbiter.
LEMMA MoveIsArbitrated ==
  ASSUME PInv, PInv', Joined', NEW p \in Pids, Moved(p), \A q \in Pids \ {p} : Unmoved(q)
  PROVE  Arbitration!Next \/ UNCHANGED Arbitration!vars
<1> DEFINE permitted == {q \in Pids : Granted(q)}
           sounding  == {q \in Pids : Audible(q)}
           astray    == {q \in Pids : missed[q]}
<1>1. how \in [Pids -> Ways] /\ how' \in [Pids -> Ways]
  BY DEF PInv, StreamTypes
<1>2. /\ \A q \in Pids \ {p} : q \in permitted' <=> q \in permitted
      /\ \A q \in Pids \ {p} : q \in sounding' <=> q \in sounding
      /\ \A q \in Pids \ {p} : q \in astray' <=> q \in astray
      /\ \A q \in Pids \ {p} : how'[q] = how[q]
  BY DEF Unmoved
<1>3. /\ p \in permitted <=> Granted(p)
      /\ p \in permitted' <=> Granted(p)'
      /\ p \in sounding <=> Audible(p)
      /\ p \in sounding' <=> Audible(p)'
      /\ p \in astray <=> missed[p]
      /\ p \in astray' <=> missed'[p]
  OBVIOUS
<1>4. /\ permitted \subseteq Pids /\ permitted' \subseteq Pids
      /\ sounding \subseteq Pids /\ sounding' \subseteq Pids
      /\ astray \subseteq Pids /\ astray' \subseteq Pids
  OBVIOUS
<1>5. missed \in [Pids -> BOOLEAN] /\ missed' \in [Pids -> BOOLEAN]
  BY DEF PInv, StreamTypes
<1>6. ASSUME NEW q \in permitted \ {p}, Granted(p)', how'[p] = how[p]
      PROVE  {<<how[p], how[q]>>, <<how[q], how[p]>>}
               \cap {w \in Ways \X Ways : SoundCase(w[1].event, StartsAs(w[2])) = Mix} # {}
  <2>1. q \in Pids /\ p # q /\ Granted(q)' /\ how'[q] = how[q]
    BY <1>6 DEF Unmoved
  <2>2. MayJoin(p, q)' \/ MayJoin(q, p)'
    BY <1>6, <2>1 DEF Joined
  <2>3. SoundCase(how[p].event, StartsAs(how[q])) = Mix \/ SoundCase(how[q].event, StartsAs(how[p])) = Mix
    BY <1>6, <2>1, <2>2 DEF MayJoin, AskedEvent, StartsAs
  <2> QED
    BY <1>1, <2>1, <2>3, WaysMeet
<1> HIDE DEF permitted, sounding, astray
<1>7. CASE /\ ~Granted(p) /\ ~Granted(p)' /\ ~Audible(p) /\ ~Audible(p)' /\ missed'[p] = missed[p]
  <2>1. how' = [how EXCEPT ![p] = how'[p]] /\ how'[p] \in Ways
    BY <1>1, <1>2
  <2>2. p \notin permitted \cup sounding /\ UNCHANGED <<permitted, sounding, astray>>
    BY <1>2, <1>3, <1>4, <1>7
  <2> QED
    BY <2>1, <2>2 DEF Arbitration!Next, Arbitration!Open, permitted, sounding, astray
<1>8. CASE how'[p] = how[p]
  <2>1. how' = how
    BY <1>1, <1>2, <1>8
  <2>2. CASE (Audible(p) <=> Audible(p)') /\ Granted(p)' /\ (missed'[p] => missed[p])
    <3>1. /\ permitted' = permitted \cup {p} /\ sounding' = sounding
          /\ astray' \in {astray, astray \ {p}}
      BY <1>2, <1>3, <1>4, <2>2
    <3> QED
      BY <1>6, <1>8, <2>1, <2>2, <3>1
         DEF Arbitration!Next, Arbitration!Permit, permitted, sounding, astray
  <2>3. CASE /\ (Audible(p) <=> Audible(p)') /\ ~Granted(p)'
             /\ (missed[p] => missed'[p]) /\ (Audible(p) => missed'[p])
    <3>1. /\ permitted' = permitted \ {p} /\ sounding' = sounding
          /\ astray' \in {astray, astray \cup {p}} /\ (p \in sounding => p \in astray')
      BY <1>2, <1>3, <1>4, <2>3
    <3> QED
      BY <2>1, <3>1 DEF Arbitration!Next, Arbitration!Withdraw, permitted, sounding, astray
  <2>4. CASE (Audible(p) <=> Audible(p)') /\ (Granted(p) <=> Granted(p)') /\ missed'[p]
    <3>1. permitted' = permitted /\ sounding' = sounding /\ astray' = astray \cup {p}
      BY <1>2, <1>3, <1>4, <2>4
    <3> QED
      BY <2>1, <3>1 DEF Arbitration!Next, Arbitration!Miss, permitted, sounding, astray
  <2>5. CASE /\ (Granted(p) <=> Granted(p)') /\ missed'[p] = missed[p]
             /\ Audible(p)' => Audible(p) \/ Granted(p) \/ missed[p]
    <3>1. permitted' = permitted /\ astray' = astray
      BY <1>2, <1>3, <1>4, <2>5
    <3>2. CASE Audible(p)' /\ ~Audible(p)
      <4>1. sounding' = sounding \cup {p} /\ p \in permitted \cup astray
        BY <1>2, <1>3, <1>4, <2>5, <3>2
      <4> QED
        BY <2>1, <3>1, <4>1 DEF Arbitration!Next, Arbitration!Begin, permitted, sounding, astray
    <3>3. CASE ~Audible(p)'
      <4>1. sounding' = sounding \ {p}
        BY <1>2, <1>3, <1>4, <3>3
      <4> QED
        BY <2>1, <3>1, <4>1 DEF Arbitration!Next, Arbitration!End, permitted, sounding, astray
    <3>4. CASE Audible(p) /\ Audible(p)'
      <4>1. sounding' = sounding
        BY <1>2, <1>3, <1>4, <3>4
      <4> QED
        BY <2>1, <3>1, <4>1 DEF Arbitration!vars, permitted, sounding, astray
    <3> QED
      BY <3>2, <3>3, <3>4
  <2> QED
    BY <1>8, <2>2, <2>3, <2>4, <2>5 DEF Moved
<1> QED
  BY <1>7, <1>8 DEF Moved

LEMMA UnmovedIsStutter ==
  ASSUME PInv, PInv', \A q \in Pids : Unmoved(q)
  PROVE  UNCHANGED Arbitration!vars
<1>1. how \in [Pids -> Ways] /\ how' \in [Pids -> Ways]
  BY DEF PInv, StreamTypes
<1>2. how' = how
  BY <1>1 DEF Unmoved
<1>3. {q \in Pids : Granted(q)}' = {q \in Pids : Granted(q)}
  BY DEF Unmoved
<1>4. {q \in Pids : Audible(q)}' = {q \in Pids : Audible(q)}
  BY DEF Unmoved
<1>5. {q \in Pids : missed[q]}' = {q \in Pids : missed[q]}
  BY DEF Unmoved
<1> QED
  BY <1>2, <1>3, <1>4, <1>5 DEF Arbitration!vars

LEMMA StutterIsUnmoved ==
  ASSUME UNCHANGED pcmVars
  PROVE  \A q \in Pids : Unmoved(q)
BY Unconcerned DEF pcmVars, vars, streamVars

LEMMA ArbiterInit == ASSUME PcmInit PROVE Arbitration!Init
<1>1. \A p \in Pids : ~Granted(p) /\ ~Audible(p) /\ ~missed[p]
  BY DEF PcmInit, Granted, IsOpen, Audible
<1>2. how \in [Pids -> Ways]
  BY PInvInit DEF PInv, StreamTypes
<1> QED
  BY <1>1, <1>2 DEF Arbitration!Init

\* Whatever requests, callbacks and threads do to each other: seen from outside, streams are
\* permitted to sound one at a time and only beside those they may join, begin to sound when they
\* are, and lose the permission when they are silent; a stream that has missed a stop may sound
\* on until it is permitted anew.
THEOREM StreamsImplementArbiter == ASSUME Orderly PROVE PcmSpec => StreamsAreArbitrated
<1>1. PcmInit => PInv /\ GrantInv /\ ClashInv /\ Arbitration!Init
  BY PInvInit, InitGrant, ClashInit, ArbiterInit DEF PcmInit
<1>2. PInv /\ GrantInv /\ ClashInv /\ [PcmNext]_pcmVars => (PInv /\ GrantInv /\ ClashInv)'
  BY ClashInductive
<1>3. PInv /\ ClashInv /\ (PInv /\ ClashInv)' /\ [PcmNext]_pcmVars => [Arbitration!Next]_(Arbitration!vars)
  <2> SUFFICES ASSUME PInv, ClashInv, PInv', ClashInv', [PcmNext]_pcmVars
               PROVE  Arbitration!Next \/ UNCHANGED Arbitration!vars
    OBVIOUS
  <2>1. OneMoves
    BY StepMoves, StutterIsUnmoved DEF OneMoves
  <2> QED
    BY <2>1, MoveIsArbitrated, UnmovedIsStutter DEF OneMoves, ClashInv
<1> QED
  BY <1>1, <1>2, <1>3, PTL DEF PcmSpec, StreamsAreArbitrated, Arbitration!Spec
=============================================================================
