---------------------------- MODULE AsmClientProofs ---------------------------
(***************************************************************************)
(* Proofs about AsmServer, continued: what the session manager promises    *)
(* its clients.  Who is told to play finds the conflicting instances       *)
(* silent, and the resources free (GrantInv carries it from instance to    *)
(* instance of the walk); and the handle a live client was given stands    *)
(* for an instance of its own (HeldInv).                                   *)
(***************************************************************************)
EXTENDS AsmServerProofs

-----------------------------------------------------------------------------
(* State changes.                                                          *)

\* With distinct handles a search by process and handle finds the instance it is looking for.
LEMMA PlaceIsOwn ==
  ASSUME NEW l \in Seq(Entry), Unique(l), NEW c \in DOMAIN l
  PROVE  PlaceOf(l, l[c].pid, l[c].handle) = {c}
<1>1. DOMAIN l \subseteq Nat
  BY LenProperties
<1>2. \A j \in DOMAIN l : Own(l[j], l[c].pid, l[c].handle) <=> j = c
  BY DEF Own, Unique
<1>3. \A j \in DOMAIN l : j = c => j <= c /\ c <= j
  BY <1>1
<1> QED
  BY <1>1, <1>2, <1>3 DEF PlaceOf, FirstIn

\* A state change touches instances of one process only ...
LEMMA ChangeStateOthers ==
  ASSUME NEW l \in Seq(Entry), NEW p, NEW h, NEW st, NEW res, NEW i \in DOMAIN l, l[i].pid # p
  PROVE  ChangeState(l, p, h, st, res)[i] = l[i]
<1>1. i \notin PlaceOf(l, p, h)
  BY DEF PlaceOf, FirstIn, Own
<1> QED
  BY <1>1 DEF ChangeState

\* ... and, of the visited instance, no other.
LEMMA ChangeStateAt ==
  ASSUME NEW l \in Seq(Entry), Unique(l), NEW c \in DOMAIN l, NEW st, NEW res
  PROVE  /\ ChangeState(l, l[c].pid, l[c].handle, st, res)[c].state = st
         /\ ChangeState(l, l[c].pid, l[c].handle, st, res)[c].resource = res
<1>1. l[c] \in Entry
  BY ElementOfSeq, LenProperties
<1>2. PlaceOf(l, l[c].pid, l[c].handle) = {c}
  BY PlaceIsOwn
<1> QED
  BY <1>1, <1>2 DEF ChangeState, Entry

LEMMA ChangeStateBut ==
  ASSUME NEW l \in Seq(Entry), Unique(l), NEW c \in DOMAIN l, NEW st, NEW res,
         NEW i \in DOMAIN l, i # c
  PROVE  ChangeState(l, l[c].pid, l[c].handle, st, res)[i] = l[i]
<1>1. PlaceOf(l, l[c].pid, l[c].handle) = {c}
  BY PlaceIsOwn
<1> QED
  BY <1>1 DEF ChangeState

\* In k the instances have the states and the resources they have in l.
Untouched(k, l) ==
  /\ SameHandles(k, l)
  /\ \A i \in DOMAIN l : k[i].state = l[i].state /\ k[i].resource = l[i].resource

LEMMA NeedResumeUntouched ==
  ASSUME NEW l \in Seq(Entry), NEW p, NEW h
  PROVE  Untouched(NeedResume(l, p, h), l)
<1>1. \A i \in DOMAIN l : l[i] \in Entry
  BY ElementOfSeq, LenProperties
<1>2. \A i \in DOMAIN l : /\ NeedResume(l, p, h)[i].state = l[i].state
                          /\ NeedResume(l, p, h)[i].resource = l[i].resource
  BY <1>1 DEF NeedResume, Entry
<1> QED
  BY <1>2, NeedResumeKeeps DEF Untouched

LEMMA ResetUntouched ==
  ASSUME NEW l \in Seq(Entry)
  PROVE  Untouched(SetAllMonitorClean(l), l)
<1>1. \A i \in DOMAIN l : l[i] \in Entry
  BY ElementOfSeq, LenProperties
<1>2. \A i \in DOMAIN l : /\ SetAllMonitorClean(l)[i].state = l[i].state
                          /\ SetAllMonitorClean(l)[i].resource = l[i].resource
  BY <1>1 DEF SetAllMonitorClean, Entry
<1> QED
  BY <1>2, ResetsKeep DEF Untouched

\* The callback of the monitor instance.
LEMMA MonitorUntouched ==
  ASSUME IInv, MonitorReturned
  PROVE  Untouched(list', list)
<1>1. pc \in Comparing
  BY DEF MonitorReturned, Comparing
<1>2. list \in Seq(Entry) /\ \A i \in DOMAIN list : list[i] \in Entry
  BY <1>1, ComparingFacts
<1>3. PICK m \in DOMAIN list :
        LET dirty == [list EXCEPT ![m] = [@ EXCEPT !.dirty = TRUE]]
        IN list' = IF pass = "playing" /\ IsNeedResume(cur.event)
                   THEN NeedResume(dirty, list[m].pid, list[m].handle) ELSE dirty
  BY DEF MonitorReturned, MonitorOf, FirstIn
<1> DEFINE k == [list EXCEPT ![m] = [@ EXCEPT !.dirty = TRUE]]
<1>4. /\ k \in [DOMAIN list -> Entry]
      /\ \A i \in DOMAIN list : /\ k[i].handle = list[i].handle
                                /\ k[i].pid = list[i].pid
                                /\ k[i].event = list[i].event
                                /\ k[i].state = list[i].state
                                /\ k[i].resource = list[i].resource
  BY <1>2 DEF Entry
<1>5. list' = k \/ list' = NeedResume(k, list[m].pid, list[m].handle)
  BY <1>3
<1> HIDE DEF k
<1>6. k \in Seq(Entry) /\ Untouched(k, list)
  BY <1>2, <1>4, SameLength DEF Untouched, SameHandles
<1>7. Untouched(NeedResume(k, list[m].pid, list[m].handle), k)
  BY <1>6, NeedResumeUntouched
<1> QED
  BY <1>5, <1>6, <1>7 DEF Untouched, SameHandles

\* An instance that has not changed is as silent, and holds as little, as before.
LEMMA SameIsAsGood ==
  ASSUME NEW k, NEW l, Untouched(k, l), NEW i \in DOMAIN l, NEW m
  PROVE  (Silenced(l[i], m) => Silenced(k[i], m)) /\ (Freed(l[i], m) => Freed(k[i], m))
BY DEF Untouched, SameHandles, Silenced, Freed

\* The requester's own instances conflict with nothing.
LEMMA OwnIsGood ==
  ASSUME NEW e, NEW m, e.pid = m.pid
  PROVE  Silenced(e, m) /\ Freed(e, m)
BY DEF Silenced, Freed
-----------------------------------------------------------------------------
(* The steps of the walk.                                                  *)

\* Outside the comparison nothing is promised.
LEMMA GrantOutside ==
  ASSUME IInv', pc' \notin Comparing
  PROVE  GrantInv'
<1>1. reply'.cmd = "UNSET"
  BY DEF IInv, WalkInv
<1>2. pc' \notin Returning /\ pc' # "pausedWalk"
  BY DEF Comparing, Returning
<1> QED
  BY <1>1, <1>2 DEF GrantInv

\* The clients have no part in it.
LEMMA GrantClients ==
  ASSUME GrantInv, UNCHANGED <<list, pc, cur, walkVars>>
  PROVE  GrantInv'
BY DEF GrantInv, walkVars, Heard, Released, CaseOf, Visited, Silenced, Freed

\* Before the first instance is visited nothing is behind the walk, and what no event plays is
\* silent.
LEMMA GrantStart ==
  ASSUME IInv, pc = "dispatch", NEW h \in Handles \cup {NoHandle}, StartCompare(h)
  PROVE  GrantInv'
<1>1. /\ list \in Seq(Entry) /\ statusPlaying = EventsIn(list, "PLAYING")
      /\ cursor = 1 /\ reply.cmd = "UNSET" /\ pass = "playing"
  BY DEF IInv, TypeOK, StatusConsistent, WalkInv, Comparing
<1>2. list' = list /\ cursor' = 1 /\ pass' = "playing"
  BY <1>1 DEF StartCompare
<1>3. CASE statusPlaying = {}
  <2>1. reply'.cmd = "NONE" /\ pc' = "walked"
    BY <1>3 DEF StartCompare
  <2>2. \A i \in DOMAIN list' : Silenced(list'[i], cur') /\ ~Released(i)'
    <3>1. \A i \in DOMAIN list : list[i].state # "PLAYING"
      BY <1>1, <1>3 DEF EventsIn
    <3> QED
      BY <1>2, <2>1, <3>1 DEF Silenced, Released
  <2> QED
    BY <2>1, <2>2 DEF GrantInv, Returning
<1>4. CASE statusPlaying # {}
  <2>1. reply'.cmd = "UNSET" /\ pc' = "walk"
    BY <1>1, <1>4 DEF StartCompare
  <2>2. \A i \in DOMAIN list' : ~Heard(i)' /\ ~Released(i)'
    <3>1. \A i \in DOMAIN list : ~(i < 1)
      BY <1>1, LenProperties
    <3> QED
      BY <1>2, <2>1, <3>1 DEF Heard, Released
  <2> QED
    BY <2>1, <2>2 DEF GrantInv, Returning
<1> QED
  BY <1>3, <1>4

\* A request that takes effect leaves what is silent as it is; a new head moves it, and the walk,
\* by one.
LEMMA GrantCommit ==
  ASSUME IInv, GrantInv, pc \in {"walk", "worker"}, pass = "playing", reply.cmd # "STOP",
         NEW k, SameHandles(k, list), NEW cmd \in {"NONE", "PLAY"}, CommitAndStep(k, cmd),
         pc' = "walk", UNCHANGED <<cur, pass>>, cmd = "PLAY" => cur.state = "PLAYING",
         ~IsGcf /\ cur.state = "PLAYING" =>
           \A i \in DOMAIN list : i <= cursor => Silenced(k[i], cur)
  PROVE  GrantInv'
<1>1. /\ pc \in Comparing /\ cursor \in Nat \ {0}
      /\ cur \in Request
      /\ cur.req = "REGISTER" => cur.handle \in Handles
  BY ComparingFacts DEF IInv, TypeOK, Comparing
<1>2. /\ k \in Seq(Entry) /\ DOMAIN k = DOMAIN list /\ DOMAIN k \subseteq Nat
  BY LenProperties DEF SameHandles
<1>3. ASSUME NEW i \in DOMAIN list', ~IsGcf, cur.state = "PLAYING", i < cursor'
      PROVE  Silenced(list'[i], cur)
  <2>1. CASE updated
    <3>1. list' = k /\ cursor' = cursor + 1
      BY <2>1 DEF CommitAndStep, Commit
    <3> QED
      BY <1>1, <1>2, <1>3, <3>1
  <2>2. CASE ~updated /\ cur.req = "REGISTER"
    <3>1. list' = Register(k, cur) /\ cursor' = cursor + 2
      BY <2>2 DEF CommitAndStep, Commit
    <3>2. CASE i = 1
      <4>1. list'[i].pid = cur.pid
        BY <1>1, <1>2, <2>2, <3>1, <3>2, RegisterPlaces
      <4> QED
        BY <4>1, OwnIsGood
    <3>3. CASE i # 1
      <4>1. i - 1 \in DOMAIN k /\ list'[i] = k[i - 1]
        BY <1>1, <1>2, <2>2, <3>1, <3>3, RegisterPlaces
      <4>2. i - 1 <= cursor
        <5>1. i - 1 \in Nat
          BY <1>2, <4>1
        <5>2. i \in DOMAIN Register(k, cur) /\ Register(k, cur) \in Seq(Entry)
          BY <1>1, <1>2, <2>2, <3>1, RegisterPlaces
        <5>3. i \in Nat
          BY <5>2, LenProperties
        <5> QED
          BY <1>1, <1>3, <3>1, <5>1, <5>3
      <4> QED
        BY <1>2, <1>3, <4>1, <4>2
    <3> QED
      BY <3>2, <3>3
  <2>3. CASE ~updated /\ cur.req # "REGISTER"
    <3>1. list' = ChangeState(k, cur.pid, cur.handle, cur.state, cur.resource)
          /\ cursor' = cursor + 1
      BY <2>3 DEF CommitAndStep, Commit
    <3>2. SameHandles(list', k)
      BY <1>1, <1>2, <3>1, ChangeStateKeeps DEF Request
    <3>3. i \in DOMAIN k /\ list'[i].pid = k[i].pid
      BY <3>2 DEF SameHandles
    <3>4. CASE k[i].pid = cur.pid
      BY <3>3, <3>4, OwnIsGood
    <3>5. CASE k[i].pid # cur.pid
      <4>1. list'[i] = k[i]
        BY <1>2, <3>1, <3>3, <3>5, ChangeStateOthers
      <4> QED
        BY <1>1, <1>2, <1>3, <3>1, <3>3, <4>1
    <3> QED
      BY <3>4, <3>5
  <2> QED
    BY <2>1, <2>2, <2>3
<1>4. reply'.cmd = cmd /\ pc' = "walk" /\ pass' = "playing" /\ cur' = cur
  BY DEF CommitAndStep
<1>5. \A i \in DOMAIN list' : (Heard(i)' => i < cursor') /\ ~Released(i)'
  BY <1>4 DEF Heard, Released
<1> QED
  BY <1>3, <1>4, <1>5 DEF GrantInv, Returning

\* While the list keeps its states, so does everything behind the walk.
LEMMA GrantSame ==
  ASSUME IInv, IInv', GrantInv, pc \in Comparing, Untouched(list', list),
         UNCHANGED <<cur, quiet, reply>>,
         \A i \in DOMAIN list : (Heard(i)' => Heard(i)) /\ (Released(i)' => Released(i)),
         pc' \in Returning => cur.state = "PLAYING" /\ (reply.cmd = "STOP" => pass' = "paused"),
         pc' = "walk" => pc = "walk" /\ cursor <= cursor',
         pc' = "pausedWalk" => pass' = "paused",
         pc' \in Returning /\ pass' = "playing" => CaseOf(Visited)' # RefuseNew
  PROVE  GrantInv'
<1>1. DOMAIN list' = DOMAIN list /\ Len(list') = Len(list) /\ Len(list) \in Nat
  BY ComparingFacts DEF Untouched, SameHandles
<1>2. reply'.cmd = "PLAY" \/ pc' \in Returning => cur'.state = "PLAYING"
  BY DEF GrantInv
<1>3. reply'.cmd = "STOP" => /\ pc' = "walk" => cursor' > Len(list')
                             /\ pc' \in Returning => pass' = "paused"
  <2>1. cursor \in Nat /\ cursor' \in Nat
    BY DEF IInv, TypeOK
  <2>2. ASSUME pc' = "walk", reply.cmd = "STOP" PROVE cursor' > Len(list')
    BY <1>1, <2>1, <2>2 DEF GrantInv
  <2> QED
    BY <2>2
<1>4. ASSUME pc' \in Comparing, cur'.state = "PLAYING", NEW i \in DOMAIN list'
      PROVE  /\ ~IsGcf /\ reply'.cmd # "STOP" /\ Heard(i)' => Silenced(list'[i], cur')
             /\ (reply'.cmd = "PLAY" \/ quiet') /\ Released(i)' => Freed(list'[i], cur')
  <2>1. /\ ~IsGcf /\ reply.cmd # "STOP" /\ Heard(i) => Silenced(list[i], cur)
        /\ (reply.cmd = "PLAY" \/ quiet) /\ Released(i) => Freed(list[i], cur)
    BY <1>1, <1>4 DEF GrantInv
  <2>2. (Silenced(list[i], cur) => Silenced(list'[i], cur))
        /\ (Freed(list[i], cur) => Freed(list'[i], cur))
    BY <1>1, SameIsAsGood
  <2> QED
    BY <1>1, <1>4, <2>1, <2>2
<1> QED
  BY <1>2, <1>3, <1>4 DEF GrantInv

\* Visiting an instance without waiting for anybody.
LEMMA GrantVisit ==
  ASSUME IInv, IInv', GrantInv, WalkSkip \/ WalkPass \/ WalkRefuse \/ WalkCaseNone \/ WalkInterrupt
  PROVE  GrantInv'
<1>1. /\ pc = "walk" /\ pc \in Comparing /\ pass = "playing" /\ cursor <= Len(list)
      /\ cursor \in Nat \ {0}
  BY DEF WalkSkip, WalkPass, WalkRefuse, WalkCaseNone, WalkInterrupt, Walking, IInv, WalkInv,
         TypeOK, Comparing
<1>2. /\ list \in Seq(Entry) /\ cur \in Request /\ Len(list) \in Nat /\ DOMAIN list = 1..Len(list)
      /\ cursor \in DOMAIN list
  BY <1>1, ComparingFacts
<1>3. reply.cmd # "STOP"
  BY <1>1, <1>2 DEF GrantInv
<1>4. SameHandles(list, list) /\ Untouched(list, list)
  BY <1>2 DEF SameHandles, Untouched
<1>5. ASSUME NEW i \in DOMAIN list, ~IsGcf, cur.state = "PLAYING", i < cursor
      PROVE  Silenced(list[i], cur)
  BY <1>1, <1>3, <1>5 DEF GrantInv, Heard
<1>6. ~IsGcf => CaseOf(Visited) = SoundCase(Visited.event, cur.event)
  BY DEF CaseOf
<1>7. CASE WalkSkip
  <2>1. Silenced(Visited, cur)
    BY <1>7 DEF WalkSkip, Mine, Own, Silenced
  <2>2. cursor' = cursor + 1 /\ UNCHANGED <<list, pc, cur, pass, reply, quiet>>
    BY <1>7 DEF WalkSkip, Next1
  <2>3. \A i \in DOMAIN list : (Heard(i)' => i <= cursor) /\ ~Released(i)'
    BY <1>1, <1>2, <2>2 DEF Heard, Released
  <2>4. ASSUME NEW i \in DOMAIN list, ~IsGcf, cur.state = "PLAYING", i <= cursor
        PROVE  Silenced(list[i], cur)
    BY <1>1, <1>2, <1>5, <2>1, <2>4 DEF Visited
  <2> QED
    BY <1>1, <1>3, <2>2, <2>3, <2>4 DEF GrantInv, Returning
<1>8. CASE WalkPass
  <2>1. PICK cmd \in {"NONE", "PLAY"} :
          CommitAndStep(list, cmd) /\ (cmd = "PLAY" => cur.state = "PLAYING")
    BY <1>8 DEF WalkPass
  <2>2. ASSUME ~IsGcf, cur.state = "PLAYING" PROVE Silenced(Visited, cur)
    <3>1. CaseOf(Visited) = RefuseNew => ~Foreign(Visited)
      BY <1>8, <2>2 DEF WalkPass
    <3>2. ~MustCallBack(Visited)
      BY <1>8, <2>2 DEF WalkPass
    <3>3. Foreign(Visited) => CaseOf(Visited) \notin {RefuseNew, StopCurrent}
      BY <3>1, <3>2 DEF MustCallBack
    <3> QED
      BY <1>6, <2>2, <3>3 DEF Silenced, Foreign
  <2>3. ASSUME NEW i \in DOMAIN list, ~IsGcf, cur.state = "PLAYING", i <= cursor
        PROVE  Silenced(list[i], cur)
    BY <1>1, <1>2, <1>5, <2>2, <2>3 DEF Visited
  <2>4. pc' = "walk" /\ UNCHANGED <<cur, pass>>
    BY <1>1, <1>8 DEF WalkPass
  <2> QED
    BY <1>1, <1>3, <1>4, <2>1, <2>3, <2>4, GrantCommit
<1>9. CASE WalkRefuse
  <2>1. /\ reply'.cmd = "STOP" /\ cursor' = Len(list) + 1
        /\ UNCHANGED <<list, pc, cur, pass, quiet>>
    BY <1>9 DEF WalkRefuse
  <2>2. \A i \in DOMAIN list : ~Released(i)'
    BY <1>1, <2>1 DEF Released
  <2> QED
    BY <1>1, <1>2, <2>1, <2>2 DEF GrantInv, Returning
<1>10. CASE WalkCaseNone
  <2>1. /\ reply'.cmd = "NONE" /\ cursor' = cursor + 1 /\ CaseOf(Visited) = CaseNone
        /\ UNCHANGED <<list, pc, cur, pass, quiet>>
    BY <1>10 DEF WalkCaseNone, Next1
  <2>2. \A i \in DOMAIN list : (Heard(i)' => i <= cursor) /\ ~Released(i)'
    BY <1>1, <1>2, <2>1 DEF Heard, Released
  <2>3. ~IsGcf => Silenced(Visited, cur)
    BY <1>6, <2>1 DEF Silenced, CaseNone, RefuseNew, StopCurrent
  <2>4. ASSUME NEW i \in DOMAIN list, ~IsGcf, cur.state = "PLAYING", i <= cursor
        PROVE  Silenced(list[i], cur)
    BY <1>1, <1>2, <1>5, <2>3, <2>4 DEF Visited
  <2> QED
    BY <1>1, <2>1, <2>2, <2>4 DEF GrantInv, Returning
<1>11. CASE WalkInterrupt
  <2>1. /\ pc' \in {"monitor", "worker"} /\ UNCHANGED <<list, cur, cursor, pass, reply, quiet>>
        /\ cur.state = "PLAYING" /\ MustCallBack(Visited)
    BY <1>11 DEF WalkInterrupt, CallBackPc, walkVars
  <2>2. \A i \in DOMAIN list : (Heard(i)' => Heard(i)) /\ (Released(i)' => Released(i))
    BY <1>1, <2>1 DEF Heard, Released
  <2>3. CaseOf(Visited)' # RefuseNew
    <3>1. CaseOf(Visited)' = CaseOf(Visited)
      BY <2>1 DEF CaseOf, Visited
    <3> QED
      BY <2>1, <3>1 DEF MustCallBack, RefuseNew, StopCurrent, PauseCurrent, Mix
  <2> QED
    BY <1>1, <1>3, <1>4, <2>1, <2>2, <2>3, GrantSame
<1> QED
  BY <1>7, <1>8, <1>9, <1>10, <1>11

LEMMA GrantMonitor == ASSUME IInv, IInv', GrantInv, MonitorReturned PROVE GrantInv'
<1>1. /\ pc = "monitor" /\ pc' = "worker" /\ UNCHANGED <<cur, cursor, pass, quiet, reply>>
      /\ pc \in Comparing /\ pc \in Returning /\ cursor \in Nat \ {0}
      /\ cursor <= Len(list)
  BY DEF MonitorReturned, walkVars, IInv, WalkInv, TypeOK, Comparing, Returning
<1>2. Untouched(list', list) /\ cursor \in DOMAIN list
  BY <1>1, MonitorUntouched, ComparingFacts
<1>3. \A i \in DOMAIN list : (Heard(i)' => Heard(i)) /\ (Released(i)' => Released(i))
  BY <1>1 DEF Heard, Released
<1>4. pass' = "playing" => CaseOf(Visited)' # RefuseNew
  <2>1. CaseOf(Visited)' = CaseOf(Visited)
    BY <1>1, <1>2 DEF CaseOf, Visited, Untouched, SameHandles
  <2> QED
    BY <1>1, <2>1 DEF GrantInv
<1>5. cur.state = "PLAYING" /\ (reply.cmd = "STOP" => pass' = "paused")
  BY <1>1 DEF GrantInv
<1> QED
  BY <1>1, <1>2, <1>3, <1>4, <1>5, GrantSame

\* Whatever the instance that was called back answers, it is silent then or did not have to be.
LEMMA AnsweredIsSilent ==
  ASSUME IInv, GrantInv, pc = "worker", pass = "playing", ~IsGcf, NEW res,
         NEW k, k = (CASE CaseOf(Visited) = StopCurrent  -> AfterStop(Visited, res)
                       [] CaseOf(Visited) = PauseCurrent -> AfterPause(Visited, res)
                       [] OTHER                          -> AfterMix(Visited, res))
  PROVE  /\ Silenced(k[cursor], cur)
         /\ \A i \in DOMAIN list \ {cursor} : k[i] = list[i]
<1>1. /\ pc \in Comparing /\ pc \in Returning /\ cursor \in Nat \ {0}
      /\ cursor <= Len(list)
  BY DEF IInv, WalkInv, TypeOK, Comparing, Returning
<1>2. list \in Seq(Entry) /\ Unique(list) /\ cursor \in DOMAIN list /\ Visited \in Entry
  BY <1>1, ComparingFacts DEF Visited
<1>3. CaseOf(Visited) = SoundCase(Visited.event, cur.event) /\ CaseOf(Visited) # RefuseNew
  BY <1>1 DEF CaseOf, GrantInv
<1>4. CASE k = list
  <2>1. ASSUME CaseOf(Visited) = StopCurrent PROVE k[cursor].state # "PLAYING"
    <3>1. PICK st \in {"STOP", "NONE"} : k = ChangeState(list, Visited.pid, Visited.handle, st, {})
      BY <2>1 DEF AfterStop, StopCurrent, PauseCurrent
    <3> QED
      BY <1>2, <3>1, ChangeStateAt DEF Visited
  <2> QED
    BY <1>3, <1>4, <2>1 DEF Silenced, Visited
<1>5. CASE k # list
  <2>1. \E st \in {"STOP", "PAUSE", "NONE"}, r \in SUBSET Resources :
          k = ChangeState(list, Visited.pid, Visited.handle, st, r)
    <3>1. {} \in SUBSET Resources /\ Visited.resource \in SUBSET Resources
      BY <1>2 DEF Entry
    <3>2. CASE k = AfterStop(Visited, res)
      BY <3>1, <3>2 DEF AfterStop
    <3>3. CASE k = AfterPause(Visited, res)
      BY <1>5, <3>1, <3>3 DEF AfterPause
    <3>4. CASE k = AfterMix(Visited, res)
      BY <1>5, <3>1, <3>4 DEF AfterMix
    <3> QED
      BY <3>2, <3>3, <3>4 DEF StopCurrent, PauseCurrent
  <2>2. PICK st \in {"STOP", "PAUSE", "NONE"}, r \in SUBSET Resources :
          k = ChangeState(list, Visited.pid, Visited.handle, st, r)
    BY <2>1
  <2>3. k[cursor].state = st /\ \A i \in DOMAIN list \ {cursor} : k[i] = list[i]
    <3>1. k = ChangeState(list, list[cursor].pid, list[cursor].handle, st, r) /\ st \in States
      BY <2>2 DEF Visited, States
    <3>2. k[cursor].state = st
      BY <1>2, <3>1, ChangeStateAt
    <3>3. \A i \in DOMAIN list \ {cursor} : k[i] = list[i]
      BY <1>2, <3>1, ChangeStateBut
    <3> QED
      BY <3>2, <3>3
  <2> QED
    BY <2>3 DEF Silenced
<1> QED
  BY <1>4, <1>5

LEMMA GrantWorker == ASSUME IInv, IInv', GrantInv, NEW res, WorkerReturned(res) PROVE GrantInv'
<1>1. /\ pc = "worker" /\ pass = "playing" /\ pc' = "walk" /\ UNCHANGED <<cur, pass, quiet>>
      /\ pc \in Comparing /\ pc \in Returning /\ cursor \in Nat \ {0}
      /\ cursor <= Len(list)
  BY DEF WorkerReturned, IInv, WalkInv, TypeOK, Comparing, Returning
<1>2. list \in Seq(Entry) /\ cursor \in DOMAIN list /\ Visited \in Entry /\ DOMAIN list \subseteq Nat
  BY <1>1, ComparingFacts DEF Visited
<1> DEFINE k == CASE CaseOf(Visited) = StopCurrent  -> AfterStop(Visited, res)
                  [] CaseOf(Visited) = PauseCurrent -> AfterPause(Visited, res)
                  [] OTHER                          -> AfterMix(Visited, res)
<1>3. CommitAndStep(Resumable(k, Visited), "PLAY")
  BY DEF WorkerReturned
<1>4. k \in {AfterStop(Visited, res), AfterPause(Visited, res), AfterMix(Visited, res)}
  BY DEF StopCurrent, PauseCurrent
<1>5. ~IsGcf => Silenced(k[cursor], cur) /\ \A i \in DOMAIN list \ {cursor} : k[i] = list[i]
  BY <1>1, AnsweredIsSilent
<1> HIDE DEF k
<1>6. SameHandles(k, list)
  BY <1>2, <1>4, AnswerKeeps
<1>7. Untouched(Resumable(k, Visited), k)
  <2>1. k \in Seq(Entry)
    BY <1>6 DEF SameHandles
  <2>2. Untouched(NeedResume(k, Visited.pid, Visited.handle), k)
    BY <2>1, NeedResumeUntouched
  <2>3. Untouched(k, k)
    BY <2>1 DEF Untouched, SameHandles
  <2> QED
    BY <2>2, <2>3 DEF Resumable
<1>8. SameHandles(Resumable(k, Visited), list)
  BY <1>6, <1>7 DEF Untouched, SameHandles
<1>9. cur.state = "PLAYING" /\ reply.cmd # "STOP"
  BY <1>1 DEF GrantInv
<1>10. ASSUME NEW i \in DOMAIN list, ~IsGcf, i <= cursor
       PROVE  Silenced(Resumable(k, Visited)[i], cur)
  <2>1. Silenced(k[i], cur)
    <3>1. CASE i = cursor
      BY <1>5, <1>10, <3>1
    <3>2. CASE i # cursor
      <4>1. i < cursor /\ k[i] = list[i]
        BY <1>1, <1>2, <1>5, <1>10, <3>2
      <4>2. Silenced(list[i], cur)
        BY <1>1, <1>9, <1>10, <4>1 DEF GrantInv, Heard
      <4> QED
        BY <4>1, <4>2
    <3> QED
      BY <3>1, <3>2
  <2> QED
    BY <1>6, <1>7, <2>1, SameIsAsGood DEF SameHandles
<1> QED
  BY <1>1, <1>3, <1>8, <1>9, <1>10, GrantCommit

\* From the end of the first walk to the end of the second.
LEMMA GrantPaused ==
  ASSUME IInv, IInv', GrantInv,
         \/ WalkEnd \/ StartPausedPass \/ PausedOwn \/ PausedSkip \/ PausedInterrupt \/ PausedEnd
         \/ \E res : PausedReturned(res)
  PROVE  GrantInv'
<1>1. /\ pc \in Comparing /\ cursor \in Nat \ {0} /\ pass \in {"playing", "paused"}
      /\ pc \in Returning => cursor <= Len(list)
  BY DEF WalkEnd, StartPausedPass, PausedOwn, PausedSkip, PausedInterrupt, PausedEnd, Walking,
         PausedReturned, IInv, WalkInv, TypeOK, Comparing
<1>2. /\ list \in Seq(Entry) /\ Unique(list) /\ cur \in Request
      /\ Len(list) \in Nat /\ DOMAIN list = 1..Len(list)
      /\ statusPause = EventsIn(list, "PAUSE")
  BY <1>1, ComparingFacts
<1>3. Untouched(list, list)
  BY <1>2 DEF SameHandles, Untouched
<1>4. CASE WalkEnd
  <2>1. /\ pc = "walk" /\ cursor > Len(list) /\ pc' = "walked"
        /\ UNCHANGED <<cur, cursor, pass, quiet, reply>> /\ Untouched(list', list)
    BY <1>2, <1>4, ResetUntouched DEF WalkEnd, walkVars
  <2>2. \A i \in DOMAIN list : (Heard(i)' => Heard(i)) /\ (Released(i)' => Released(i))
    BY <1>1, <1>2, <2>1 DEF Heard, Released
  <2> QED
    BY <1>1, <2>1, <2>2, GrantSame DEF Returning
<1>5. CASE StartPausedPass
  <2>1. pc = "walked" /\ UNCHANGED <<list, cur, quiet, reply>>
    BY <1>5 DEF StartPausedPass
  <2>2. CASE statusPause # {} /\ cur.resource # {} /\ (reply.cmd = "PLAY" \/ quiet)
    <3>1. pc' = "pausedWalk" /\ pass' = "paused" /\ cursor' = 1
      BY <1>5, <2>2 DEF StartPausedPass
    <3>2. \A i \in DOMAIN list : Heard(i) /\ ~Released(i)'
      BY <1>2, <2>1, <3>1 DEF Heard, Released
    <3> QED
      BY <1>1, <1>3, <2>1, <3>1, <3>2, GrantSame DEF Returning
  <2>3. CASE ~(statusPause # {} /\ cur.resource # {} /\ (reply.cmd = "PLAY" \/ quiet))
    <3>1. pc' = "finish" /\ UNCHANGED <<pass, cursor>>
      BY <1>5, <2>3 DEF StartPausedPass
    <3>2. ASSUME NEW i \in DOMAIN list, reply.cmd = "PLAY" \/ quiet PROVE Freed(list[i], cur)
      <4>1. statusPause = {} \/ cur.resource = {}
        BY <2>3, <3>2
      <4> QED
        BY <1>2, <4>1 DEF Freed, EventsIn
    <3>3. \A i \in DOMAIN list : Heard(i)
      BY <2>1 DEF Heard
    <3> QED
      BY <1>1, <2>1, <3>1, <3>2, <3>3 DEF GrantInv, Returning
  <2> QED
    BY <2>2, <2>3
<1>6. CASE PausedInterrupt
  <2>1. /\ pc = "pausedWalk" /\ pc' \in {"monitor", "worker"} /\ cur.state = "PLAYING"
        /\ UNCHANGED <<list, cur, cursor, pass, quiet, reply>>
    BY <1>6 DEF PausedInterrupt, Walking, MustRelease, CallBackPc, walkVars
  <2>2. pass = "paused"
    BY <2>1 DEF GrantInv
  <2>3. \A i \in DOMAIN list : (Heard(i)' => Heard(i)) /\ (Released(i)' => Released(i))
    BY <2>1, <2>2 DEF Heard, Released
  <2> QED
    BY <1>1, <1>3, <2>1, <2>2, <2>3, GrantSame
<1>7. CASE PausedEnd
  <2>1. /\ pc = "pausedWalk" /\ cursor > Len(list) /\ pc' = "finish"
        /\ UNCHANGED <<list, cur, cursor, pass, quiet, reply>>
    BY <1>7 DEF PausedEnd, walkVars
  <2>2. pass = "paused"
    BY <2>1 DEF GrantInv
  <2>3. \A i \in DOMAIN list : (Heard(i)' => Heard(i)) /\ (Released(i)' => Released(i))
    BY <1>1, <1>2, <2>1, <2>2 DEF Heard, Released
  <2> QED
    BY <1>1, <1>3, <2>1, <2>2, <2>3, GrantSame DEF Returning
<1>8. CASE PausedOwn \/ PausedSkip \/ \E res : PausedReturned(res)
  <2>1. /\ pc' = "pausedWalk" /\ cursor' = cursor + 1 /\ UNCHANGED <<cur, pass, quiet, reply>>
        /\ pass = "paused" /\ cursor \in DOMAIN list
    BY <1>1, <1>2, <1>8 DEF PausedOwn, PausedSkip, PausedReturned, Walking, Next1, GrantInv,
                            Returning
  <2>2. /\ SameHandles(list', list)
        /\ \A i \in DOMAIN list : i # cursor /\ list[i].pid # cur.pid => list'[i] = list[i]
        /\ cur.state = "PLAYING" => Freed(list'[cursor], cur)
        /\ Silenced(list[cursor], cur) => Silenced(list'[cursor], cur)
    <3>1. CASE list' = list /\ (cur.state = "PLAYING" => Freed(list[cursor], cur))
      BY <1>3, <3>1 DEF Untouched
    <3>2. CASE /\ PausedOwn
               /\ list' = ChangeState(list, cur.pid, cur.handle, cur.state, cur.resource)
      <4>1. SameHandles(list', list)
        BY <1>2, <3>2, ChangeStateKeeps DEF Request
      <4>2. \A i \in DOMAIN list : list[i].pid # cur.pid => list'[i] = list[i]
        BY <1>2, <3>2, ChangeStateOthers
      <4>3. list'[cursor].pid = cur.pid
        BY <2>1, <3>2, <4>1 DEF PausedOwn, Mine, Own, Visited, SameHandles
      <4> QED
        BY <4>1, <4>2, <4>3, OwnIsGood
    <3>3. CASE \E res : PausedReturned(res)
      <4>1. list' = ChangeState(list, list[cursor].pid, list[cursor].handle, "NONE", {})
        BY <3>3 DEF PausedReturned, Visited
      <4>2. SameHandles(list', list)
        <5>1. "NONE" \in States /\ {} \in SUBSET Resources
          BY DEF States
        <5> QED
          BY <1>2, <4>1, <5>1, ChangeStateKeeps
      <4>3. list'[cursor].state = "NONE"
        BY <1>2, <2>1, <4>1, ChangeStateAt
      <4>4. \A i \in DOMAIN list : i # cursor => list'[i] = list[i]
        BY <1>2, <2>1, <4>1, ChangeStateBut
      <4> QED
        BY <4>2, <4>3, <4>4 DEF Silenced, Freed
    <3>4. CASE PausedOwn /\ list' = list
      BY <3>1, <3>4, OwnIsGood DEF PausedOwn, Mine, Own, Visited
    <3>5. CASE PausedSkip
      <4>1. ~MustRelease(Visited) /\ ~(Visited.state = "PAUSE" /\ Mine(Visited)) /\ list' = list
        BY <3>5 DEF PausedSkip
      <4>2. cur.state = "PLAYING" => Freed(Visited, cur)
        <5>1. CaseOf(Visited) = SoundCase(Visited.event, cur.event)
          BY <2>1 DEF CaseOf
        <5> QED
          BY <4>1, <5>1 DEF MustRelease, Mine, Own, Foreign, Clash, Freed
      <4> QED
        BY <3>1, <4>1, <4>2 DEF Visited
    <3> QED
      BY <1>8, <3>2, <3>3, <3>4, <3>5 DEF PausedOwn
  <2>3. ASSUME NEW i \in DOMAIN list'
        PROVE  /\ Silenced(list[i], cur) => Silenced(list'[i], cur)
               /\ cur.state = "PLAYING" /\ Released(i)' /\ (Released(i) => Freed(list[i], cur))
                    => Freed(list'[i], cur)
               /\ Heard(i)
    <3>1. i \in DOMAIN list /\ list'[i].pid = list[i].pid /\ i \in Nat
      BY <1>2, <2>2 DEF SameHandles
    <3>2. Heard(i)
      BY <2>1 DEF Heard
    <3>3. Released(i)' => i = cursor \/ Released(i)
      BY <1>1, <2>1, <3>1 DEF Released
    <3>4. CASE i = cursor
      BY <2>2, <3>2, <3>4
    <3>5. CASE i # cursor /\ list[i].pid # cur.pid
      BY <2>2, <3>1, <3>2, <3>3, <3>5
    <3>6. CASE list[i].pid = cur.pid
      BY <3>1, <3>2, <3>6, OwnIsGood
    <3> QED
      BY <3>4, <3>5, <3>6
  <2>4. DOMAIN list' = DOMAIN list
    BY <2>2 DEF SameHandles
  <2> QED
    BY <1>1, <2>1, <2>3, <2>4 DEF GrantInv, Returning
<1> QED
  BY <1>4, <1>5, <1>6, <1>7, <1>8
-----------------------------------------------------------------------------
(* Theorems about what is granted.                                         *)

\* Every step of the clients and of the server keeps what the walk has achieved.
LEMMA StepGrant == ASSUME IInv, IInv', GrantInv, [Next]_vars PROVE GrantInv'
<1>1. CASE Clients
  <2>1. \A m : Send(m) => UNCHANGED <<list, pc, cur, walkVars>>
    BY DEF Send
  <2>2. UNCHANGED <<list, pc, cur, walkVars>>
    BY <1>1, <2>1 DEF Clients, SendRegister, SendSetState, SendUnregister, SendPlain
  <2> QED
    BY <2>2, GrantClients
<1>2. CASE \E p \in Pids : Die(p)
  <2>1. UNCHANGED <<list, pc, cur, walkVars>>
    BY <1>2 DEF Die
  <2> QED
    BY <2>1, GrantClients
<1>3. ASSUME NEW res, Returned(res) PROVE GrantInv'
  BY <1>3, GrantWorker, GrantPaused DEF Returned
<1>4. CASE CallbackAnswered \/ CallbackFailed \/ CallbackTimedOut
  BY <1>3, <1>4 DEF CallbackAnswered, CallbackFailed, CallbackTimedOut
<1>5. CASE Server
  <2>1. CASE \/ Accept \/ DoUnregister \/ EmergentExit \/ EmergentDone \/ ReapOne \/ ReapDone
             \/ RegisterFull \/ SetStateDirectly \/ AnswerMyState \/ Finish
    <3>1. pc' \in {"idle", "unregister", "emergent", "reap", "dispatch"}
      BY <2>1 DEF Accept, DoUnregister, EmergentExit, EmergentDone, ReapOne, ReapDone,
                  RegisterFull, SetStateDirectly, AnswerMyState, Finish, Idle
    <3>2. pc' \notin Comparing
      BY <3>1 DEF Comparing
    <3> QED
      BY <3>2, GrantOutside
  <2>2. CASE DispatchRegister
    <3>1. PICK h \in FreeHandles : StartCompare(h) /\ pc = "dispatch"
      BY <2>2 DEF DispatchRegister
    <3>2. h \in Handles \cup {NoHandle}
      BY <3>1 DEF FreeHandles
    <3> QED
      BY <3>1, <3>2, GrantStart
  <2>3. CASE DispatchPlay
    <3>1. pc = "dispatch" /\ StartCompare(cur.handle)
      BY <2>3 DEF DispatchPlay
    <3>2. cur.handle \in Handles \cup {NoHandle}
      BY <3>1 DEF IInv, WalkInv, Request
    <3> QED
      BY <3>1, <3>2, GrantStart
  <2>4. CASE WalkSkip \/ WalkPass \/ WalkRefuse \/ WalkCaseNone \/ WalkInterrupt
    BY <2>4, GrantVisit
  <2>5. CASE MonitorReturned
    BY <2>5, GrantMonitor
  <2>6. CASE WalkEnd \/ StartPausedPass \/ PausedOwn \/ PausedSkip \/ PausedInterrupt \/ PausedEnd
    BY <2>6, GrantPaused
  <2> QED
    BY <1>4, <1>5, <2>1, <2>2, <2>3, <2>4, <2>5, <2>6 DEF Server
<1>6. CASE UNCHANGED vars
  BY <1>6, GrantClients DEF vars
<1> QED
  BY <1>1, <1>2, <1>4, <1>5, <1>6 DEF Next

LEMMA InitGrant == ASSUME Init PROVE GrantInv
BY DEF Init, GrantInv, NoReply, Returning, Comparing

\* What lies behind the walk stays silent, or released, throughout every request.
THEOREM GrantInductive == Spec => [](IInv /\ GrantInv)
<1>1. IInv /\ GrantInv /\ IInv' /\ [Next]_vars => GrantInv'
  BY StepGrant
<1> QED
  BY <1>1, InitGrant, Inductive, PTL DEF Spec

\* The answer is sent when both loops have passed every instance; a request that takes effect
\* only then adds, or changes, an instance of the requester's own.
LEMMA AnswerGood ==
  ASSUME IInv, GrantInv, Answered, [Next]_vars, NEW i \in DOMAIN list', cur.state = "PLAYING"
  PROVE  /\ reply.cmd = "PLAY" /\ ~IsGcf => Silenced(list'[i], cur)
         /\ reply.cmd = "PLAY" \/ quiet => Freed(list'[i], cur)
<1>1. pc = "finish" /\ Finish
  <2>1. /\ pc = "finish"
        /\ pc' = "idle"
    BY DEF Answered
  <2>2. UNCHANGED vars => FALSE
    BY <2>1 DEF vars
  <2>3. Clients => FALSE
    <3>1. \A m : Send(m) => UNCHANGED pc
      BY DEF Send
    <3> QED
      BY <2>1, <3>1 DEF Clients, SendRegister, SendSetState, SendUnregister, SendPlain
  <2>4. (\E p \in Pids : Die(p)) => FALSE
    BY <2>1 DEF Die
  <2>5. CallbackAnswered \/ CallbackFailed => FALSE
    BY <2>1 DEF CallbackAnswered, CallbackFailed, Returned, WorkerReturned, PausedReturned
  <2>6. Server => Finish
    BY <2>1 DEF Server, Accept, DoUnregister, EmergentExit, EmergentDone, ReapOne, ReapDone,
         DispatchRegister, RegisterFull, DispatchPlay, SetStateDirectly, AnswerMyState, WalkSkip,
         WalkPass, WalkRefuse, WalkCaseNone, WalkInterrupt, WalkEnd, MonitorReturned,
         CallbackTimedOut, Returned, WorkerReturned, PausedReturned, StartPausedPass, PausedOwn,
         PausedSkip, PausedInterrupt, PausedEnd, Walking
  <2> QED
    BY <2>1, <2>2, <2>3, <2>4, <2>5, <2>6 DEF Next
<1>2. pc \in Comparing
  BY <1>1 DEF Comparing
<1>3. /\ list \in Seq(Entry) /\ cur \in Request
      /\ cur.req = "REGISTER" => cur.handle \in Handles
  BY <1>2, ComparingFacts
<1>4. ASSUME NEW j \in DOMAIN list
      PROVE  /\ reply.cmd = "PLAY" /\ ~IsGcf => Silenced(list[j], cur)
             /\ reply.cmd = "PLAY" \/ quiet => Freed(list[j], cur)
  BY <1>1, <1>2, <1>4 DEF GrantInv, Heard, Released
<1>5. list'[i].pid = cur.pid \/ \E j \in DOMAIN list : list'[i] = list[j]
  <2>1. CASE list' = list
    BY <2>1
  <2>2. CASE list' = Register(list, cur) /\ cur.req = "REGISTER"
    <3>1. i \in DOMAIN Register(list, cur) /\ list'[i] = Register(list, cur)[i]
      BY <2>2
    <3>2. /\ Register(list, cur)[1].pid = cur.pid
          /\ \A j \in DOMAIN Register(list, cur) :
               j = 1 \/ (j - 1 \in DOMAIN list /\ Register(list, cur)[j] = list[j - 1])
      BY <1>3, <2>2, RegisterPlaces
    <3> QED
      BY <3>1, <3>2
  <2>3. CASE list' = ChangeState(list, cur.pid, cur.handle, cur.state, cur.resource)
    <3>1. SameHandles(list', list)
      BY <1>3, <2>3, ChangeStateKeeps DEF Request
    <3>2. i \in DOMAIN list /\ list'[i].pid = list[i].pid
      BY <3>1 DEF SameHandles
    <3> QED
      BY <1>3, <2>3, <3>2, ChangeStateOthers
  <2> QED
    BY <1>1, <2>1, <2>2, <2>3 DEF Finish, Commit
<1> QED
  BY <1>4, <1>5, OwnIsGood

\* Who is told to play finds silent, in the list, every instance of another process that its event
\* stops or may not disturb, whatever the callbacks answered, and however many handles, processes
\* and requests there are.
THEOREM GrantsSilence == Spec => GrantSilencesConflicts
<1>1. IInv /\ GrantInv /\ [Next]_vars =>
        [(Answered /\ reply.cmd = "PLAY" /\ ~IsGcf) =>
           \A i \in DOMAIN list' : Silenced(list'[i], cur)]_vars
  <2> SUFFICES ASSUME IInv, GrantInv, [Next]_vars, Answered, reply.cmd = "PLAY", ~IsGcf,
                      NEW i \in DOMAIN list'
               PROVE  Silenced(list'[i], cur)
    OBVIOUS
  <2>1. cur.state = "PLAYING"
    BY DEF GrantInv
  <2> QED
    BY <2>1, AnswerGood
<1> QED
  BY <1>1, GrantInductive, PTL DEF Spec, GrantSilencesConflicts

\* ... and free of the resources it claims every paused instance that has to give way.
THEOREM GrantsFree == Spec => GrantFreesResources
<1>1. IInv /\ GrantInv /\ [Next]_vars =>
        [(Answered /\ (reply.cmd = "PLAY" \/ quiet) /\ cur.state = "PLAYING") =>
           \A i \in DOMAIN list' : Freed(list'[i], cur)]_vars
  BY AnswerGood
<1> QED
  BY <1>1, GrantInductive, PTL DEF Spec, GrantFreesResources
-----------------------------------------------------------------------------
(* What the clients own.                                                   *)

\* Nobody dies with a request in the queue, and the matrix has a case for every two events in use
\* (or is not asked, in the test mode of the vconf key).
Settled ==
  /\ ~DieBusy
  /\ IsGcf \/ \A p, q \in Pids : \A a \in Uses[p], b \in Uses[q] : SoundCase(a, b) # CaseNone

\* Two entries for the same instance.
SameInstance(a, b) == a.handle = b.handle /\ a.pid = b.pid /\ a.event = b.event

\* k has the instances of l, except those with the handle h.
KeepsBut(k, l, h) ==
  \A i \in DOMAIN l : l[i].handle # h => \E n \in DOMAIN k : SameInstance(k[n], l[i])

\* k has no instances but those of l.
AddsNone(k, l) == \A n \in DOMAIN k : \E i \in DOMAIN l : SameInstance(k[n], l[i])

LEMMA SameHandlesKeeps ==
  ASSUME NEW l, NEW k, SameHandles(k, l), NEW h
  PROVE  KeepsBut(k, l, h) /\ AddsNone(k, l)
BY DEF SameHandles, KeepsBut, AddsNone, SameInstance

LEMMA RemoveAtKeeps ==
  ASSUME NEW l \in Seq(Entry), Unique(l), NEW i \in DOMAIN l
  PROVE  KeepsBut(RemoveAt(l, i), l, l[i].handle) /\ AddsNone(RemoveAt(l, i), l)
<1>1. \A j \in DOMAIN l \ {i} : \E n \in DOMAIN RemoveAt(l, i) : RemoveAt(l, i)[n] = l[j]
  BY RemoveAtRemains
<1>2. \A n \in DOMAIN RemoveAt(l, i) : \E j \in DOMAIN l : RemoveAt(l, i)[n] = l[j]
  BY RemoveAtRemains
<1> QED
  BY <1>1, <1>2 DEF KeepsBut, AddsNone, SameInstance

LEMMA UnregisterKeeps ==
  ASSUME NEW l \in Seq(Entry), Unique(l), NEW h, NEW k \in Unregister(l, h)
  PROVE  KeepsBut(k, l, h) /\ AddsNone(k, l)
<1>1. CASE h \in HandlesIn(l)
  <2>1. PICK i \in DOMAIN l : l[i].handle = h /\ k = RemoveAt(l, i)
    BY <1>1 DEF Unregister, FirstIn
  <2> QED
    BY <2>1, RemoveAtKeeps
<1>2. CASE h \notin HandlesIn(l)
  BY <1>2 DEF Unregister, KeepsBut, AddsNone, SameInstance
<1> QED
  BY <1>1, <1>2

\* The requests, and those who hold handles, as HeldInv speaks of them.
LEMMA TurnFacts ==
  ASSUME IInv
  PROVE  /\ list \in Seq(Entry) /\ Unique(list) /\ inbox \in Seq(Request)
         /\ Len(inbox) \in Nat /\ DOMAIN inbox = 1..Len(inbox) /\ Turns \subseteq 0..Len(inbox)
         /\ \A i \in DOMAIN inbox : inbox[i] \in Request /\ i \in Turns /\ Asked(i) = inbox[i]
         /\ pc # "idle" => 0 \in Turns
         /\ Asked(0) = cur
         /\ \A i \in Turns : Asked(i) \in Request
         /\ held \subseteq [pid : Pids, handle : Handles, event : Events]
<1>1. /\ list \in Seq(Entry) /\ inbox \in Seq(Request)
      /\ held \subseteq [pid : Pids, handle : Handles, event : Events]
      /\ Unique(list)
  BY DEF IInv, TypeOK, HandlesUnique, Unique
<1>2. Len(inbox) \in Nat /\ DOMAIN inbox = 1..Len(inbox) /\ \A i \in DOMAIN inbox : inbox[i] \in Request
  BY <1>1, LenProperties, ElementOfSeq
<1>3. pc # "idle" => cur \in Request
  BY DEF IInv, WalkInv
<1>4. Turns \subseteq 0..Len(inbox) /\ DOMAIN inbox \subseteq Turns /\ (pc # "idle" => 0 \in Turns)
  BY <1>2 DEF Turns
<1>5. Asked(0) = cur /\ \A i \in DOMAIN inbox : Asked(i) = inbox[i]
  BY <1>2 DEF Asked
<1>6. \A i \in Turns : i \in DOMAIN inbox \/ (i = 0 /\ pc # "idle")
  BY DEF Turns
<1> QED
  BY <1>1, <1>2, <1>3, <1>4, <1>5, <1>6

\* While a handle that is held, or being given back, stands for an instance, no other does.
LEMMA HolderIsOne ==
  ASSUME IInv, HeldIsListed, NEW g \in held, NEW h \in held, g.handle = h.handle
  PROVE  g = h
<1>1. PICK i \in DOMAIN list : Own(list[i], g.pid, g.handle) /\ list[i].event = g.event
  BY DEF HeldIsListed
<1>2. PICK j \in DOMAIN list : Own(list[j], h.pid, h.handle) /\ list[j].event = h.event
  BY DEF HeldIsListed
<1>3. i = j
  BY <1>1, <1>2, TurnFacts DEF Own, Unique
<1>4. g.pid = h.pid /\ g.event = h.event
  BY <1>1, <1>2, <1>3 DEF Own
<1> QED
  BY <1>4, TurnFacts

\* A process sends a request.
LEMMA HeldSend ==
  ASSUME IInv, HeldInv, NEW m \in Request, Send(m), held' \subseteq held,
         m.req = "REGISTER" => m.event \in Uses[m.pid],
         m.req = "EMERGENT_EXIT" => \A g \in held' : g.pid # m.pid,
         m.req = "UNREGISTER" =>
           \E g \in held : g.pid = m.pid /\ g.handle = m.handle /\ held' = held \ {g}
  PROVE  HeldInv'
<1>0. PICK last \in Nat : last = Len(inbox) + 1
  BY TurnFacts
<1>1. /\ UNCHANGED <<list, pc, cur, updated, quiet, reply, alive>>
      /\ m.pid \in alive /\ ~Waiting(m.pid) /\ inbox' = Append(inbox, m)
  BY DEF Send, walkVars
<1>2. /\ DOMAIN inbox' = 1..last
      /\ inbox'[last] = m /\ \A i \in 1..Len(inbox) : inbox'[i] = inbox[i]
  BY <1>0, <1>1, TurnFacts, AppendProperties
<1>31. last \in Nat \ {0} /\ last \notin Turns /\ \A i \in Turns : i \in Nat /\ i < last
  BY <1>0, TurnFacts
<1>32. Turns' = Turns \cup {last}
  <2>1. DOMAIN inbox' = DOMAIN inbox \cup {last}
    BY <1>0, <1>2, TurnFacts
  <2> QED
    BY <1>1, <2>1 DEF Turns
<1>33. Asked(last)' = m
  BY <1>2, <1>31 DEF Asked
<1>34. \A i \in Turns : Asked(i)' = Asked(i)
  BY <1>1, <1>2, TurnFacts DEF Asked, Turns
<1>3. /\ Turns' = Turns \cup {last} /\ Asked(last)' = m /\ last \notin Turns /\ last \in Nat
      /\ \A i \in Turns : Asked(i)' = Asked(i) /\ i \in Nat /\ i < last
  BY <1>31, <1>32, <1>33, <1>34
<1>4. ASSUME NEW i \in Turns, Asked(i).pid = m.pid PROVE Unanswered(Asked(i))
  BY <1>1, <1>4, TurnFacts DEF Waiting, Turns, Asked
<1>5. InOrder'
  <2> SUFFICES ASSUME NEW i \in Turns', NEW j \in Turns', i < j, Asked(i)'.pid = Asked(j)'.pid
               PROVE  Unanswered(Asked(i)')
    BY DEF InOrder
  <2>1. i \in Turns
    BY <1>3
  <2>2. CASE j \in Turns
    BY <1>3, <2>1, <2>2 DEF HeldInv, InOrder
  <2>3. CASE j = last
    BY <1>3, <1>4, <2>1, <2>3
  <2> QED
    BY <1>3, <2>2, <2>3
<1>6. GivenBack'
  <2>1. ASSUME m.req = "UNREGISTER"
        PROVE  /\ \E n \in DOMAIN list : Own(list[n], m.pid, m.handle)
               /\ \A g \in held' : g.handle # m.handle
               /\ \A i \in Turns : Asked(i).req = "UNREGISTER" => Asked(i).handle # m.handle
    <3>1. PICK g \in held : g.pid = m.pid /\ g.handle = m.handle /\ held' = held \ {g}
      BY <2>1
    <3>2. \E n \in DOMAIN list : Own(list[n], m.pid, m.handle)
      BY <3>1 DEF HeldInv, HeldIsListed
    <3>3. \A x \in held' : x.handle # m.handle
      BY <3>1, HolderIsOne DEF HeldInv
    <3>4. \A i \in Turns : Asked(i).req = "UNREGISTER" => Asked(i).handle # m.handle
      BY <3>1 DEF HeldInv, GivenBack
    <3> QED
      BY <3>2, <3>3, <3>4
  <2> SUFFICES ASSUME NEW i \in Turns', Asked(i)'.req = "UNREGISTER"
               PROVE  /\ \E n \in DOMAIN list : Own(list[n], Asked(i)'.pid, Asked(i)'.handle)
                      /\ \A g \in held' : g.handle # Asked(i)'.handle
                      /\ \A j \in Turns' \ {i} :
                           Asked(j)'.req = "UNREGISTER" => Asked(j)'.handle # Asked(i)'.handle
    BY <1>1 DEF GivenBack
  <2>2. CASE i = last
    BY <1>3, <2>1, <2>2
  <2>3. CASE i \in Turns
    <3>1. Asked(i)' = Asked(i)
      BY <1>3, <2>3
    <3>2. \A j \in Turns' \ {i} : Asked(j)'.req = "UNREGISTER" => Asked(j)'.handle # Asked(i).handle
      BY <1>3, <2>1, <2>3, <3>1 DEF HeldInv, GivenBack
    <3> QED
      BY <2>3, <3>1, <3>2 DEF HeldInv, GivenBack
  <2> QED
    BY <1>3, <2>2, <2>3
<1>7. Fresh'
  <2> SUFFICES ASSUME pc \in Comparing, cur.req = "REGISTER"
               PROVE  /\ \A g \in held' : g.handle # cur.handle
                      /\ \A i \in DOMAIN inbox' : inbox'[i].req = "UNREGISTER"
                                                    => inbox'[i].handle # cur.handle
    BY <1>1 DEF HeldInv, Fresh
  <2>1. \A g \in held : g.handle # cur.handle
    BY DEF HeldInv, Fresh
  <2>2. ASSUME NEW i \in DOMAIN inbox', inbox'[i].req = "UNREGISTER"
        PROVE  inbox'[i].handle # cur.handle
    <3>1. CASE i = last
      BY <1>2, <2>1, <2>2, <3>1
    <3>2. CASE i # last
      <4>1. i \in DOMAIN inbox /\ inbox'[i] = inbox[i]
        BY <1>0, <1>2, <3>2, TurnFacts
      <4> QED
        BY <2>2, <4>1 DEF HeldInv, Fresh
    <3> QED
      BY <3>1, <3>2
  <2> QED
    BY <2>1, <2>2
<1>8. UsesOwn'
  BY <1>1, <1>3 DEF HeldInv, UsesOwn
<1>9. HeldIsListed' /\ (\A g \in held' : g.pid \in alive') /\ \A i \in Turns' : Asked(i)'.pid \in alive'
  BY <1>1, <1>3 DEF HeldInv, HeldIsListed
<1>10. \A i \in Turns' : Asked(i)'.req = "EMERGENT_EXIT" => HeldBy(Asked(i).pid)' = {}
  BY <1>3 DEF HeldInv, HeldBy
<1>11. /\ pc' = "unregister" => cur'.req = "UNREGISTER"
       /\ pc' = "emergent" => cur'.req = "EMERGENT_EXIT"
       /\ updated' => pc' \in Comparing
  BY <1>1 DEF HeldInv
<1> QED
  BY <1>5, <1>6, <1>7, <1>8, <1>9, <1>10, <1>11 DEF HeldInv

LEMMA HeldClients ==
  ASSUME IInv, HeldInv, ~DieBusy, NEW p \in Pids,
         SendRegister(p) \/ SendSetState(p) \/ SendUnregister(p) \/ SendPlain(p) \/ Die(p)
  PROVE  HeldInv'
<1> USE AsmAssumption
<1>1. held \subseteq [pid : Pids, handle : Handles, event : Events] /\ AskStates \subseteq States
  BY TurnFacts DEF States
<1>2. CASE SendRegister(p)
  <2>1. PICK ev \in Uses[p], st \in AskStates \cap {"NONE", "PLAYING"}, res \in Claims[p] :
          Send([pid |-> p, req |-> "REGISTER", handle |-> NoHandle, event |-> ev,
                state |-> st, resource |-> res])
    BY <1>2 DEF SendRegister
  <2> DEFINE m == [pid |-> p, req |-> "REGISTER", handle |-> NoHandle, event |-> ev,
                   state |-> st, resource |-> res]
  <2>2. m \in Request /\ m.req = "REGISTER" /\ m.pid = p /\ m.event = ev
    BY <1>1 DEF Request, Requests
  <2>3. Send(m) /\ held' = held
    BY <1>2, <2>1 DEF SendRegister
  <2> HIDE DEF m
  <2> QED
    BY <2>2, <2>3, HeldSend
<1>3. CASE SendSetState(p)
  <2>1. PICK g \in HeldBy(p) : \E ev \in {g.event} \cup Misnamed, st \in AskStates, res \in Claims[p] :
          /\ Send([pid |-> p, req |-> "SETSTATE", handle |-> g.handle, event |-> ev,
                   state |-> st, resource |-> res])
          /\ UNCHANGED held
    BY <1>3 DEF SendSetState
  <2>2. PICK ev \in {g.event} \cup Misnamed, st \in AskStates, res \in Claims[p] :
          /\ Send([pid |-> p, req |-> "SETSTATE", handle |-> g.handle, event |-> ev,
                   state |-> st, resource |-> res])
          /\ UNCHANGED held
    BY <2>1
  <2> DEFINE m == [pid |-> p, req |-> "SETSTATE", handle |-> g.handle, event |-> ev,
                   state |-> st, resource |-> res]
  <2>3. ev \in Events /\ g.handle \in Handles
    BY <1>1 DEF HeldBy
  <2>4. m \in Request /\ m.req = "SETSTATE"
    BY <1>1, <2>3 DEF Request, Requests
  <2>5. Send(m) /\ held' = held
    BY <2>2
  <2> HIDE DEF m
  <2> QED
    BY <2>4, <2>5, HeldSend
<1>4. CASE SendUnregister(p)
  <2>1. PICK g \in HeldBy(p) : \E ev \in {g.event} \cup Misnamed :
          /\ Send([pid |-> p, req |-> "UNREGISTER", handle |-> g.handle, event |-> ev,
                   state |-> "NONE", resource |-> {}])
          /\ held' = held \ {g}
    BY <1>4 DEF SendUnregister
  <2>2. PICK ev \in {g.event} \cup Misnamed :
          /\ Send([pid |-> p, req |-> "UNREGISTER", handle |-> g.handle, event |-> ev,
                   state |-> "NONE", resource |-> {}])
          /\ held' = held \ {g}
    BY <2>1
  <2> DEFINE m == [pid |-> p, req |-> "UNREGISTER", handle |-> g.handle, event |-> ev,
                   state |-> "NONE", resource |-> {}]
  <2>3. ev \in Events /\ g \in held /\ g.handle \in Handles /\ g.pid = p
    BY <1>1 DEF HeldBy
  <2>4. m \in Request /\ m.req = "UNREGISTER" /\ m.pid = p /\ m.handle = g.handle
    BY <2>3 DEF Request, Requests, States
  <2>5. Send(m) /\ held' = held \ {g}
    BY <2>2
  <2> HIDE DEF m
  <2> QED
    BY <2>3, <2>4, <2>5, HeldSend
<1>5. CASE SendPlain(p)
  <2>1. PICK r \in {"GETMYSTATE", "EMERGENT_EXIT"} :
          /\ Send([pid |-> p, req |-> r, handle |-> NoHandle, event |-> EventSeq[1],
                   state |-> "NONE", resource |-> {}])
          /\ held' = IF r = "EMERGENT_EXIT" THEN {g \in held : g.pid # p} ELSE held
    BY <1>5 DEF SendPlain
  <2> DEFINE m == [pid |-> p, req |-> r, handle |-> NoHandle, event |-> EventSeq[1],
                   state |-> "NONE", resource |-> {}]
  <2>2. m \in Request /\ m.req = r /\ m.pid = p
    BY FirstEvent DEF Request, Requests, States
  <2>3. Send(m)
    BY <2>1
  <2>4. held' \subseteq held /\ (r = "EMERGENT_EXIT" => \A g \in held' : g.pid # p)
    BY <2>1
  <2> HIDE DEF m
  <2> QED
    BY <2>2, <2>3, <2>4, HeldSend
<1>6. CASE Die(p)
  <2>1. /\ ~Busy(p) /\ alive' = alive \ {p} /\ held' = {g \in held : g.pid # p}
        /\ UNCHANGED <<list, pc, cur, updated, quiet, reply, inbox>>
    BY <1>6 DEF Die, walkVars
  <2>2. \A i \in Turns : Asked(i).pid # p
    BY <2>1 DEF Busy, Turns, Asked
  <2>3. Turns' = Turns /\ \A i : Asked(i)' = Asked(i)
    BY <2>1 DEF Turns, Asked
  <2>4. InOrder' /\ GivenBack' /\ Fresh' /\ UsesOwn'
    BY <2>1, <2>3 DEF HeldInv, InOrder, GivenBack, Fresh, UsesOwn
  <2>5. /\ HeldIsListed' /\ \A g \in held' : g.pid \in alive'
        /\ \A i \in Turns' : Asked(i)'.pid \in alive'
    BY <2>1, <2>2, <2>3 DEF HeldInv, HeldIsListed
  <2>6. \A i \in Turns' : Asked(i)'.req = "EMERGENT_EXIT" => HeldBy(Asked(i).pid)' = {}
    BY <2>1, <2>3 DEF HeldInv, HeldBy
  <2>7. /\ pc' = "unregister" => cur'.req = "UNREGISTER"
        /\ pc' = "emergent" => cur'.req = "EMERGENT_EXIT"
        /\ updated' => pc' \in Comparing
    BY <2>1 DEF HeldInv
  <2> QED
    BY <2>4, <2>5, <2>6, <2>7 DEF HeldInv
<1> QED
  BY <1>2, <1>3, <1>4, <1>5, <1>6

\* The next request is the first of the queue.
LEMMA HeldAccept == ASSUME IInv, HeldInv, Accept PROVE HeldInv'
<1>1. /\ pc = "idle" /\ pc' \notin Comparing /\ pc' # "idle" /\ UNCHANGED <<list, held, alive>>
      /\ inbox # << >> /\ cur' = Head(inbox) /\ inbox' = Tail(inbox)
  BY DEF Accept, Comparing
<1>2. /\ 1 \in DOMAIN inbox /\ cur' = inbox[1]
      /\ \A i \in DOMAIN inbox' : i \in Nat \ {0} /\ i + 1 \in DOMAIN inbox /\ inbox'[i] = inbox[i + 1]
  <2>1. inbox \in Seq(Request) /\ Len(inbox) \in Nat /\ DOMAIN inbox = 1..Len(inbox)
    BY TurnFacts
  <2>2. /\ inbox' \in Seq(Request) /\ Len(inbox') = Len(inbox) - 1 /\ cur' = inbox[1] /\ Len(inbox) # 0
        /\ \A i \in 1..(Len(inbox) - 1) : inbox'[i] = inbox[i + 1]
    BY <1>1, <2>1, HeadTailProperties, EmptySeq
  <2>3. DOMAIN inbox' = 1..(Len(inbox) - 1)
    BY <2>2, LenProperties
  <2> QED
    BY <2>1, <2>2, <2>3
<1>3. \A i \in Turns' : i \in Nat /\ i + 1 \in Turns /\ Asked(i)' = Asked(i + 1)
  <2>1. \A i \in Turns' : i = 0 \/ i \in DOMAIN inbox'
    BY DEF Turns
  <2>2. 1 \in Turns /\ Asked(0)' = Asked(1)
    BY <1>2 DEF Turns, Asked
  <2>3. ASSUME NEW i \in DOMAIN inbox' PROVE i \in Nat /\ i + 1 \in Turns /\ Asked(i)' = Asked(i + 1)
    BY <1>2, <2>3 DEF Turns, Asked
  <2> QED
    BY <2>1, <2>2, <2>3
<1>4. InOrder'
  <2> SUFFICES ASSUME NEW i \in Turns', NEW j \in Turns', i < j, Asked(i)'.pid = Asked(j)'.pid
               PROVE  Unanswered(Asked(i)')
    BY DEF InOrder
  <2>1. i + 1 \in Turns /\ j + 1 \in Turns /\ i + 1 < j + 1
    BY <1>3
  <2> QED
    BY <1>3, <2>1 DEF HeldInv, InOrder
<1>5. GivenBack'
  <2> SUFFICES ASSUME NEW i \in Turns', Asked(i)'.req = "UNREGISTER"
               PROVE  /\ \E n \in DOMAIN list : Own(list[n], Asked(i)'.pid, Asked(i)'.handle)
                      /\ \A g \in held : g.handle # Asked(i)'.handle
                      /\ \A j \in Turns' \ {i} :
                           Asked(j)'.req = "UNREGISTER" => Asked(j)'.handle # Asked(i)'.handle
    BY <1>1 DEF GivenBack
  <2>1. \A j \in Turns' \ {i} : j + 1 \in Turns \ {i + 1}
    BY <1>3
  <2> QED
    BY <1>3, <2>1 DEF HeldInv, GivenBack
<1>6. Fresh'
  BY <1>1 DEF Fresh
<1>7. UsesOwn'
  BY <1>1, <1>3 DEF HeldInv, UsesOwn
<1>8. /\ HeldIsListed' /\ \A g \in held' : g.pid \in alive'
      /\ \A i \in Turns' : Asked(i)'.pid \in alive'
  BY <1>1, <1>3 DEF HeldInv, HeldIsListed
<1>9. \A i \in Turns' : Asked(i)'.req = "EMERGENT_EXIT" => HeldBy(Asked(i).pid)' = {}
  BY <1>1, <1>3 DEF HeldInv, HeldBy
<1>10. /\ pc' = "unregister" => cur'.req = "UNREGISTER"
       /\ pc' = "emergent" => cur'.req = "EMERGENT_EXIT"
  BY DEF Accept
<1>11. ~updated'
  BY <1>1 DEF Accept, walkVars, HeldInv, Comparing
<1> QED
  BY <1>4, <1>5, <1>6, <1>7, <1>8, <1>9, <1>10, <1>11 DEF HeldInv

\* The server works on its request: what goes is nobody's, and who gets a handle gets one of an
\* instance.
LEMMA HeldWork ==
  ASSUME IInv, HeldInv, pc # "idle", UNCHANGED <<inbox, alive>>, Fresh',
         NEW h, KeepsBut(list', list, h),
         \A n \in DOMAIN list' : list'[n].event \in Uses[list'[n].pid],
         pc' \in {"unregister", "emergent"} => pc' = pc, updated' => pc' \in Comparing,
         pc' # "idle" => /\ cur'.pid = cur.pid /\ cur'.req = cur.req /\ cur'.event = cur.event
                         /\ cur'.state = cur.state
                         /\ cur.req = "UNREGISTER" => cur'.handle = cur.handle,
         \A g \in held : g.handle # h,
         \A i \in Turns' : Asked(i).req = "UNREGISTER" => Asked(i).handle # h,
         held \subseteq held',
         \A g \in held' \ held :
           /\ \E n \in DOMAIN list' : Own(list'[n], g.pid, g.handle) /\ list'[n].event = g.event
           /\ g.pid \in alive
           /\ \A i \in Turns' : /\ Asked(i).req = "UNREGISTER" => Asked(i).handle # g.handle
                                /\ Asked(i).req = "EMERGENT_EXIT" => Asked(i).pid # g.pid
  PROVE  HeldInv'
<1>1. /\ Turns' \subseteq Turns
      /\ \A i \in Turns' : /\ Asked(i)'.pid = Asked(i).pid /\ Asked(i)'.req = Asked(i).req
                           /\ Asked(i)'.event = Asked(i).event /\ Asked(i)'.state = Asked(i).state
                           /\ Asked(i).req = "UNREGISTER" => Asked(i)'.handle = Asked(i).handle
  <2>1. Turns' \subseteq Turns
    BY DEF Turns
  <2>2. \A i \in Turns' : i = 0 => pc' # "idle"
    BY TurnFacts DEF Turns
  <2> QED
    BY <2>1, <2>2 DEF Asked
<1>2. InOrder'
  BY <1>1 DEF HeldInv, InOrder, Unanswered
<1>3. \A n \in DOMAIN list : list[n].handle # h =>
        \E k \in DOMAIN list' : SameInstance(list'[k], list[n])
  BY DEF KeepsBut
<1>4. HeldIsListed'
  <2> SUFFICES ASSUME NEW g \in held'
               PROVE  \E n \in DOMAIN list' : Own(list'[n], g.pid, g.handle) /\ list'[n].event = g.event
    BY DEF HeldIsListed
  <2>1. CASE g \in held
    <3>1. PICK n \in DOMAIN list : Own(list[n], g.pid, g.handle) /\ list[n].event = g.event
      BY <2>1 DEF HeldInv, HeldIsListed
    <3> QED
      BY <1>3, <2>1, <3>1 DEF Own, SameInstance
  <2> QED
    BY <2>1
<1>5. GivenBack'
  <2> SUFFICES ASSUME NEW i \in Turns', Asked(i).req = "UNREGISTER"
               PROVE  /\ \E n \in DOMAIN list' : Own(list'[n], Asked(i).pid, Asked(i).handle)
                      /\ \A g \in held' : g.handle # Asked(i).handle
                      /\ \A j \in Turns' \ {i} :
                           Asked(j).req = "UNREGISTER" => Asked(j).handle # Asked(i).handle
    BY <1>1 DEF GivenBack
  <2>1. PICK n \in DOMAIN list : Own(list[n], Asked(i).pid, Asked(i).handle)
    BY <1>1 DEF HeldInv, GivenBack
  <2>2. \E k \in DOMAIN list' : Own(list'[k], Asked(i).pid, Asked(i).handle)
    BY <1>3, <2>1 DEF Own, SameInstance
  <2> QED
    BY <1>1, <2>2 DEF HeldInv, GivenBack
<1>6. UsesOwn'
  BY <1>1 DEF HeldInv, UsesOwn
<1>7. (\A g \in held' : g.pid \in alive') /\ \A i \in Turns' : Asked(i)'.pid \in alive'
  BY <1>1 DEF HeldInv
<1>8. \A i \in Turns' : Asked(i)'.req = "EMERGENT_EXIT" => HeldBy(Asked(i).pid)' = {}
  <2> SUFFICES ASSUME NEW i \in Turns', Asked(i).req = "EMERGENT_EXIT", NEW g \in held',
                      g.pid = Asked(i).pid
               PROVE  FALSE
    BY <1>1 DEF HeldBy
  <2> QED
    BY <1>1 DEF HeldInv, HeldBy
<1>9. /\ pc' = "unregister" => cur'.req = "UNREGISTER"
      /\ pc' = "emergent" => cur'.req = "EMERGENT_EXIT"
  BY DEF HeldInv
<1> QED
  BY <1>2, <1>4, <1>5, <1>6, <1>7, <1>8, <1>9 DEF HeldInv

\* NoHandle is nobody's.
LEMMA NoneHasNone ==
  ASSUME IInv, HeldInv
  PROVE  /\ \A g \in held : g.handle # NoHandle
         /\ \A i \in Turns : Asked(i).req = "UNREGISTER" => Asked(i).handle # NoHandle
<1>1. \A h \in Handles : h # NoHandle
  BY DEF Handles, NoHandle
<1>2. \A n \in DOMAIN list : list[n].handle \in Handles
  <2>1. list \in Seq(Entry)
    BY TurnFacts
  <2>2. \A n \in DOMAIN list : list[n] \in Entry
    BY <2>1, ElementOfSeq, LenProperties
  <2> QED
    BY <2>2 DEF Entry
<1>3. \A g \in held : g.handle \in Handles
  BY TurnFacts
<1> QED
  BY <1>1, <1>2, <1>3 DEF HeldInv, GivenBack, Own

\* The server works on its request and nobody's handles change.
LEMMA HeldKept ==
  ASSUME IInv, HeldInv, pc # "idle", UNCHANGED <<inbox, alive, held>>, Fresh',
         KeepsBut(list', list, NoHandle),
         \A n \in DOMAIN list' : list'[n].event \in Uses[list'[n].pid],
         pc' \in {"unregister", "emergent"} => pc' = pc, updated' => pc' \in Comparing,
         pc' # "idle" => /\ cur'.pid = cur.pid /\ cur'.req = cur.req /\ cur'.event = cur.event
                         /\ cur'.state = cur.state
                         /\ cur.req = "UNREGISTER" => cur'.handle = cur.handle
  PROVE  HeldInv'
<1>1. \A i \in Turns' : i \in Turns
  BY DEF Turns
<1>2. /\ \A g \in held : g.handle # NoHandle
      /\ \A i \in Turns' : Asked(i).req = "UNREGISTER" => Asked(i).handle # NoHandle
  BY <1>1, NoneHasNone
<1> QED
  BY <1>2, HeldWork

\* What is left of the list is for events in use.
LEMMA AddsNoneUses ==
  ASSUME HeldInv, NEW k, AddsNone(k, list)
  PROVE  \A n \in DOMAIN k : k[n].event \in Uses[k[n].pid]
BY DEF HeldInv, UsesOwn, AddsNone, SameInstance

\* Between requests, and before a request is compared: an unregistration takes what its sender
\* has given back, an emergent exit what nobody holds, the dead-process check what the dead left.
LEMMA HeldOutside ==
  ASSUME IInv, HeldInv,
         \/ DoUnregister \/ EmergentExit \/ EmergentDone \/ ReapOne \/ ReapDone
         \/ RegisterFull \/ SetStateDirectly \/ AnswerMyState
  PROVE  HeldInv'
<1>1. /\ pc \in {"unregister", "emergent", "reap", "dispatch"}
      /\ pc' \in {"idle", "emergent", "reap", "dispatch"}
      /\ UNCHANGED <<inbox, alive, held>>
      /\ pc' = "emergent" => pc' = pc
      /\ pc' # "idle" => cur' = cur
      /\ updated' = FALSE \/ updated' = updated
  <2>1. EmergentExit => /\ pc = "emergent"
                        /\ UNCHANGED <<session, pc, cur, walkVars, clientVars>>
    BY DEF EmergentExit
  <2> QED
    BY <2>1 DEF DoUnregister, EmergentDone, ReapOne, ReapDone, RegisterFull,
         SetStateDirectly, AnswerMyState, Idle, walkVars, clientVars
<1>2. /\ pc # "idle" /\ pc' \notin Comparing /\ (updated' => pc' \in Comparing) /\ Fresh'
      /\ pc' \in {"unregister", "emergent"} => pc' = pc
  BY <1>1 DEF HeldInv, Comparing, Fresh
<1>3. list \in Seq(Entry) /\ Unique(list) /\ 0 \in Turns /\ Asked(0) = cur /\ Turns \subseteq Nat
  BY <1>2, TurnFacts
<1>4. SameHandles(list, list)
  BY <1>3 DEF SameHandles
<1>5. ASSUME NEW h, KeepsBut(list', list, h), AddsNone(list', list),
             \A g \in held : g.handle # h,
             \A i \in Turns' : Asked(i).req = "UNREGISTER" => Asked(i).handle # h
      PROVE  HeldInv'
  <2>1. \A n \in DOMAIN list' : list'[n].event \in Uses[list'[n].pid]
    BY <1>5, AddsNoneUses
  <2> QED
    BY <1>1, <1>2, <1>5, <2>1, HeldWork
<1>6. ASSUME SameHandles(list', list) PROVE HeldInv'
  <2>1. KeepsBut(list', list, NoHandle) /\ AddsNone(list', list)
    BY <1>6, SameHandlesKeeps
  <2>2. \A i \in Turns' : i \in Turns
    BY <1>1 DEF Turns
  <2> QED
    BY <1>5, <2>1, <2>2, NoneHasNone
<1>7. CASE DoUnregister
  <2>1. PICK rest \in Unregister(list, cur.handle) :
          list' = IF IsNeedResume(cur.event) THEN ResumeAll(rest) ELSE rest
    BY <1>7 DEF DoUnregister
  <2>2. rest \in Seq(Entry) /\ KeepsBut(rest, list, cur.handle) /\ AddsNone(rest, list)
    BY <1>3, UnregisterKeeps, UnregisterRemains DEF Remains
  <2>3. SameHandles(ResumeAll(rest), rest)
    BY <2>2, ResetsKeep
  <2>4. KeepsBut(list', list, cur.handle) /\ AddsNone(list', list)
    BY <2>1, <2>2, <2>3 DEF KeepsBut, AddsNone, SameHandles, SameInstance
  <2>5. cur.req = "UNREGISTER" /\ pc' = "idle"
    BY <1>7 DEF DoUnregister, Idle, HeldInv
  <2>6. \A g \in held : g.handle # cur.handle
    BY <1>3, <2>5 DEF HeldInv, GivenBack
  <2>7. \A i \in Turns' : i \in Turns \ {0}
    BY <1>1, <2>5, TurnFacts DEF Turns
  <2>8. \A i \in Turns' : Asked(i).req = "UNREGISTER" => Asked(i).handle # cur.handle
    BY <1>3, <2>5, <2>7 DEF HeldInv, GivenBack
  <2> QED
    BY <1>5, <2>4, <2>6, <2>8
<1>8. CASE EmergentExit
  <2>1. PICK i \in DOMAIN list : list[i].pid = cur.pid /\ list' \in Unregister(list, list[i].handle)
    BY <1>8 DEF EmergentExit, FirstIn
  <2>2. KeepsBut(list', list, list[i].handle) /\ AddsNone(list', list)
    BY <1>3, <2>1, UnregisterKeeps
  <2>3. cur.req = "EMERGENT_EXIT"
    BY <1>8 DEF EmergentExit, HeldInv
  <2>4. ASSUME NEW n \in DOMAIN list, NEW p, Own(list[n], p, list[i].handle) PROVE p = cur.pid
    BY <1>3, <2>1, <2>4 DEF Own, Unique
  <2>5. \A g \in held : g.handle # list[i].handle
    <3>1. HeldBy(cur.pid) = {}
      BY <1>3, <2>3 DEF HeldInv
    <3> QED
      BY <2>4, <3>1 DEF HeldInv, HeldIsListed, HeldBy
  <2>6. ASSUME NEW j \in Turns, Asked(j).req = "UNREGISTER" PROVE Asked(j).handle # list[i].handle
    <3>1. Asked(j).pid = cur.pid => FALSE
      <4>1. j # 0
        BY <1>3, <2>3, <2>6
      <4>2. 0 < j
        BY <1>3, <4>1
      <4>3. ~Unanswered(cur)
        BY <2>3 DEF Unanswered
      <4> QED
        BY <1>3, <4>2, <4>3 DEF HeldInv, InOrder
    <3> QED
      BY <2>4, <2>6, <3>1 DEF HeldInv, GivenBack
  <2>7. \A j \in Turns' : j \in Turns
    BY <1>1 DEF Turns
  <2> QED
    BY <1>5, <2>2, <2>5, <2>6, <2>7
<1>9. CASE ReapOne
  <2>1. PICK i \in DOMAIN list : list[i].pid \notin alive /\ list' = RemoveAt(list, i)
    BY <1>9 DEF ReapOne
  <2>2. KeepsBut(list', list, list[i].handle) /\ AddsNone(list', list)
    BY <1>3, <2>1, RemoveAtKeeps
  <2>3. ASSUME NEW n \in DOMAIN list, NEW p, Own(list[n], p, list[i].handle) PROVE p \notin alive
    BY <1>3, <2>1, <2>3 DEF Own, Unique
  <2>4. \A g \in held : g.handle # list[i].handle
    BY <2>3 DEF HeldInv, HeldIsListed
  <2>5. \A j \in Turns : Asked(j).req = "UNREGISTER" => Asked(j).handle # list[i].handle
    BY <2>3 DEF HeldInv, GivenBack
  <2>6. \A j \in Turns' : j \in Turns
    BY <1>1 DEF Turns
  <2> QED
    BY <1>5, <2>2, <2>4, <2>5, <2>6
<1>10. CASE EmergentDone \/ ReapDone \/ RegisterFull \/ AnswerMyState
  BY <1>4, <1>6, <1>10 DEF EmergentDone, ReapDone, RegisterFull, AnswerMyState
<1>11. CASE SetStateDirectly
  <2>1. cur \in Request
    BY <1>2 DEF IInv, WalkInv
  <2>2. cur.state \in States /\ cur.resource \in SUBSET Resources
    BY <2>1 DEF Request
  <2> QED
    BY <1>3, <1>6, <1>11, <2>2, ChangeStateKeeps DEF SetStateDirectly
<1> QED
  BY <1>7, <1>8, <1>9, <1>10, <1>11

\* A handle chosen for a registration is of no instance, so nobody has it or gives it back.
LEMMA HeldStart ==
  ASSUME IInv, HeldInv, DispatchRegister \/ DispatchPlay
  PROVE  HeldInv'
<1>1. PICK h \in Handles \cup {NoHandle} :
        /\ pc = "dispatch" /\ cur.req # "UNREGISTER"
        /\ StartCompare(h)
        /\ cur.req = "REGISTER" => h \notin HandlesIn(list)
  <2>1. CASE DispatchRegister
    <3>1. PICK h \in FreeHandles : StartCompare(h)
      BY <2>1 DEF DispatchRegister
    <3> QED
      BY <2>1, <3>1 DEF DispatchRegister, FreeHandles
  <2>2. CASE DispatchPlay
    <3>1. cur.handle \in Handles \cup {NoHandle}
      BY <2>2 DEF DispatchPlay, IInv, WalkInv, Request
    <3> QED
      BY <2>2, <3>1 DEF DispatchPlay
  <2> QED
    BY <2>1, <2>2
<1>2. /\ list \in Seq(Entry) /\ reply.cmd = "UNSET" /\ cur \in Request
      /\ \A i \in DOMAIN inbox : i \in Turns /\ Asked(i) = inbox[i]
  BY <1>1, TurnFacts DEF IInv, WalkInv, Comparing
<1>3. /\ UNCHANGED <<list, inbox, alive, held>> /\ pc' \in Comparing
      /\ pc' \notin {"unregister", "emergent"}
  BY <1>1 DEF StartCompare, clientVars, Comparing
<1>4. /\ cur'.pid = cur.pid /\ cur'.req = cur.req /\ cur'.event = cur.event
      /\ cur'.state = cur.state /\ cur'.handle = h
  BY <1>1, <1>2 DEF StartCompare, Request
<1>5. ~updated'
  <2>1. ~updated
    BY <1>1 DEF HeldInv, Comparing
  <2>2. updated' = updated
    BY <1>1 DEF StartCompare
  <2> QED
    BY <2>1, <2>2
<1>6. quiet' \/ reply'.cmd = "UNSET"
  <2>1. CASE statusPlaying = {}
    <3>1. quiet' = TRUE
      BY <1>1, <2>1, Zenon DEF StartCompare
    <3> QED
      BY <3>1
  <2>2. CASE statusPlaying # {}
    BY <1>1, <1>2, <2>2 DEF StartCompare
  <2> QED
    BY <2>1, <2>2
<1>7. Fresh'
  <2>1. ASSUME cur.req = "REGISTER"
        PROVE  /\ \A g \in held : g.handle # h
               /\ \A i \in DOMAIN inbox : inbox[i].req = "UNREGISTER" => inbox[i].handle # h
    <3>1. \A n \in DOMAIN list : \A p : ~Own(list[n], p, h)
      BY <1>1, <2>1 DEF HandlesIn, Own
    <3> QED
      BY <1>2, <3>1 DEF HeldInv, HeldIsListed, GivenBack
  <2> QED
    BY <1>3, <1>4, <1>5, <1>6, <2>1 DEF Fresh
<1>8. KeepsBut(list', list, NoHandle) /\ AddsNone(list', list)
  <2>1. SameHandles(list', list)
    BY <1>2, <1>3 DEF SameHandles
  <2> QED
    BY <2>1, SameHandlesKeeps
<1>9. \A n \in DOMAIN list' : list'[n].event \in Uses[list'[n].pid]
  BY <1>8, AddsNoneUses
<1> QED
  BY <1>1, <1>3, <1>4, <1>5, <1>7, <1>8, <1>9, HeldKept

\* A step of the comparison that changes instances in place, if at all, and promises nothing.
LEMMA HeldInPlace ==
  ASSUME IInv, HeldInv, pc \in Comparing, pc' \in Comparing, SameHandles(list', list),
         UNCHANGED <<cur, updated, quiet, clientVars>>,
         reply' = reply \/ reply'.cmd = "STOP" \/ cur.req # "REGISTER"
  PROVE  HeldInv'
<1>1. /\ UNCHANGED <<inbox, alive, held>> /\ pc # "idle"
      /\ pc' \notin {"unregister", "emergent"}
  BY DEF clientVars, Comparing
<1>2. KeepsBut(list', list, NoHandle) /\ AddsNone(list', list)
  BY SameHandlesKeeps
<1>3. \A n \in DOMAIN list' : list'[n].event \in Uses[list'[n].pid]
  BY <1>2, AddsNoneUses
<1>4. Fresh'
  <2> SUFFICES ASSUME cur.req = "REGISTER"
               PROVE  /\ \A g \in held : g.handle # cur.handle
                      /\ \A i \in DOMAIN inbox : inbox[i].req = "UNREGISTER"
                                                   => inbox[i].handle # cur.handle
                      /\ updated => \E n \in DOMAIN list' :
                           Own(list'[n], cur.pid, cur.handle) /\ list'[n].event = cur.event
                      /\ reply'.cmd \in {"NONE", "PLAY"} => quiet \/ updated
    BY <1>1 DEF Fresh
  <2>1. /\ \A g \in held : g.handle # cur.handle
        /\ \A i \in DOMAIN inbox : inbox[i].req = "UNREGISTER" => inbox[i].handle # cur.handle
        /\ updated => \E n \in DOMAIN list :
                         Own(list[n], cur.pid, cur.handle) /\ list[n].event = cur.event
        /\ reply.cmd \in {"NONE", "PLAY"} => quiet \/ updated
    BY DEF HeldInv, Fresh
  <2>2. \A n \in DOMAIN list : /\ n \in DOMAIN list'
                               /\ list'[n].event = list[n].event
                               /\ Own(list[n], cur.pid, cur.handle)
                                    => Own(list'[n], cur.pid, cur.handle)
    BY DEF SameHandles, Own
  <2>3. reply'.cmd \in {"NONE", "PLAY"} => reply' = reply
    OBVIOUS
  <2> QED
    BY <2>1, <2>2, <2>3
<1> QED
  BY <1>1, <1>2, <1>3, <1>4, HeldKept

\* When the request has taken effect, a registration is listed.
LEMMA CommitLists ==
  ASSUME IInv, HeldInv, pc \in Comparing, NEW k, SameHandles(k, list)
  PROVE  /\ KeepsBut(Commit(k), list, NoHandle)
         /\ \A n \in DOMAIN Commit(k) : Commit(k)[n].event \in Uses[Commit(k)[n].pid]
         /\ cur.req = "REGISTER" =>
              \E n \in DOMAIN Commit(k) :
                Own(Commit(k)[n], cur.pid, cur.handle) /\ Commit(k)[n].event = cur.event
<1>1. /\ k \in Seq(Entry) /\ cur \in Request /\ KeepsBut(k, list, NoHandle) /\ AddsNone(k, list)
      /\ pc # "idle" /\ 0 \in Turns /\ Asked(0) = cur
      /\ cur.req = "REGISTER" => cur.handle \in Handles
  BY ComparingFacts, SameHandlesKeeps, TurnFacts DEF SameHandles, Comparing
<1>2. \A n \in DOMAIN k : k[n].event \in Uses[k[n].pid]
  BY <1>1, AddsNoneUses
<1>3. CASE updated
  <2>1. Commit(k) = k
    BY <1>3 DEF Commit
  <2>2. cur.req = "REGISTER" =>
          \E n \in DOMAIN list : Own(list[n], cur.pid, cur.handle) /\ list[n].event = cur.event
    BY <1>3 DEF HeldInv, Fresh
  <2>3. cur.req = "REGISTER" =>
          \E n \in DOMAIN k : Own(k[n], cur.pid, cur.handle) /\ k[n].event = cur.event
    BY <2>2 DEF SameHandles, Own
  <2> QED
    BY <1>1, <1>2, <2>1, <2>3
<1>4. CASE ~updated /\ cur.req = "REGISTER"
  <2>1. PICK r : r = Register(k, cur)
    OBVIOUS
  <2>2. Commit(k) = r
    BY <1>4, <2>1 DEF Commit
  <2>3. /\ 1 \in DOMAIN r
        /\ r[1].handle = cur.handle /\ r[1].pid = cur.pid /\ r[1].event = cur.event
    BY <1>1, <1>4, <2>1, RegisterPlaces
  <2>4. \A i \in DOMAIN k : \E n \in DOMAIN r : r[n] = k[i]
    BY <1>1, <1>4, <2>1, RegisterAdds
  <2>5. KeepsBut(r, list, NoHandle)
    BY <1>1, <2>4 DEF KeepsBut, SameInstance
  <2>6. \A n \in DOMAIN r : n = 1 \/ (n - 1 \in DOMAIN k /\ r[n] = k[n - 1])
    BY <1>1, <1>4, <2>1, RegisterPlaces
  <2>7. cur.event \in Uses[cur.pid]
    BY <1>1, <1>4 DEF HeldInv, UsesOwn
  <2>8. \A n \in DOMAIN r : r[n].event \in Uses[r[n].pid]
    BY <1>2, <2>3, <2>6, <2>7
  <2>9. Own(r[1], cur.pid, cur.handle)
    BY <2>3 DEF Own
  <2> QED
    BY <2>2, <2>3, <2>5, <2>8, <2>9
<1>5. CASE ~updated /\ cur.req # "REGISTER"
  <2>1. Commit(k) = ChangeState(k, cur.pid, cur.handle, cur.state, cur.resource)
    BY <1>5 DEF Commit
  <2>2. cur.state \in States /\ cur.resource \in SUBSET Resources
    BY <1>1 DEF Request
  <2>3. SameHandles(Commit(k), k)
    BY <1>1, <2>1, <2>2, ChangeStateKeeps
  <2>4. SameHandles(Commit(k), list)
    BY <2>3 DEF SameHandles
  <2>5. KeepsBut(Commit(k), list, NoHandle) /\ AddsNone(Commit(k), list)
    BY <2>4, SameHandlesKeeps
  <2> QED
    BY <1>5, <2>5, AddsNoneUses
<1> QED
  BY <1>3, <1>4, <1>5

LEMMA HeldCommit ==
  ASSUME IInv, HeldInv, pc \in Comparing, NEW k, SameHandles(k, list),
         NEW cmd, CommitAndStep(k, cmd), pc' = "walk", UNCHANGED <<cur, quiet, clientVars>>
  PROVE  HeldInv'
<1>1. list' = Commit(k) /\ pc' \in Comparing /\ UNCHANGED <<inbox, alive, held>>
      /\ pc # "idle" /\ pc' \notin {"unregister", "emergent"}
  BY DEF CommitAndStep, clientVars, Comparing
<1>2. /\ KeepsBut(list', list, NoHandle)
      /\ \A n \in DOMAIN list' : list'[n].event \in Uses[list'[n].pid]
      /\ cur.req = "REGISTER" =>
           \E n \in DOMAIN list' : Own(list'[n], cur.pid, cur.handle) /\ list'[n].event = cur.event
  BY <1>1, CommitLists
<1>3. updated'
  <2>1. updated' = TRUE
    BY Zenon DEF CommitAndStep
  <2> QED
    BY <2>1
<1>4. Fresh'
  <2>1. cur.req = "REGISTER" =>
          /\ \A g \in held : g.handle # cur.handle
          /\ \A i \in DOMAIN inbox : inbox[i].req = "UNREGISTER" => inbox[i].handle # cur.handle
    BY DEF HeldInv, Fresh
  <2> QED
    BY <1>1, <1>2, <1>3, <2>1 DEF Fresh
<1> QED
  BY <1>1, <1>2, <1>4, HeldKept

\* The walk never leaves a registration without an entry: the matrix has a case for every two
\* events in use.
LEMMA HeldVisit ==
  ASSUME IInv, HeldInv, Settled,
         WalkSkip \/ WalkPass \/ WalkRefuse \/ WalkCaseNone \/ WalkInterrupt
  PROVE  HeldInv'
<1>1. /\ pc = "walk" /\ pc \in Comparing /\ pass = "playing" /\ cursor <= Len(list)
      /\ cursor \in Nat \ {0}
  BY DEF WalkSkip, WalkPass, WalkRefuse, WalkCaseNone, WalkInterrupt, Walking, IInv, WalkInv,
         TypeOK, Comparing
<1>2. /\ list \in Seq(Entry) /\ cur \in Request /\ cursor \in DOMAIN list
      /\ list[cursor] \in Entry
  BY <1>1, ComparingFacts
<1>3. SameHandles(list, list)
  BY <1>2 DEF SameHandles
<1>4. CASE WalkSkip
  BY <1>1, <1>3, <1>4, HeldInPlace DEF WalkSkip
<1>5. CASE WalkPass
  BY <1>1, <1>3, <1>5, HeldCommit DEF WalkPass
<1>6. CASE WalkRefuse
  <2>1. reply'.cmd = "STOP"
    BY <1>6 DEF WalkRefuse
  <2> QED
    BY <1>1, <1>3, <1>6, <2>1, HeldInPlace DEF WalkRefuse
<1>7. CASE WalkCaseNone
  <2>1. ASSUME cur.req = "REGISTER" PROVE FALSE
    <3>1. CaseOf(list[cursor]) = CaseNone
      BY <1>7 DEF WalkCaseNone, Visited
    <3>2. ~IsGcf /\ SoundCase(list[cursor].event, cur.event) = CaseNone
      BY <1>1, <3>1 DEF CaseOf, Mix, CaseNone
    <3>3. 0 \in Turns /\ Asked(0) = cur
      BY <1>1, TurnFacts
    <3>4. /\ list[cursor].event \in Uses[list[cursor].pid] /\ cur.event \in Uses[cur.pid]
          /\ list[cursor].pid \in Pids /\ cur.pid \in Pids
      BY <1>2, <2>1, <3>3 DEF HeldInv, UsesOwn, Entry, Request
    <3> QED
      BY <3>2, <3>4 DEF Settled
  <2> QED
    BY <1>1, <1>3, <1>7, <2>1, HeldInPlace DEF WalkCaseNone
<1>8. CASE WalkInterrupt
  <2>1. pc' \in Comparing
    BY <1>8 DEF WalkInterrupt, CallBackPc, Comparing
  <2> QED
    BY <1>1, <1>3, <1>8, <2>1, HeldInPlace DEF WalkInterrupt, walkVars
<1> QED
  BY <1>4, <1>5, <1>6, <1>7, <1>8

\* Whatever the callbacks answer.
LEMMA HeldReturned == ASSUME IInv, HeldInv, NEW res, Returned(res) PROVE HeldInv'
<1>1. /\ pc = "worker" /\ pc \in Comparing /\ cursor \in Nat \ {0}
      /\ cursor <= Len(list)
  BY DEF Returned, WorkerReturned, PausedReturned, IInv, WalkInv, TypeOK, Comparing, Returning
<1>2. list \in Seq(Entry) /\ Visited \in Entry
  BY <1>1, ComparingFacts DEF Visited
<1>3. CASE WorkerReturned(res)
  <2>1. PICK k \in {AfterStop(Visited, res), AfterPause(Visited, res), AfterMix(Visited, res)} :
          CommitAndStep(Resumable(k, Visited), "PLAY")
    BY <1>3 DEF WorkerReturned
  <2>2. SameHandles(k, list)
    BY <1>2, <2>1, AnswerKeeps
  <2>3. SameHandles(Resumable(k, Visited), list)
    <3>1. SameHandles(NeedResume(k, Visited.pid, Visited.handle), k)
      BY <2>2, NeedResumeKeeps DEF SameHandles
    <3> QED
      BY <2>2, <3>1 DEF Resumable, SameHandles
  <2> QED
    BY <1>1, <1>3, <2>1, <2>3, HeldCommit DEF WorkerReturned
<1>4. CASE PausedReturned(res)
  <2>1. SameHandles(list', list)
    <3>1. "NONE" \in States /\ {} \in SUBSET Resources
      BY DEF States
    <3> QED
      BY <1>2, <1>4, <3>1, ChangeStateKeeps DEF PausedReturned
  <2>2. pc' \in Comparing
    BY <1>4 DEF PausedReturned, Comparing
  <2> QED
    BY <1>1, <1>4, <2>1, <2>2, HeldInPlace DEF PausedReturned
<1> QED
  BY <1>3, <1>4 DEF Returned

\* From the end of the first walk to the end of the second.
LEMMA HeldPaused ==
  ASSUME IInv, HeldInv,
         \/ MonitorReturned
         \/ WalkEnd \/ StartPausedPass \/ PausedOwn \/ PausedSkip \/ PausedInterrupt \/ PausedEnd
  PROVE  HeldInv'
<1>1. pc \in Comparing
  BY DEF MonitorReturned, WalkEnd, StartPausedPass, PausedOwn, PausedSkip, PausedInterrupt,
         PausedEnd, Walking, Comparing
<1>2. list \in Seq(Entry) /\ cur \in Request
  BY <1>1, ComparingFacts
<1>3. SameHandles(list, list)
  BY <1>2 DEF SameHandles
<1>4. CASE MonitorReturned
  <2>1. SameHandles(list', list)
    BY <1>4, MonitorUntouched DEF Untouched
  <2>2. pc' \in Comparing
    BY <1>4 DEF MonitorReturned, Comparing
  <2> QED
    BY <1>1, <1>4, <2>1, <2>2, HeldInPlace DEF MonitorReturned, walkVars
<1>5. CASE WalkEnd
  <2>1. SameHandles(list', list)
    BY <1>2, <1>5, ResetsKeep DEF WalkEnd
  <2>2. pc' \in Comparing
    BY <1>5 DEF WalkEnd, Comparing
  <2> QED
    BY <1>1, <1>5, <2>1, <2>2, HeldInPlace DEF WalkEnd, walkVars
<1>6. CASE StartPausedPass
  <2>1. pc' \in Comparing
    BY <1>6 DEF StartPausedPass, Comparing
  <2> QED
    BY <1>1, <1>3, <1>6, <2>1, HeldInPlace DEF StartPausedPass
<1>7. CASE PausedOwn
  <2>1. SameHandles(list', list)
    BY <1>2, <1>3, <1>7, ChangeStateKeeps DEF PausedOwn, Request
  <2>2. pc' \in Comparing
    BY <1>7 DEF PausedOwn, Walking, Comparing
  <2> QED
    BY <1>1, <1>7, <2>1, <2>2, HeldInPlace DEF PausedOwn
<1>8. CASE PausedSkip
  <2>1. pc' \in Comparing
    BY <1>8 DEF PausedSkip, Walking, Comparing
  <2> QED
    BY <1>1, <1>3, <1>8, <2>1, HeldInPlace DEF PausedSkip
<1>9. CASE PausedInterrupt
  <2>1. pc' \in Comparing
    BY <1>9 DEF PausedInterrupt, CallBackPc, Comparing
  <2> QED
    BY <1>1, <1>3, <1>9, <2>1, HeldInPlace DEF PausedInterrupt, walkVars
<1>10. CASE PausedEnd
  <2>1. pc' \in Comparing
    BY <1>10 DEF PausedEnd, Comparing
  <2> QED
    BY <1>1, <1>3, <1>10, <2>1, HeldInPlace DEF PausedEnd, walkVars
<1> QED
  BY <1>4, <1>5, <1>6, <1>7, <1>8, <1>9, <1>10

\* The answer: a registration that was not refused has its entry, now or since the walk, and
\* nobody has asked to give the new handle back, or announced the end of its owner.
LEMMA HeldFinish == ASSUME IInv, HeldInv, Finish PROVE HeldInv'
<1>1. /\ pc = "finish" /\ pc # "idle" /\ pc \in Comparing /\ pc' = "idle"
      /\ UNCHANGED <<inbox, alive>> /\ held' = Learn
      /\ reply.cmd \in {"NONE", "PLAY", "STOP"} /\ reply.alloc = cur.handle
  BY DEF Finish, Idle, Comparing, IInv, TypeOK, Reply, Commands, ComparisonAnswers, WalkInv
<1>2. updated' = FALSE
  BY Zenon DEF Finish, Idle
<1>3. Fresh' /\ (updated' => pc' \in Comparing)
  BY <1>1, <1>2 DEF Fresh, Comparing
<1>4. /\ SameHandles(list, list) /\ 0 \in Turns /\ Asked(0) = cur /\ Turns \subseteq Nat
      /\ \A i \in DOMAIN inbox : i \in Turns /\ Asked(i) = inbox[i]
  BY <1>1, TurnFacts DEF SameHandles
<1>5. \A i \in Turns' : i \in DOMAIN inbox /\ i \in Turns /\ 0 < i
  BY <1>1, TurnFacts DEF Turns
<1>6. /\ KeepsBut(list', list, NoHandle)
      /\ \A n \in DOMAIN list' : list'[n].event \in Uses[list'[n].pid]
      /\ cur.req = "REGISTER" /\ (quiet \/ updated) =>
           \E n \in DOMAIN list' : Own(list'[n], cur.pid, cur.handle) /\ list'[n].event = cur.event
  <2>1. CASE quiet
    <3>1. list' = Commit(list)
      BY <2>1 DEF Finish
    <3> QED
      BY <1>1, <1>4, <3>1, CommitLists
  <2>2. CASE ~quiet
    <3>1. list' = list
      BY <2>2 DEF Finish
    <3>2. KeepsBut(list', list, NoHandle) /\ AddsNone(list', list)
      BY <1>4, <3>1, SameHandlesKeeps
    <3> QED
      BY <1>1, <2>2, <3>1, <3>2, AddsNoneUses DEF HeldInv, Fresh
  <2> QED
    BY <2>1, <2>2
<1>7. held \subseteq held'
  BY <1>1 DEF Learn
<1>8. ASSUME NEW g \in held' \ held
      PROVE  /\ \E n \in DOMAIN list' : Own(list'[n], g.pid, g.handle) /\ list'[n].event = g.event
             /\ g.pid \in alive
             /\ \A i \in Turns' : /\ Asked(i).req = "UNREGISTER" => Asked(i).handle # g.handle
                                  /\ Asked(i).req = "EMERGENT_EXIT" => Asked(i).pid # g.pid
  <2>1. /\ cur.req = "REGISTER" /\ reply.cmd # "STOP" /\ cur.pid \in alive
        /\ g = [pid |-> cur.pid, handle |-> reply.alloc, event |-> cur.event]
    BY <1>1, <1>8 DEF Learn
  <2>2. g.pid = cur.pid /\ g.handle = cur.handle /\ g.event = cur.event
    BY <1>1, <2>1
  <2>3. quiet \/ updated
    BY <1>1, <2>1 DEF HeldInv, Fresh
  <2>4. \A i \in Turns' : Asked(i).req = "UNREGISTER" => Asked(i).handle # cur.handle
    BY <1>1, <1>4, <1>5, <2>1 DEF HeldInv, Fresh
  <2>5. \A i \in Turns' : Asked(i).pid # cur.pid
    <3>1. ~Unanswered(cur)
      BY <2>1 DEF Unanswered
    <3> QED
      BY <1>4, <1>5, <3>1 DEF HeldInv, InOrder
  <2> QED
    BY <1>6, <2>1, <2>2, <2>3, <2>4, <2>5
<1>9. /\ \A g \in held : g.handle # NoHandle
      /\ \A i \in Turns' : Asked(i).req = "UNREGISTER" => Asked(i).handle # NoHandle
  BY <1>5, NoneHasNone
<1> QED
  BY <1>1, <1>3, <1>6, <1>7, <1>8, <1>9, HeldWork

LEMMA StepHeld == ASSUME Settled, IInv, HeldInv, [Next]_vars PROVE HeldInv'
<1>1. ~DieBusy
  BY DEF Settled
<1>2. CASE Clients \/ \E p \in Pids : Die(p)
  BY <1>1, <1>2, HeldClients DEF Clients
<1>3. CASE CallbackAnswered \/ CallbackFailed \/ CallbackTimedOut
  BY <1>3, HeldReturned DEF CallbackAnswered, CallbackFailed, CallbackTimedOut
<1>4. CASE Server
  <2>1. CASE \/ DoUnregister \/ EmergentExit \/ EmergentDone \/ ReapOne \/ ReapDone
             \/ RegisterFull \/ SetStateDirectly \/ AnswerMyState
    BY <2>1, HeldOutside
  <2>2. CASE WalkSkip \/ WalkPass \/ WalkRefuse \/ WalkCaseNone \/ WalkInterrupt
    BY <2>2, HeldVisit
  <2>3. CASE \/ MonitorReturned
             \/ WalkEnd \/ StartPausedPass \/ PausedOwn \/ PausedSkip \/ PausedInterrupt \/ PausedEnd
    BY <2>3, HeldPaused
  <2> QED
    BY <1>3, <1>4, <2>1, <2>2, <2>3, HeldAccept, HeldStart, HeldFinish DEF Server
<1>5. CASE UNCHANGED vars
  <2>1. UNCHANGED <<list, pc, cur, updated, quiet, reply, inbox, held, alive>>
    BY <1>5 DEF vars, walkVars, clientVars
  <2>2. Turns' = Turns /\ \A i : Asked(i)' = Asked(i)
    BY <2>1 DEF Turns, Asked
  <2> QED
    BY <2>1, <2>2 DEF HeldInv, HeldIsListed, InOrder, GivenBack, Fresh, UsesOwn, HeldBy
<1> QED
  BY <1>2, <1>3, <1>4, <1>5 DEF Next

LEMMA InitHeld == ASSUME Init PROVE HeldInv
<1>1. held = {} /\ Turns = {} /\ DOMAIN list = {} /\ pc = "idle" /\ ~updated
  BY DEF Init, Turns
<1> QED
  BY <1>1 DEF HeldInv, HeldIsListed, InOrder, GivenBack, Fresh, UsesOwn, Comparing

\* A live client's handle stands for an instance of its own, of the event it registered, whatever
\* else goes from the list meanwhile: unregistrations look a handle up without asking whose it is,
\* and a registration enters the list several callbacks after its handle was chosen.
THEOREM HeldStaysListed == ASSUME Settled PROVE Spec => []HeldIsListed
<1>1. IInv /\ HeldInv /\ [Next]_vars => HeldInv'
  BY StepHeld
<1>2. HeldInv => HeldIsListed
  BY DEF HeldInv
<1> QED
  BY <1>1, <1>2, InitHeld, Inductive, PTL DEF Spec
=============================================================================
