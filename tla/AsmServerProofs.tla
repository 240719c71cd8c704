--------------------------- MODULE AsmServerProofs ---------------------------
(***************************************************************************)
(* Proofs about AsmServer, for every set of processes, every number of     *)
(* handles and every queue: the types, that no two instances share a       *)
(* handle, that the cached status words agree with the list, and that no   *)
(* answer is sent before the comparison has filled it in.  The inductive   *)
(* invariant is AsmServer's IInv.                                          *)
(***************************************************************************)
EXTENDS AsmServer, SequenceTheorems, TLAPS

-----------------------------------------------------------------------------
(* The list.                                                               *)

Unique(l) == \A i, j \in DOMAIN l : l[i].handle = l[j].handle => i = j

\* The events of the instances.
Named(l) == {l[i].event : i \in DOMAIN l}

\* k is l after some fields other than the handles, their owners and their events have changed.
SameHandles(k, l) ==
  /\ k \in Seq(Entry)
  /\ DOMAIN k = DOMAIN l
  /\ Len(k) = Len(l)
  /\ \A i \in DOMAIN l : k[i].handle = l[i].handle /\ k[i].pid = l[i].pid /\ k[i].event = l[i].event

\* k is what is left of l.
Remains(k, l) ==
  /\ k \in Seq(Entry)
  /\ HandlesIn(k) \subseteq HandlesIn(l)
  /\ Named(k) \subseteq Named(l)
  /\ Unique(l) => Unique(k)

\* A function on the positions of a list whose values are entries is a list of the same length.
LEMMA SameLength ==
  ASSUME NEW l \in Seq(Entry), NEW k \in [DOMAIN l -> Entry]
  PROVE  k \in Seq(Entry) /\ Len(k) = Len(l) /\ DOMAIN k = DOMAIN l
<1>1. DOMAIN l = 1..Len(l) /\ Len(l) \in Nat
  BY LenProperties
<1>2. k \in [1..Len(l) -> Entry]
  BY <1>1
<1> QED
  BY <1>1, <1>2, SeqDef

\* A list with the same handles at the same places keeps them distinct.
LEMMA SameHandlesRemains ==
  ASSUME NEW l \in Seq(Entry), NEW k, SameHandles(k, l)
  PROVE  Remains(k, l) /\ HandlesIn(k) = HandlesIn(l) /\ OwnedIn(k) = OwnedIn(l)
<1>1. HandlesIn(k) = HandlesIn(l)
  BY DEF SameHandles, HandlesIn
<1>2. OwnedIn(k) = OwnedIn(l)
  BY DEF SameHandles, OwnedIn
<1>3. Named(k) \subseteq Named(l)
  BY DEF SameHandles, Named
<1> QED
  BY <1>1, <1>2, <1>3 DEF SameHandles, Remains, Unique

\* A state change moves no instance.
LEMMA ChangeStateKeeps ==
  ASSUME NEW l \in Seq(Entry), NEW p, NEW h, NEW st \in States, NEW res \in SUBSET Resources
  PROVE  SameHandles(ChangeState(l, p, h, st, res), l)
<1> DEFINE k == ChangeState(l, p, h, st, res)
<1>1. \A i \in DOMAIN l : l[i] \in Entry
  BY ElementOfSeq, LenProperties
<1>2. /\ k \in [DOMAIN l -> Entry]
      /\ \A i \in DOMAIN l : k[i].handle = l[i].handle /\ k[i].pid = l[i].pid /\ k[i].event = l[i].event
  BY <1>1 DEF ChangeState, Entry
<1> QED
  BY <1>2, SameLength DEF SameHandles

\* ... nor does the resume flag, which is no part of the status words either.
LEMMA NeedResumeKeeps ==
  ASSUME NEW l \in Seq(Entry), NEW p, NEW h
  PROVE  /\ SameHandles(NeedResume(l, p, h), l)
         /\ \A st : EventsIn(NeedResume(l, p, h), st) = EventsIn(l, st)
<1> DEFINE k == NeedResume(l, p, h)
<1>1. \A i \in DOMAIN l : l[i] \in Entry
  BY ElementOfSeq, LenProperties
<1>2. /\ k \in [DOMAIN l -> Entry]
      /\ \A i \in DOMAIN l : /\ k[i].handle = l[i].handle
                             /\ k[i].pid = l[i].pid
                             /\ k[i].state = l[i].state
                             /\ k[i].event = l[i].event
  BY <1>1 DEF NeedResume, Entry
<1>3. k \in Seq(Entry) /\ Len(k) = Len(l) /\ DOMAIN k = DOMAIN l
  BY <1>2, SameLength
<1> QED
  BY <1>2, <1>3 DEF SameHandles, EventsIn

\* Nor do the resets of the resume flags and of the dirty flags.
LEMMA ResetsKeep ==
  ASSUME NEW l \in Seq(Entry),
         NEW k \in {ResumeAll(l), SetAllMonitorClean(l)}
  PROVE  SameHandles(k, l) /\ \A st : EventsIn(k, st) = EventsIn(l, st)
<1>1. \A i \in DOMAIN l : l[i] \in Entry
  BY ElementOfSeq, LenProperties
<1>2. /\ k \in [DOMAIN l -> Entry]
      /\ \A i \in DOMAIN l : /\ k[i].handle = l[i].handle
                             /\ k[i].pid = l[i].pid
                             /\ k[i].state = l[i].state
                             /\ k[i].event = l[i].event
  <2>1. CASE k = ResumeAll(l)
    BY <1>1, <2>1 DEF ResumeAll, Entry
  <2>2. CASE k = SetAllMonitorClean(l)
    BY <1>1, <2>2 DEF SetAllMonitorClean, Entry
  <2> QED
    BY <2>1, <2>2
<1>3. k \in Seq(Entry) /\ Len(k) = Len(l) /\ DOMAIN k = DOMAIN l
  BY <1>2, SameLength
<1> QED
  BY <1>2, <1>3 DEF SameHandles, EventsIn

\* Removing one instance leaves the others in their order.
LEMMA RemoveAtRemains ==
  ASSUME NEW l \in Seq(Entry), NEW i \in DOMAIN l
  PROVE  /\ Remains(RemoveAt(l, i), l)
         /\ Unique(l) => OwnedIn(RemoveAt(l, i)) = OwnedIn(l) \ {<<l[i].handle, l[i].pid>>}
         /\ \A j \in DOMAIN l \ {i} : \E n \in DOMAIN RemoveAt(l, i) : RemoveAt(l, i)[n] = l[j]
         /\ \A n \in DOMAIN RemoveAt(l, i) : \E j \in DOMAIN l : RemoveAt(l, i)[n] = l[j]
<1> DEFINE a == SubSeq(l, 1, i - 1)
           b == SubSeq(l, i + 1, Len(l))
           k == RemoveAt(l, i)
           from(j) == IF j < i THEN j ELSE j + 1
<1>1. DOMAIN l = 1..Len(l) /\ Len(l) \in Nat /\ i \in 1..Len(l)
  BY LenProperties
<1>2. \A j \in 1..Len(l) : l[j] \in Entry
  BY ElementOfSeq
<1>3. /\ a \in Seq(Entry) /\ Len(a) = i - 1
      /\ \A j \in 1..(i - 1) : a[j] = l[j]
  BY <1>1, <1>2, SubSeqProperties
<1>4. /\ b \in Seq(Entry) /\ Len(b) = Len(l) - i
      /\ \A j \in 1..(Len(l) - i) : b[j] = l[j + i]
  <2>1. \A j \in (i + 1)..Len(l) : l[j] \in Entry
    BY <1>1, <1>2
  <2>2. i + 1 \in Int /\ Len(l) \in Int
    BY <1>1
  <2> HIDE DEF b
  <2>3. /\ b \in Seq(Entry)
        /\ Len(b) = IF i + 1 <= Len(l) THEN Len(l) - (i + 1) + 1 ELSE 0
        /\ \A j \in 1..(Len(l) - (i + 1) + 1) : b[j] = l[(i + 1) + j - 1]
    BY <2>1, <2>2, SubSeqProperties DEF b
  <2>4. Len(b) = Len(l) - i
    BY <1>1, <2>3
  <2>5. ASSUME NEW j \in 1..(Len(l) - i) PROVE b[j] = l[j + i]
    <3>1. j \in 1..(Len(l) - (i + 1) + 1) /\ (i + 1) + j - 1 = j + i
      BY <1>1
    <3> QED
      BY <2>3, <3>1
  <2> QED
    BY <2>3, <2>4, <2>5
<1>5. /\ k \in Seq(Entry) /\ Len(k) = Len(l) - 1 /\ DOMAIN k = 1..(Len(l) - 1)
      /\ \A j \in 1..(Len(l) - 1) : k[j] = l[from(j)]
  <2>1. k = a \o b
    BY DEF RemoveAt
  <2> HIDE DEF a, b, k
  <2>2. /\ k \in Seq(Entry) /\ Len(k) = Len(a) + Len(b)
        /\ \A j \in 1..(Len(a) + Len(b)) : k[j] = IF j <= Len(a) THEN a[j] ELSE b[j - Len(a)]
    BY <1>3, <1>4, <2>1, ConcatProperties
  <2>3. Len(k) = Len(l) - 1 /\ DOMAIN k = 1..(Len(l) - 1)
    BY <1>1, <1>3, <1>4, <2>2, LenProperties
  <2>4. ASSUME NEW j \in 1..(Len(l) - 1) PROVE k[j] = l[from(j)]
    <3>1. CASE j < i
      BY <1>1, <1>3, <1>4, <2>2, <3>1
    <3>2. CASE j >= i
      <4>1. j - (i - 1) \in 1..(Len(l) - i) /\ j - (i - 1) + i = j + 1
        BY <1>1, <3>2
      <4>2. k[j] = b[j - (i - 1)]
        BY <1>1, <1>3, <1>4, <2>2, <3>2
      <4> QED
        BY <1>1, <1>4, <3>2, <4>1, <4>2
    <3> QED
      BY <1>1, <3>1, <3>2
  <2> QED
    BY <2>2, <2>3, <2>4
<1>6. \A j \in DOMAIN k : from(j) \in DOMAIN l
  BY <1>1, <1>5
<1>7. \A j, m \in DOMAIN k : from(j) = from(m) => j = m
  BY <1>1, <1>5
<1>10. \A j \in DOMAIN k : from(j) # i
  BY <1>1, <1>5
<1>11. ASSUME NEW j \in DOMAIN l, j # i PROVE \E m \in DOMAIN k : from(m) = j
  <2>1. CASE j < i
    BY <1>1, <1>5, <2>1
  <2>2. CASE j > i
    <3>1. j - 1 \in DOMAIN k /\ from(j - 1) = j
      BY <1>1, <1>5, <2>2
    <3> QED
      BY <3>1
  <2> QED
    BY <1>1, <1>11, <2>1, <2>2
<1> HIDE DEF a, b, k, from
<1>8. HandlesIn(k) \subseteq HandlesIn(l)
  BY <1>5, <1>6 DEF HandlesIn
<1>9. Unique(l) => Unique(k)
  BY <1>5, <1>6, <1>7 DEF Unique
<1>14. Named(k) \subseteq Named(l)
  BY <1>5, <1>6 DEF Named
<1>12. ASSUME Unique(l) PROVE OwnedIn(k) = OwnedIn(l) \ {<<l[i].handle, l[i].pid>>}
  <2>1. \A j \in DOMAIN k : /\ from(j) \in DOMAIN l /\ k[j] = l[from(j)]
                            /\ l[from(j)].handle # l[i].handle
    BY <1>5, <1>6, <1>12, <1>10 DEF Unique
  <2>2. OwnedIn(k) \subseteq OwnedIn(l) \ {<<l[i].handle, l[i].pid>>}
    BY <2>1 DEF OwnedIn
  <2>3. ASSUME NEW o \in OwnedIn(l), o # <<l[i].handle, l[i].pid>> PROVE o \in OwnedIn(k)
    <3>1. PICK j \in DOMAIN l : o = <<l[j].handle, l[j].pid>>
      BY DEF OwnedIn
    <3>2. PICK m \in DOMAIN k : from(m) = j
      BY <1>11, <2>3, <3>1
    <3> QED
      BY <2>1, <3>1, <3>2 DEF OwnedIn
  <2> QED
    BY <2>2, <2>3
<1>13. ASSUME NEW j \in DOMAIN l \ {i} PROVE \E n \in DOMAIN k : k[n] = l[j]
  BY <1>5, <1>11
<1>15. \A n \in DOMAIN k : \E j \in DOMAIN l : k[n] = l[j]
  BY <1>5, <1>6
<1> QED
  BY <1>5, <1>8, <1>9, <1>12, <1>13, <1>14, <1>15 DEF Remains, k

LEMMA UnregisterRemains ==
  ASSUME NEW l \in Seq(Entry), NEW h, NEW k \in Unregister(l, h)
  PROVE  /\ Remains(k, l)
         /\ Unique(l) => OwnedIn(k) = OwnedIn(l) \/ \E o \in OwnedIn(l) : OwnedIn(k) = OwnedIn(l) \ {o}
<1>1. CASE h \in HandlesIn(l)
  <2>1. PICK i \in DOMAIN l : k = RemoveAt(l, i)
    BY <1>1 DEF Unregister, FirstIn
  <2>2. <<l[i].handle, l[i].pid>> \in OwnedIn(l)
    BY DEF OwnedIn
  <2> QED
    BY <2>1, <2>2, RemoveAtRemains
<1>2. CASE h \notin HandlesIn(l)
  BY <1>2 DEF Unregister, Remains
<1> QED
  BY <1>1, <1>2

\* A registration puts its instance in front and moves the others back by one ...
LEMMA RegisterPlaces ==
  ASSUME NEW l \in Seq(Entry), NEW m \in Request, m.handle \in Handles
  PROVE  /\ Register(l, m) \in Seq(Entry)
         /\ Len(Register(l, m)) = Len(l) + 1
         /\ 1 \in DOMAIN Register(l, m)
         /\ /\ Register(l, m)[1].handle = m.handle /\ Register(l, m)[1].pid = m.pid
            /\ Register(l, m)[1].event = m.event
         /\ \A i \in DOMAIN l : i + 1 \in DOMAIN Register(l, m) /\ Register(l, m)[i + 1] = l[i]
         /\ \A i \in DOMAIN Register(l, m) :
              i = 1 \/ (i - 1 \in DOMAIN l /\ Register(l, m)[i] = l[i - 1])
<1> DEFINE e == [pid |-> m.pid, handle |-> m.handle, event |-> m.event, state |-> m.state,
                 resume |-> FALSE, resource |-> m.resource, dirty |-> FALSE]
           k == Register(l, m)
<1>1. e \in Entry /\ e.handle = m.handle /\ e.pid = m.pid /\ e.event = m.event
  BY DEF Entry, Request
<1> HIDE DEF e
<1>2. <<e>> \in Seq(Entry) /\ Len(<<e>>) = 1 /\ <<e>>[1] = e
  BY <1>1
<1>3. k = <<e>> \o l
  BY DEF Register, Cons, e
<1>4. Len(l) \in Nat /\ DOMAIN l = 1..Len(l)
  BY LenProperties
<1> HIDE DEF k
<1>5. /\ k \in Seq(Entry) /\ Len(k) = 1 + Len(l)
      /\ \A i \in 1..(1 + Len(l)) : k[i] = IF i <= 1 THEN <<e>>[i] ELSE l[i - 1]
  BY <1>2, <1>3, ConcatProperties
<1>6. DOMAIN k = 1..(1 + Len(l))
  BY <1>5, LenProperties
<1>7. k[1] = e /\ \A i \in DOMAIN l : i + 1 \in DOMAIN k /\ k[i + 1] = l[i]
  <2>1. k[1] = e
    BY <1>2, <1>4, <1>5
  <2>2. ASSUME NEW i \in DOMAIN l
        PROVE  i + 1 \in DOMAIN k /\ k[i + 1] = l[i]
    <3>1. i \in Nat /\ 1 <= i /\ i + 1 \in 1..(1 + Len(l)) /\ ~(i + 1 <= 1) /\ (i + 1) - 1 = i
      BY <1>4, <2>2
    <3>2. k[i + 1] = l[(i + 1) - 1]
      BY <1>5, <3>1
    <3> QED
      BY <1>6, <3>1, <3>2
  <2> QED
    BY <2>1, <2>2
<1>8. \A i \in DOMAIN k : i = 1 \/ (i - 1 \in DOMAIN l /\ k[i] = l[i - 1])
  BY <1>4, <1>5, <1>6
<1>9. 1 \in DOMAIN k
  BY <1>4, <1>6
<1> QED
  BY <1>1, <1>4, <1>5, <1>7, <1>8, <1>9 DEF k

\* ... so with a free handle the handles stay distinct.
LEMMA RegisterAdds ==
  ASSUME NEW l \in Seq(Entry), NEW m \in Request, m.handle \in Handles
  PROVE  /\ Register(l, m) \in Seq(Entry)
         /\ Len(Register(l, m)) = Len(l) + 1
         /\ HandlesIn(Register(l, m)) = HandlesIn(l) \cup {m.handle}
         /\ OwnedIn(Register(l, m)) = OwnedIn(l) \cup {<<m.handle, m.pid>>}
         /\ Named(Register(l, m)) = Named(l) \cup {m.event}
         /\ Unique(l) /\ m.handle \notin HandlesIn(l) => Unique(Register(l, m))
         /\ \A i \in DOMAIN l : \E n \in DOMAIN Register(l, m) : Register(l, m)[n] = l[i]
<1> DEFINE k == Register(l, m)
<1>1. k \in Seq(Entry) /\ Len(k) = Len(l) + 1
  BY RegisterPlaces
<1>4. Len(l) \in Nat /\ DOMAIN l = 1..Len(l)
  BY LenProperties
<1>6. DOMAIN k = 1..(1 + Len(l))
  BY <1>1, <1>4, LenProperties
<1>7. /\ k[1].handle = m.handle /\ k[1].pid = m.pid /\ k[1].event = m.event
      /\ \A i \in DOMAIN l : i + 1 \in DOMAIN k /\ k[i + 1] = l[i]
  BY RegisterPlaces
<1>8. \A i \in DOMAIN k : i = 1 \/ (i - 1 \in DOMAIN l /\ k[i] = l[i - 1])
  BY RegisterPlaces
<1>9. 1 \in DOMAIN k
  BY RegisterPlaces
<1> HIDE DEF k
<1>10. HandlesIn(k) = HandlesIn(l) \cup {m.handle}
  BY <1>7, <1>8, <1>9 DEF HandlesIn
<1>12. OwnedIn(k) = OwnedIn(l) \cup {<<m.handle, m.pid>>}
  BY <1>7, <1>8, <1>9 DEF OwnedIn
<1>14. Named(k) = Named(l) \cup {m.event}
  BY <1>7, <1>8, <1>9 DEF Named
<1>11. ASSUME Unique(l), m.handle \notin HandlesIn(l) PROVE Unique(k)
  <2>1. \A i \in DOMAIN k : k[i].handle = m.handle => i = 1
    BY <1>8, <1>11 DEF HandlesIn
  <2>2. ASSUME NEW i \in DOMAIN k, NEW j \in DOMAIN k, i # 1, j # 1,
               k[i].handle = k[j].handle
        PROVE  i = j
    <3>1. /\ i - 1 \in DOMAIN l /\ k[i] = l[i - 1]
          /\ j - 1 \in DOMAIN l /\ k[j] = l[j - 1]
      BY <1>8, <2>2
    <3>2. i - 1 = j - 1
      BY <1>11, <2>2, <3>1 DEF Unique
    <3> QED
      BY <1>4, <1>6, <3>2
  <2> QED
    BY <1>7, <2>1, <2>2 DEF Unique
<1>13. \A i \in DOMAIN l : \E n \in DOMAIN k : k[n] = l[i]
  BY <1>7
<1> QED
  BY <1>1, <1>10, <1>11, <1>12, <1>13, <1>14 DEF k
-----------------------------------------------------------------------------
(* The steps of the clients.                                               *)

LEMMA FirstEvent == EventSeq[1] \in Events
BY DEF EventSeq, Events

\* The events that are playing or paused are events.
LEMMA EventsInTyped ==
  ASSUME NEW l \in Seq(Entry), NEW st
  PROVE  EventsIn(l, st) \subseteq Events
<1>1. \A i \in DOMAIN l : l[i] \in Entry
  BY ElementOfSeq, LenProperties
<1> QED
  BY <1>1 DEF EventsIn, Entry

\* Whatever only concerns the queue, the handles the clients hold and who is alive.
LEMMA ClientStep ==
  ASSUME IInv, UNCHANGED <<list, statusVars, session, pc, cur, walkVars>>,
         inbox' \in Seq(Request), unread' \in 0 .. AnswerRoom,
         held' \subseteq [pid : Pids, handle : Handles, event : Events],
         alive' \subseteq Pids
  PROVE  IInv'
<1>1. TypeOK'
  BY DEF IInv, TypeOK, statusVars, walkVars
<1>2. HandlesUnique' /\ StatusConsistent' /\ ComparisonAnswers'
  BY DEF IInv, HandlesUnique, StatusConsistent, ComparisonAnswers, statusVars, walkVars
<1>3. WalkInv'
  BY DEF IInv, WalkInv, statusVars, walkVars, HandlesIn, Sounding, Mine, Own
<1> QED
  BY <1>1, <1>2, <1>3 DEF IInv

LEMMA ClientsKeep ==
  ASSUME IInv, NEW p \in Pids,
         SendRegister(p) \/ SendSetState(p) \/ SendUnregister(p) \/ SendPlain(p) \/ Die(p)
  PROVE  IInv'
<1> USE AsmAssumption
<1>1. ASSUME NEW m \in Request, Send(m),
             held' \subseteq [pid : Pids, handle : Handles, event : Events]
      PROVE  IInv'
  <2>1. inbox' \in Seq(Request) /\ unread' \in 0 .. AnswerRoom /\ alive' \subseteq Pids
    BY <1>1 DEF Send, IInv, TypeOK
  <2> QED
    BY <1>1, <2>1, ClientStep DEF Send
<1>2. held \subseteq [pid : Pids, handle : Handles, event : Events]
  BY DEF IInv, TypeOK
<1>3. AskStates \subseteq States
  BY DEF States
<1>4. CASE SendRegister(p)
  <2>1. PICK ev \in Uses[p], st \in AskStates \cap {"NONE", "PLAYING"}, res \in Claims[p] :
          Send([pid |-> p, req |-> "REGISTER", handle |-> NoHandle, event |-> ev,
                state |-> st, resource |-> res])
    BY <1>4 DEF SendRegister
  <2>2. [pid |-> p, req |-> "REGISTER", handle |-> NoHandle, event |-> ev,
         state |-> st, resource |-> res] \in Request
    BY <1>3 DEF Request, Requests
  <2> QED
    BY <1>1, <1>2, <1>4, <2>1, <2>2 DEF SendRegister
<1>5. CASE SendSetState(p)
  <2>1. PICK g \in HeldBy(p) : \E ev \in {g.event} \cup Misnamed, st \in AskStates, res \in Claims[p] :
          /\ Send([pid |-> p, req |-> "SETSTATE", handle |-> g.handle, event |-> ev,
                   state |-> st, resource |-> res])
          /\ UNCHANGED held
    BY <1>5 DEF SendSetState
  <2>2. PICK ev \in {g.event} \cup Misnamed, st \in AskStates, res \in Claims[p] :
          /\ Send([pid |-> p, req |-> "SETSTATE", handle |-> g.handle, event |-> ev,
                   state |-> st, resource |-> res])
          /\ UNCHANGED held
    BY <2>1
  <2>3. ev \in Events /\ g.handle \in Handles
    BY <1>2 DEF HeldBy
  <2>4. [pid |-> p, req |-> "SETSTATE", handle |-> g.handle, event |-> ev,
         state |-> st, resource |-> res] \in Request
    BY <1>3, <2>3 DEF Request, Requests
  <2> QED
    BY <1>1, <1>2, <2>2, <2>4
<1>6. CASE SendUnregister(p)
  <2>1. PICK g \in HeldBy(p) : \E ev \in {g.event} \cup Misnamed :
          /\ Send([pid |-> p, req |-> "UNREGISTER", handle |-> g.handle, event |-> ev,
                   state |-> "NONE", resource |-> {}])
          /\ held' = held \ {g}
    BY <1>6 DEF SendUnregister
  <2>2. PICK ev \in {g.event} \cup Misnamed :
          /\ Send([pid |-> p, req |-> "UNREGISTER", handle |-> g.handle, event |-> ev,
                   state |-> "NONE", resource |-> {}])
          /\ held' = held \ {g}
    BY <2>1
  <2>3. ev \in Events /\ g.handle \in Handles
    BY <1>2 DEF HeldBy
  <2>4. [pid |-> p, req |-> "UNREGISTER", handle |-> g.handle, event |-> ev,
         state |-> "NONE", resource |-> {}] \in Request
    BY <2>3 DEF Request, Requests, States
  <2> QED
    BY <1>1, <1>2, <2>2, <2>4
<1>7. CASE SendPlain(p)
  <2>1. PICK r \in {"GETMYSTATE", "EMERGENT_EXIT"} :
          /\ Send([pid |-> p, req |-> r, handle |-> NoHandle, event |-> EventSeq[1],
                   state |-> "NONE", resource |-> {}])
          /\ held' = IF r = "EMERGENT_EXIT" THEN {g \in held : g.pid # p} ELSE held
    BY <1>7 DEF SendPlain
  <2>2. [pid |-> p, req |-> r, handle |-> NoHandle, event |-> EventSeq[1],
         state |-> "NONE", resource |-> {}] \in Request
    BY FirstEvent DEF Request, Requests, States
  <2>3. held' \subseteq held
    BY <2>1
  <2> QED
    BY <1>1, <1>2, <2>1, <2>2, <2>3
<1>8. CASE Die(p)
  <2>1. /\ inbox' \in Seq(Request) /\ unread' \in 0 .. AnswerRoom /\ alive' \subseteq Pids
        /\ held' \subseteq [pid : Pids, handle : Handles, event : Events]
    BY <1>2, <1>8 DEF Die, IInv, TypeOK
  <2> QED
    BY <1>8, <2>1, ClientStep DEF Die
<1> QED
  BY <1>4, <1>5, <1>6, <1>7, <1>8
-----------------------------------------------------------------------------
(* The steps of the server outside the comparison.                         *)

StatusOf(l) == statusPlaying' = EventsIn(l, "PLAYING") /\ statusPause' = EventsIn(l, "PAUSE")

\* The answer queue never holds more than it has room for.
LEMMA AnswersFit ==
  ASSUME TypeOK, unread' = unread \/ SendAnswer
  PROVE  unread' \in 0 .. AnswerRoom
<1>1. unread \in 0 .. AnswerRoom /\ AnswerRoom \in Nat
  BY AsmAssumption DEF TypeOK
<1>2. CASE SendAnswer
  <2>1. unread < AnswerRoom /\ (unread' = unread \/ unread' = unread + 1)
    BY <1>2 DEF SendAnswer
  <2> QED
    BY <1>1, <2>1
<1> QED
  BY <1>1, <1>2

\* Returning to the queue, with the status words recomputed from what the list has become.
LEMMA IdleStep ==
  ASSUME IInv, Idle, list' \in Seq(Entry), Unique(list'), StatusOf(list'), session' \in Sessions,
         held' \subseteq [pid : Pids, handle : Handles, event : Events],
         unread' = unread \/ SendAnswer, UNCHANGED <<inbox, alive>>
  PROVE  IInv'
<1>1. TypeOK'
  <2>1. statusPlaying' \subseteq Events /\ statusPause' \subseteq Events
    BY EventsInTyped DEF StatusOf
  <2>2. inbox' \in Seq(Request) /\ unread' \in 0 .. AnswerRoom /\ alive' \subseteq Pids
    BY AnswersFit DEF IInv, TypeOK
  <2>3. reply' \in Reply
    BY DEF Idle, NoReply, Reply, Commands
  <2>4. updated' \in BOOLEAN /\ quiet' \in BOOLEAN
    BY Zenon DEF Idle
  <2>5. pc' = "idle" /\ cur' = NoRequest /\ cursor' = 1 /\ pass' = "playing"
    BY DEF Idle
  <2> QED
    BY <2>1, <2>2, <2>3, <2>4, <2>5 DEF TypeOK
<1>2. HandlesUnique' /\ StatusConsistent'
  BY DEF HandlesUnique, Unique, StatusConsistent, StatusOf
<1>3. ComparisonAnswers' /\ WalkInv'
  BY DEF Idle, NoReply, ComparisonAnswers, WalkInv, Comparing, Returning
<1> QED
  BY <1>1, <1>2, <1>3 DEF IInv

\* A step within a request that only changes the list and the status words.
LEMMA ListStep ==
  ASSUME IInv, pc \in {"emergent", "reap"}, pc' \in {"emergent", "reap", "dispatch"},
         list' \in Seq(Entry), Unique(list'),
         statusPlaying' \subseteq Events, statusPause' \subseteq Events,
         pc' = "reap" \/ StatusOf(list'),
         UNCHANGED <<session, cur, walkVars, clientVars>>
  PROVE  IInv'
<1>1. TypeOK'
  BY DEF IInv, TypeOK, walkVars, clientVars
<1>2. HandlesUnique' /\ StatusConsistent'
  BY DEF HandlesUnique, Unique, StatusConsistent, StatusOf
<1>3. ComparisonAnswers' /\ WalkInv'
  BY DEF IInv, ComparisonAnswers, WalkInv, Comparing, Returning, walkVars
<1> QED
  BY <1>1, <1>2, <1>3 DEF IInv

LEMMA AcceptKeeps == ASSUME IInv, Accept PROVE IInv'
<1>1. Head(inbox) \in Request /\ Tail(inbox) \in Seq(Request)
  BY HeadTailProperties DEF Accept, IInv, TypeOK
<1>2. pc' \in {"unregister", "emergent", "reap"} /\ pc = "idle"
  BY DEF Accept
<1>3. reply.cmd = "UNSET" /\ cursor = 1
  BY <1>2 DEF IInv, WalkInv, Comparing
<1>31. pass = "playing"
  BY <1>2 DEF IInv, WalkInv, Comparing
<1>4. TypeOK'
  BY <1>1, <1>2 DEF Accept, IInv, TypeOK, statusVars, walkVars
<1>5. HandlesUnique' /\ StatusConsistent'
  BY <1>2 DEF Accept, IInv, HandlesUnique, StatusConsistent, statusVars
<1>6. ComparisonAnswers' /\ WalkInv'
  BY <1>1, <1>2, <1>3, <1>31 DEF Accept, ComparisonAnswers, WalkInv, Comparing, Returning, walkVars
<1> QED
  BY <1>4, <1>5, <1>6 DEF IInv

LEMMA OutsideKeeps ==
  ASSUME IInv,
         DoUnregister \/ EmergentExit \/ EmergentDone \/ ReapOne \/ ReapDone
           \/ RegisterFull \/ SetStateDirectly \/ AnswerMyState
  PROVE  IInv'
<1>1. list \in Seq(Entry) /\ Unique(list) /\ session \in Sessions
      /\ statusPlaying \subseteq Events /\ statusPause \subseteq Events
      /\ held \subseteq [pid : Pids, handle : Handles, event : Events]
  BY DEF IInv, TypeOK, HandlesUnique, Unique
<1>2. pc # "reap" => statusPlaying = EventsIn(list, "PLAYING") /\ statusPause = EventsIn(list, "PAUSE")
  BY DEF IInv, StatusConsistent
<1>3. pc # "idle" => cur \in Request
  BY DEF IInv, WalkInv
<1>4. CASE DoUnregister
  <2>1. PICK rest \in Unregister(list, cur.handle) :
          /\ list' = IF IsNeedResume(cur.event) THEN ResumeAll(rest) ELSE rest
          /\ UpdatePhoneStatus(rest)
    BY <1>4 DEF DoUnregister
  <2>2. rest \in Seq(Entry) /\ Unique(rest)
    BY <1>1, UnregisterRemains DEF Remains
  <2>3. list' \in Seq(Entry) /\ Unique(list') /\ \A st : EventsIn(list', st) = EventsIn(rest, st)
    <3>1. CASE list' = rest
      BY <2>2, <3>1
    <3>2. CASE list' = ResumeAll(rest)
      <4>1. SameHandles(list', rest) /\ \A st : EventsIn(list', st) = EventsIn(rest, st)
        BY <2>2, <3>2, ResetsKeep
      <4> QED
        BY <2>2, <4>1, SameHandlesRemains DEF Remains
    <3> QED
      BY <2>1, <3>1, <3>2
  <2>4. StatusOf(list')
    BY <2>1, <2>3 DEF UpdatePhoneStatus, StatusOf
  <2>5. session' \in Sessions
    BY <1>1, <1>4 DEF DoUnregister, EndSession, Sessions
  <2> QED
    BY <1>1, <1>4, <2>3, <2>4, <2>5, IdleStep DEF DoUnregister, clientVars
<1>5. CASE EmergentExit
  <2>1. PICK i \in DOMAIN list : list' \in Unregister(list, list[i].handle)
    BY <1>5 DEF EmergentExit, FirstIn
  <2>2. list' \in Seq(Entry) /\ Unique(list')
    BY <1>1, <2>1, UnregisterRemains DEF Remains
  <2>3. StatusOf(list')
    BY <1>5 DEF EmergentExit, UpdatePhoneStatus, StatusOf
  <2>4. statusPlaying' \subseteq Events /\ statusPause' \subseteq Events
    BY <2>2, <2>3, EventsInTyped DEF StatusOf
  <2> QED
    BY <1>5, <2>2, <2>3, <2>4, ListStep DEF EmergentExit
<1>6. CASE ReapOne
  <2>1. PICK i \in DOMAIN list : list' = RemoveAt(list, i)
    BY <1>6 DEF ReapOne
  <2>2. list' \in Seq(Entry) /\ Unique(list')
    BY <1>1, <2>1, RemoveAtRemains DEF Remains
  <2> QED
    BY <1>1, <1>6, <2>2, ListStep DEF ReapOne, statusVars
<1>7. CASE ReapDone
  <2>1. StatusOf(list') /\ list' = list
    BY <1>7 DEF ReapDone, UpdatePhoneStatus, StatusOf
  <2>2. statusPlaying' \subseteq Events /\ statusPause' \subseteq Events
    BY <1>1, <2>1, EventsInTyped DEF StatusOf
  <2> QED
    BY <1>1, <1>7, <2>1, <2>2, ListStep DEF ReapDone
<1>8. CASE EmergentDone \/ RegisterFull \/ AnswerMyState
  <2>1. /\ pc # "reap" /\ Idle
        /\ UNCHANGED <<list, statusPlaying, statusPause, session, inbox, held, alive>>
        /\ unread' = unread \/ SendAnswer
    BY <1>8 DEF EmergentDone, RegisterFull, AnswerMyState, statusVars, clientVars
  <2>2. StatusOf(list')
    BY <1>2, <2>1 DEF StatusOf
  <2> QED
    BY <1>1, <2>1, <2>2, IdleStep
<1>9. CASE SetStateDirectly
  <2>1. cur.state \in States /\ cur.resource \in SUBSET Resources
    BY <1>3, <1>9 DEF SetStateDirectly, Request
  <2>2. list' \in Seq(Entry) /\ Unique(list')
    <3>1. SameHandles(list', list)
      BY <1>1, <1>9, <2>1, ChangeStateKeeps DEF SetStateDirectly
    <3> QED
      BY <1>1, <3>1, SameHandlesRemains DEF Remains
  <2>3. StatusOf(list')
    BY <1>9 DEF SetStateDirectly, UpdatePhoneStatus, StatusOf
  <2>4. session' \in Sessions
    BY <1>1, <1>9 DEF SetStateDirectly, EndSession, Sessions
  <2> QED
    BY <1>1, <1>9, <2>2, <2>3, <2>4, IdleStep DEF SetStateDirectly, clientVars
<1> QED
  BY <1>4, <1>5, <1>6, <1>7, <1>8, <1>9
-----------------------------------------------------------------------------
(* The steps of the comparison.                                            *)

\* What IInv says while a request is compared.
LEMMA ComparingFacts ==
  ASSUME IInv, pc \in Comparing
  PROVE  /\ list \in Seq(Entry) /\ Unique(list)
         /\ statusPlaying = EventsIn(list, "PLAYING") /\ statusPause = EventsIn(list, "PAUSE")
         /\ cur \in Request
         /\ cur.req = "REGISTER" =>
              cur.handle \in Handles /\ (updated \/ cur.handle \notin HandlesIn(list))
         /\ Len(list) \in Nat /\ DOMAIN list = 1..Len(list)
         /\ \A i \in DOMAIN list : list[i] \in Entry
<1>1. list \in Seq(Entry)
  BY DEF IInv, TypeOK
<1>2. Len(list) \in Nat /\ DOMAIN list = 1..Len(list) /\ \A i \in DOMAIN list : list[i] \in Entry
  BY <1>1, LenProperties, ElementOfSeq
<1> QED
  BY <1>1, <1>2 DEF IInv, HandlesUnique, Unique, StatusConsistent, WalkInv, Comparing

\* The request takes effect once; a registration finds its handle still free.
LEMMA CommitKeeps ==
  ASSUME IInv, pc \in Comparing, NEW k, SameHandles(k, list)
  PROVE  Commit(k) \in Seq(Entry) /\ Unique(Commit(k))
<1>1. k \in Seq(Entry) /\ Unique(k) /\ HandlesIn(k) = HandlesIn(list)
  BY ComparingFacts, SameHandlesRemains DEF Remains
<1>2. CASE updated
  BY <1>1, <1>2 DEF Commit
<1>3. CASE ~updated /\ cur.req = "REGISTER"
  <2>1. cur \in Request /\ cur.handle \in Handles /\ cur.handle \notin HandlesIn(k)
    BY <1>1, <1>3, ComparingFacts
  <2> QED
    BY <1>1, <1>3, <2>1, RegisterAdds DEF Commit
<1>4. CASE ~updated /\ cur.req # "REGISTER"
  <2>1. cur.state \in States /\ cur.resource \in SUBSET Resources
    BY ComparingFacts DEF Request
  <2>2. Commit(k) = ChangeState(k, cur.pid, cur.handle, cur.state, cur.resource)
    BY <1>4 DEF Commit
  <2>3. SameHandles(Commit(k), k)
    BY <1>1, <2>1, <2>2, ChangeStateKeeps
  <2> QED
    BY <1>1, <2>3, SameHandlesRemains DEF Remains
<1> QED
  BY <1>2, <1>3, <1>4

\* The end of the treatment of one sounding instance.
LEMMA CommitStep ==
  ASSUME IInv, pc \in {"walk", "worker"}, NEW k, SameHandles(k, list),
         NEW cmd \in Commands \ {"UNSET"}, CommitAndStep(k, cmd),
         pc' = "walk", pass = "playing", session' \in Sessions,
         UNCHANGED <<cur, pass, quiet, clientVars>>
  PROVE  IInv'
<1>1. pc \in Comparing
  BY DEF Comparing
<1>2. list' \in Seq(Entry) /\ Unique(list')
  BY <1>1, CommitKeeps DEF CommitAndStep
<1>3. StatusOf(list')
  BY DEF CommitAndStep, UpdatePhoneStatus, StatusOf
<1>4. cur' = cur /\ cur \in Request
  BY <1>1, ComparingFacts
<1>5. reply' = [alloc |-> cur.handle, cmd |-> cmd] /\ reply' \in Reply
  BY <1>4 DEF CommitAndStep, Reply, Request
<1>6. updated' /\ updated' \in BOOLEAN
  BY Zenon DEF CommitAndStep
<1>7. cursor' \in Nat \ {0}
  BY DEF CommitAndStep, IInv, TypeOK
<1>8. TypeOK'
  <2>1. statusPlaying' \subseteq Events /\ statusPause' \subseteq Events
    BY <1>2, <1>3, EventsInTyped DEF StatusOf
  <2>2. /\ pass' \in {"playing", "paused"} /\ quiet' \in BOOLEAN /\ inbox' \in Seq(Request)
        /\ unread' \in 0 .. AnswerRoom
        /\ held' \subseteq [pid : Pids, handle : Handles, event : Events] /\ alive' \subseteq Pids
    BY DEF IInv, TypeOK, clientVars
  <2> QED
    BY <1>2, <1>4, <1>5, <1>6, <1>7, <2>1, <2>2 DEF TypeOK
<1>9. HandlesUnique' /\ StatusConsistent'
  BY <1>2, <1>3 DEF HandlesUnique, Unique, StatusConsistent, StatusOf
<1>10. ComparisonAnswers'
  BY DEF ComparisonAnswers
<1>11. WalkInv'
  <2>1. cur.req = "REGISTER" => cur.handle \in Handles
    BY <1>1, ComparingFacts
  <2> QED
    BY <1>4, <1>5, <1>6, <2>1 DEF WalkInv, Comparing, Returning
<1> QED
  BY <1>8, <1>9, <1>10, <1>11 DEF IInv

\* A step that neither touches the list nor the request.
LEMMA QuietStep ==
  ASSUME IInv, pc \in Comparing, pc' \in Comparing,
         UNCHANGED <<list, statusVars, session, cur, updated, quiet, clientVars>>,
         pass' \in {"playing", "paused"}, pc' = "walk" => pass' = "playing", cursor' \in Nat \ {0},
         reply' \in Reply, reply'.cmd # "UNSET" => reply'.alloc = cur.handle,
         pc' \in {"walked", "pausedWalk", "finish"} => reply'.cmd # "UNSET",
         pc' \in Returning =>
           cursor' <= Len(list) /\ (pass' = "paused" => reply'.cmd # "UNSET"),
         pc' = "walk" /\ reply'.cmd = "UNSET" =>
           \E i \in DOMAIN list : cursor' <= i /\ Sounding(list[i])
  PROVE  IInv'
<1>1. TypeOK'
  BY DEF IInv, TypeOK, statusVars, clientVars, Comparing
<1>2. HandlesUnique' /\ StatusConsistent' /\ ComparisonAnswers'
  <2>1. pc # "reap"
    BY DEF Comparing
  <2> QED
    BY <2>1 DEF IInv, HandlesUnique, StatusConsistent, ComparisonAnswers, statusVars
<1>3. WalkInv'
  <2>1. pc' # "idle" /\ cur' \in Request
    BY ComparingFacts DEF Comparing
  <2>2. cur'.req = "REGISTER" =>
          cur'.handle \in Handles /\ (updated' \/ cur'.handle \notin HandlesIn(list'))
    BY ComparingFacts
  <2>3. \A i \in DOMAIN list : Sounding(list[i]) = Sounding(list[i])'
    BY DEF Sounding, Mine, Own
  <2> QED
    BY <2>1, <2>2, <2>3 DEF WalkInv, Comparing, Returning
<1> QED
  BY <1>1, <1>2, <1>3 DEF IInv

\* A step that changes the list in place, not yet or no longer looking for conflicts in it.
LEMMA RelistStep ==
  ASSUME IInv, pc \in Comparing, pc' \in {"worker", "walked", "pausedWalk"},
         SameHandles(list', list), StatusOf(list'), cursor' \in Nat \ {0},
         UNCHANGED <<session, cur, pass, updated, quiet, reply, clientVars>>,
         pc' # "worker" => reply.cmd # "UNSET",
         pc' = "worker" => cursor' <= Len(list) /\ (pass = "paused" => reply.cmd # "UNSET")
  PROVE  IInv'
<1>1. /\ list' \in Seq(Entry) /\ Unique(list') /\ HandlesIn(list') = HandlesIn(list)
      /\ Len(list') = Len(list)
  BY ComparingFacts, SameHandlesRemains DEF Remains, SameHandles
<1>2. TypeOK'
  <2>1. statusPlaying' \subseteq Events /\ statusPause' \subseteq Events
    BY <1>1, EventsInTyped DEF StatusOf
  <2> QED
    BY <1>1, <2>1 DEF IInv, TypeOK, clientVars
<1>3. HandlesUnique' /\ StatusConsistent' /\ ComparisonAnswers'
  BY <1>1 DEF HandlesUnique, Unique, StatusConsistent, StatusOf, ComparisonAnswers
<1>4. WalkInv'
  <2>1. cur' \in Request /\ pc' # "walk" /\ pc' \in Comparing
    BY ComparingFacts DEF Comparing
  <2>2. cur'.req = "REGISTER" =>
          cur'.handle \in Handles /\ (updated' \/ cur'.handle \notin HandlesIn(list'))
    BY <1>1, ComparingFacts
  <2>3. reply'.cmd # "UNSET" => reply'.alloc = cur'.handle
    BY DEF IInv, WalkInv
  <2> QED
    BY <1>1, <2>1, <2>2, <2>3 DEF WalkInv, Comparing, Returning
<1> QED
  BY <1>2, <1>3, <1>4 DEF IInv

\* The start: the handle is free (a registration) or of an instance that does not play, so a
\* playing instance is not the requester's.
LEMMA StartKeeps ==
  ASSUME IInv, pc = "dispatch", NEW h \in Handles \cup {NoHandle}, StartCompare(h),
         cur.req = "REGISTER" => h \in Handles /\ h \notin HandlesIn(list),
         ~IsItPlayingNow(list, cur.pid, h)
  PROVE  IInv'
<1>1. /\ list \in Seq(Entry) /\ Unique(list) /\ statusPlaying = EventsIn(list, "PLAYING")
      /\ cur \in Request /\ cursor = 1 /\ reply.cmd = "UNSET" /\ pass = "playing"
  BY DEF IInv, TypeOK, HandlesUnique, Unique, StatusConsistent, WalkInv, Comparing
<1>2. cur' = [cur EXCEPT !.handle = h] /\ cur' \in Request /\ cur'.handle = h
  BY <1>1 DEF StartCompare, Request
<1>3. cur'.req = cur.req /\ cur'.pid = cur.pid
  BY <1>1, <1>2 DEF Request
<1>4. /\ UNCHANGED <<list, statusPlaying, statusPause, session, cursor, pass, updated>>
      /\ UNCHANGED <<inbox, unread, held, alive>>
  BY DEF StartCompare, statusVars, clientVars
<1>5. CASE statusPlaying = {}
  <2>1. reply' = [alloc |-> h, cmd |-> "NONE"] /\ quiet' /\ pc' = "walked"
    BY <1>5 DEF StartCompare
  <2>2. quiet' \in BOOLEAN
    BY <1>5, Zenon DEF StartCompare
  <2>3. reply' \in Reply /\ reply'.cmd = "NONE" /\ reply'.alloc = h
    BY <2>1 DEF Reply, Commands
  <2>4. TypeOK'
    BY <1>2, <1>4, <2>1, <2>2, <2>3 DEF IInv, TypeOK
  <2>5. HandlesUnique' /\ StatusConsistent' /\ ComparisonAnswers'
    BY <1>4, <2>3 DEF IInv, HandlesUnique, StatusConsistent, ComparisonAnswers
  <2>6. WalkInv'
    BY <1>2, <1>3, <1>4, <2>1, <2>3 DEF WalkInv, Comparing, Returning
  <2> QED
    BY <2>4, <2>5, <2>6 DEF IInv
<1>6. CASE statusPlaying # {}
  <2>1. pc' = "walk" /\ UNCHANGED <<reply, quiet>>
    BY <1>6 DEF StartCompare
  <2>2. PICK i \in DOMAIN list : list[i].state = "PLAYING"
    BY <1>1, <1>6 DEF EventsIn
  <2>3. Sounding(list[i])'
    BY <1>2, <1>3, <1>4, <2>2 DEF Sounding, Mine, Own, IsItPlayingNow
  <2>4. cursor' <= i /\ i \in DOMAIN list'
    BY <1>1, <1>4, LenProperties
  <2>5. TypeOK'
    BY <1>2, <1>4, <2>1 DEF IInv, TypeOK
  <2>6. HandlesUnique' /\ StatusConsistent' /\ ComparisonAnswers'
    BY <1>4, <2>1 DEF IInv, HandlesUnique, StatusConsistent, ComparisonAnswers
  <2>7. \E j \in DOMAIN list' : cursor' <= j /\ Sounding(list[j])'
    BY <1>4, <2>3, <2>4
  <2>8. WalkInv'
    BY <1>1, <1>2, <1>3, <1>4, <2>1, <2>7 DEF WalkInv, Comparing, Returning
  <2> QED
    BY <2>5, <2>6, <2>8 DEF IInv
<1> QED
  BY <1>5, <1>6

LEMMA DispatchKeeps ==
  ASSUME IInv, DispatchRegister \/ DispatchPlay
  PROVE  IInv'
<1>1. cur \in Request
  BY DEF IInv, WalkInv, DispatchRegister, DispatchPlay
<1>2. CASE DispatchRegister
  <2>1. PICK h \in FreeHandles : StartCompare(h)
    BY <1>2 DEF DispatchRegister
  <2>2. h \in Handles /\ h \notin HandlesIn(list)
    BY <2>1 DEF FreeHandles
  <2>3. ~IsItPlayingNow(list, cur.pid, h)
    BY <2>2 DEF IsItPlayingNow, Own, HandlesIn
  <2> QED
    BY <1>2, <2>1, <2>2, <2>3, StartKeeps DEF DispatchRegister
<1>3. CASE DispatchPlay
  <2>1. cur.handle \in Handles \cup {NoHandle}
    BY <1>1 DEF Request
  <2> QED
    BY <1>3, <2>1, StartKeeps DEF DispatchPlay
<1> QED
  BY <1>2, <1>3

\* Visiting an instance without waiting for anybody.
LEMMA VisitKeeps ==
  ASSUME IInv, WalkSkip \/ WalkPass \/ WalkRefuse \/ WalkCaseNone \/ WalkInterrupt
  PROVE  IInv'
<1>1. /\ pc = "walk" /\ pc \in Comparing /\ pass = "playing" /\ cursor <= Len(list)
      /\ cursor \in Nat \ {0} /\ reply \in Reply /\ session \in Sessions
      /\ reply.cmd # "UNSET" => reply.alloc = cur.handle
  BY DEF WalkSkip, WalkPass, WalkRefuse, WalkCaseNone, WalkInterrupt, Walking, IInv, WalkInv,
         TypeOK, Comparing
<1>2. list \in Seq(Entry) /\ cur \in Request /\ Len(list) \in Nat /\ DOMAIN list = 1..Len(list)
  BY <1>1, ComparingFacts
<1>3. reply.cmd = "UNSET" => \E i \in DOMAIN list : cursor <= i /\ Sounding(list[i])
  BY <1>1 DEF IInv, WalkInv
<1>4. cur.handle \in Handles \cup {NoHandle}
  BY <1>2 DEF Request
<1>5. CASE WalkSkip
  <2>1. ~Sounding(list[cursor])
    BY <1>5 DEF WalkSkip, Sounding, Visited
  <2>2. reply.cmd = "UNSET" => \E i \in DOMAIN list : cursor + 1 <= i /\ Sounding(list[i])
    BY <1>1, <1>2, <1>3, <2>1
  <2>3. cursor' = cursor + 1 /\ pc' = "walk"
        /\ UNCHANGED <<list, statusVars, session, cur, pass, updated, quiet, reply, clientVars>>
    BY <1>1, <1>5 DEF WalkSkip, Next1
  <2> QED
    BY <1>1, <2>2, <2>3, QuietStep DEF Returning
<1>6. CASE WalkPass
  <2>1. SameHandles(list, list)
    BY <1>2 DEF SameHandles
  <2>2. PICK cmd \in {"NONE", "PLAY"} : CommitAndStep(list, cmd)
    BY <1>6 DEF WalkPass
  <2>3. cmd \in Commands \ {"UNSET"}
    BY DEF Commands
  <2> QED
    BY <1>1, <1>6, <2>1, <2>2, <2>3, CommitStep DEF WalkPass
<1>7. CASE WalkRefuse
  <2>1. reply' = [alloc |-> cur.handle, cmd |-> "STOP"] /\ cursor' = Len(list) + 1 /\ pc' = "walk"
        /\ UNCHANGED <<list, statusVars, session, cur, pass, updated, quiet, clientVars>>
    BY <1>1, <1>7 DEF WalkRefuse
  <2>2. reply' \in Reply /\ reply'.cmd = "STOP" /\ reply'.alloc = cur.handle
    BY <1>4, <2>1 DEF Reply, Commands
  <2> QED
    BY <1>1, <1>2, <2>1, <2>2, QuietStep DEF Returning
<1>8. CASE WalkCaseNone
  <2>1. reply' = [alloc |-> cur.handle, cmd |-> "NONE"] /\ cursor' = cursor + 1 /\ pc' = "walk"
        /\ UNCHANGED <<list, statusVars, session, cur, pass, updated, quiet, clientVars>>
    BY <1>1, <1>8 DEF WalkCaseNone, Next1
  <2>2. reply' \in Reply /\ reply'.cmd = "NONE" /\ reply'.alloc = cur.handle
    BY <1>4, <2>1 DEF Reply, Commands
  <2> QED
    BY <1>1, <1>2, <2>1, <2>2, QuietStep DEF Returning
<1>9. CASE WalkInterrupt
  <2>1. pc' \in {"monitor", "worker"}
        /\ UNCHANGED <<list, statusVars, session, cur, walkVars, clientVars>>
    BY <1>9 DEF WalkInterrupt, CallBackPc
  <2>2. pc' \in Comparing /\ pc' \notin {"walk", "walked", "pausedWalk", "finish"}
    BY <2>1 DEF Comparing
  <2> QED
    BY <1>1, <2>1, <2>2, QuietStep DEF walkVars
<1> QED
  BY <1>5, <1>6, <1>7, <1>8, <1>9

\* The callback of the monitor instance changes two flags and no state.
LEMMA MonitorKeeps == ASSUME IInv, MonitorReturned PROVE IInv'
<1>1. /\ pc = "monitor" /\ pc \in Comparing /\ cursor \in Nat \ {0}
      /\ cursor <= Len(list) /\ (pass = "paused" => reply.cmd # "UNSET")
  BY DEF MonitorReturned, IInv, WalkInv, TypeOK, Comparing, Returning
<1>2. /\ list \in Seq(Entry) /\ DOMAIN list = 1..Len(list)
      /\ \A i \in DOMAIN list : list[i] \in Entry
      /\ statusPlaying = EventsIn(list, "PLAYING") /\ statusPause = EventsIn(list, "PAUSE")
  BY <1>1, ComparingFacts
<1>3. PICK m \in DOMAIN list :
        LET dirty == [list EXCEPT ![m] = [@ EXCEPT !.dirty = TRUE]]
        IN list' = IF pass = "playing" /\ IsNeedResume(cur.event)
                   THEN NeedResume(dirty, list[m].pid, list[m].handle) ELSE dirty
  BY DEF MonitorReturned, MonitorOf, FirstIn
<1> DEFINE k == [list EXCEPT ![m] = [@ EXCEPT !.dirty = TRUE]]
<1>4. /\ k \in [DOMAIN list -> Entry]
      /\ \A i \in DOMAIN list : /\ k[i].handle = list[i].handle
                                /\ k[i].pid = list[i].pid
                                /\ k[i].state = list[i].state
                                /\ k[i].event = list[i].event
  BY <1>2 DEF Entry
<1>5. list' = k \/ list' = NeedResume(k, list[m].pid, list[m].handle)
  BY <1>3
<1> HIDE DEF k
<1>6. k \in Seq(Entry) /\ Len(k) = Len(list) /\ DOMAIN k = DOMAIN list
  BY <1>2, <1>4, SameLength
<1>7. SameHandles(k, list) /\ \A st : EventsIn(k, st) = EventsIn(list, st)
  BY <1>4, <1>6 DEF SameHandles, EventsIn
<1>8. SameHandles(list', list) /\ \A st : EventsIn(list', st) = EventsIn(list, st)
  <2>1. CASE list' = k
    BY <1>7, <2>1
  <2>2. CASE list' = NeedResume(k, list[m].pid, list[m].handle)
    <3>1. SameHandles(list', k) /\ \A st : EventsIn(list', st) = EventsIn(k, st)
      BY <1>6, <2>2, NeedResumeKeeps
    <3> QED
      BY <1>7, <3>1 DEF SameHandles
  <2> QED
    BY <1>5, <2>1, <2>2
<1>9. StatusOf(list')
  BY <1>2, <1>8 DEF MonitorReturned, StatusOf, statusVars
<1> QED
  BY <1>1, <1>8, <1>9, RelistStep DEF MonitorReturned, walkVars

\* The states the answers of a callback lead to are states, so the list stays a list of entries
\* with the same handles.
LEMMA AnswerKeeps ==
  ASSUME list \in Seq(Entry), NEW e \in Entry, NEW res,
         NEW k \in {AfterStop(e, res), AfterPause(e, res), AfterMix(e, res)}
  PROVE  SameHandles(k, list)
<1>1. \A st \in States, r \in SUBSET Resources :
        SameHandles(ChangeState(list, e.pid, e.handle, st, r), list)
  BY ChangeStateKeeps
<1>2. {"STOP", "NONE", "PAUSE"} \subseteq States /\ {} \in SUBSET Resources
      /\ e.resource \in SUBSET Resources
  BY DEF States, Entry
<1>3. SameHandles(list, list)
  BY DEF SameHandles
<1>4. CASE k = AfterStop(e, res)
  BY <1>1, <1>2, <1>4 DEF AfterStop
<1>5. CASE k = AfterPause(e, res)
  BY <1>1, <1>2, <1>3, <1>5 DEF AfterPause
<1>6. CASE k = AfterMix(e, res)
  BY <1>1, <1>2, <1>3, <1>6 DEF AfterMix
<1> QED
  BY <1>4, <1>5, <1>6

LEMMA WorkerKeeps == ASSUME IInv, NEW res, Returned(res) PROVE IInv'
<1>1. /\ pc = "worker" /\ pc \in Comparing /\ cursor \in Nat \ {0}
      /\ cursor <= Len(list) /\ (pass = "paused" => reply.cmd # "UNSET")
      /\ session \in Sessions
  BY DEF Returned, WorkerReturned, PausedReturned, IInv, WalkInv, TypeOK, Comparing, Returning
<1>2. list \in Seq(Entry) /\ Visited \in Entry
  BY <1>1, ComparingFacts DEF Visited
<1>3. CASE WorkerReturned(res)
  <2>1. PICK k \in {AfterStop(Visited, res), AfterPause(Visited, res), AfterMix(Visited, res)} :
          CommitAndStep(Resumable(k, Visited), "PLAY")
    BY <1>3 DEF WorkerReturned
  <2>2. SameHandles(k, list)
    BY <1>2, <2>1, AnswerKeeps
  <2>3. SameHandles(Resumable(k, Visited), list)
    <3>1. SameHandles(NeedResume(k, Visited.pid, Visited.handle), k)
      BY <2>2, NeedResumeKeeps DEF SameHandles
    <3> QED
      BY <2>2, <3>1 DEF Resumable, SameHandles
  <2>4. session' \in Sessions
    BY <1>1, <1>3 DEF WorkerReturned, EndSession, Sessions
  <2>5. "PLAY" \in Commands \ {"UNSET"}
    BY DEF Commands
  <2> QED
    BY <1>1, <1>3, <2>1, <2>3, <2>4, <2>5, CommitStep DEF WorkerReturned
<1>4. CASE PausedReturned(res)
  <2>1. SameHandles(list', list)
    <3>1. "NONE" \in States /\ {} \in SUBSET Resources
      BY DEF States
    <3> QED
      BY <1>2, <1>4, <3>1, ChangeStateKeeps DEF PausedReturned
  <2>2. StatusOf(list')
    BY <1>4 DEF PausedReturned, UpdatePhoneStatus, StatusOf
  <2>3. cursor' \in Nat \ {0} /\ pc' = "pausedWalk" /\ reply.cmd # "UNSET"
    BY <1>1, <1>4 DEF PausedReturned, Next1
  <2> QED
    BY <1>1, <1>4, <2>1, <2>2, <2>3, RelistStep DEF PausedReturned
<1> QED
  BY <1>3, <1>4 DEF Returned

\* From the end of the first walk to the answer.
LEMMA PausedKeeps ==
  ASSUME IInv, WalkEnd \/ StartPausedPass \/ PausedOwn \/ PausedSkip \/ PausedInterrupt \/ PausedEnd
  PROVE  IInv'
<1>1. /\ pc \in Comparing /\ cursor \in Nat \ {0} /\ reply \in Reply
      /\ pass \in {"playing", "paused"}
      /\ reply.cmd # "UNSET" => reply.alloc = cur.handle
      /\ pc \in {"walked", "pausedWalk"} => reply.cmd # "UNSET"
  BY DEF WalkEnd, StartPausedPass, PausedOwn, PausedSkip, PausedInterrupt, PausedEnd, Walking,
         IInv, WalkInv, ComparisonAnswers, TypeOK, Comparing
<1>2. /\ list \in Seq(Entry) /\ cur \in Request /\ Len(list) \in Nat /\ DOMAIN list = 1..Len(list)
      /\ statusPlaying = EventsIn(list, "PLAYING") /\ statusPause = EventsIn(list, "PAUSE")
  BY <1>1, ComparingFacts
<1>3. CASE WalkEnd
  <2>1. SameHandles(list', list) /\ \A st : EventsIn(list', st) = EventsIn(list, st)
    BY <1>2, <1>3, ResetsKeep DEF WalkEnd
  <2>2. StatusOf(list')
    BY <1>2, <1>3, <2>1 DEF WalkEnd, StatusOf, statusVars
  <2>3. reply.cmd # "UNSET"
    BY <1>1, <1>2, <1>3 DEF WalkEnd, IInv, WalkInv
  <2> QED
    BY <1>1, <1>3, <2>1, <2>2, <2>3, RelistStep DEF WalkEnd, walkVars
<1>4. CASE StartPausedPass
  <2>1. /\ pc' \in {"pausedWalk", "finish"} /\ pass' \in {"playing", "paused"}
        /\ cursor' \in Nat \ {0} /\ reply' = reply /\ pc = "walked"
    BY <1>1, <1>4 DEF StartPausedPass
  <2>2. pc' \in Comparing /\ pc' \notin Returning /\ pc' # "walk"
    BY <2>1 DEF Comparing, Returning
  <2> QED
    BY <1>1, <1>4, <2>1, <2>2, QuietStep DEF StartPausedPass
<1>5. CASE PausedOwn
  <2>1. SameHandles(list', list)
    <3>1. cur.state \in States /\ cur.resource \in SUBSET Resources
      BY <1>2 DEF Request
    <3>2. SameHandles(list, list)
      BY <1>2 DEF SameHandles
    <3> QED
      BY <1>2, <1>5, <3>1, <3>2, ChangeStateKeeps DEF PausedOwn
  <2>2. StatusOf(list')
    BY <1>5 DEF PausedOwn, UpdatePhoneStatus, StatusOf
  <2>3. pc' = "pausedWalk" /\ cursor' \in Nat \ {0} /\ reply.cmd # "UNSET"
    BY <1>1, <1>5 DEF PausedOwn, Walking, Next1
  <2> QED
    BY <1>1, <1>5, <2>1, <2>2, <2>3, RelistStep DEF PausedOwn
<1>6. CASE PausedSkip
  <2>1. pc' = "pausedWalk" /\ cursor' \in Nat \ {0} /\ reply.cmd # "UNSET"
    BY <1>1, <1>6 DEF PausedSkip, Walking, Next1
  <2> QED
    BY <1>1, <1>6, <2>1, QuietStep DEF PausedSkip, Returning, Comparing
<1>7. CASE PausedInterrupt
  <2>1. /\ pc' \in {"monitor", "worker"} /\ reply.cmd # "UNSET" /\ cursor <= Len(list)
    BY <1>1, <1>7 DEF PausedInterrupt, CallBackPc, Walking
  <2>2. pc' \in Comparing /\ pc' \notin {"walk", "walked", "pausedWalk", "finish"}
    BY <2>1 DEF Comparing
  <2> QED
    BY <1>1, <1>7, <2>1, <2>2, QuietStep DEF PausedInterrupt, walkVars
<1>8. CASE PausedEnd
  <2>1. pc' = "finish" /\ reply.cmd # "UNSET"
    BY <1>1, <1>8 DEF PausedEnd
  <2> QED
    BY <1>1, <1>8, <2>1, QuietStep DEF PausedEnd, Returning, Comparing, walkVars
<1> QED
  BY <1>3, <1>4, <1>5, <1>6, <1>7, <1>8

LEMMA FinishKeeps == ASSUME IInv, Finish PROVE IInv'
<1>1. /\ pc = "finish" /\ pc \in Comparing /\ session \in Sessions
      /\ reply.cmd # "UNSET" /\ reply.alloc = cur.handle
      /\ held \subseteq [pid : Pids, handle : Handles, event : Events]
  BY DEF Finish, IInv, WalkInv, ComparisonAnswers, TypeOK, Comparing
<1>2. /\ list \in Seq(Entry) /\ Unique(list) /\ cur \in Request
      /\ statusPlaying = EventsIn(list, "PLAYING") /\ statusPause = EventsIn(list, "PAUSE")
      /\ cur.req = "REGISTER" => cur.handle \in Handles
  BY <1>1, ComparingFacts
<1>3. list' \in Seq(Entry) /\ Unique(list') /\ StatusOf(list')
  <2>1. CASE quiet
    <3>1. SameHandles(list, list)
      BY <1>2 DEF SameHandles
    <3>2. list' = Commit(list) /\ StatusOf(list')
      BY <2>1 DEF Finish, UpdatePhoneStatus, StatusOf
    <3> QED
      BY <1>1, <3>1, <3>2, CommitKeeps
  <2>2. CASE ~quiet
    BY <1>2, <2>2 DEF Finish, StatusOf, statusVars
  <2> QED
    BY <2>1, <2>2
<1>4. session' \in Sessions
  BY <1>1 DEF Finish, StartSession, SessionAfter, Sessions
<1>5. held' \subseteq [pid : Pids, handle : Handles, event : Events]
  <2>1. cur.req = "REGISTER" =>
          [pid |-> cur.pid, handle |-> reply.alloc, event |-> cur.event]
            \in [pid : Pids, handle : Handles, event : Events]
    BY <1>1, <1>2 DEF Request
  <2> QED
    BY <1>1, <2>1 DEF Finish, Learn
<1> QED
  BY <1>3, <1>4, <1>5, IdleStep DEF Finish
-----------------------------------------------------------------------------
(* The theorems.                                                           *)

LEMMA InitIInv == ASSUME Init PROVE IInv
<1>1. TypeOK
  <2>1. reply \in Reply /\ session \in Sessions
    BY DEF Init, NoReply, Reply, Commands, Sessions
  <2>2. updated \in BOOLEAN /\ quiet \in BOOLEAN
    BY Zenon DEF Init
  <2>3. list \in Seq(Entry) /\ inbox \in Seq(Request)
    BY EmptySeq DEF Init
  <2>4. unread \in 0 .. AnswerRoom
    BY AsmAssumption DEF Init
  <2> QED
    BY <2>1, <2>2, <2>3, <2>4 DEF Init, TypeOK
<1>2. HandlesUnique /\ StatusConsistent
  BY DEF Init, HandlesUnique, StatusConsistent, EventsIn
<1>3. ComparisonAnswers /\ WalkInv
  BY DEF Init, ComparisonAnswers, WalkInv, Comparing, Returning, NoReply
<1> QED
  BY <1>1, <1>2, <1>3 DEF IInv

\* Every step of the clients and of the server preserves the inductive invariant.
LEMMA StepIInv == ASSUME IInv, [Next]_vars PROVE IInv'
<1>1. CASE Clients
  BY <1>1, ClientsKeep DEF Clients
<1>2. CASE \E p \in Pids : Die(p)
  BY <1>2, ClientsKeep
<1>3. CASE CallbackAnswered \/ CallbackFailed \/ CallbackTimedOut
  BY <1>3, WorkerKeeps DEF CallbackAnswered, CallbackFailed, CallbackTimedOut
<1>4. CASE Server
  <2>1. CASE Accept
    BY <2>1, AcceptKeeps
  <2>2. CASE DoUnregister \/ EmergentExit \/ EmergentDone \/ ReapOne \/ ReapDone
             \/ RegisterFull \/ SetStateDirectly \/ AnswerMyState
    BY <2>2, OutsideKeeps
  <2>3. CASE DispatchRegister \/ DispatchPlay
    BY <2>3, DispatchKeeps
  <2>4. CASE WalkSkip \/ WalkPass \/ WalkRefuse \/ WalkCaseNone \/ WalkInterrupt
    BY <2>4, VisitKeeps
  <2>5. CASE MonitorReturned
    BY <2>5, MonitorKeeps
  <2>6. CASE WalkEnd \/ StartPausedPass \/ PausedOwn \/ PausedSkip \/ PausedInterrupt \/ PausedEnd
    BY <2>6, PausedKeeps
  <2>7. CASE Finish
    BY <2>7, FinishKeeps
  <2> QED
    BY <1>3, <1>4, <2>1, <2>2, <2>3, <2>4, <2>5, <2>6, <2>7 DEF Server
<1>5. CASE UNCHANGED vars
  <2>1. /\ inbox' \in Seq(Request) /\ unread' \in 0 .. AnswerRoom /\ alive' \subseteq Pids
        /\ held' \subseteq [pid : Pids, handle : Handles, event : Events]
    BY <1>5 DEF vars, clientVars, IInv, TypeOK
  <2> QED
    BY <1>5, <2>1, ClientStep DEF vars
<1> QED
  BY <1>1, <1>2, <1>3, <1>4, <1>5 DEF Next

\* The inductive invariant holds throughout every behaviour.
THEOREM Inductive == Spec => []IInv
BY InitIInv, StepIInv, PTL DEF Spec

\* Every variable keeps to its type: the walk never visits a position beyond the list, and every
\* handle handed out is one of the table's.
THEOREM TypeCorrect == Spec => []TypeOK
<1>1. IInv => TypeOK
  BY DEF IInv
<1> QED
  BY <1>1, Inductive, PTL

\* No two instances ever share a handle, however many callbacks a registration waits for.
THEOREM HandlesStayUnique == Spec => []HandlesUnique
<1>1. IInv => HandlesUnique
  BY DEF IInv
<1> QED
  BY <1>1, Inductive, PTL

\* The cached status words agree with the list outside the dead-process loop.
THEOREM StatusStaysConsistent == Spec => []StatusConsistent
<1>1. IInv => StatusConsistent
  BY DEF IInv
<1> QED
  BY <1>1, Inductive, PTL

\* A comparison that has ended has written the command of its answer, on every way through both
\* loops.
THEOREM ComparisonAlwaysAnswers == Spec => []ComparisonAnswers
<1>1. IInv => ComparisonAnswers
  BY DEF IInv
<1> QED
  BY <1>1, Inductive, PTL
-----------------------------------------------------------------------------
(* The list implements a table of handles.                                 *)

\* From l to k: nothing, one fresh handle for one process, or one handle given back.
TableStep(k, l) ==
  \/ OwnedIn(k) = OwnedIn(l)
  \/ \E h \in Handles, p \in Pids :
       h \notin HandlesIn(l) /\ OwnedIn(k) = OwnedIn(l) \cup {<<h, p>>}
  \/ \E o \in OwnedIn(l) : OwnedIn(k) = OwnedIn(l) \ {o}

\* A request that takes effect adds its own handle or none.
LEMMA CommitTable ==
  ASSUME IInv, pc \in Comparing, NEW k, SameHandles(k, list)
  PROVE  TableStep(Commit(k), list)
<1>1. /\ k \in Seq(Entry) /\ Unique(k) /\ HandlesIn(k) = HandlesIn(list)
      /\ OwnedIn(k) = OwnedIn(list) /\ cur \in Request
  BY ComparingFacts, SameHandlesRemains DEF Remains
<1>2. CASE updated
  BY <1>1, <1>2 DEF Commit, TableStep
<1>3. CASE ~updated /\ cur.req = "REGISTER"
  <2>1. cur.handle \in Handles /\ cur.handle \notin HandlesIn(list) /\ cur.pid \in Pids
    BY <1>1, <1>3, ComparingFacts DEF Request
  <2>2. OwnedIn(Commit(k)) = OwnedIn(k) \cup {<<cur.handle, cur.pid>>}
    BY <1>1, <1>3, <2>1, RegisterAdds DEF Commit
  <2> QED
    BY <1>1, <2>1, <2>2 DEF TableStep
<1>4. CASE ~updated /\ cur.req # "REGISTER"
  <2>1. Commit(k) = ChangeState(k, cur.pid, cur.handle, cur.state, cur.resource)
    BY <1>4 DEF Commit
  <2>2. SameHandles(Commit(k), k)
    BY <1>1, <2>1, ChangeStateKeeps DEF Request
  <2> QED
    BY <1>1, <2>2, SameHandlesRemains DEF TableStep
<1> QED
  BY <1>2, <1>3, <1>4

\* A list with the same handles is the same table.
LEMMA SameTable ==
  ASSUME NEW l \in Seq(Entry), NEW k, SameHandles(k, l)
  PROVE  TableStep(k, l)
BY SameHandlesRemains DEF TableStep

\* Outside the comparison the table only shrinks, by one entry at a time.
LEMMA OutsideTable ==
  ASSUME IInv, DoUnregister \/ EmergentExit \/ ReapOne \/ SetStateDirectly
  PROVE  TableStep(list', list)
<1>1. list \in Seq(Entry) /\ Unique(list) /\ (pc # "idle" => cur \in Request)
  BY DEF IInv, TypeOK, HandlesUnique, Unique, WalkInv
<1>2. CASE DoUnregister
  <2>1. PICK rest \in Unregister(list, cur.handle) :
          list' = IF IsNeedResume(cur.event) THEN ResumeAll(rest) ELSE rest
    BY <1>2 DEF DoUnregister
  <2>2. rest \in Seq(Entry) /\ TableStep(rest, list)
    BY <1>1, <2>1, UnregisterRemains DEF Remains, TableStep
  <2>3. OwnedIn(list') = OwnedIn(rest)
    BY <2>1, <2>2, ResetsKeep, SameHandlesRemains
  <2> QED
    BY <2>2, <2>3 DEF TableStep
<1>3. CASE EmergentExit
  <2>1. PICK i \in DOMAIN list : list' \in Unregister(list, list[i].handle)
    BY <1>3 DEF EmergentExit, FirstIn
  <2> QED
    BY <1>1, <2>1, UnregisterRemains DEF TableStep
<1>4. CASE ReapOne
  <2>1. PICK i \in DOMAIN list : list' = RemoveAt(list, i)
    BY <1>4 DEF ReapOne
  <2>2. <<list[i].handle, list[i].pid>> \in OwnedIn(list)
    BY DEF OwnedIn
  <2> QED
    BY <1>1, <2>1, <2>2, RemoveAtRemains DEF TableStep
<1>5. CASE SetStateDirectly
  <2>1. cur.state \in States /\ cur.resource \in SUBSET Resources
    BY <1>1, <1>5 DEF SetStateDirectly, Request
  <2> QED
    BY <1>1, <1>5, <2>1, ChangeStateKeeps, SameTable DEF SetStateDirectly
<1> QED
  BY <1>2, <1>3, <1>4, <1>5

\* The returns of callbacks move no handle; the request they end may enter its own.
LEMMA ReturnedTable ==
  ASSUME IInv, NEW res, MonitorReturned \/ Returned(res)
  PROVE  TableStep(list', list)
<1>1. pc \in Comparing /\ cursor \in Nat \ {0} /\ cursor <= Len(list)
  BY DEF MonitorReturned, Returned, WorkerReturned, PausedReturned, IInv, WalkInv, TypeOK,
         Comparing, Returning
<1>2. /\ list \in Seq(Entry) /\ Visited \in Entry
      /\ \A i \in DOMAIN list : list[i] \in Entry
  BY <1>1, ComparingFacts DEF Visited
<1>3. CASE MonitorReturned
  <2>1. PICK m \in DOMAIN list :
          LET dirty == [list EXCEPT ![m] = [@ EXCEPT !.dirty = TRUE]]
          IN list' = IF pass = "playing" /\ IsNeedResume(cur.event)
                     THEN NeedResume(dirty, list[m].pid, list[m].handle) ELSE dirty
    BY <1>3 DEF MonitorReturned, MonitorOf, FirstIn
  <2> DEFINE k == [list EXCEPT ![m] = [@ EXCEPT !.dirty = TRUE]]
  <2>2. /\ k \in [DOMAIN list -> Entry]
        /\ \A i \in DOMAIN list : /\ k[i].handle = list[i].handle
                                  /\ k[i].pid = list[i].pid
                                  /\ k[i].event = list[i].event
    BY <1>2 DEF Entry
  <2>3. list' = k \/ list' = NeedResume(k, list[m].pid, list[m].handle)
    BY <2>1
  <2> HIDE DEF k
  <2>4. SameHandles(k, list)
    BY <1>2, <2>2, SameLength DEF SameHandles
  <2>5. OwnedIn(list') = OwnedIn(k)
    BY <2>3, <2>4, NeedResumeKeeps, SameHandlesRemains DEF SameHandles
  <2> QED
    BY <1>2, <2>4, <2>5, SameHandlesRemains DEF TableStep
<1>4. CASE WorkerReturned(res)
  <2>1. PICK k \in {AfterStop(Visited, res), AfterPause(Visited, res), AfterMix(Visited, res)} :
          CommitAndStep(Resumable(k, Visited), "PLAY")
    BY <1>4 DEF WorkerReturned
  <2>2. SameHandles(k, list)
    BY <1>2, <2>1, AnswerKeeps
  <2>3. SameHandles(Resumable(k, Visited), list)
    <3>1. SameHandles(NeedResume(k, Visited.pid, Visited.handle), k)
      BY <2>2, NeedResumeKeeps DEF SameHandles
    <3> QED
      BY <2>2, <3>1 DEF Resumable, SameHandles
  <2> QED
    BY <1>1, <2>1, <2>3, CommitTable DEF CommitAndStep
<1>5. CASE PausedReturned(res)
  <2>1. "NONE" \in States /\ {} \in SUBSET Resources
    BY DEF States
  <2> QED
    BY <1>2, <1>5, <2>1, ChangeStateKeeps, SameTable DEF PausedReturned
<1> QED
  BY <1>3, <1>4, <1>5 DEF Returned

LEMMA WalkTable ==
  ASSUME IInv, WalkPass \/ WalkEnd \/ PausedOwn \/ Finish
  PROVE  TableStep(list', list)
<1>1. pc \in Comparing
  BY DEF WalkPass, WalkEnd, PausedOwn, Finish, Walking, Comparing
<1>2. list \in Seq(Entry) /\ cur \in Request
  BY <1>1, ComparingFacts
<1>3. SameHandles(list, list)
  BY <1>2 DEF SameHandles
<1>4. CASE WalkPass
  <2>1. list' = Commit(list)
    BY <1>4 DEF WalkPass, CommitAndStep
  <2> QED
    BY <1>1, <1>3, <2>1, CommitTable
<1>5. CASE WalkEnd
  BY <1>2, <1>5, ResetsKeep, SameTable DEF WalkEnd
<1>6. CASE PausedOwn
  <2>1. cur.state \in States /\ cur.resource \in SUBSET Resources
    BY <1>2 DEF Request
  <2>2. SameHandles(list', list)
    BY <1>2, <1>3, <1>6, <2>1, ChangeStateKeeps DEF PausedOwn
  <2> QED
    BY <1>2, <2>2, SameTable
<1>7. CASE Finish
  <2>1. list' = Commit(list) \/ list' = list
    BY <1>7 DEF Finish
  <2> QED
    BY <1>1, <1>2, <1>3, <2>1, CommitTable, SameTable
<1> QED
  BY <1>4, <1>5, <1>6, <1>7

\* Every step of the server and of its clients is a step of the table, or none.
LEMMA StepTable == ASSUME IInv, [Next]_vars PROVE TableStep(list', list)
<1>1. CASE list' = list
  BY <1>1 DEF TableStep
<1>2. CASE DoUnregister \/ EmergentExit \/ ReapOne \/ SetStateDirectly
  BY <1>2, OutsideTable
<1>3. CASE MonitorReturned \/ \E res : Returned(res)
  BY <1>3, ReturnedTable
<1>4. CASE WalkPass \/ WalkEnd \/ PausedOwn \/ Finish
  BY <1>4, WalkTable
<1>5. list' = list \/ Server \/ \E res : Returned(res)
  <2>1. CASE Clients \/ \E p \in Pids : Die(p)
    <3>1. \A m : Send(m) => list' = list
      BY DEF Send
    <3>2. \A p \in Pids : SendRegister(p) \/ SendSetState(p) => list' = list
      BY <3>1 DEF SendRegister, SendSetState
    <3>3. \A p \in Pids : SendUnregister(p) \/ SendPlain(p) => list' = list
      BY <3>1 DEF SendUnregister, SendPlain
    <3>4. \A p \in Pids : Die(p) => list' = list
      BY DEF Die
    <3> QED
      BY <2>1, <3>2, <3>3, <3>4 DEF Clients
  <2>2. CASE CallbackAnswered \/ CallbackFailed
    BY <2>2 DEF CallbackAnswered, CallbackFailed
  <2>3. CASE UNCHANGED vars
    BY <2>3 DEF vars
  <2> QED
    BY <2>1, <2>2, <2>3 DEF Next
<1>6. CASE Server
  <2>1. \/ list' = list \/ DoUnregister \/ EmergentExit \/ ReapOne \/ SetStateDirectly
        \/ MonitorReturned \/ (\E res : Returned(res)) \/ WalkPass \/ WalkEnd \/ PausedOwn \/ Finish
    BY <1>6 DEF Server, Accept, EmergentDone, ReapDone, DispatchRegister, RegisterFull,
         DispatchPlay, StartCompare, AnswerMyState, WalkSkip, WalkRefuse, WalkCaseNone,
         WalkInterrupt, CallbackTimedOut, StartPausedPass, PausedSkip, PausedInterrupt, PausedEnd
  <2> QED
    BY <1>1, <1>2, <1>3, <1>4, <2>1
<1> QED
  BY <1>1, <1>3, <1>5, <1>6

\* The audio session manager implements the abstract table: a handle has one owner at a time and
\* is granted to the next one only after it has been released.
THEOREM ImplementsHandleTable == Spec => HandsOutHandles
<1>1. Init => Table!Init
  BY DEF Init, Table!Init, OwnedIn
<1>2. IInv /\ [Next]_vars => [Table!Next]_(OwnedIn(list))
  <2> SUFFICES ASSUME IInv, [Next]_vars
               PROVE  Table!Next \/ OwnedIn(list') = OwnedIn(list)
    BY DEF OwnedIn
  <2>1. TableStep(list', list)
    BY StepTable
  <2>2. ASSUME NEW h \in Handles, NEW p \in Pids, h \notin HandlesIn(list),
               OwnedIn(list') = OwnedIn(list) \cup {<<h, p>>}
        PROVE  Table!Next
    <3>1. h \notin Table!Used
      BY <2>2 DEF Table!Used, OwnedIn, HandlesIn
    <3>2. Table!Grant(h, p)
      BY <2>2, <3>1 DEF Table!Grant, OwnedIn
    <3> QED
      BY <3>2 DEF Table!Next, Table!Ids, Handles
  <2>3. ASSUME NEW o \in OwnedIn(list), OwnedIn(list') = OwnedIn(list) \ {o}
        PROVE  Table!Next
    BY <2>3 DEF Table!Next, Table!Release, OwnedIn
  <2> QED
    BY <2>1, <2>2, <2>3 DEF TableStep
<1> QED
  BY <1>1, <1>2, Inductive, PTL DEF Spec, HandsOutHandles, Table!Spec
=============================================================================
