---------------------------- MODULE IpcListProofs ----------------------------
(***************************************************************************)
(* Proofs about the two lists of Ipc: that what a process was told about   *)
(* its callbacks is what the lists of the server say, for any number of    *)
(* processes, threads and calls, as long as no request was given up.       *)
(***************************************************************************)
EXTENDS IpcProofs

\* The entry is in the list.
In(e, l) == \E i \in 1 .. Len(l) : l[i] = e

\* The process has an entry with the number of its call, or none at all.
Listed(l, p, n) == In([pid |-> p, n |-> n], l)
Absent(l, p)    == \A e \in Entries : In(e, l) => e.pid # p

\* A process has one entry in a list.
OneEntry(l) == \A i, h \in 1 .. Len(l) : l[i].pid = l[h].pid => i = h

\* What the process asks for, while one of its threads waits.
Asked(p) == call[owner[p]].kind

\* The request is about a list, and the list is as the request wants it.
Subscribes(kind) == kind \in Adds \union Removes
Done(p) == IF Asked(p) \in Adds THEN Listed(list[ListOf[Asked(p)]], p, sent[p])
                                ELSE Absent(list[ListOf[Asked(p)]], p)

\* The message under way is about what the process asks for, and it is answered when that is done.
Carries(p) ==
  /\ \A i \in DOMAIN requests : requests[i].pid = p => requests[i].kind = Asked(p)
  /\ \A j \in jobs : j.pid = p =>
       /\ j.kind = Asked(p)
       /\ j.answer # "none" /\ Subscribes(Asked(p)) => j.answer = Asked(p) /\ Done(p)
  /\ answers[p] # <<>> /\ Subscribes(Asked(p)) => answers[p][1].kind = Asked(p) /\ Done(p)

\* While it asks about a list, the process does not know its place in it; otherwise it does.
Knows(p) ==
  /\ owner[p] # Nobody /\ Subscribes(Asked(p)) => view[p][ListOf[Asked(p)]] = -1
  /\ \A k \in Lists : /\ view[p][k] = 0 => Absent(list[k], p)
                      /\ view[p][k] > 0 => Listed(list[k], p, view[p][k])

Told(p) == Carries(p) /\ Knows(p)

ListInv ==
  /\ \A k \in Lists : OneEntry(list[k])
  /\ \A p \in Procs : Undisturbed(p) => Told(p)

-----------------------------------------------------------------------------
(* The two operators on lists.                                             *)

LEMMA PositionIs ==
  ASSUME NEW l \in Seq(Entries), NEW p
  PROVE  \/ Position(l, p) = 0 /\ \A i \in 1 .. Len(l) : l[i].pid # p
         \/ Position(l, p) \in 1 .. Len(l) /\ l[Position(l, p)].pid = p
<1> DEFINE IsFirst(i) == l[i].pid = p /\ \A h \in 1 .. i - 1 : l[h].pid # p
           Mine == {i \in 1 .. Len(l) : l[i].pid = p}
<1>1. Len(l) \in Nat
  BY LenProperties
<1>2. CASE Mine = {}
  <2>1. ~ \E i \in 1 .. Len(l) : l[i].pid = p
    BY <1>2
  <2>2. Position(l, p) = 0
    BY <2>1, Zenon DEF Position
  <2> QED
    BY <2>1, <2>2
<1>3. CASE Mine # {}
  <2>1. PICK i \in Mine : \A h \in Mine : i <= h
    <3>1. Mine \subseteq Nat
      BY <1>1
    <3> HIDE DEF Mine
    <3> QED
      BY <1>3, <3>1, LeastNumber
  <2>2. IsFirst(i)
    BY <1>1, <2>1
  <2>3. \E first \in 1 .. Len(l) : IsFirst(first)
    BY <2>1, <2>2
  <2>4. \E first \in 1 .. Len(l) : l[first].pid = p
    BY <2>1
  <2>5. Position(l, p) = CHOOSE first \in 1 .. Len(l) : IsFirst(first)
    BY <2>4, Zenon DEF Position
  <2>6. Position(l, p) \in 1 .. Len(l) /\ IsFirst(Position(l, p))
    <3> HIDE DEF IsFirst
    <3> QED
      BY <2>3, <2>5
  <2> QED
    BY <2>6
<1> QED
  BY <1>2, <1>3

\* A list that was added to has the new entry, and those of the others.
LEMMA AddedIs ==
  ASSUME NEW l \in Seq(Entries), NEW p \in Procs, NEW n \in Numbers, OneEntry(l)
  PROVE  /\ Listed(Added(l, p, n), p, n)
         /\ \A e \in Entries : e.pid # p => (In(e, Added(l, p, n)) <=> In(e, l))
         /\ OneEntry(Added(l, p, n))
<1> DEFINE a == [pid |-> p, n |-> n]
           m == Added(l, p, n)
<1>1. a \in Entries /\ a.pid = p
  BY DEF Entries
<1>2. Len(l) \in Nat
  BY LenProperties
<1>3. CASE Position(l, p) = 0
  <2>1. m = Append(l, a)
    BY <1>3 DEF Added
  <2>2. /\ Len(m) = Len(l) + 1 /\ m[Len(l) + 1] = a
        /\ \A i \in 1 .. Len(l) : m[i] = l[i]
    BY <1>1, <2>1, AppendProperties
  <2>3. \A i \in 1 .. Len(l) : l[i].pid # p
    BY <1>2, <1>3, PositionIs
  <2> HIDE DEF m, a
  <2>4. \A i \in 1 .. Len(m) : i = Len(l) + 1 \/ i \in 1 .. Len(l)
    BY <1>2, <2>2
  <2>5. \A i \in 1 .. Len(l) : i \in 1 .. Len(m)
    BY <1>2, <2>2
  <2>6. In(a, m)
    BY <1>2, <2>2 DEF In
  <2>7. \A e \in Entries : e.pid # p => (In(e, m) <=> In(e, l))
    BY <1>1, <2>2, <2>4, <2>5 DEF In
  <2>8. OneEntry(m)
    BY <1>1, <2>2, <2>3, <2>4 DEF OneEntry
  <2> QED
    BY <2>6, <2>7, <2>8 DEF Listed, m, a
<1>4. CASE Position(l, p) # 0
  <2> DEFINE x == Position(l, p)
  <2>1. x \in 1 .. Len(l) /\ l[x].pid = p
    BY <1>2, <1>4, PositionIs
  <2>2. m = [l EXCEPT ![x] = a]
    BY <1>4 DEF Added
  <2>3. Len(m) = Len(l) /\ \A i \in 1 .. Len(l) : m[i] = IF i = x THEN a ELSE l[i]
    <3>1. DOMAIN l = 1 .. Len(l)
      BY LenProperties
    <3> HIDE DEF x, a
    <3>2. m \in Seq(Entries) /\ Len(m) = Len(l)
      BY <1>1, <2>1, <2>2, ExceptSeq
    <3> QED
      BY <2>2, <3>1, <3>2
  <2> HIDE DEF m, a, x
  <2>4. In(a, m)
    BY <2>1, <2>3 DEF In
  <2>5. \A e \in Entries : e.pid # p => (In(e, m) <=> In(e, l))
    BY <1>1, <2>1, <2>3 DEF In
  <2>6. OneEntry(m)
    BY <1>1, <2>1, <2>3 DEF OneEntry
  <2> QED
    BY <2>4, <2>5, <2>6 DEF Listed, m, a
<1> QED
  BY <1>3, <1>4

\* A list that was removed from has no entry of the process, and those of the others.
LEMMA RemovedIs ==
  ASSUME NEW l \in Seq(Entries), NEW p \in Procs, OneEntry(l)
  PROVE  /\ Absent(Removed(l, p), p)
         /\ \A e \in Entries : e.pid # p => (In(e, Removed(l, p)) <=> In(e, l))
         /\ OneEntry(Removed(l, p))
<1> DEFINE m == Removed(l, p)
<1>1. Len(l) \in Nat
  BY LenProperties
<1>2. CASE Position(l, p) = 0
  <2>1. m = l
    BY <1>2 DEF Removed
  <2>2. \A i \in 1 .. Len(l) : l[i].pid # p
    BY <1>1, <1>2, PositionIs
  <2> QED
    BY <2>1, <2>2 DEF Absent, In
<1>3. CASE Position(l, p) # 0
  <2> DEFINE x == Position(l, p)
  <2>1. x \in 1 .. Len(l) /\ l[x].pid = p
    BY <1>1, <1>3, PositionIs
  <2>2. m = SubSeq(l, 1, x - 1) \o SubSeq(l, x + 1, Len(l))
    BY <1>3 DEF Removed
  <2>3. \A i \in 1 .. Len(l) : i # x => l[i].pid # p
    BY <2>1 DEF OneEntry
  <2>4. /\ Len(m) = Len(l) - 1
        /\ \A i \in 1 .. Len(m) : m[i] = l[IF i < x THEN i ELSE i + 1]
    <3> HIDE DEF x, m
    <3>1. \A i \in 1 .. Len(l) : l[i] \in Entries
      BY ElementOfSeq
    <3>2. /\ SubSeq(l, 1, x - 1) \in Seq(Entries)
          /\ Len(SubSeq(l, 1, x - 1)) = x - 1
          /\ \A i \in 1 .. x - 1 : SubSeq(l, 1, x - 1)[i] = l[i]
      <4>1. \A i \in 1 .. x - 1 : l[i] \in Entries
        BY <1>1, <2>1, <3>1
      <4>2. x - 1 \in Int /\ 1 \in Int
        BY <2>1
      <4>3. /\ SubSeq(l, 1, x - 1) \in Seq(Entries)
            /\ Len(SubSeq(l, 1, x - 1)) = IF 1 <= x - 1 THEN x - 1 - 1 + 1 ELSE 0
            /\ \A i \in 1 .. x - 1 - 1 + 1 : SubSeq(l, 1, x - 1)[i] = l[1 + i - 1]
        BY <4>1, <4>2, SubSeqProperties
      <4>4. \A i \in 1 .. x - 1 : i \in 1 .. x - 1 - 1 + 1 /\ 1 + i - 1 = i
        BY <4>2
      <4> QED
        BY <2>1, <4>2, <4>3, <4>4
    <3>3. /\ SubSeq(l, x + 1, Len(l)) \in Seq(Entries)
          /\ Len(SubSeq(l, x + 1, Len(l))) = Len(l) - x
          /\ \A i \in 1 .. Len(l) - x : SubSeq(l, x + 1, Len(l))[i] = l[x + i]
      <4>1. \A i \in x + 1 .. Len(l) : l[i] \in Entries
        BY <1>1, <2>1, <3>1
      <4>2. x + 1 \in Int /\ Len(l) \in Int
        BY <1>1, <2>1
      <4>3. /\ SubSeq(l, x + 1, Len(l)) \in Seq(Entries)
            /\ Len(SubSeq(l, x + 1, Len(l))) = IF x + 1 <= Len(l) THEN Len(l) - (x + 1) + 1 ELSE 0
            /\ \A i \in 1 .. Len(l) - (x + 1) + 1 : SubSeq(l, x + 1, Len(l))[i] = l[x + 1 + i - 1]
        BY <4>1, <4>2, SubSeqProperties
      <4>4. \A i \in 1 .. Len(l) - x : i \in 1 .. Len(l) - (x + 1) + 1 /\ x + 1 + i - 1 = x + i
        BY <2>1, <4>2
      <4> QED
        BY <2>1, <4>2, <4>3, <4>4
    <3> DEFINE u == SubSeq(l, 1, x - 1)
               v == SubSeq(l, x + 1, Len(l))
    <3>4. /\ m = u \o v /\ u \in Seq(Entries) /\ v \in Seq(Entries)
          /\ Len(u) = x - 1 /\ \A i \in 1 .. x - 1 : u[i] = l[i]
          /\ Len(v) = Len(l) - x /\ \A i \in 1 .. Len(l) - x : v[i] = l[x + i]
      BY <2>2, <3>2, <3>3
    <3> HIDE DEF u, v
    <3>5. /\ Len(m) = Len(l) - 1
          /\ \A i \in 1 .. Len(l) - 1 : m[i] = IF i <= x - 1 THEN u[i] ELSE v[i - (x - 1)]
      <4>1. /\ Len(u \o v) = Len(u) + Len(v)
            /\ \A i \in 1 .. Len(u) + Len(v) : (u \o v)[i] = IF i <= Len(u) THEN u[i] ELSE v[i - Len(u)]
        BY <3>4, ConcatProperties
      <4>2. Len(u) + Len(v) = Len(l) - 1
        BY <1>1, <2>1, <3>4
      <4> QED
        BY <3>4, <4>1, <4>2
    <3> SUFFICES ASSUME NEW i \in 1 .. Len(m) PROVE m[i] = l[IF i < x THEN i ELSE i + 1]
      BY <3>5
    <3>6. CASE i < x
      BY <1>1, <2>1, <3>4, <3>5, <3>6
    <3>7. CASE ~(i < x)
      <4>1. i - (x - 1) \in 1 .. Len(l) - x /\ x + (i - (x - 1)) = i + 1 /\ ~(i <= x - 1)
        BY <1>1, <2>1, <3>5, <3>7
      <4>2. m[i] = v[i - (x - 1)]
        BY <1>1, <2>1, <3>5, <4>1
      <4> QED
        BY <3>4, <3>7, <4>1, <4>2
    <3> QED
      BY <3>6, <3>7
  <2> HIDE DEF m, x
  <2>5. \A i \in 1 .. Len(m) : (IF i < x THEN i ELSE i + 1) \in 1 .. Len(l) /\ (IF i < x THEN i ELSE i + 1) # x
    BY <1>1, <2>1, <2>4
  <2>6. \A i \in 1 .. Len(m) : m[i].pid # p
    BY <2>3, <2>4, <2>5
  <2>7. ASSUME NEW e \in Entries, e.pid # p, In(e, l) PROVE In(e, m)
    <3>1. PICK i \in 1 .. Len(l) : l[i] = e
      BY <2>7 DEF In
    <3>2. i # x
      BY <2>1, <2>7, <3>1
    <3> DEFINE h == IF i < x THEN i ELSE i - 1
    <3>3. h \in 1 .. Len(m) /\ (IF h < x THEN h ELSE h + 1) = i
      BY <1>1, <2>1, <2>4, <3>2
    <3> HIDE DEF h
    <3> QED
      BY <2>4, <3>1, <3>3 DEF In
  <2>8. ASSUME NEW e \in Entries, In(e, m) PROVE In(e, l)
    BY <2>4, <2>5, <2>8 DEF In
  <2>9. OneEntry(m)
    <3> SUFFICES ASSUME NEW i \in 1 .. Len(m), NEW h \in 1 .. Len(m), m[i].pid = m[h].pid PROVE i = h
      BY DEF OneEntry
    <3>1. (IF i < x THEN i ELSE i + 1) = (IF h < x THEN h ELSE h + 1)
      BY <2>4, <2>5 DEF OneEntry
    <3>2. Len(m) \in Int /\ x \in Int
      BY <1>1, <2>1, <2>4
    <3> QED
      BY <3>1, <3>2
  <2> QED
    BY <2>6, <2>7, <2>8, <2>9 DEF Absent, In, m
<1> QED
  BY <1>2, <1>3

\* What is in a list is an entry.
LEMMA InEntries ==
  ASSUME NEW l \in Seq(Entries), NEW e, In(e, l)
  PROVE  e \in Entries
BY ElementOfSeq DEF In

-----------------------------------------------------------------------------
(* The inductive invariant.                                                *)

LEMMA ListInit == Init => ListInv
<1> SUFFICES ASSUME Init PROVE ListInv
  OBVIOUS
<1>1. \A k \in Lists : OneEntry(list[k]) /\ \A p : Absent(list[k], p)
  BY DEF Init, OneEntry, Absent, In
<1>2. \A p \in Procs : Carries(p)
  BY DEF Init, Carries
<1>3. \A p \in Procs : Knows(p)
  <2> SUFFICES ASSUME NEW p \in Procs PROVE Knows(p)
    OBVIOUS
  <2>1. owner[p] = Nobody /\ \A k \in Lists : view[p][k] = 0
    BY DEF Init
  <2> QED
    BY <1>1, <2>1 DEF Knows
<1> QED
  BY <1>1, <1>2, <1>3 DEF ListInv, Told

\* A step that leaves alone what is a process's own keeps what it was told true.
LEMMA ToldKept ==
  ASSUME TypeOK, Alone, NEW p \in Procs, Undisturbed(p), Told(p),
         owner'[p] = owner[p], owner[p] # Nobody => call'[owner[p]] = call[owner[p]],
         sent'[p] = sent[p], view'[p] = view[p], answers'[p] = answers[p],
         \A i \in DOMAIN requests' : requests'[i].pid = p =>
           \E h \in DOMAIN requests : requests[h] = requests'[i],
         \A j \in jobs' : j.pid = p => j \in jobs,
         \A k \in Lists, e \in Entries : e.pid = p => (In(e, list'[k]) <=> In(e, list[k]))
  PROVE  Told(p)'
<1>1. \A k \in Lists : Absent(list[k], p) => Absent(list'[k], p)
  BY DEF Absent
<1>2. \A k \in Lists : \A n : Listed(list[k], p, n) => Listed(list'[k], p, n)
  <2> SUFFICES ASSUME NEW k \in Lists, NEW n, Listed(list[k], p, n) PROVE Listed(list'[k], p, n)
    OBVIOUS
  <2>1. [pid |-> p, n |-> n] \in Entries
    BY InEntries DEF TypeOK, Listed
  <2> QED
    BY <2>1 DEF Listed
<1>3. \A k \in Lists : /\ view'[p][k] = 0 => Absent(list'[k], p)
                       /\ view'[p][k] > 0 => Listed(list'[k], p, view'[p][k])
  BY <1>1, <1>2 DEF Told, Knows
<1>4. CASE owner[p] = Nobody
  <2>1. /\ \A i \in DOMAIN requests' : requests'[i].pid # p
        /\ \A j \in jobs' : j.pid # p
        /\ answers'[p] = <<>>
    BY <1>4, NothingUnderWay
  <2>2. Carries(p)'
    BY <2>1 DEF Carries
  <2>3. Knows(p)'
    BY <1>3, <1>4 DEF Knows
  <2> QED
    BY <2>2, <2>3 DEF Told
<1>5. CASE owner[p] # Nobody
  <2>1. Asked(p)' = Asked(p)
    BY <1>5 DEF Asked
  <2>2. Subscribes(Asked(p)) /\ Done(p) => Done(p)'
    <3> SUFFICES ASSUME Subscribes(Asked(p)), Done(p) PROVE Done(p)'
      OBVIOUS
    <3>1. ListOf[Asked(p)] \in Lists
      BY ListOfType DEF Subscribes
    <3> QED
      BY <1>1, <1>2, <2>1, <3>1 DEF Done
  <2>3. Carries(p)'
    BY <2>1, <2>2 DEF Told, Carries
  <2>4. Knows(p)'
    BY <1>3, <1>5, <2>1 DEF Told, Knows
  <2> QED
    BY <2>3, <2>4 DEF Told
<1> QED
  BY <1>4, <1>5

\* Most steps leave the lists, and what is under way, as they are.
LEMMA ListQuiet ==
  ASSUME TypeOK, OwnerWaits, Alone, ListInv,
         UNCHANGED <<requests, answers, jobs, sent, view, list>>,
         \A p \in Procs : Undisturbed(p)' => Undisturbed(p) /\ owner'[p] = owner[p],
         \A t \in Threads : at[t] = "wait" => call'[t] = call[t]
  PROVE  ListInv'
<1>1. \A k \in Lists : OneEntry(list'[k])
  BY DEF ListInv
<1>2. ASSUME NEW p \in Procs, Undisturbed(p)' PROVE Told(p)'
  <2>1. Undisturbed(p) /\ Told(p) /\ owner'[p] = owner[p]
    BY <1>2 DEF ListInv
  <2>2. owner[p] # Nobody => call'[owner[p]] = call[owner[p]]
    BY <2>1 DEF TypeOK, OwnerWaits, Undisturbed
  <2>3. \A i \in DOMAIN requests' : requests'[i].pid = p => \E h \in DOMAIN requests : requests[h] = requests'[i]
    OBVIOUS
  <2> QED
    BY <2>1, <2>2, <2>3, ToldKept
<1> QED
  BY <1>1, <1>2 DEF ListInv

\* A request leaves the process in doubt about the list it is about.
LEMMA ListSend ==
  ASSUME TypeOK, OwnerWaits, MutexExists, Alone, ListInv, NEW t \in Threads, Send(t)
  PROVE  ListInv'
<1> DEFINE p == ProcOf[t]
           r == [pid |-> p, n |-> sent[p] + 1, kind |-> call[t].kind, cb |-> call[t].cb]
<1>1. p \in Procs /\ t # Nobody
  BY Processes
<1>2. requests \in Seq(Requests) /\ r \in Requests
  BY <1>1 DEF TypeOK, Requests, Numbers
<1>3. /\ requests' = Append(requests, r)
      /\ at[t] = "lock" /\ MutexFree(p)
      /\ owner' = [owner EXCEPT ![p] = t]
      /\ sent' = [sent EXCEPT ![p] = @ + 1]
      /\ view' = IF r.kind \in Adds \union Removes
                 THEN [view EXCEPT ![p][ListOf[r.kind]] = -1] ELSE view
      /\ UNCHANGED <<call, answers, jobs, reset, strays, list>>
  BY DEF Send, server
<1>4. /\ DOMAIN requests = 1 .. Len(requests) /\ Len(requests) \in Nat
      /\ DOMAIN requests' = 1 .. Len(requests) + 1
      /\ \A i \in 1 .. Len(requests) : requests'[i] = requests[i]
      /\ requests'[Len(requests) + 1] = r
  <2> HIDE DEF r
  <2>1. requests' \in Seq(Requests) /\ Len(requests') = Len(requests) + 1
    BY <1>2, <1>3, AppendProperties
  <2> QED
    BY <1>2, <1>3, <2>1, AppendProperties, LenProperties
<1>5. \A k \in Lists : OneEntry(list'[k])
  BY <1>3 DEF ListInv
<1>6. ASSUME NEW q \in Procs, Undisturbed(q)' PROVE Told(q)'
  <2>1. Undisturbed(q) /\ Told(q)
    BY <1>3, <1>6 DEF ListInv, Undisturbed
  <2>2. CASE q = p
    <3>0. owner[p] = Nobody
      BY <1>3, <2>1, <2>2 DEF MutexFree, MutexExists, Undisturbed
    <3>1. /\ \A i \in DOMAIN requests : requests[i].pid # p
          /\ \A j \in jobs : j.pid # p
          /\ answers[p] = <<>>
      BY <1>1, <2>1, <2>2, <3>0, NothingUnderWay
    <3>2. Asked(p)' = r.kind
      BY <1>1, <1>3 DEF TypeOK, Asked
    <3> HIDE DEF p, r
    <3>3. Carries(p)'
      BY <1>3, <1>4, <3>1, <3>2 DEF Carries
    <3>4. ASSUME Subscribes(r.kind) PROVE Knows(p)'
      <4>1. view'[p] = [view[p] EXCEPT ![ListOf[r.kind]] = -1] /\ ListOf[r.kind] \in Lists
        BY <1>1, <1>3, <3>4, ListOfType DEF TypeOK, Subscribes
      <4>2. view[p] \in [Lists -> Nat \union {-1}]
        BY <1>1 DEF TypeOK
      <4>3. view'[p][ListOf[r.kind]] = -1 /\ \A k \in Lists : view'[p][k] = -1 \/ view'[p][k] = view[p][k]
        BY <4>1, <4>2
      <4> QED
        BY <1>3, <2>1, <2>2, <3>2, <4>3 DEF Told, Knows
    <3>5. ASSUME ~ Subscribes(r.kind) PROVE Knows(p)'
      <4>1. view' = view
        BY <1>3, <3>5 DEF Subscribes
      <4> QED
        BY <1>3, <2>1, <2>2, <3>2, <3>5, <4>1 DEF Told, Knows
    <3> QED
      BY <2>2, <3>3, <3>4, <3>5 DEF Told
  <2>3. CASE q # p
    <3>1. r.pid = p /\ sent'[q] = sent[q] /\ owner'[q] = owner[q]
      BY <1>1, <1>3, <2>3 DEF TypeOK
    <3>2. view'[q] = view[q]
      BY <1>1, <1>3, <2>3 DEF TypeOK
    <3>3. \A i \in DOMAIN requests' : requests'[i].pid = q =>
            \E h \in DOMAIN requests : requests[h] = requests'[i]
      BY <1>4, <2>3, <3>1
    <3> HIDE DEF p, r
    <3> QED
      BY <1>3, <2>1, <3>1, <3>2, <3>3, ToldKept
  <2> QED
    BY <2>2, <2>3
<1> QED
  BY <1>5, <1>6 DEF ListInv

\* A successful answer says what has been done to the list.
LEMMA ListReceive ==
  ASSUME TypeOK, OwnerWaits, Alone, ListInv, NEW t \in Threads, Receive(t)
  PROVE  ListInv'
<1> DEFINE p == ProcOf[t]
           kind == call[t].kind
<1>1. p \in Procs /\ at[t] = "wait" /\ (Undisturbed(p) => owner[p] = t) /\ t # Nobody
  BY Processes DEF Receive, OwnerWaits, Undisturbed
<1>2. /\ answers[p] # <<>>
      /\ answers' = [answers EXCEPT ![p] = Tail(@)]
      /\ owner' = [owner EXCEPT ![p] = Nobody]
      /\ call' = [call EXCEPT ![t] = NoCall]
      /\ UNCHANGED <<requests, jobs, list, sent, reset, strays>>
  BY DEF Receive, Returns, server
<1>3. view' = IF Fits(kind, Head(answers[p]).kind) /\ Subscribes(kind)
              THEN [view EXCEPT ![p][ListOf[kind]] = IF kind \in Adds THEN sent[p] ELSE 0]
              ELSE view
  BY DEF Receive, Subscribes
<1>4. Subscribes(kind) => ListOf[kind] \in Lists
  BY ListOfType DEF Subscribes
<1> HIDE DEF kind
<1>5. \A k \in Lists : OneEntry(list'[k])
  BY <1>2 DEF ListInv
<1>6. ASSUME NEW q \in Procs, Undisturbed(q)' PROVE Told(q)'
  <2>1. Undisturbed(q) /\ Told(q) /\ OneMessage(q)
    BY <1>2, <1>6 DEF ListInv, Alone, Undisturbed
  <2>2. CASE q = p
    <3>1. Asked(p) = kind
      BY <1>1, <2>1, <2>2 DEF Asked, kind
    <3>2. /\ \A i \in DOMAIN requests : requests[i].pid # p
          /\ \A j \in jobs : j.pid # p
      BY <1>2, <2>1, <2>2 DEF OneMessage
    <3>3. answers'[p] = <<>> /\ Head(answers[p]) = answers[p][1]
      <4>1. answers[p] \in Seq(Answers) /\ Len(answers[p]) = 1
        BY <1>1, <1>2, <2>1, <2>2 DEF TypeOK, OneMessage
      <4>2. Tail(answers[p]) \in Seq(Answers) /\ Len(Tail(answers[p])) = 0 /\ Head(answers[p]) = answers[p][1]
        BY <1>2, <4>1, HeadTailProperties
      <4>3. Tail(answers[p]) = <<>>
        BY <4>2, EmptySeq
      <4> QED
        BY <1>1, <1>2, <4>2, <4>3 DEF TypeOK
    <3>4. Carries(p)'
      BY <1>2, <3>2, <3>3 DEF Carries
    <3>5. view[p] \in [Lists -> Nat \union {-1}] /\ owner'[p] = Nobody
      BY <1>1, <1>2 DEF TypeOK
    <3>6. ASSUME Subscribes(kind) PROVE Knows(p)'
      <4>1. answers[p][1].kind = kind /\ Done(p)
        BY <1>2, <2>1, <2>2, <3>1, <3>6 DEF Told, Carries
      <4>2. Fits(kind, Head(answers[p]).kind)
        BY <3>3, <4>1 DEF Fits
      <4>3. view' = [view EXCEPT ![p][ListOf[kind]] = IF kind \in Adds THEN sent[p] ELSE 0]
        BY <1>3, <3>6, <4>2
      <4>4. /\ view'[p][ListOf[kind]] = IF kind \in Adds THEN sent[p] ELSE 0
            /\ \A k \in Lists : k # ListOf[kind] => view'[p][k] = view[p][k]
        <5>1. view'[p] = [view[p] EXCEPT ![ListOf[kind]] = IF kind \in Adds THEN sent[p] ELSE 0]
          BY <1>1, <4>3 DEF TypeOK
        <5> QED
          BY <1>4, <3>5, <3>6, <5>1
      <4>5. IF kind \in Adds THEN Listed(list[ListOf[kind]], p, sent[p]) /\ sent[p] > 0
                             ELSE Absent(list[ListOf[kind]], p)
        <5>1. ASSUME kind \in Adds PROVE Listed(list[ListOf[kind]], p, sent[p]) /\ sent[p] > 0
          <6>1. Listed(list[ListOf[kind]], p, sent[p])
            BY <3>1, <4>1, <5>1 DEF Done
          <6>2. [pid |-> p, n |-> sent[p]] \in Entries
            BY <1>4, <3>6, <6>1, InEntries DEF TypeOK, Listed
          <6>3. sent[p] \in Numbers
            BY <6>2 DEF Entries
          <6> QED
            BY <6>1, <6>3 DEF Numbers
        <5> QED
          BY <3>1, <4>1, <5>1 DEF Done
      <4>6. \A k \in Lists : /\ view'[p][k] = 0 => Absent(list[k], p)
                             /\ view'[p][k] > 0 => Listed(list[k], p, view'[p][k])
        <5> SUFFICES ASSUME NEW k \in Lists
                     PROVE  /\ view'[p][k] = 0 => Absent(list[k], p)
                            /\ view'[p][k] > 0 => Listed(list[k], p, view'[p][k])
          OBVIOUS
        <5>1. CASE k # ListOf[kind]
          BY <2>1, <2>2, <4>4, <5>1 DEF Told, Knows
        <5>2. CASE k = ListOf[kind]
          BY <4>4, <4>5, <5>2
        <5> QED
          BY <5>1, <5>2
      <4> QED
        BY <1>2, <3>5, <4>6 DEF Knows
    <3>7. ASSUME ~ Subscribes(kind) PROVE Knows(p)'
      BY <1>2, <1>3, <2>1, <2>2, <3>5, <3>7 DEF Told, Knows
    <3> QED
      BY <2>2, <3>4, <3>6, <3>7 DEF Told
  <2>3. CASE q # p
    <3>1. answers'[q] = answers[q] /\ owner'[q] = owner[q] /\ view'[q] = view[q]
      BY <1>1, <1>2, <1>3, <2>3 DEF TypeOK
    <3>2. owner[q] # Nobody => call'[owner[q]] = call[owner[q]]
      BY <1>2, <2>1, <2>3 DEF TypeOK, OwnerWaits, Undisturbed
    <3>3. \A i \in DOMAIN requests' : requests'[i].pid = q =>
            \E h \in DOMAIN requests : requests[h] = requests'[i]
      BY <1>2
    <3> QED
      BY <1>2, <2>1, <3>1, <3>2, <3>3, ToldKept
  <2> QED
    BY <2>2, <2>3
<1> QED
  BY <1>5, <1>6 DEF ListInv

\* A process that gives up, or is gone, does not know any more.
LEMMA ListGivesUp ==
  ASSUME TypeOK, OwnerWaits, Alone, ListInv, NEW p \in Procs,
         UNCHANGED <<requests, answers, jobs, sent, list>>,
         \A q \in Procs \ {p} : /\ owner'[q] = owner[q] /\ strays'[q] = strays[q] /\ view'[q] = view[q]
                                /\ reset'[q] = reset[q]
                                /\ Undisturbed(q) /\ owner[q] # Nobody => call'[owner[q]] = call[owner[q]],
         owner'[p] = Nobody,
         Undisturbed(p)' => /\ Undisturbed(p) /\ owner[p] = Nobody
                           /\ \A k \in Lists : view'[p][k] = -1
  PROVE  ListInv'
<1>1. \A k \in Lists : OneEntry(list'[k])
  BY DEF ListInv
<1>2. ASSUME NEW q \in Procs, Undisturbed(q)' PROVE Told(q)'
  <2>1. CASE q = p
    <3>1. /\ \A i \in DOMAIN requests : requests[i].pid # q
          /\ \A j \in jobs : j.pid # q
          /\ answers[q] = <<>>
      BY <1>2, <2>1, NothingUnderWay
    <3>2. Carries(q)'
      BY <3>1 DEF Carries
    <3>3. Knows(q)'
      BY <1>2, <2>1 DEF Knows
    <3> QED
      BY <3>2, <3>3 DEF Told
  <2>2. CASE q # p
    <3>1. Undisturbed(q) /\ Told(q)
      BY <1>2, <2>2 DEF ListInv, Undisturbed
    <3>2. \A i \in DOMAIN requests' : requests'[i].pid = q =>
            \E h \in DOMAIN requests : requests[h] = requests'[i]
      OBVIOUS
    <3> QED
      BY <2>2, <3>1, <3>2, ToldKept
  <2> QED
    BY <2>1, <2>2
<1> QED
  BY <1>1, <1>2 DEF ListInv

LEMMA ListTimesOut ==
  ASSUME TypeOK, OwnerWaits, Alone, ListInv, NEW t \in Threads, TimesOut(t)
  PROVE  ListInv'
<1> DEFINE p == ProcOf[t]
<1>1. p \in Procs /\ at[t] = "wait"
  BY Processes DEF TimesOut
<1>2. /\ owner' = [owner EXCEPT ![p] = Nobody]
      /\ call' = [call EXCEPT ![t] = NoCall]
      /\ strays' = [strays EXCEPT ![p] = @ + 1]
      /\ UNCHANGED <<requests, answers, jobs, sent, reset, list, view>>
  BY DEF TimesOut, Returns, queues, server
<1>3. \A q \in Procs \ {p} : owner'[q] = owner[q] /\ strays'[q] = strays[q] /\ view'[q] = view[q]
  BY <1>1, <1>2 DEF TypeOK
<1>4. \A q \in Procs \ {p} : Undisturbed(q) /\ owner[q] # Nobody => call'[owner[q]] = call[owner[q]]
  BY <1>2 DEF TypeOK, OwnerWaits, Undisturbed
<1>5. ~ Undisturbed(p)' /\ owner'[p] = Nobody
  <2>1. strays'[p] = strays[p] + 1 /\ strays[p] \in Nat
    BY <1>1, <1>2 DEF TypeOK
  <2> QED
    BY <1>1, <1>2, <2>1 DEF TypeOK, Undisturbed
<1> HIDE DEF p
<1> QED
  BY <1>1, <1>2, <1>3, <1>4, <1>5, ListGivesUp

LEMMA ListVanish ==
  ASSUME TypeOK, OwnerWaits, Alone, ListInv, NEW p \in Procs, Vanish(p)
  PROVE  ListInv'
<1>1. /\ owner' = [owner EXCEPT ![p] = Nobody]
      /\ call' = [t \in Threads |-> IF ProcOf[t] = p THEN NoCall ELSE call[t]]
      /\ strays' = [strays EXCEPT ![p] = @ + Cardinality(Waiting(p))]
      /\ view' = [view EXCEPT ![p] = [k \in Lists |-> -1]]
      /\ UNCHANGED <<requests, answers, jobs, sent, reset, list>>
  BY DEF Vanish, queues, server
<1>2. \A q \in Procs \ {p} : owner'[q] = owner[q] /\ strays'[q] = strays[q] /\ view'[q] = view[q]
  BY <1>1 DEF TypeOK
<1>3. \A q \in Procs \ {p} : Undisturbed(q) /\ owner[q] # Nobody => call'[owner[q]] = call[owner[q]]
  BY <1>1 DEF TypeOK, OwnerWaits, Undisturbed
<1>4. ASSUME Undisturbed(p)' PROVE Undisturbed(p) /\ owner[p] = Nobody
  <2>0. strays'[p] = 0 /\ ~ reset[p]
    BY <1>1, <1>4 DEF Undisturbed
  <2>1. strays[p] \in Nat /\ strays'[p] = strays[p] + Cardinality(Waiting(p))
    BY <1>1 DEF TypeOK
  <2>2. strays[p] = 0 /\ Cardinality(Waiting(p)) = 0
    BY <2>0, <2>1, WaitingFinite
  <2>3. Waiting(p) = {}
    BY <2>2, WaitingFinite, FS_EmptySet
  <2>4. owner[p] # Nobody => owner[p] \in Waiting(p)
    BY <2>0 DEF TypeOK, OwnerWaits, Waiting
  <2> QED
    BY <2>0, <2>2, <2>3, <2>4 DEF Undisturbed
<1>5. owner'[p] = Nobody /\ \A k \in Lists : view'[p][k] = -1
  BY <1>1 DEF TypeOK
<1> QED
  BY <1>1, <1>2, <1>3, <1>4, <1>5, ListGivesUp

\* A job is about what the request was about, and has no answer yet.
LEMMA ListDispatch ==
  ASSUME TypeOK, OwnerWaits, Alone, ListInv, Dispatch
  PROVE  ListInv'
<1> DEFINE r == Head(requests)
<1>1. requests \in Seq(Requests) /\ requests # <<>>
  BY DEF TypeOK, Dispatch
<1>2. /\ r = requests[1] /\ Len(requests) \in Nat /\ 1 \in DOMAIN requests
      /\ DOMAIN requests = 1 .. Len(requests) /\ DOMAIN Tail(requests) = 1 .. Len(requests) - 1
      /\ \A i \in 1 .. Len(requests) - 1 : Tail(requests)[i] = requests[i + 1]
  BY <1>1, HeadTailProperties, LenProperties, EmptySeq
<1>3. /\ requests' = Tail(requests)
      /\ jobs' = jobs \union {Job(r)}
      /\ Job(r).pid = r.pid /\ Job(r).kind = r.kind /\ Job(r).answer = "none" /\ r.pid \in Procs
      /\ UNCHANGED <<owner, call, sent, reset, list, view>>
  <2>1. r \in Requests
    BY <1>1, HeadTailProperties
  <2> QED
    BY <2>1 DEF Dispatch, Job, Requests, client
<1>4. \A q \in Procs : strays'[q] = 0 => strays[q] = 0 /\ answers'[q] = answers[q]
  <2>1. CASE UNCHANGED <<answers, strays>>
    BY <2>1
  <2>2. CASE ~ UNCHANGED <<answers, strays>>
    <3>1. /\ answers' = [answers EXCEPT ![r.pid] = Append(@, [n |-> r.n, kind |-> "error"])]
          /\ strays' = [strays EXCEPT ![r.pid] = @ + 1]
      BY <2>2 DEF Dispatch
    <3> HIDE DEF r
    <3> QED
      BY <1>3, <3>1 DEF TypeOK
  <2> QED
    BY <2>1, <2>2
<1>5. \A i \in DOMAIN requests' : i + 1 \in DOMAIN requests /\ requests[i + 1] = requests'[i]
  BY <1>2, <1>3
<1> HIDE DEF r
<1>6. \A k \in Lists : OneEntry(list'[k])
  BY <1>3 DEF ListInv
<1>7. ASSUME NEW q \in Procs, Undisturbed(q)' PROVE Told(q)'
  <2>1. Undisturbed(q) /\ answers'[q] = answers[q] /\ Told(q) /\ OneMessage(q)
    BY <1>3, <1>4, <1>7 DEF ListInv, Alone, Undisturbed
  <2>2. CASE r.pid = q
    <3>1. r.kind = Asked(q) /\ answers[q] = <<>> /\ \A j \in jobs : j.pid # q
      BY <1>2, <2>1, <2>2 DEF Told, Carries, OneMessage
    <3>2. \A j \in jobs' : j.pid = q => j = Job(r)
      BY <1>3, <3>1
    <3>3. Asked(q)' = Asked(q)
      BY <1>3 DEF Asked
    <3>4. \A i \in DOMAIN requests' : requests'[i].pid = q => requests'[i].kind = Asked(q)
      BY <1>5, <2>1 DEF Told, Carries
    <3>5. Carries(q)'
      BY <1>3, <2>1, <3>1, <3>2, <3>3, <3>4 DEF Carries
    <3>6. Knows(q)'
      BY <1>3, <2>1, <3>3 DEF Told, Knows
    <3> QED
      BY <3>5, <3>6 DEF Told
  <2>3. CASE r.pid # q
    <3>1. \A i \in DOMAIN requests' : requests'[i].pid = q =>
            \E h \in DOMAIN requests : requests[h] = requests'[i]
      BY <1>5
    <3>2. \A j \in jobs' : j.pid = q => j \in jobs
      BY <1>3, <2>3
    <3> QED
      BY <1>3, <2>1, <3>1, <3>2, ToldKept
  <2> QED
    BY <2>2, <2>3
<1> QED
  BY <1>6, <1>7 DEF ListInv

\* The kinds of requests have nothing in common.
LEMMA KindsDiffer ==
  /\ \A k \in Sounds \union Queries \union {"setRoute"} : ~ Subscribes(k)
  /\ \A k \in Removes : k \notin Adds
  /\ \A k \in Kinds : Subscribes(k) => k \in Adds \/ k \in Removes
  /\ \A k : Subscribes(k) => k # "telling"
BY DEF Subscribes, Sounds, Plays, Queries, Adds, Removes, Kinds

\* The job that is done for a process is the one message under way for it.
LEMMA ListFinished ==
  ASSUME TypeOK, Alone, ListInv, NEW j \in jobs, NEW answer,
         UNCHANGED <<requests, answers, call, owner, sent, reset, strays, view>>,
         jobs' = Finished(j, answer),
         \A k \in Lists : OneEntry(list'[k]),
         \A q \in Procs, k \in Lists, e \in Entries :
           (q # j.pid \/ ~ Subscribes(j.kind) \/ k # ListOf[j.kind]) /\ e.pid = q =>
             (In(e, list'[k]) <=> In(e, list[k])),
         Subscribes(j.kind) =>
           /\ answer = j.kind
           /\ IF j.kind \in Adds THEN Listed(list'[ListOf[j.kind]], j.pid, j.n)
                                 ELSE Absent(list'[ListOf[j.kind]], j.pid)
  PROVE  ListInv'
<1> DEFINE d == [j EXCEPT !.answer = answer]
<1>1. d.pid = j.pid /\ d.n = j.n /\ d.kind = j.kind /\ d.answer = answer /\ j.pid \in Procs
  BY DEF TypeOK, Jobs
<1>2. \A o \in jobs' : o = d \/ o \in jobs
  BY DEF Finished
<1> HIDE DEF d
<1>3. ASSUME NEW q \in Procs, Undisturbed(q)' PROVE Told(q)'
  <2>1. Undisturbed(q) /\ Told(q) /\ OneMessage(q)
    BY <1>3 DEF ListInv, Alone, Undisturbed
  <2>2. CASE q = j.pid
    <3>1. /\ j.n = sent[q] /\ owner[q] # Nobody /\ answers[q] = <<>>
          /\ \A o \in jobs : o.pid = q => o = j
          /\ \A i \in DOMAIN requests : requests[i].pid # q
      BY <2>1, <2>2 DEF OneMessage
    <3>2. j.kind = Asked(q) /\ Asked(q)' = Asked(q)
      BY <2>1, <2>2 DEF Told, Carries, Asked
    <3>3. \A o \in jobs' : o.pid = q => o.kind = j.kind /\ (Subscribes(j.kind) => o = d \/ o = j)
      BY <1>1, <1>2, <3>1
    <3>4. Subscribes(j.kind) => Done(q)'
      BY <2>2, <3>1, <3>2 DEF Done
    <3>5. Carries(q)'
      <4>1. \A o \in jobs' : o.pid = q =>
              /\ o.kind = Asked(q)
              /\ o.answer # "none" /\ Subscribes(Asked(q)) => o.answer = Asked(q)
        BY <1>1, <2>1, <2>2, <3>2, <3>3 DEF Told, Carries
      <4> QED
        BY <3>1, <3>2, <3>4, <4>1 DEF Carries
    <3>6. ASSUME NEW k \in Lists, k # ListOf[j.kind] \/ ~ Subscribes(j.kind)
          PROVE  /\ view'[q][k] = 0 => Absent(list'[k], q)
                 /\ view'[q][k] > 0 => Listed(list'[k], q, view'[q][k])
      <4>1. \A e \in Entries : e.pid = q => (In(e, list'[k]) <=> In(e, list[k]))
        BY <3>6
      <4>2. Absent(list[k], q) => Absent(list'[k], q)
        BY <4>1 DEF Absent
      <4>3. ASSUME Listed(list[k], q, view[q][k]) PROVE Listed(list'[k], q, view[q][k])
        <5>1. [pid |-> q, n |-> view[q][k]] \in Entries
          BY <4>3, InEntries DEF TypeOK, Listed
        <5> QED
          BY <4>1, <4>3, <5>1 DEF Listed
      <4> QED
        BY <2>1, <4>2, <4>3 DEF Told, Knows
    <3>7. Knows(q)'
      <4>1. Subscribes(j.kind) => view'[q][ListOf[j.kind]] = -1
        BY <2>1, <3>1, <3>2 DEF Told, Knows
      <4>2. \A k \in Lists : /\ view'[q][k] = 0 => Absent(list'[k], q)
                             /\ view'[q][k] > 0 => Listed(list'[k], q, view'[q][k])
        BY <3>6, <4>1
      <4> QED
        BY <3>2, <4>1, <4>2 DEF Knows
    <3> QED
      BY <3>5, <3>7 DEF Told
  <2>3. CASE q # j.pid
    <3>1. \A i \in DOMAIN requests' : requests'[i].pid = q =>
            \E h \in DOMAIN requests : requests[h] = requests'[i]
      OBVIOUS
    <3>2. \A o \in jobs' : o.pid = q => o \in jobs
      BY <1>1, <1>2, <2>3
    <3>3. \A k \in Lists, e \in Entries : e.pid = q => (In(e, list'[k]) <=> In(e, list[k]))
      BY <2>3
    <3> QED
      BY <2>1, <3>1, <3>2, <3>3, ToldKept
  <2> QED
    BY <2>2, <2>3
<1> QED
  BY <1>3 DEF ListInv

LEMMA ListRun ==
  ASSUME TypeOK, Alone, ListInv, NEW j \in jobs, Run(j)
  PROVE  ListInv'
<1>1. UNCHANGED <<requests, answers, call, owner, sent, reset, strays, view>>
  BY DEF Run, RunSound, RunQuery, RunSetRoute, RunAdd, RunRemove, client, queues, ghost
<1>2. j.pid \in Procs /\ j.n \in Numbers /\ list \in [Lists -> Seq(Entries)]
  BY DEF TypeOK, Jobs
<1>3. \A k \in Lists : OneEntry(list[k])
  BY DEF ListInv
<1>4. CASE RunSound(j) \/ RunQuery(j) \/ RunSetRoute(j)
  <2>1. UNCHANGED list /\ ~ Subscribes(j.kind)
    BY <1>4, KindsDiffer DEF RunSound, RunQuery, RunSetRoute
  <2>2. PICK answer : jobs' = Finished(j, answer)
    BY <1>4 DEF RunSound, RunQuery, RunSetRoute
  <2>3. \A k \in Lists : OneEntry(list'[k])
    BY <1>3, <2>1
  <2> QED
    BY <1>1, <2>1, <2>2, <2>3, ListFinished
<1>5. CASE RunAdd(j)
  <2> DEFINE k == ListOf[j.kind]
  <2>1. k \in Lists /\ Subscribes(j.kind) /\ j.kind \in Adds
    BY <1>5, ListOfType DEF RunAdd, Subscribes
  <2>2. jobs' = Finished(j, j.kind) /\ list' = [list EXCEPT ![k] = Added(@, j.pid, j.n)]
    BY <1>5 DEF RunAdd
  <2> HIDE DEF k
  <2>3. list'[k] = Added(list[k], j.pid, j.n) /\ \A h \in Lists : h # k => list'[h] = list[h]
    BY <1>2, <2>1, <2>2
  <2>4. /\ Listed(list'[k], j.pid, j.n)
        /\ \A e \in Entries : e.pid # j.pid => (In(e, list'[k]) <=> In(e, list[k]))
        /\ OneEntry(list'[k])
    BY <1>2, <1>3, <2>1, <2>3, AddedIs
  <2>5. \A h \in Lists : OneEntry(list'[h])
    BY <1>3, <2>3, <2>4
  <2>6. \A q \in Procs, h \in Lists, e \in Entries :
          (q # j.pid \/ ~ Subscribes(j.kind) \/ h # k) /\ e.pid = q =>
            (In(e, list'[h]) <=> In(e, list[h]))
    BY <2>1, <2>3, <2>4
  <2> QED
    BY <1>1, <2>1, <2>2, <2>4, <2>5, <2>6, ListFinished DEF k
<1>6. CASE RunRemove(j)
  <2> DEFINE k == ListOf[j.kind]
  <2>1. k \in Lists /\ Subscribes(j.kind) /\ j.kind \notin Adds
    BY <1>6, ListOfType, KindsDiffer DEF RunRemove, Subscribes
  <2>2. jobs' = Finished(j, j.kind) /\ list' = [list EXCEPT ![k] = Removed(@, j.pid)]
    BY <1>6 DEF RunRemove
  <2> HIDE DEF k
  <2>3. list'[k] = Removed(list[k], j.pid) /\ \A h \in Lists : h # k => list'[h] = list[h]
    BY <1>2, <2>1, <2>2
  <2>4. /\ Absent(list'[k], j.pid)
        /\ \A e \in Entries : e.pid # j.pid => (In(e, list'[k]) <=> In(e, list[k]))
        /\ OneEntry(list'[k])
    BY <1>2, <1>3, <2>1, <2>3, RemovedIs
  <2>5. \A h \in Lists : OneEntry(list'[h])
    BY <1>3, <2>3, <2>4
  <2>6. \A q \in Procs, h \in Lists, e \in Entries :
          (q # j.pid \/ ~ Subscribes(j.kind) \/ h # k) /\ e.pid = q =>
            (In(e, list'[h]) <=> In(e, list[h]))
    BY <2>1, <2>3, <2>4
  <2> QED
    BY <1>1, <2>1, <2>2, <2>4, <2>5, <2>6, ListFinished DEF k
<1> QED
  BY <1>4, <1>5, <1>6 DEF Run

\* The answer says what its job has done.
LEMMA ListAnswer ==
  ASSUME TypeOK, Alone, ListInv, NEW j \in jobs, Answer(j)
  PROVE  ListInv'
<1> DEFINE a == [n |-> j.n, kind |-> j.answer]
<1>1. /\ answers' = [answers EXCEPT ![j.pid] = Append(@, a)]
      /\ jobs' = jobs \ {j} /\ j.answer # "none"
      /\ UNCHANGED <<requests, call, owner, sent, reset, strays, view, list>>
  BY DEF Answer, client, ghost
<1>2. j.pid \in Procs /\ a \in Answers /\ a.kind = j.answer
  BY DEF TypeOK, Jobs, Answer, Answers
<1> HIDE DEF a
<1>3. \A k \in Lists : OneEntry(list'[k])
  BY <1>1 DEF ListInv
<1>4. ASSUME NEW q \in Procs, Undisturbed(q)' PROVE Told(q)'
  <2>1. Undisturbed(q) /\ Told(q) /\ OneMessage(q)
    BY <1>1, <1>4 DEF ListInv, Alone, Undisturbed
  <2>2. CASE q = j.pid
    <3>1. /\ answers[q] = <<>>
          /\ \A o \in jobs : o.pid = q => o = j
          /\ \A i \in DOMAIN requests : requests[i].pid # q
      BY <2>1, <2>2 DEF OneMessage
    <3>2. answers'[q][1] = a
      <4>1. answers'[q] = Append(<<>>, a)
        BY <1>1, <1>2, <2>2, <3>1 DEF TypeOK
      <4> QED
        BY <1>2, <4>1, EmptySeq, AppendProperties
    <3>3. Asked(q)' = Asked(q) /\ (Done(q) => Done(q)')
      BY <1>1 DEF Asked, Done
    <3>4. Subscribes(Asked(q)) => j.answer = Asked(q) /\ Done(q)
      BY <1>1, <2>1, <2>2 DEF Told, Carries
    <3>5. Carries(q)'
      BY <1>1, <1>2, <3>1, <3>2, <3>3, <3>4 DEF Carries
    <3>6. Knows(q)'
      BY <1>1, <2>1, <3>3 DEF Told, Knows
    <3> QED
      BY <3>5, <3>6 DEF Told
  <2>3. CASE q # j.pid
    <3>1. answers'[q] = answers[q]
      BY <1>1, <1>2, <2>3 DEF TypeOK
    <3>2. \A i \in DOMAIN requests' : requests'[i].pid = q =>
            \E h \in DOMAIN requests : requests[h] = requests'[i]
      BY <1>1
    <3> QED
      BY <1>1, <2>1, <3>1, <3>2, ToldKept
  <2> QED
    BY <2>2, <2>3
<1> QED
  BY <1>3, <1>4 DEF ListInv

\* The end of the loop marks a job that is not about a list of callbacks.
LEMMA ListTellDone ==
  ASSUME TypeOK, ListInv, NEW k \in Lists, TellDone(k)
  PROVE  ListInv'
<1>1. UNCHANGED <<requests, answers, call, owner, sent, reset, strays, view, list>>
  BY DEF TellDone, client, queues, ghost
<1>2. \A o \in jobs' : \E j \in jobs :
        /\ o.pid = j.pid /\ o.kind = j.kind
        /\ o.answer = j.answer \/ j.answer = "telling"
  <2>1. \A j \in jobs : /\ [j EXCEPT !.answer = j.kind].pid = j.pid
                        /\ [j EXCEPT !.answer = j.kind].kind = j.kind
    BY DEF TypeOK, Jobs
  <2> QED
    BY <2>1 DEF TellDone
<1>3. \A h \in Lists : OneEntry(list'[h])
  BY <1>1 DEF ListInv
<1>4. ASSUME NEW q \in Procs, Undisturbed(q)' PROVE Told(q)'
  <2>1. Told(q)
    BY <1>1, <1>4 DEF ListInv, Undisturbed
  <2>2. Asked(q)' = Asked(q) /\ (Done(q) => Done(q)')
    BY <1>1 DEF Asked, Done
  <2>3. ASSUME NEW o \in jobs', o.pid = q
        PROVE  /\ o.kind = Asked(q)
               /\ o.answer # "none" /\ Subscribes(Asked(q)) => o.answer = Asked(q) /\ Done(q)
    <3>1. PICK j \in jobs : /\ o.pid = j.pid /\ o.kind = j.kind
                            /\ o.answer = j.answer \/ j.answer = "telling"
      BY <1>2
    <3>2. /\ j.kind = Asked(q)
          /\ j.answer # "none" /\ Subscribes(Asked(q)) => j.answer = Asked(q) /\ Done(q)
      BY <2>1, <2>3, <3>1 DEF Told, Carries
    <3>3. j.answer = "telling" => j.answer # "none"
      OBVIOUS
    <3> QED
      BY <3>1, <3>2, <3>3, KindsDiffer
  <2>4. Carries(q)'
    BY <1>1, <2>1, <2>2, <2>3 DEF Told, Carries
  <2>5. Knows(q)'
    BY <1>1, <2>1, <2>2 DEF Told, Knows
  <2> QED
    BY <2>4, <2>5 DEF Told
<1> QED
  BY <1>3, <1>4 DEF ListInv

LEMMA ListNext == IInv /\ ListInv /\ [Next]_vars => ListInv'
<1> SUFFICES ASSUME TypeOK, OwnerWaits, MutexExists, Alone, ListInv, [Next]_vars PROVE ListInv'
  BY DEF IInv
<1>1. CASE \E t \in Threads : Send(t) \/ Receive(t) \/ TimesOut(t)
  BY <1>1, ListSend, ListReceive, ListTimesOut
<1>2. ASSUME NEW t \in Threads,
             \/ \E kind \in Kinds, cb \in BOOLEAN : Call(t, kind, cb)
             \/ InitMutex(t) \/ MakeThread(t) \/ MemoryRefused(t)
      PROVE  ListInv'
  <2>1. UNCHANGED <<requests, answers, jobs, sent, view, list>>
    BY <1>2 DEF Call, InitMutex, MakeThread, MemoryRefused, queues, server, ghost
  <2>2. at[t] # "wait" /\ \A u \in Threads \ {t} : call'[u] = call[u]
    BY <1>2 DEF TypeOK, Call, InitMutex, MakeThread, MemoryRefused
  <2>3. \A u \in Threads : at[u] = "wait" => call'[u] = call[u]
    BY <2>2
  <2>4. \A p \in Procs : Undisturbed(p)' => Undisturbed(p) /\ owner'[p] = owner[p]
    <3>1. CASE InitMutex(t)
      BY <3>1, Processes DEF TypeOK, InitMutex, Undisturbed
    <3>2. CASE ~ InitMutex(t)
      BY <1>2, <3>2 DEF Call, MakeThread, MemoryRefused, ghost, Undisturbed
    <3> QED
      BY <3>1, <3>2
  <2> QED
    BY <2>1, <2>3, <2>4, ListQuiet
<1>3. CASE \E p \in Procs : Exit(p) \/ FiniDone(p) \/ Ended(p) \/ Die(p)
  <2>1. CASE \E p \in Procs : Vanish(p)
    BY <2>1, ListVanish
  <2>2. ASSUME NEW p \in Procs, DestroyMutex(p) PROVE ListInv'
    <3>1. UNCHANGED <<requests, answers, jobs, sent, view, list, call, owner>>
      BY <2>2 DEF DestroyMutex, queues, server
    <3>2. \A q \in Procs : Undisturbed(q)' => Undisturbed(q)
      BY <2>2 DEF TypeOK, DestroyMutex, Undisturbed
    <3> QED
      BY <3>1, <3>2, ListQuiet
  <2> QED
    BY <1>3, <2>1, <2>2 DEF Exit, FiniDone, Ended, Die
<1>4. CASE UNCHANGED <<requests, answers, jobs, owner, sent, reset, strays, view, list, call>>
  <2>1. \A p \in Procs : Undisturbed(p)' => Undisturbed(p) /\ owner'[p] = owner[p]
    BY <1>4 DEF Undisturbed
  <2> QED
    BY <1>4, <2>1, ListQuiet
<1>5. CASE \E p \in Procs : TakeCallback(p) \/ FiniStart(p) \/ FiniSend(p)
  BY <1>4, <1>5 DEF TakeCallback, FiniStart, FiniSend, queues, server, ghost
<1>6. CASE Dispatch
  BY <1>6, ListDispatch
<1>7. CASE \E j \in jobs : Run(j) \/ Answer(j)
  BY <1>7, ListRun, ListAnswer
<1>8. CASE \E k \in Lists : TellDone(k)
  BY <1>8, ListTellDone
<1>9. CASE \E k \in Lists : DeviceChanges(k) \/ TellNext(k)
  BY <1>4, <1>9 DEF DeviceChanges, TellNext, client, queues, ghost
<1>10. CASE (\E s \in sounds : SoundOver(s)) \/ \E s \in ending : SoundEnds(s)
  BY <1>4, <1>10 DEF SoundOver, SoundEnds, client, queues, ghost
<1>11. CASE UNCHANGED vars
  BY <1>4, <1>11 DEF vars, client, queues, server, ghost
<1> QED
  BY <1>1, <1>2, <1>3, <1>5, <1>6, <1>7, <1>8, <1>9, <1>10, <1>11 DEF Next

-----------------------------------------------------------------------------
(* Theorem.                                                                *)

\* As long as the calls of a process go one at a time, and it has not given one up, its place in the
\* two lists of the server is what its calls were told: the callback of the last successful call to
\* add, once, or none (the four operations on the lists in mm_sound_mgr_device.c, and the calls of
\* mm_sound_client.c that ask for them).
THEOREM SubscribedListed == Spec => []SubscribedIsListed
<1>1. ASSUME TypeOK, ListInv PROVE SubscribedIsListed
  <2> SUFFICES ASSUME NEW p \in Procs, NEW k \in Lists, Undisturbed(p)
               PROVE  LET mine == {i \in 1 .. Len(list[k]) : list[k][i].pid = p} IN
                      /\ view[p][k] = 0 => mine = {}
                      /\ view[p][k] > 0 => \E i \in mine : mine = {i} /\ list[k][i].n = view[p][k]
    BY DEF SubscribedIsListed
  <2> DEFINE l == list[k]
             mine == {i \in 1 .. Len(l) : l[i].pid = p}
  <2>1. /\ OneEntry(l)
        /\ view[p][k] = 0 => Absent(l, p)
        /\ view[p][k] > 0 => Listed(l, p, view[p][k])
    BY <1>1 DEF ListInv, Told, Knows
  <2>2. \A i \in 1 .. Len(l) : l[i] \in Entries
    BY <1>1, ElementOfSeq DEF TypeOK
  <2>3. view[p][k] = 0 => mine = {}
    BY <2>1, <2>2 DEF Absent, In
  <2>4. ASSUME view[p][k] > 0 PROVE \E i \in mine : mine = {i} /\ l[i].n = view[p][k]
    <3>1. PICK i \in 1 .. Len(l) : l[i] = [pid |-> p, n |-> view[p][k]]
      BY <2>1, <2>4 DEF Listed, In
    <3> QED
      BY <2>1, <3>1 DEF OneEntry
  <2> QED
    BY <2>3, <2>4
<1>2. Spec => []ListInv
  BY ListInit, ListNext, Invariance, PTL DEF Spec
<1> QED
  BY <1>1, <1>2, TypeCorrect, PTL
=============================================================================
