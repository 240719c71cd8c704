------------------------------- MODULE IpcProofs -------------------------------
(***************************************************************************)
(* Proofs about Ipc, for any number of processes and threads, any number   *)
(* of calls, and every fault: what the queues and the lists hold, that a   *)
(* thread that waits for an answer has the mutex of its process and takes  *)
(* the answer to its own request, as long as its process has not given     *)
(* one up and the mutex has not been initialised, or destroyed, while it   *)
(* was in use; and that every request is answered once.                    *)
(***************************************************************************)
EXTENDS Ipc, SequenceTheorems, FiniteSetTheorems, WellFoundedInduction, TLAPS

\* The inductive invariant.
IInv == TypeOK /\ OwnerWaits /\ MutexExists /\ Alone

LEMMA InitInv == Init => IInv
<1> SUFFICES ASSUME Init PROVE IInv
  OBVIOUS
<1>1. TypeOK
  <2>1. <<>> \in Seq(Requests) /\ <<>> \in Seq(Answers) /\ <<>> \in Seq(Messages) /\ <<>> \in Seq(Entries)
    BY EmptySeq
  <2>2. NoCall \in [kind : Kinds, cb : BOOLEAN]
    BY DEF NoCall, Kinds, Sounds
  <2>3. changes \in [Lists -> Nat] /\ \A k \in Lists : changes[k] <= MaxChanges[k]
    BY ConstantsAssumption DEF Init
  <2>4. [pid |-> Nobody, n |-> 0] \in [pid : Procs \union {Nobody}, n : Nat]
    OBVIOUS
  <2> QED
    BY <2>1, <2>2, <2>3, <2>4 DEF Init, TypeOK
<1>2. OwnerWaits
  BY DEF Init, OwnerWaits
<1>3. MutexExists
  BY DEF Init, MutexExists
<1>4. Alone
  BY DEF Init, Alone, OneMessage
<1> QED
  BY <1>1, <1>2, <1>3, <1>4 DEF IInv

-----------------------------------------------------------------------------
(* Types.                                                                  *)

\* The list a request is about is one of the two.
LEMMA ListOfType == \A k \in Adds \union Removes : ListOf[k] \in Lists
BY DEF ListOf, Adds, Removes, Lists

LEMMA CreateType ==
  ASSUME TypeOK, NEW p \in Procs, Create(p)
  PROVE  marked' \in [Procs -> BOOLEAN] /\ workers' \in [Procs -> Nat]
<1>1. marked \in [Procs -> BOOLEAN] /\ workers \in [Procs -> Nat]
  BY DEF TypeOK
<1>2. marked' \in [Procs -> BOOLEAN]
  BY <1>1 DEF Create
<1>3. workers' \in [Procs -> Nat]
  BY <1>1 DEF Create
<1> QED
  BY <1>2, <1>3

LEMMA TypeCall ==
  ASSUME TypeOK, NEW t \in Threads, NEW kind \in Kinds, NEW cb \in BOOLEAN, Call(t, kind, cb)
  PROVE  TypeOK'
<1>1. call' \in [Threads -> [kind : Kinds, cb : BOOLEAN]]
  BY DEF TypeOK, Call
<1>2. at' \in [Threads -> {"out", "init", "make", "lock", "wait"}]
  BY DEF TypeOK, Call, Initialised
<1> QED
  BY <1>1, <1>2 DEF TypeOK, Call, queues, server, ghost

LEMMA TypeInitMutex == ASSUME TypeOK, NEW t \in Threads, InitMutex(t) PROVE TypeOK'
<1>1. at' \in [Threads -> {"out", "init", "make", "lock", "wait"}]
  BY DEF TypeOK, InitMutex, Initialised
<1>2. /\ initted' \in [Procs -> BOOLEAN]
      /\ owner' \in [Procs -> Threads \union {Nobody}]
      /\ reset' \in [Procs -> BOOLEAN]
  BY DEF TypeOK, InitMutex
<1> QED
  BY <1>1, <1>2 DEF TypeOK, InitMutex, queues, server

LEMMA TypeMakeThread == ASSUME TypeOK, NEW t \in Threads, MakeThread(t) PROVE TypeOK'
<1>1. ProcOf[t] \in Procs
  BY ConstantsAssumption
<1>2. marked' \in [Procs -> BOOLEAN] /\ workers' \in [Procs -> Nat]
  BY <1>1, CreateType DEF MakeThread
<1> QED
  BY <1>2 DEF TypeOK, MakeThread, queues, server, ghost

LEMMA TypeMemoryRefused == ASSUME TypeOK, NEW t \in Threads, MemoryRefused(t) PROVE TypeOK'
<1>1. NoCall \in [kind : Kinds, cb : BOOLEAN]
  BY DEF NoCall, Kinds, Sounds
<1> QED
  BY <1>1 DEF TypeOK, MemoryRefused, queues, server, ghost

LEMMA TypeSend == ASSUME TypeOK, NEW t \in Threads, Send(t) PROVE TypeOK'
<1> DEFINE p == ProcOf[t]
           r == [pid |-> p, n |-> sent[p] + 1, kind |-> call[t].kind, cb |-> call[t].cb]
<1>1. p \in Procs
  BY ConstantsAssumption
<1>2. r \in Requests
  BY <1>1 DEF TypeOK, Requests, Numbers
<1>3. requests' \in Seq(Requests)
  <2>1. requests' = Append(requests, r)
    BY DEF Send
  <2>2. requests \in Seq(Requests)
    BY DEF TypeOK
  <2> HIDE DEF r
  <2> QED
    BY <1>2, <2>1, <2>2, AppendProperties
<1>4. view' \in [Procs -> [Lists -> Nat \union {-1}]]
  <2>1. view \in [Procs -> [Lists -> Nat \union {-1}]]
    BY DEF TypeOK
  <2>2. CASE r.kind \in Adds \union Removes
    <3>1. view' = [view EXCEPT ![p][ListOf[r.kind]] = -1]
      BY <2>2 DEF Send
    <3>2. ListOf[r.kind] \in Lists
      BY <2>2, ListOfType
    <3> HIDE DEF r
    <3>3. [view[p] EXCEPT ![ListOf[r.kind]] = -1] \in [Lists -> Nat \union {-1}]
      BY <1>1, <2>1, <3>2
    <3> QED
      BY <1>1, <2>1, <3>1, <3>3
  <2>3. CASE r.kind \notin Adds \union Removes
    BY <2>1, <2>3 DEF Send
  <2> QED
    BY <2>2, <2>3
<1>5. sent' \in [Procs -> Nat] /\ owner' \in [Procs -> Threads \union {Nobody}]
  <2>1. sent \in [Procs -> Nat] /\ sent' = [sent EXCEPT ![p] = sent[p] + 1]
    BY DEF TypeOK, Send
  <2>2. owner \in [Procs -> Threads \union {Nobody}] /\ owner' = [owner EXCEPT ![p] = t]
    BY DEF TypeOK, Send
  <2>3. sent' \in [Procs -> Nat]
    BY <1>1, <2>1
  <2>4. owner' \in [Procs -> Threads \union {Nobody}]
    BY <1>1, <2>2
  <2> QED
    BY <2>3, <2>4
<1> HIDE DEF r
<1> QED
  BY <1>3, <1>4, <1>5 DEF TypeOK, Send, server

\* A call that returns leaves the tables of the process well formed.
LEMMA ReturnsType ==
  ASSUME TypeOK, NEW t \in Threads, Returns(t)
  PROVE  /\ at' \in [Threads -> {"out", "init", "make", "lock", "wait"}]
         /\ call' \in [Threads -> [kind : Kinds, cb : BOOLEAN]]
         /\ owner' \in [Procs -> Threads \union {Nobody}]
<1>1. NoCall \in [kind : Kinds, cb : BOOLEAN]
  BY DEF NoCall, Kinds, Sounds
<1> QED
  BY <1>1 DEF TypeOK, Returns

LEMMA TypeReceive == ASSUME TypeOK, NEW t \in Threads, Receive(t) PROVE TypeOK'
<1> DEFINE p == ProcOf[t]
<1>1. p \in Procs
  BY ConstantsAssumption
<1>2. answers' \in [Procs -> Seq(Answers)]
  <2>1. answers[p] \in Seq(Answers) /\ answers[p] # <<>>
    BY <1>1 DEF TypeOK, Receive
  <2>2. Tail(answers[p]) \in Seq(Answers)
    BY <2>1, HeadTailProperties
  <2> QED
    BY <1>1, <2>2 DEF TypeOK, Receive
<1>3. marked' \in [Procs -> BOOLEAN] /\ workers' \in [Procs -> Nat]
  <2>1. CASE Create(p)
    BY <1>1, <2>1, CreateType
  <2>2. CASE UNCHANGED <<marked, workers>>
    BY <2>2 DEF TypeOK
  <2> QED
    BY <2>1, <2>2 DEF Receive
<1>4. view' \in [Procs -> [Lists -> Nat \union {-1}]]
  BY <1>1, ListOfType DEF TypeOK, Receive
<1>5. /\ at' \in [Threads -> {"out", "init", "make", "lock", "wait"}]
      /\ call' \in [Threads -> [kind : Kinds, cb : BOOLEAN]]
      /\ owner' \in [Procs -> Threads \union {Nobody}]
  BY ReturnsType DEF Receive
<1> QED
  BY <1>2, <1>3, <1>4, <1>5 DEF TypeOK, Receive, server

LEMMA TypeTimesOut == ASSUME TypeOK, NEW t \in Threads, TimesOut(t) PROVE TypeOK'
<1>1. /\ at' \in [Threads -> {"out", "init", "make", "lock", "wait"}]
      /\ call' \in [Threads -> [kind : Kinds, cb : BOOLEAN]]
      /\ owner' \in [Procs -> Threads \union {Nobody}]
  BY ReturnsType DEF TimesOut
<1>2. strays' \in [Procs -> Nat]
  <2>1. strays \in [Procs -> Nat] /\ ProcOf[t] \in Procs
    BY ConstantsAssumption DEF TypeOK
  <2>2. strays' = [strays EXCEPT ![ProcOf[t]] = @ + 1]
    BY DEF TimesOut
  <2> QED
    BY <2>1, <2>2
<1>3. UNCHANGED <<initted, marked, workers, left, fini, queues, server, sent, reset, view>>
  BY DEF TimesOut
<1> QED
  BY <1>1, <1>2, <1>3 DEF TypeOK, queues, server

LEMMA TypeTakeCallback == ASSUME TypeOK, NEW p \in Procs, TakeCallback(p) PROVE TypeOK'
<1>1. callbacks' \in [Procs -> Seq(Messages)]
  <2>1. callbacks[p] \in Seq(Messages) /\ callbacks[p] # <<>>
    BY DEF TypeOK, TakeCallback
  <2>2. Tail(callbacks[p]) \in Seq(Messages)
    BY <2>1, HeadTailProperties
  <2> QED
    BY <2>2 DEF TypeOK, TakeCallback
<1>2. workers' \in [Procs -> Nat]
  BY DEF TypeOK, TakeCallback
<1>3. left' \in [Procs -> BOOLEAN]
  BY DEF TypeOK, TakeCallback
<1> QED
  BY <1>1, <1>2, <1>3 DEF TypeOK, TakeCallback, server, ghost

\* The threads that wait are finitely many, so that they can be counted.
LEMMA WaitingFinite == \A p : IsFiniteSet(Waiting(p)) /\ Cardinality(Waiting(p)) \in Nat
<1> SUFFICES ASSUME NEW p PROVE IsFiniteSet(Waiting(p)) /\ Cardinality(Waiting(p)) \in Nat
  OBVIOUS
<1>1. Waiting(p) \subseteq Threads
  BY DEF Waiting
<1>2. IsFiniteSet(Threads)
  BY ConstantsAssumption
<1>3. IsFiniteSet(Waiting(p))
  BY <1>1, <1>2, FS_Subset
<1> QED
  BY <1>3, FS_CardinalityType

LEMMA TypeVanish == ASSUME TypeOK, NEW p \in Procs, Vanish(p) PROVE TypeOK'
<1>1. NoCall \in [kind : Kinds, cb : BOOLEAN]
  BY DEF NoCall, Kinds, Sounds
<1>2. call' \in [Threads -> [kind : Kinds, cb : BOOLEAN]]
  BY <1>1 DEF TypeOK, Vanish
<1>3. strays' \in [Procs -> Nat]
  BY WaitingFinite DEF TypeOK, Vanish
<1>4. view' \in [Procs -> [Lists -> Nat \union {-1}]]
  BY DEF TypeOK, Vanish
<1> QED
  BY <1>2, <1>3, <1>4 DEF TypeOK, Vanish, queues, server

LEMMA TypeDestroyMutex == ASSUME TypeOK, NEW p \in Procs, DestroyMutex(p) PROVE TypeOK'
BY DEF TypeOK, DestroyMutex, queues, server

LEMMA TypeFini ==
  ASSUME TypeOK, NEW p \in Procs,
         Exit(p) \/ FiniStart(p) \/ FiniSend(p) \/ FiniDone(p) \/ Ended(p) \/ Die(p)
  PROVE  TypeOK'
<1>1. CASE Exit(p) \/ FiniDone(p) \/ Ended(p) \/ Die(p)
  BY <1>1, TypeVanish, TypeDestroyMutex DEF Exit, FiniDone, Ended, Die
<1>2. CASE FiniStart(p)
  BY <1>2 DEF TypeOK, FiniStart, queues, server, ghost
<1>3. CASE FiniSend(p)
  <2>1. [type |-> "destroy", n |-> 0] \in Messages
    BY DEF Messages
  <2>2. Append(callbacks[p], [type |-> "destroy", n |-> 0]) \in Seq(Messages)
    BY <2>1, AppendProperties DEF TypeOK
  <2> QED
    BY <1>3, <2>2 DEF TypeOK, FiniSend, server, ghost
<1> QED
  BY <1>1, <1>2, <1>3
\* What the server does with a job leaves a job.
LEMMA FinishedType ==
  ASSUME TypeOK, NEW j \in jobs, NEW answer \in Kinds \union {"error", "none", "telling"}
  PROVE  Finished(j, answer) \subseteq Jobs
<1>1. j \in Jobs
  BY DEF TypeOK
<1>2. [j EXCEPT !.answer = answer] \in Jobs
  BY <1>1 DEF Jobs
<1> QED
  BY <1>2 DEF TypeOK, Finished

LEMMA TypeDispatch == ASSUME TypeOK, Dispatch PROVE TypeOK'
<1> DEFINE r == Head(requests)
<1>1. requests \in Seq(Requests) /\ requests # <<>>
  BY DEF TypeOK, Dispatch
<1>2. r \in Requests /\ Tail(requests) \in Seq(Requests)
  BY <1>1, HeadTailProperties
<1>3. Job(r) \in Jobs
  BY <1>2 DEF Job, Jobs, Requests
<1>4. jobs' \subseteq Jobs /\ requests' \in Seq(Requests)
  BY <1>2, <1>3 DEF TypeOK, Dispatch
<1>5. answers' \in [Procs -> Seq(Answers)] /\ strays' \in [Procs -> Nat]
  <2>1. CASE UNCHANGED <<answers, strays>>
    BY <2>1 DEF TypeOK
  <2>2. CASE ~ UNCHANGED <<answers, strays>>
    <3>1. /\ answers' = [answers EXCEPT ![r.pid] = Append(@, [n |-> r.n, kind |-> "error"])]
          /\ strays' = [strays EXCEPT ![r.pid] = @ + 1]
      BY <2>2 DEF Dispatch
    <3>2. r.pid \in Procs /\ [n |-> r.n, kind |-> "error"] \in Answers
      BY <1>2 DEF Requests, Answers
    <3>3. answers \in [Procs -> Seq(Answers)] /\ strays \in [Procs -> Nat]
      BY DEF TypeOK
    <3>4. Append(answers[r.pid], [n |-> r.n, kind |-> "error"]) \in Seq(Answers)
      BY <3>2, <3>3, AppendProperties
    <3> HIDE DEF r
    <3>5. answers' \in [Procs -> Seq(Answers)]
      BY <3>1, <3>2, <3>3, <3>4
    <3>6. strays' \in [Procs -> Nat]
      BY <3>1, <3>2, <3>3
    <3> QED
      BY <3>5, <3>6
  <2> QED
    BY <2>1, <2>2
<1> QED
  BY <1>4, <1>5 DEF TypeOK, Dispatch, client

\* A set of numbers has a least one.
LEMMA LeastNumber ==
  ASSUME NEW T, T \subseteq Nat, T # {}
  PROVE  \E x \in T : \A y \in T : x <= y
<1> DEFINE R == OpToRel(<, Nat)
<1>1. \A x, y \in Nat : x < y => <<x, y>> \in R
  BY DEF OpToRel
<1>2. IsWellFoundedOn(R, Nat)
  BY NatLessThanWellFounded
<1> HIDE DEF R
<1>3. PICK x \in T : \A y \in T : ~ (<<y, x>> \in R)
  BY <1>2, WFMin
<1>4. \A y \in T : ~(y < x)
  BY <1>1, <1>3
<1> QED
  BY <1>4

\* Position finds the first entry of a process, if there is one.
LEMMA PositionProperties ==
  ASSUME NEW l \in Seq(Entries), NEW p
  PROVE  /\ Position(l, p) \in 0 .. Len(l)
         /\ Position(l, p) # 0 => l[Position(l, p)].pid = p
<1> DEFINE Mine == {i \in 1 .. Len(l) : l[i].pid = p}
<1>1. Len(l) \in Nat
  BY LenProperties
<1>2. CASE Mine # {}
  <2>1. PICK i \in Mine : \A h \in Mine : i <= h
    <3>1. Mine \subseteq Nat
      BY <1>1
    <3> HIDE DEF Mine
    <3> QED
      BY <1>2, <3>1, LeastNumber
  <2>2. \A h \in 1 .. i - 1 : l[h].pid # p
    BY <1>1, <2>1
  <2> DEFINE IsFirst(first) == l[first].pid = p /\ \A h \in 1 .. first - 1 : l[h].pid # p
  <2>3. \E first \in 1 .. Len(l) : IsFirst(first)
    BY <2>1, <2>2
  <2>4. \E first \in 1 .. Len(l) : l[first].pid = p
    BY <2>3
  <2>5. Position(l, p) = CHOOSE first \in 1 .. Len(l) : IsFirst(first)
    BY <2>4, Zenon DEF Position
  <2>6. Position(l, p) \in 1 .. Len(l) /\ IsFirst(Position(l, p))
    <3> HIDE DEF IsFirst
    <3> QED
      BY <2>3, <2>5
  <2> QED
    BY <1>1, <2>6
<1>3. CASE Mine = {}
  BY <1>1, <1>3 DEF Position
<1> QED
  BY <1>2, <1>3

\* A list stays a list of entries.
LEMMA AddedType ==
  ASSUME NEW l \in Seq(Entries), NEW p \in Procs, NEW n \in Numbers
  PROVE  Added(l, p, n) \in Seq(Entries)
<1>1. [pid |-> p, n |-> n] \in Entries
  BY DEF Entries
<1>2. CASE Position(l, p) = 0
  BY <1>1, <1>2, AppendProperties DEF Added
<1>3. CASE Position(l, p) # 0
  <2>1. Position(l, p) \in 1 .. Len(l)
    BY <1>3, PositionProperties, LenProperties
  <2> QED
    BY <1>1, <1>3, <2>1, ExceptSeq DEF Added
<1> QED
  BY <1>2, <1>3

LEMMA RemovedType ==
  ASSUME NEW l \in Seq(Entries), NEW p
  PROVE  Removed(l, p) \in Seq(Entries)
<1> DEFINE i == Position(l, p)
<1>1. i \in 0 .. Len(l) /\ Len(l) \in Nat
  BY PositionProperties, LenProperties
<1>2. CASE i = 0
  BY <1>2 DEF Removed
<1>3. CASE i # 0
  <2>1. \A h \in 1 .. Len(l) : l[h] \in Entries
    BY ElementOfSeq
  <2>2. SubSeq(l, 1, i - 1) \in Seq(Entries)
    <3>1. \A h \in 1 .. i - 1 : l[h] \in Entries
      BY <1>1, <2>1
    <3>2. i - 1 \in Int
      BY <1>1
    <3> HIDE DEF i
    <3> QED
      BY <3>1, <3>2, SubSeqProperties
  <2>3. SubSeq(l, i + 1, Len(l)) \in Seq(Entries)
    <3>1. \A h \in i + 1 .. Len(l) : l[h] \in Entries
      BY <1>1, <2>1
    <3>2. i + 1 \in Int /\ Len(l) \in Int
      BY <1>1
    <3> HIDE DEF i
    <3> QED
      BY <3>1, <3>2, SubSeqProperties
  <2>4. SubSeq(l, 1, i - 1) \o SubSeq(l, i + 1, Len(l)) \in Seq(Entries)
    <3> HIDE DEF i
    <3> QED
      BY <2>2, <2>3, ConcatProperties
  <2> QED
    BY <1>3, <2>4 DEF Removed
<1> QED
  BY <1>2, <1>3

LEMMA TypeRun == ASSUME TypeOK, NEW j \in jobs, Run(j) PROVE TypeOK'
<1>1. j \in Jobs
  BY DEF TypeOK
<1>2. j.pid \in Procs /\ j.n \in Numbers /\ j.kind \in Kinds
  BY <1>1 DEF Jobs
<1>3. /\ Finished(j, j.kind) \subseteq Jobs
      /\ Finished(j, "error") \subseteq Jobs
      /\ Finished(j, "telling") \subseteq Jobs
  BY <1>2, FinishedType
<1>4. CASE RunSound(j)
  <2>1. [pid |-> j.pid, n |-> j.n] \in Entries
    BY <1>2 DEF Entries
  <2>2. sounds' \subseteq Entries
    BY <1>4, <2>1 DEF TypeOK, RunSound
  <2>3. jobs' \subseteq Jobs
    BY <1>3, <1>4 DEF RunSound
  <2> QED
    BY <1>4, <2>2, <2>3 DEF TypeOK, RunSound, client, queues, ghost
<1>5. CASE RunQuery(j)
  BY <1>3, <1>5 DEF TypeOK, RunQuery, client, queues, ghost
<1>6. CASE RunSetRoute(j)
  <2>1. jobs' \subseteq Jobs
    BY <1>3, <1>6 DEF RunSetRoute
  <2>2. CASE UNCHANGED <<telling, teller>>
    BY <1>6, <2>1, <2>2 DEF TypeOK, RunSetRoute, client, queues, ghost
  <2>3. CASE ~ UNCHANGED <<telling, teller>>
    <3>1. /\ telling' = [telling EXCEPT !["active"] = 1]
          /\ teller' = [teller EXCEPT !["active"] = [pid |-> j.pid, n |-> j.n]]
      BY <1>6, <2>3 DEF RunSetRoute
    <3>2. [pid |-> j.pid, n |-> j.n] \in [pid : Procs \union {Nobody}, n : Nat]
      BY <1>2 DEF Numbers
    <3>3. telling' \in [Lists -> Nat] /\ teller' \in [Lists -> [pid : Procs \union {Nobody}, n : Nat]]
      BY <3>1, <3>2 DEF TypeOK
    <3> QED
      BY <1>6, <2>1, <3>3 DEF TypeOK, RunSetRoute, client, queues, ghost
  <2> QED
    BY <2>2, <2>3
<1>7. CASE RunAdd(j)
  <2>1. ListOf[j.kind] \in Lists
    BY <1>7, ListOfType DEF RunAdd
  <2>2. Added(list[ListOf[j.kind]], j.pid, j.n) \in Seq(Entries)
    BY <1>2, <2>1, AddedType DEF TypeOK
  <2>3. list' \in [Lists -> Seq(Entries)]
    BY <1>7, <2>1, <2>2 DEF TypeOK, RunAdd
  <2> QED
    BY <1>3, <1>7, <2>3 DEF TypeOK, RunAdd, client, queues, ghost
<1>8. CASE RunRemove(j)
  <2>1. ListOf[j.kind] \in Lists
    BY <1>8, ListOfType DEF RunRemove
  <2>2. Removed(list[ListOf[j.kind]], j.pid) \in Seq(Entries)
    BY <2>1, RemovedType DEF TypeOK
  <2>3. list' \in [Lists -> Seq(Entries)]
    BY <1>8, <2>1, <2>2 DEF TypeOK, RunRemove
  <2> QED
    BY <1>3, <1>8, <2>3 DEF TypeOK, RunRemove, client, queues, ghost
<1> QED
  BY <1>4, <1>5, <1>6, <1>7, <1>8 DEF Run

LEMMA TypeAnswer == ASSUME TypeOK, NEW j \in jobs, Answer(j) PROVE TypeOK'
<1>1. j \in Jobs
  BY DEF TypeOK
<1>2. j.pid \in Procs /\ [n |-> j.n, kind |-> j.answer] \in Answers
  BY <1>1 DEF Jobs, Answer, Answers
<1>3. Append(answers[j.pid], [n |-> j.n, kind |-> j.answer]) \in Seq(Answers)
  BY <1>2, AppendProperties DEF TypeOK
<1>4. answers' \in [Procs -> Seq(Answers)] /\ jobs' \subseteq Jobs
  BY <1>2, <1>3 DEF TypeOK, Answer
<1> QED
  BY <1>4 DEF TypeOK, Answer, client, ghost

LEMMA TypeTell ==
  ASSUME TypeOK, NEW k \in Lists, DeviceChanges(k) \/ TellNext(k) \/ TellDone(k)
  PROVE  TypeOK'
<1>1. [pid |-> Nobody, n |-> 0] \in [pid : Procs \union {Nobody}, n : Nat]
  OBVIOUS
<1>2. CASE DeviceChanges(k)
  <2>1. changes \in [Lists -> Nat] /\ MaxChanges[k] \in Nat /\ changes[k] < MaxChanges[k]
    BY <1>2, ConstantsAssumption DEF TypeOK, DeviceChanges
  <2>2. changes' \in [Lists -> Nat] /\ \A h \in Lists : changes'[h] <= MaxChanges[h]
    BY <1>2, <2>1 DEF TypeOK, DeviceChanges
  <2> QED
    BY <1>1, <1>2, <2>2 DEF TypeOK, DeviceChanges, client, queues, ghost
<1>3. CASE TellNext(k)
  <2> DEFINE e == list[k][telling[k]]
  <2>1. e \in Entries
    BY <1>3, ElementOfSeq DEF TypeOK, TellNext
  <2>2. e.pid \in Procs /\ [type |-> k, n |-> e.n] \in Messages
    BY <2>1 DEF Entries, Messages, Numbers
  <2>3. Append(callbacks[e.pid], [type |-> k, n |-> e.n]) \in Seq(Messages)
    BY <2>2, AppendProperties DEF TypeOK
  <2>4. callbacks' \in [Procs -> Seq(Messages)]
    BY <1>3, <2>2, <2>3 DEF TypeOK, TellNext
  <2>5. telling' \in [Lists -> Nat]
    BY <1>3 DEF TypeOK, TellNext
  <2> QED
    BY <1>3, <2>4, <2>5 DEF TypeOK, TellNext, client, ghost
<1>4. CASE TellDone(k)
  <2>1. \A j \in jobs : j \in Jobs /\ [j EXCEPT !.answer = j.kind] \in Jobs
    <3> SUFFICES ASSUME NEW j \in jobs PROVE j \in Jobs /\ [j EXCEPT !.answer = j.kind] \in Jobs
      OBVIOUS
    <3>1. j \in Jobs
      BY DEF TypeOK
    <3> QED
      BY <3>1 DEF Jobs
  <2>2. jobs' \subseteq Jobs
    BY <1>4, <2>1 DEF TellDone
  <2>3. telling' \in [Lists -> Nat]
    BY <1>4 DEF TypeOK, TellDone
  <2>4. teller' \in [Lists -> [pid : Procs \union {Nobody}, n : Nat]]
    BY <1>1, <1>4 DEF TypeOK, TellDone
  <2> QED
    BY <1>4, <2>2, <2>3, <2>4 DEF TypeOK, TellDone, client, queues, ghost
<1> QED
  BY <1>2, <1>3, <1>4

LEMMA TypeSoundOver == ASSUME TypeOK, NEW s \in sounds, SoundOver(s) PROVE TypeOK'
BY DEF TypeOK, SoundOver, client, queues, ghost

LEMMA TypeSoundEnds == ASSUME TypeOK, NEW s \in ending, SoundEnds(s) PROVE TypeOK'
<1>1. s.pid \in Procs /\ [type |-> "stop", n |-> s.n] \in Messages
  BY DEF TypeOK, Entries, Messages, Numbers
<1>2. Append(callbacks[s.pid], [type |-> "stop", n |-> s.n]) \in Seq(Messages)
  BY <1>1, AppendProperties DEF TypeOK
<1>3. callbacks' \in [Procs -> Seq(Messages)]
  BY <1>1, <1>2 DEF TypeOK, SoundEnds
<1> QED
  BY <1>3 DEF TypeOK, SoundEnds, client, ghost

LEMMA TypeNext == TypeOK /\ [Next]_vars => TypeOK'
<1> SUFFICES ASSUME TypeOK, [Next]_vars PROVE TypeOK'
  OBVIOUS
<1>1. CASE UNCHANGED vars
  BY <1>1 DEF TypeOK, vars, client, queues, server, ghost
<1>2. CASE \E t \in Threads :
             \/ \E kind \in Kinds, cb \in BOOLEAN : Call(t, kind, cb)
             \/ InitMutex(t) \/ MakeThread(t) \/ MemoryRefused(t) \/ Send(t) \/ Receive(t)
             \/ TimesOut(t)
  BY <1>2, TypeCall, TypeInitMutex, TypeMakeThread, TypeMemoryRefused, TypeSend, TypeReceive, TypeTimesOut
<1>3. CASE \E p \in Procs :
             \/ TakeCallback(p) \/ Exit(p) \/ FiniStart(p) \/ FiniSend(p) \/ FiniDone(p)
             \/ Ended(p) \/ Die(p)
  BY <1>3, TypeTakeCallback, TypeFini
<1>4. CASE Dispatch
  BY <1>4, TypeDispatch
<1>5. CASE \E j \in jobs : Run(j) \/ Answer(j)
  BY <1>5, TypeRun, TypeAnswer
<1>6. CASE \E k \in Lists : DeviceChanges(k) \/ TellNext(k) \/ TellDone(k)
  BY <1>6, TypeTell
<1>7. CASE (\E s \in sounds : SoundOver(s)) \/ \E s \in ending : SoundEnds(s)
  BY <1>7, TypeSoundOver, TypeSoundEnds
<1> QED
  BY <1>1, <1>2, <1>3, <1>4, <1>5, <1>6, <1>7 DEF Next

-----------------------------------------------------------------------------
(* The mutex.                                                              *)

\* A thread is its process's, and nobody's is no thread.
LEMMA Processes == /\ \A t \in Threads : ProcOf[t] \in Procs
                   /\ Nobody \notin Threads
BY ConstantsAssumption

\* The mutex is there for a thread past the first check.
LEMMA ExistsThread ==
  ASSUME TypeOK, MutexExists, NEW t \in Threads,
         \/ \E kind \in Kinds, cb \in BOOLEAN : Call(t, kind, cb)
         \/ InitMutex(t) \/ MakeThread(t) \/ MemoryRefused(t) \/ Send(t) \/ Receive(t) \/ TimesOut(t)
  PROVE  MutexExists'
<1>1. CASE InitMutex(t)
  <2>1. /\ \A u \in Threads : u # t => at'[u] = at[u]
        /\ \A p \in Procs : initted'[p] = (initted[p] \/ p = ProcOf[t]) /\ (reset[p] => reset'[p])
    BY <1>1, Processes DEF TypeOK, InitMutex
  <2> QED
    BY <2>1, Processes DEF MutexExists
<1>2. CASE \E kind \in Kinds, cb \in BOOLEAN : Call(t, kind, cb)
  <2>1. /\ \A u \in Threads : u # t => at'[u] = at[u]
        /\ at'[t] = "init" \/ initted[ProcOf[t]]
        /\ UNCHANGED <<initted, reset>>
    BY <1>2 DEF TypeOK, Call, ghost
  <2> QED
    BY <2>1 DEF MutexExists
<1>3. CASE MakeThread(t) \/ MemoryRefused(t) \/ Send(t) \/ Receive(t) \/ TimesOut(t)
  <2>1. /\ \A u \in Threads : u # t => at'[u] = at[u]
        /\ at[t] \in {"make", "lock", "wait"}
        /\ UNCHANGED <<initted, reset>>
    BY <1>3 DEF TypeOK, MakeThread, MemoryRefused, Send, Receive, TimesOut, Returns, ghost
  <2> QED
    BY <2>1 DEF MutexExists
<1> QED
  BY <1>1, <1>2, <1>3

LEMMA ExistsVanish == ASSUME TypeOK, MutexExists, NEW p \in Procs, Vanish(p) PROVE MutexExists'
<1>1. /\ \A t \in Threads : at'[t] = IF ProcOf[t] = p THEN "out" ELSE at[t]
      /\ \A q \in Procs \ {p} : initted'[q] = initted[q]
      /\ UNCHANGED reset
  BY DEF TypeOK, Vanish
<1> QED
  BY <1>1, Processes DEF MutexExists

\* A mutex that is destroyed while no thread is in the library disturbs none.
LEMMA ExistsDestroyMutex ==
  ASSUME TypeOK, MutexExists, NEW p \in Procs, DestroyMutex(p)
  PROVE  MutexExists'
<1>1. /\ UNCHANGED at
      /\ \A q \in Procs \ {p} : initted'[q] = initted[q] /\ reset'[q] = reset[q]
      /\ ~ reset'[p] => Busy(p) = {}
  BY DEF TypeOK, DestroyMutex
<1>2. \A t \in Threads : ProcOf[t] = p /\ Busy(p) = {} => at[t] = "out"
  BY DEF Busy
<1> QED
  BY <1>1, <1>2, Processes DEF MutexExists

\* The mutex is free before a request is sent, and is given back by the thread that waits.
LEMMA OwnerThread ==
  ASSUME TypeOK, OwnerWaits, MutexExists, NEW t \in Threads,
         \/ \E kind \in Kinds, cb \in BOOLEAN : Call(t, kind, cb)
         \/ MakeThread(t) \/ MemoryRefused(t) \/ Send(t) \/ Receive(t) \/ TimesOut(t)
  PROVE  OwnerWaits'
<1>1. CASE (\E kind \in Kinds, cb \in BOOLEAN : Call(t, kind, cb)) \/ MakeThread(t) \/ MemoryRefused(t)
  <2>1. at[t] # "wait" /\ UNCHANGED <<owner, reset>>
    BY <1>1 DEF Call, MakeThread, MemoryRefused, ghost
  <2>2. PICK place \in {"init", "make", "lock", "out"} : at' = [at EXCEPT ![t] = place]
    BY <1>1 DEF Call, Initialised, MakeThread, MemoryRefused
  <2> QED
    BY <2>1, <2>2 DEF TypeOK, OwnerWaits
<1>2. CASE Send(t)
  <2>1. /\ reset[ProcOf[t]] \/ owner[ProcOf[t]] = Nobody
        /\ at' = [at EXCEPT ![t] = "wait"]
        /\ owner' = [owner EXCEPT ![ProcOf[t]] = t]
        /\ UNCHANGED reset
    BY <1>2 DEF Send, MutexFree, MutexExists
  <2>2. /\ \A u \in Threads : at'[u] = IF u = t THEN "wait" ELSE at[u]
        /\ \A p \in Procs : owner'[p] = IF p = ProcOf[t] THEN t ELSE owner[p]
    BY <2>1 DEF TypeOK
  <2> QED
    BY <2>1, <2>2, Processes DEF OwnerWaits
<1>3. CASE Receive(t) \/ TimesOut(t)
  <2>1. /\ at[t] = "wait"
        /\ at' = [at EXCEPT ![t] = "out"]
        /\ owner' = [owner EXCEPT ![ProcOf[t]] = Nobody]
        /\ UNCHANGED reset
    BY <1>3 DEF Receive, TimesOut, Returns
  <2>2. reset[ProcOf[t]] \/ owner[ProcOf[t]] = t
    BY <2>1 DEF OwnerWaits
  <2> QED
    BY <2>1, <2>2, Processes DEF TypeOK, OwnerWaits
<1> QED
  BY <1>1, <1>2, <1>3

\* A thread that loses the mutex is found out.
LEMMA OwnerInitMutex ==
  ASSUME TypeOK, OwnerWaits, NEW t \in Threads, InitMutex(t)
  PROVE  OwnerWaits'
<1> DEFINE p == ProcOf[t]
<1>1. /\ at[t] = "init"
      /\ owner' = [owner EXCEPT ![p] = Nobody]
      /\ reset' = [reset EXCEPT ![p] = @ \/ owner[p] # Nobody]
      /\ \A u \in Threads : u # t => at'[u] = at[u]
      /\ at'[t] # "wait"
  BY DEF TypeOK, InitMutex, Initialised
<1>2. /\ p \in Procs
      /\ \A q \in Procs \ {p} : owner'[q] = owner[q] /\ reset'[q] = reset[q]
      /\ owner'[p] = Nobody
      /\ ~ reset'[p] => ~ reset[p] /\ owner[p] = Nobody
  BY <1>1, Processes DEF TypeOK
<1> HIDE DEF p
<1>3. \A u \in Threads : at'[u] = "wait" /\ ~ reset'[ProcOf[u]] => owner'[ProcOf[u]] = u
  BY <1>1, <1>2, Processes DEF OwnerWaits
<1>4. \A q \in Procs : owner'[q] # Nobody /\ ~ reset'[q] => at'[owner'[q]] = "wait" /\ ProcOf[owner'[q]] = q
  BY <1>1, <1>2, Processes DEF TypeOK, OwnerWaits
<1> QED
  BY <1>3, <1>4 DEF OwnerWaits

LEMMA OwnerDestroyMutex ==
  ASSUME TypeOK, OwnerWaits, NEW p \in Procs, DestroyMutex(p)
  PROVE  OwnerWaits'
<1>1. UNCHANGED <<at, owner>> /\ \A q \in Procs : reset[q] => reset'[q]
  BY DEF TypeOK, DestroyMutex
<1> QED
  BY <1>1, Processes DEF OwnerWaits

LEMMA OwnerVanish == ASSUME TypeOK, OwnerWaits, NEW p \in Procs, Vanish(p) PROVE OwnerWaits'
<1>1. /\ at' = [t \in Threads |-> IF ProcOf[t] = p THEN "out" ELSE at[t]]
      /\ owner' = [owner EXCEPT ![p] = Nobody]
      /\ UNCHANGED reset
  BY DEF Vanish
<1> QED
  BY <1>1, Processes DEF TypeOK, OwnerWaits

LEMMA OwnerNext == TypeOK /\ OwnerWaits /\ MutexExists /\ [Next]_vars => OwnerWaits' /\ MutexExists'
<1> SUFFICES ASSUME TypeOK, OwnerWaits, MutexExists, [Next]_vars PROVE OwnerWaits' /\ MutexExists'
  OBVIOUS
<1>1. CASE UNCHANGED <<at, initted, owner, reset>>
  BY <1>1 DEF OwnerWaits, MutexExists
<1>2. CASE \E t \in Threads :
             \/ \E kind \in Kinds, cb \in BOOLEAN : Call(t, kind, cb)
             \/ InitMutex(t) \/ MakeThread(t) \/ MemoryRefused(t) \/ Send(t) \/ Receive(t)
             \/ TimesOut(t)
  BY <1>2, OwnerThread, OwnerInitMutex, ExistsThread
<1>3. CASE \E p \in Procs : Exit(p) \/ FiniDone(p) \/ Ended(p) \/ Die(p)
  BY <1>3, OwnerVanish, OwnerDestroyMutex, ExistsVanish, ExistsDestroyMutex
     DEF Exit, FiniDone, Ended, Die
<1>4. ASSUME NEW p \in Procs, TakeCallback(p) \/ FiniStart(p) \/ FiniSend(p)
      PROVE  UNCHANGED <<at, initted, owner, reset>>
  BY <1>4 DEF TakeCallback, FiniStart, FiniSend, ghost
<1>5. Dispatch => UNCHANGED <<at, initted, owner, reset>>
  BY DEF Dispatch, client
<1>6. ASSUME NEW j \in jobs, Run(j) \/ Answer(j) PROVE UNCHANGED <<at, initted, owner, reset>>
  BY <1>6 DEF Run, RunSound, RunQuery, RunSetRoute, RunAdd, RunRemove, Answer, client, ghost
<1>7. ASSUME NEW k \in Lists, DeviceChanges(k) \/ TellNext(k) \/ TellDone(k)
      PROVE  UNCHANGED <<at, initted, owner, reset>>
  BY <1>7 DEF DeviceChanges, TellNext, TellDone, client, ghost
<1>8. ASSUME NEW s, SoundOver(s) \/ SoundEnds(s) PROVE UNCHANGED <<at, initted, owner, reset>>
  BY <1>8 DEF SoundOver, SoundEnds, client, ghost
<1>9. CASE UNCHANGED vars
  BY <1>1, <1>9 DEF vars, client, ghost
<1> QED
  BY <1>1, <1>2, <1>3, <1>4, <1>5, <1>6, <1>7, <1>8, <1>9 DEF Next

-----------------------------------------------------------------------------
(* One message at a time.                                                  *)

\* When the mutex is free, nothing is under way for the process.
LEMMA NothingUnderWay ==
  ASSUME Alone, NEW p \in Procs, Undisturbed(p), owner[p] = Nobody
  PROVE  /\ \A i \in DOMAIN requests : requests[i].pid # p
         /\ \A j \in jobs : j.pid # p
         /\ answers[p] = <<>>
BY DEF Alone, OneMessage

\* Jobs that are only marked with their answer are still one per process.
LEMMA AloneMarked ==
  ASSUME Alone, UNCHANGED <<requests, answers, owner, sent, reset, strays>>,
         \E f : /\ jobs' = {f[j] : j \in jobs}
                /\ \A j \in jobs : f[j].pid = j.pid /\ f[j].n = j.n
  PROVE  Alone'
<1>1. PICK f : /\ jobs' = {f[j] : j \in jobs}
               /\ \A j \in jobs : f[j].pid = j.pid /\ f[j].n = j.n
  OBVIOUS
<1> SUFFICES ASSUME NEW p \in Procs, OneMessage(p) PROVE OneMessage(p)'
  BY DEF Alone, Undisturbed
<1> QED
  BY <1>1 DEF OneMessage

LEMMA AloneSend == ASSUME TypeOK, MutexExists, Alone, NEW t \in Threads, Send(t) PROVE Alone'
<1> DEFINE p == ProcOf[t]
           r == [pid |-> p, n |-> sent[p] + 1, kind |-> call[t].kind, cb |-> call[t].cb]
<1>1. p \in Procs /\ t # Nobody
  BY Processes
<1>2. requests \in Seq(Requests) /\ r \in Requests
  BY <1>1 DEF TypeOK, Requests, Numbers
<1>3. /\ requests' = Append(requests, r)
      /\ at[t] = "lock" /\ MutexFree(p)
      /\ owner' = [owner EXCEPT ![p] = t]
      /\ sent' = [sent EXCEPT ![p] = @ + 1]
      /\ UNCHANGED <<answers, jobs, reset, strays>>
  BY DEF Send, server
<1>4. /\ DOMAIN requests = 1 .. Len(requests) /\ Len(requests) \in Nat
      /\ DOMAIN requests' = 1 .. Len(requests) + 1
      /\ \A i \in 1 .. Len(requests) : requests'[i] = requests[i]
      /\ requests'[Len(requests) + 1] = r
  <2> HIDE DEF r
  <2>1. requests' \in Seq(Requests) /\ Len(requests') = Len(requests) + 1
    BY <1>2, <1>3, AppendProperties
  <2> QED
    BY <1>2, <1>3, <2>1, AppendProperties, LenProperties
<1>5. SUFFICES ASSUME NEW q \in Procs, Undisturbed(q) PROVE OneMessage(q)'
  BY <1>3 DEF Alone, Undisturbed
<1>6. CASE q = p
  <2>0. owner[p] = Nobody
    BY <1>3, <1>5, <1>6 DEF MutexFree, MutexExists, Undisturbed
  <2>1. /\ \A i \in DOMAIN requests : requests[i].pid # p
        /\ \A j \in jobs : j.pid # p
        /\ answers[p] = <<>>
    BY <1>1, <1>5, <1>6, <2>0, NothingUnderWay
  <2>2. \A i \in DOMAIN requests' : requests'[i].pid = p => i = Len(requests) + 1
    BY <1>4, <2>1
  <2>3. sent'[p] = sent[p] + 1 /\ owner'[p] = t /\ r.n = sent[p] + 1
    BY <1>1, <1>3 DEF TypeOK
  <2> HIDE DEF p, r
  <2> QED
    BY <1>1, <1>3, <1>4, <1>6, <2>1, <2>2, <2>3 DEF OneMessage
<1>7. CASE q # p
  <2>1. r.pid = p /\ sent'[q] = sent[q] /\ owner'[q] = owner[q]
    BY <1>1, <1>3, <1>7 DEF TypeOK
  <2>2. \A i \in DOMAIN requests' : requests'[i].pid = q =>
          i \in DOMAIN requests /\ requests'[i] = requests[i]
    BY <1>4, <1>7, <2>1
  <2>3. OneMessage(q)
    BY <1>5 DEF Alone
  <2> HIDE DEF p, r
  <2> QED
    BY <1>3, <1>4, <2>1, <2>2, <2>3 DEF OneMessage
<1> QED
  BY <1>6, <1>7

\* The answer that is taken is the only thing under way for the process.
LEMMA AloneReceive == ASSUME TypeOK, Alone, NEW t \in Threads, Receive(t) PROVE Alone'
<1> DEFINE p == ProcOf[t]
<1>1. p \in Procs
  BY Processes
<1>2. /\ answers[p] # <<>>
      /\ answers' = [answers EXCEPT ![p] = Tail(@)]
      /\ owner' = [owner EXCEPT ![p] = Nobody]
      /\ UNCHANGED <<requests, jobs, sent, reset, strays>>
  BY DEF Receive, Returns, server
<1>3. SUFFICES ASSUME NEW q \in Procs, Undisturbed(q) PROVE OneMessage(q)'
  BY <1>2 DEF Alone, Undisturbed
<1>4. OneMessage(q)
  BY <1>3 DEF Alone
<1>5. CASE q = p
  <2>1. answers[p] \in Seq(Answers) /\ Len(answers[p]) = 1
    BY <1>1, <1>2, <1>4, <1>5 DEF TypeOK, OneMessage
  <2>2. Tail(answers[p]) = <<>>
    <3>1. Tail(answers[p]) \in Seq(Answers) /\ Len(Tail(answers[p])) = 0
      BY <1>2, <2>1, HeadTailProperties
    <3> QED
      BY <3>1, EmptySeq
  <2>3. answers'[p] = <<>>
    BY <1>1, <1>2, <2>2 DEF TypeOK
  <2> HIDE DEF p
  <2> QED
    BY <1>2, <1>4, <1>5, <2>3 DEF OneMessage
<1>6. CASE q # p
  <2>1. answers'[q] = answers[q] /\ owner'[q] = owner[q]
    BY <1>1, <1>2, <1>6 DEF TypeOK
  <2> QED
    BY <1>2, <1>4, <2>1 DEF OneMessage
<1> QED
  BY <1>5, <1>6

\* A process that gives up a request, or is gone, has given one up, unless nothing was under way.
LEMMA AloneGivesUp ==
  ASSUME Alone, NEW p \in Procs,
         UNCHANGED <<requests, answers, jobs, sent>>,
         \A q \in Procs \ {p} : owner'[q] = owner[q] /\ strays'[q] = strays[q] /\ reset'[q] = reset[q],
         Undisturbed(p)' => Undisturbed(p) /\ owner[p] = Nobody
  PROVE  Alone'
<1> SUFFICES ASSUME NEW q \in Procs, Undisturbed(q)' PROVE OneMessage(q)'
  BY DEF Alone
<1>1. CASE q = p
  <2>1. /\ \A i \in DOMAIN requests : requests[i].pid # q
        /\ \A j \in jobs : j.pid # q
        /\ answers[q] = <<>>
    BY <1>1, NothingUnderWay
  <2> QED
    BY <2>1 DEF OneMessage
<1>2. CASE q # p
  <2>1. owner'[q] = owner[q] /\ OneMessage(q)
    BY <1>2 DEF Alone, Undisturbed
  <2> QED
    BY <2>1 DEF OneMessage
<1> QED
  BY <1>1, <1>2

LEMMA AloneTimesOut == ASSUME TypeOK, Alone, NEW t \in Threads, TimesOut(t) PROVE Alone'
<1> DEFINE p == ProcOf[t]
<1>1. p \in Procs
  BY Processes
<1>2. /\ owner' = [owner EXCEPT ![p] = Nobody]
      /\ strays' = [strays EXCEPT ![p] = @ + 1]
      /\ UNCHANGED <<requests, answers, jobs, sent, reset>>
  BY DEF TimesOut, Returns, queues, server
<1>3. \A q \in Procs \ {p} : owner'[q] = owner[q] /\ strays'[q] = strays[q] /\ reset'[q] = reset[q]
  BY <1>1, <1>2 DEF TypeOK
<1>4. ~ Undisturbed(p)'
  <2>1. strays'[p] = strays[p] + 1 /\ strays[p] \in Nat
    BY <1>1, <1>2 DEF TypeOK
  <2> QED
    BY <2>1 DEF Undisturbed
<1> HIDE DEF p
<1> QED
  BY <1>1, <1>2, <1>3, <1>4, AloneGivesUp

LEMMA AloneVanish == ASSUME TypeOK, OwnerWaits, Alone, NEW p \in Procs, Vanish(p) PROVE Alone'
<1>1. /\ owner' = [owner EXCEPT ![p] = Nobody]
      /\ strays' = [strays EXCEPT ![p] = @ + Cardinality(Waiting(p))]
      /\ UNCHANGED <<requests, answers, jobs, sent, reset>>
  BY DEF Vanish, queues, server
<1>2. \A q \in Procs \ {p} : owner'[q] = owner[q] /\ strays'[q] = strays[q] /\ reset'[q] = reset[q]
  BY <1>1 DEF TypeOK
<1>3. ASSUME Undisturbed(p)' PROVE Undisturbed(p) /\ owner[p] = Nobody
  <2>0. strays'[p] = 0 /\ ~ reset[p]
    BY <1>1, <1>3 DEF Undisturbed
  <2>1. strays[p] \in Nat /\ strays'[p] = strays[p] + Cardinality(Waiting(p))
    BY <1>1 DEF TypeOK
  <2>2. strays[p] = 0 /\ Cardinality(Waiting(p)) = 0
    BY <2>0, <2>1, WaitingFinite
  <2>3. Waiting(p) = {}
    BY <2>2, WaitingFinite, FS_EmptySet
  <2>4. owner[p] # Nobody => owner[p] \in Waiting(p)
    BY <2>0 DEF TypeOK, OwnerWaits, Waiting
  <2> QED
    BY <2>0, <2>2, <2>3, <2>4 DEF Undisturbed
<1> QED
  BY <1>1, <1>2, <1>3, AloneGivesUp

\* A mutex that nobody held is as good after it has been initialised.
LEMMA AloneInitMutex == ASSUME TypeOK, Alone, NEW t \in Threads, InitMutex(t) PROVE Alone'
<1> DEFINE p == ProcOf[t]
<1>1. p \in Procs
  BY Processes
<1>2. /\ owner' = [owner EXCEPT ![p] = Nobody]
      /\ reset' = [reset EXCEPT ![p] = @ \/ owner[p] # Nobody]
      /\ UNCHANGED <<requests, answers, jobs, sent, strays>>
  BY DEF InitMutex, queues, server
<1>3. \A q \in Procs \ {p} : owner'[q] = owner[q] /\ strays'[q] = strays[q] /\ reset'[q] = reset[q]
  BY <1>1, <1>2 DEF TypeOK
<1>4. Undisturbed(p)' => Undisturbed(p) /\ owner[p] = Nobody
  BY <1>1, <1>2 DEF TypeOK, Undisturbed
<1> HIDE DEF p
<1> QED
  BY <1>1, <1>2, <1>3, <1>4, AloneGivesUp

LEMMA AloneDestroyMutex == ASSUME TypeOK, Alone, NEW p \in Procs, DestroyMutex(p) PROVE Alone'
<1>1. UNCHANGED <<requests, answers, jobs, owner, sent>>
  BY DEF DestroyMutex, queues, server
<1>2. \A q \in Procs : Undisturbed(q)' => Undisturbed(q)
  BY DEF TypeOK, DestroyMutex, Undisturbed
<1> SUFFICES ASSUME NEW q \in Procs, OneMessage(q) PROVE OneMessage(q)'
  BY <1>2 DEF Alone
<1> QED
  BY <1>1 DEF OneMessage

LEMMA AloneDispatch == ASSUME TypeOK, Alone, Dispatch PROVE Alone'
<1> DEFINE r == Head(requests)
<1>1. requests \in Seq(Requests) /\ requests # <<>>
  BY DEF TypeOK, Dispatch
<1>2. /\ r = requests[1] /\ Len(requests) \in Nat /\ 1 \in DOMAIN requests
      /\ DOMAIN requests = 1 .. Len(requests) /\ DOMAIN Tail(requests) = 1 .. Len(requests) - 1
      /\ \A i \in 1 .. Len(requests) - 1 : Tail(requests)[i] = requests[i + 1]
  BY <1>1, HeadTailProperties, LenProperties, EmptySeq
<1>3. /\ requests' = Tail(requests)
      /\ jobs' = jobs \union {Job(r)}
      /\ Job(r).pid = r.pid /\ Job(r).n = r.n /\ r.pid \in Procs
      /\ UNCHANGED <<owner, sent, reset>>
  <2>1. r \in Requests
    BY <1>1, HeadTailProperties
  <2> QED
    BY <2>1 DEF Dispatch, Job, Requests, client
<1>4. \A q \in Procs : strays'[q] = 0 => strays[q] = 0 /\ answers'[q] = answers[q]
  <2>1. CASE UNCHANGED <<answers, strays>>
    BY <2>1
  <2>2. CASE ~ UNCHANGED <<answers, strays>>
    <3>1. /\ answers' = [answers EXCEPT ![r.pid] = Append(@, [n |-> r.n, kind |-> "error"])]
          /\ strays' = [strays EXCEPT ![r.pid] = @ + 1]
      BY <2>2 DEF Dispatch
    <3> HIDE DEF r
    <3> QED
      BY <1>3, <3>1 DEF TypeOK
  <2> QED
    BY <2>1, <2>2
<1>5. SUFFICES ASSUME NEW q \in Procs, Undisturbed(q)' PROVE OneMessage(q)'
  BY DEF Alone
<1>6. answers'[q] = answers[q] /\ OneMessage(q)
  BY <1>3, <1>4, <1>5 DEF Alone, Undisturbed
<1>7. \A i \in DOMAIN requests' : requests'[i].pid = q =>
        i + 1 \in DOMAIN requests /\ i + 1 # 1 /\ requests[i + 1] = requests'[i]
  BY <1>2, <1>3
<1> HIDE DEF r
<1>8. CASE r.pid = q
  <2>1. \A i \in DOMAIN requests' : requests'[i].pid # q
    BY <1>2, <1>6, <1>7, <1>8 DEF OneMessage
  <2>2. r.n = sent[q] /\ owner[q] # Nobody /\ answers[q] = <<>> /\ \A j \in jobs : j.pid # q
    BY <1>2, <1>6, <1>8 DEF OneMessage
  <2>3. \A j \in jobs' : j.pid = q => j = Job(r)
    BY <1>3, <2>2
  <2> QED
    BY <1>3, <1>6, <1>8, <2>1, <2>2, <2>3 DEF OneMessage
<1>9. CASE r.pid # q
  <2>1. \A j \in jobs' : j.pid = q => j \in jobs
    BY <1>3, <1>9
  <2>2. \A i, h \in DOMAIN requests' : requests'[i].pid = q /\ requests'[h].pid = q => h = i
    <3> SUFFICES ASSUME NEW i \in DOMAIN requests', NEW h \in DOMAIN requests',
                        requests'[i].pid = q, requests'[h].pid = q
                 PROVE  h = i
      OBVIOUS
    <3>1. h + 1 = i + 1
      BY <1>6, <1>7 DEF OneMessage
    <3>2. i \in Int /\ h \in Int
      BY <1>2, <1>3
    <3> QED
      BY <3>1, <3>2
  <2>3. \A i \in DOMAIN requests' : requests'[i].pid = q =>
          /\ requests'[i].n = sent[q] /\ owner[q] # Nobody /\ answers[q] = <<>>
          /\ \A j \in jobs : j.pid # q
    BY <1>6, <1>7 DEF OneMessage
  <2> QED
    BY <1>3, <1>6, <2>1, <2>2, <2>3 DEF OneMessage
<1> QED
  BY <1>8, <1>9

\* A job that is done with its request is still the job of the same call.
LEMMA AloneFinished ==
  ASSUME TypeOK, Alone, UNCHANGED <<requests, answers, owner, sent, reset, strays>>,
         NEW j \in jobs, \E answer : jobs' = Finished(j, answer)
  PROVE  Alone'
<1>1. PICK answer : jobs' = Finished(j, answer)
  OBVIOUS
<1>2. PICK f : f = [o \in jobs |-> IF o = j THEN [j EXCEPT !.answer = answer] ELSE o]
  OBVIOUS
<1>3. jobs' = {f[o] : o \in jobs}
  BY <1>1, <1>2 DEF Finished
<1>4. [j EXCEPT !.answer = answer].pid = j.pid /\ [j EXCEPT !.answer = answer].n = j.n
  BY DEF TypeOK, Jobs
<1>5. \A o \in jobs : f[o].pid = o.pid /\ f[o].n = o.n
  BY <1>2, <1>4
<1> QED
  BY <1>3, <1>5, AloneMarked

LEMMA AloneRun == ASSUME TypeOK, Alone, NEW j \in jobs, Run(j) PROVE Alone'
<1>1. UNCHANGED <<requests, answers, owner, sent, reset, strays>>
  BY DEF Run, RunSound, RunQuery, RunSetRoute, RunAdd, RunRemove, client, queues, ghost
<1>2. \E answer : jobs' = Finished(j, answer)
  BY DEF Run, RunSound, RunQuery, RunSetRoute, RunAdd, RunRemove
<1> QED
  BY <1>1, <1>2, AloneFinished

LEMMA AloneTellDone == ASSUME TypeOK, Alone, NEW k \in Lists, TellDone(k) PROVE Alone'
<1>1. UNCHANGED <<requests, answers, owner, sent, reset, strays>>
  BY DEF TellDone, client, queues, ghost
<1>2. PICK f : f = [j \in jobs |-> IF j.answer = "telling" /\ [pid |-> j.pid, n |-> j.n] = teller[k]
                                   THEN [j EXCEPT !.answer = j.kind] ELSE j]
  OBVIOUS
<1>3. jobs' = {f[j] : j \in jobs}
  BY <1>2 DEF TellDone
<1>4. \A j \in jobs : [j EXCEPT !.answer = j.kind].pid = j.pid /\ [j EXCEPT !.answer = j.kind].n = j.n
  BY DEF TypeOK, Jobs
<1>5. \A j \in jobs : f[j].pid = j.pid /\ f[j].n = j.n
  BY <1>2, <1>4
<1> QED
  BY <1>1, <1>3, <1>5, AloneMarked

\* The answer takes the place of the job.
LEMMA AloneAnswer == ASSUME TypeOK, Alone, NEW j \in jobs, Answer(j) PROVE Alone'
<1> DEFINE a == [n |-> j.n, kind |-> j.answer]
<1>1. /\ answers' = [answers EXCEPT ![j.pid] = Append(@, a)]
      /\ jobs' = jobs \ {j}
      /\ UNCHANGED <<requests, owner, sent, reset, strays>>
  BY DEF Answer, client, ghost
<1>2. j.pid \in Procs /\ a \in Answers
  BY DEF TypeOK, Jobs, Answer, Answers
<1>3. SUFFICES ASSUME NEW q \in Procs, Undisturbed(q) PROVE OneMessage(q)'
  BY <1>1 DEF Alone, Undisturbed
<1>4. OneMessage(q)
  BY <1>3 DEF Alone
<1>5. CASE q = j.pid
  <2>1. j.n = sent[q] /\ owner[q] # Nobody /\ answers[q] = <<>> /\ \A o \in jobs : o.pid = q => o = j
    BY <1>4, <1>5 DEF OneMessage
  <2>2. \A i \in DOMAIN requests : requests[i].pid # q
    BY <1>4, <1>5 DEF OneMessage
  <2>3. answers'[q] = Append(<<>>, a)
    BY <1>1, <1>2, <1>5, <2>1 DEF TypeOK
  <2>4. Len(answers'[q]) = 1 /\ answers'[q][1] = a
    BY <1>2, <2>3, EmptySeq, AppendProperties
  <2> QED
    BY <1>1, <2>1, <2>2, <2>4 DEF OneMessage
<1>6. CASE q # j.pid
  <2>1. answers'[q] = answers[q]
    BY <1>1, <1>2, <1>6 DEF TypeOK
  <2> QED
    BY <1>1, <1>4, <2>1 DEF OneMessage
<1> QED
  BY <1>5, <1>6

LEMMA AloneNext == TypeOK /\ OwnerWaits /\ MutexExists /\ Alone /\ [Next]_vars => Alone'
<1> SUFFICES ASSUME TypeOK, OwnerWaits, MutexExists, Alone, [Next]_vars PROVE Alone'
  OBVIOUS
<1>1. CASE UNCHANGED <<requests, answers, jobs, owner, sent, reset, strays>>
  BY <1>1 DEF Alone, OneMessage, Undisturbed
<1>2. CASE \E t \in Threads : InitMutex(t) \/ Send(t) \/ Receive(t) \/ TimesOut(t)
  BY <1>2, AloneInitMutex, AloneSend, AloneReceive, AloneTimesOut
<1>3. CASE \E t \in Threads : \/ \E kind \in Kinds, cb \in BOOLEAN : Call(t, kind, cb)
                              \/ MakeThread(t) \/ MemoryRefused(t)
  BY <1>1, <1>3 DEF Call, MakeThread, MemoryRefused, queues, server, ghost
<1>4. CASE \E p \in Procs : Exit(p) \/ FiniDone(p) \/ Ended(p) \/ Die(p)
  BY <1>4, AloneVanish, AloneDestroyMutex DEF Exit, FiniDone, Ended, Die
<1>5. CASE \E p \in Procs : TakeCallback(p) \/ FiniStart(p) \/ FiniSend(p)
  BY <1>1, <1>5 DEF TakeCallback, FiniStart, FiniSend, queues, server, ghost
<1>6. CASE Dispatch
  BY <1>6, AloneDispatch
<1>7. CASE \E j \in jobs : Run(j) \/ Answer(j)
  BY <1>7, AloneRun, AloneAnswer
<1>8. CASE \E k \in Lists : TellDone(k)
  BY <1>8, AloneTellDone
<1>9. CASE \E k \in Lists : DeviceChanges(k) \/ TellNext(k)
  BY <1>1, <1>9 DEF DeviceChanges, TellNext, client, queues, ghost
<1>10. CASE (\E s \in sounds : SoundOver(s)) \/ \E s \in ending : SoundEnds(s)
  BY <1>1, <1>10 DEF SoundOver, SoundEnds, client, queues, ghost
<1>11. CASE UNCHANGED vars
  BY <1>1, <1>11 DEF vars, client, queues, server, ghost
<1> QED
  BY <1>2, <1>3, <1>4, <1>5, <1>6, <1>7, <1>8, <1>9, <1>10, <1>11 DEF Next

\* When the answers of a process change and one of its threads returns, one has been taken.
LEMMA ReturnTakes ==
  ASSUME TypeOK, [Next]_vars, NEW t \in Threads, at[t] = "wait", at'[t] = "out",
         answers'[ProcOf[t]] # answers[ProcOf[t]]
  PROVE  answers[ProcOf[t]] # <<>>
<1>1. ~ UNCHANGED answers /\ ~ UNCHANGED at
  OBVIOUS
<1>2. CASE \E u \in Threads : Receive(u)
  BY <1>2, Processes DEF TypeOK, Receive
<1>3. CASE \E u \in Threads : \/ \E kind \in Kinds, cb \in BOOLEAN : Call(u, kind, cb)
                              \/ InitMutex(u) \/ MakeThread(u) \/ MemoryRefused(u) \/ Send(u) \/ TimesOut(u)
  BY <1>1, <1>3 DEF Call, InitMutex, MakeThread, MemoryRefused, Send, TimesOut, queues
<1>4. CASE \E p \in Procs : Vanish(p) \/ DestroyMutex(p)
  BY <1>1, <1>4 DEF Vanish, DestroyMutex, queues
<1>5. CASE \E p \in Procs : TakeCallback(p) \/ FiniStart(p) \/ FiniSend(p)
  BY <1>1, <1>5 DEF TakeCallback, FiniStart, FiniSend
<1>6. CASE \E p \in Procs : Exit(p) \/ FiniDone(p) \/ Ended(p) \/ Die(p)
  BY <1>4, <1>6 DEF Exit, FiniDone, Ended, Die
<1>7. CASE Dispatch
  BY <1>1, <1>7 DEF Dispatch, client
<1>8. CASE \E j \in jobs : Run(j) \/ Answer(j)
  BY <1>1, <1>8 DEF Run, RunSound, RunQuery, RunSetRoute, RunAdd, RunRemove, Answer, client
<1>9. CASE \E k \in Lists : DeviceChanges(k) \/ TellNext(k) \/ TellDone(k)
  BY <1>1, <1>9 DEF DeviceChanges, TellNext, TellDone, client
<1>10. CASE (\E s \in sounds : SoundOver(s)) \/ \E s \in ending : SoundEnds(s)
  BY <1>1, <1>10 DEF SoundOver, SoundEnds, client
<1>11. CASE UNCHANGED vars
  BY <1>1, <1>11 DEF vars, client
<1> QED
  BY <1>2, <1>3, <1>5, <1>6, <1>7, <1>8, <1>9, <1>10, <1>11 DEF Next

-----------------------------------------------------------------------------
(* Counting what is under way.                                             *)

\* The requests and the jobs bear different numbers, and the jobs can be counted.
Same(a, b) == a.pid = b.pid /\ a.n = b.n

Apart ==
  /\ IsFiniteSet(jobs)
  /\ \A i \in DOMAIN requests : requests[i].n <= sent[requests[i].pid]
  /\ \A j \in jobs : j.n <= sent[j.pid]
  /\ \A i, h \in DOMAIN requests : Same(requests[i], requests[h]) => i = h
  /\ \A j, o \in jobs : Same(j, o) => j = o
  /\ \A i \in DOMAIN requests, j \in jobs : ~ Same(requests[i], j)

\* Where a process has requests in the queue, and its jobs.
Places(s, p) == {i \in 1 .. Len(s) : s[i].pid = p}
JobsOf(p) == {j \in jobs : j.pid = p}

\* Sets with a one-to-one function between them have as many elements.
LEMMA SameSize ==
  ASSUME NEW S, NEW T, IsFiniteSet(S), NEW f, f \in [S -> T],
         \A x, y \in S : f[x] = f[y] => x = y,
         \A y \in T : \E x \in S : f[x] = y
  PROVE  IsFiniteSet(T) /\ Cardinality(T) = Cardinality(S)
<1>1. f \in Surjection(S, T) /\ f \in Injection(S, T)
  BY DEF Surjection, Injection, IsInjective
<1> QED
  BY <1>1, FS_Surjection

LEMMA PlacesFinite ==
  ASSUME NEW s \in Seq(Requests), NEW p
  PROVE  IsFiniteSet(Places(s, p)) /\ Cardinality(Places(s, p)) \in Nat
<1>1. Len(s) \in Int /\ Places(s, p) \subseteq 1 .. Len(s)
  BY LenProperties DEF Places
<1>2. IsFiniteSet(1 .. Len(s))
  BY <1>1, FS_Interval
<1>3. IsFiniteSet(Places(s, p))
  BY <1>1, <1>2, FS_Subset
<1> QED
  BY <1>3, FS_CardinalityType

\* A request at the end of the queue is one more of its process.
LEMMA PlacesAppend ==
  ASSUME NEW s \in Seq(Requests), NEW r \in Requests, NEW p
  PROVE  Cardinality(Places(Append(s, r), p)) = Cardinality(Places(s, p)) + IF r.pid = p THEN 1 ELSE 0
<1>1. /\ Len(s) \in Nat /\ Len(Append(s, r)) = Len(s) + 1
      /\ \A i \in 1 .. Len(s) : Append(s, r)[i] = s[i]
      /\ Append(s, r)[Len(s) + 1] = r
  BY AppendProperties, LenProperties
<1>2. Len(s) + 1 \notin Places(s, p)
  BY <1>1 DEF Places
<1>3. CASE r.pid = p
  <2>1. Places(Append(s, r), p) = Places(s, p) \union {Len(s) + 1}
    BY <1>1, <1>3 DEF Places
  <2> DEFINE P == Places(s, p)
             x == Len(s) + 1
  <2>2. IsFiniteSet(P) /\ Cardinality(P) \in Nat /\ x \notin P
    BY <1>2, PlacesFinite
  <2> HIDE DEF P, x
  <2>3. Cardinality(P \union {x}) = Cardinality(P) + 1
    BY <2>2, FS_AddElement
  <2> QED
    BY <1>3, <2>1, <2>3 DEF P, x
<1>4. CASE r.pid # p
  <2>1. Places(Append(s, r), p) = Places(s, p)
    BY <1>1, <1>4 DEF Places
  <2> QED
    BY <1>4, <2>1, PlacesFinite
<1> QED
  BY <1>3, <1>4

\* A request taken from the head of the queue is one less of its process.
LEMMA PlacesTail ==
  ASSUME NEW s \in Seq(Requests), s # <<>>, NEW p
  PROVE  Cardinality(Places(Tail(s), p)) = Cardinality(Places(s, p)) - IF s[1].pid = p THEN 1 ELSE 0
<1> DEFINE S == Places(Tail(s), p)
           T == Places(s, p) \ {1}
<1>1. /\ Tail(s) \in Seq(Requests) /\ Len(s) \in Nat /\ Len(Tail(s)) = Len(s) - 1
      /\ \A i \in 1 .. Len(s) - 1 : Tail(s)[i] = s[i + 1]
      /\ 1 \in 1 .. Len(s)
  BY HeadTailProperties, LenProperties, EmptySeq
<1>2. IsFiniteSet(S) /\ IsFiniteSet(Places(s, p)) /\ Cardinality(Places(s, p)) \in Nat
  BY <1>1, PlacesFinite
<1>3. Cardinality(T) = Cardinality(S)
  <2> DEFINE f == [i \in S |-> i + 1]
  <2>1. f \in [S -> T]
    BY <1>1 DEF Places
  <2>2. \A x, y \in S : f[x] = f[y] => x = y
    BY <1>1 DEF Places
  <2>3. \A y \in T : \E x \in S : f[x] = y
    <3> SUFFICES ASSUME NEW y \in T PROVE \E x \in S : f[x] = y
      OBVIOUS
    <3>1. y - 1 \in S /\ f[y - 1] = y
      BY <1>1 DEF Places
    <3> QED
      BY <3>1
  <2> HIDE DEF f, S, T
  <2> QED
    BY <1>2, <2>1, <2>2, <2>3, SameSize
<1>4. 1 \in Places(s, p) <=> s[1].pid = p
  BY <1>1 DEF Places
<1>5. Cardinality(T) = Cardinality(Places(s, p)) - IF s[1].pid = p THEN 1 ELSE 0
  <2> DEFINE P == Places(s, p)
  <2>1. IsFiniteSet(P) /\ Cardinality(P) \in Nat /\ (1 \in P <=> s[1].pid = p)
    BY <1>2, <1>4
  <2> HIDE DEF P
  <2>2. Cardinality(P \ {1}) = IF 1 \in P THEN Cardinality(P) - 1 ELSE Cardinality(P)
    BY <2>1, FS_RemoveElement
  <2>3. Cardinality(P \ {1}) = Cardinality(P) - IF s[1].pid = p THEN 1 ELSE 0
    BY <2>1, <2>2
  <2> QED
    BY <2>3 DEF P
<1> QED
  BY <1>3, <1>5

LEMMA JobsOfFinite ==
  ASSUME IsFiniteSet(jobs), NEW p
  PROVE  IsFiniteSet(JobsOf(p)) /\ Cardinality(JobsOf(p)) \in Nat
<1>1. JobsOf(p) \subseteq jobs
  BY DEF JobsOf
<1>2. IsFiniteSet(JobsOf(p))
  BY <1>1, FS_Subset
<1> QED
  BY <1>2, FS_CardinalityType

\* What is under way for a process, as a sum of three numbers.
LEMMA OwedIs ==
  \A p : /\ Owed(p) = Cardinality(Places(requests, p)) + Cardinality(JobsOf(p)) + Len(answers[p])
         /\ Owed(p)' = Cardinality(Places(requests', p)) + Cardinality(JobsOf(p)') + Len(answers'[p])
BY DEF Owed, Places, JobsOf

\* The numbers of the sum.
LEMMA OwedType ==
  ASSUME TypeOK, Apart, NEW p \in Procs
  PROVE  /\ Cardinality(Places(requests, p)) \in Nat
         /\ Cardinality(JobsOf(p)) \in Nat
         /\ Len(answers[p]) \in Nat
         /\ strays[p] \in Nat
         /\ Cardinality(Waiting(p)) \in Nat
<1>1. requests \in Seq(Requests) /\ answers[p] \in Seq(Answers) /\ strays[p] \in Nat
  BY DEF TypeOK
<1>2. Cardinality(JobsOf(p)) \in Nat
  BY JobsOfFinite DEF Apart
<1> QED
  BY <1>1, <1>2, PlacesFinite, LenProperties, WaitingFinite

LEMMA CountInit == Init => Apart /\ AnsweredOnce
<1> SUFFICES ASSUME Init PROVE Apart /\ AnsweredOnce
  OBVIOUS
<1>1. requests = <<>> /\ jobs = {} /\ \A p \in Procs : answers[p] = <<>> /\ strays[p] = 0
  BY DEF Init
<1>2. Apart
  BY <1>1, FS_EmptySet DEF Apart
<1>3. \A p \in Procs : Waiting(p) = {} /\ Places(requests, p) = {} /\ JobsOf(p) = {} /\ Len(answers[p]) = 0
  BY <1>1 DEF Init, Waiting, Places, JobsOf
<1>4. \A p \in Procs : Owed(p) = 0 /\ Cardinality(Waiting(p)) + strays[p] = 0
  <2>1. Cardinality({}) = 0
    BY FS_EmptySet
  <2> SUFFICES ASSUME NEW p \in Procs PROVE Owed(p) = 0 /\ Cardinality(Waiting(p)) + strays[p] = 0
    OBVIOUS
  <2>2. /\ Cardinality(Waiting(p)) = 0 /\ Cardinality(Places(requests, p)) = 0
        /\ Cardinality(JobsOf(p)) = 0 /\ Len(answers[p]) = 0 /\ strays[p] = 0
    BY <1>1, <1>3, <2>1
  <2>3. Owed(p) = 0 + 0 + 0
    BY <2>2, OwedIs
  <2> QED
    BY <2>2, <2>3
<1> QED
  BY <1>2, <1>4 DEF AnsweredOnce

\* A step that moves nothing keeps the count.
LEMMA CountQuiet ==
  ASSUME Apart, AnsweredOnce, UNCHANGED <<requests, answers, jobs, sent, strays>>,
         \A p \in Procs : Waiting(p)' = Waiting(p)
  PROVE  Apart' /\ AnsweredOnce'
<1>1. Apart'
  BY DEF Apart
<1>2. \A p \in Procs : Owed(p)' = Owed(p)
  BY DEF Owed
<1> QED
  BY <1>1, <1>2 DEF AnsweredOnce

\* A thread that begins to wait is one more.
LEMMA WaitingMore ==
  ASSUME TypeOK, NEW t \in Threads, at[t] # "wait", at' = [at EXCEPT ![t] = "wait"],
         NEW p \in Procs
  PROVE  Cardinality(Waiting(p)') = Cardinality(Waiting(p)) + IF ProcOf[t] = p THEN 1 ELSE 0
<1>1. Waiting(p)' = {u \in Threads : ProcOf[u] = p /\ at'[u] = "wait"}
  BY DEF Waiting
<1>2. t \notin Waiting(p) /\ IsFiniteSet(Waiting(p)) /\ Cardinality(Waiting(p)) \in Nat
  BY WaitingFinite DEF Waiting
<1>3. CASE ProcOf[t] = p
  <2>1. Waiting(p)' = Waiting(p) \union {t}
    BY <1>1, <1>3 DEF TypeOK, Waiting
  <2> QED
    BY <1>2, <1>3, <2>1, FS_AddElement
<1>4. CASE ProcOf[t] # p
  <2>1. Waiting(p)' = Waiting(p)
    BY <1>1, <1>4 DEF TypeOK, Waiting
  <2> QED
    BY <1>2, <1>4, <2>1
<1> QED
  BY <1>3, <1>4

\* A thread that returns is one less.
LEMMA WaitingLess ==
  ASSUME TypeOK, NEW t \in Threads, at[t] = "wait", at' = [at EXCEPT ![t] = "out"],
         NEW p \in Procs
  PROVE  Cardinality(Waiting(p)') = Cardinality(Waiting(p)) - IF ProcOf[t] = p THEN 1 ELSE 0
<1>1. Waiting(p)' = {u \in Threads : ProcOf[u] = p /\ at'[u] = "wait"}
  BY DEF Waiting
<1>2. IsFiniteSet(Waiting(p)) /\ Cardinality(Waiting(p)) \in Nat
  BY WaitingFinite
<1>3. CASE ProcOf[t] = p
  <2>1. Waiting(p)' = Waiting(p) \ {t} /\ t \in Waiting(p)
    BY <1>1, <1>3 DEF TypeOK, Waiting
  <2> QED
    BY <1>2, <1>3, <2>1, FS_RemoveElement
<1>4. CASE ProcOf[t] # p
  <2>1. Waiting(p)' = Waiting(p)
    BY <1>1, <1>4 DEF TypeOK, Waiting
  <2> QED
    BY <1>2, <1>4, <2>1
<1> QED
  BY <1>3, <1>4

LEMMA CountSend ==
  ASSUME TypeOK, Apart, AnsweredOnce, NEW t \in Threads, Send(t)
  PROVE  Apart' /\ AnsweredOnce'
<1> DEFINE q == ProcOf[t]
           r == [pid |-> q, n |-> sent[q] + 1, kind |-> call[t].kind, cb |-> call[t].cb]
<1>1. q \in Procs
  BY Processes
<1>2. requests \in Seq(Requests) /\ r \in Requests /\ r.pid = q /\ r.n = sent[q] + 1 /\ sent[q] \in Nat
  BY <1>1 DEF TypeOK, Requests, Numbers
<1>3. /\ requests' = Append(requests, r)
      /\ at[t] # "wait" /\ at' = [at EXCEPT ![t] = "wait"]
      /\ sent' = [sent EXCEPT ![q] = @ + 1]
      /\ UNCHANGED <<answers, jobs, strays>>
  BY DEF Send, server
<1> HIDE DEF r
<1>4. /\ DOMAIN requests = 1 .. Len(requests) /\ Len(requests) \in Nat
      /\ DOMAIN requests' = 1 .. Len(requests) + 1
      /\ \A i \in 1 .. Len(requests) : requests'[i] = requests[i]
      /\ requests'[Len(requests) + 1] = r
  <2>1. requests' \in Seq(Requests) /\ Len(requests') = Len(requests) + 1
    BY <1>2, <1>3, AppendProperties
  <2> QED
    BY <1>2, <1>3, <2>1, AppendProperties, LenProperties
<1> HIDE DEF q
<1>5. \A i \in DOMAIN requests : requests[i].pid \in Procs /\ requests[i].n \in Nat
  <2>1. \A i \in DOMAIN requests : requests[i] \in Requests
    BY <1>2, <1>4, ElementOfSeq
  <2> QED
    BY <2>1 DEF Requests, Numbers
<1>6. \A j \in jobs : j.pid \in Procs /\ j.n \in Nat
  BY DEF TypeOK, Jobs, Numbers
<1>7. \A p \in Procs : sent[p] \in Nat /\ sent'[p] = IF p = q THEN sent[p] + 1 ELSE sent[p]
  BY <1>1, <1>3 DEF TypeOK
<1>8. Apart'
  <2>1. IsFiniteSet(jobs')
    BY <1>3 DEF Apart
  <2>2. \A i \in DOMAIN requests : requests[i].n <= sent'[requests[i].pid] /\ ~ Same(requests[i], r)
    BY <1>2, <1>5, <1>7 DEF Apart, Same
  <2>3. \A j \in jobs' : j.n <= sent'[j.pid] /\ ~ Same(r, j)
    BY <1>2, <1>3, <1>6, <1>7 DEF Apart, Same
  <2>4. \A i \in DOMAIN requests' : i = Len(requests) + 1 \/ (i \in DOMAIN requests /\ requests'[i] = requests[i])
    BY <1>4
  <2>5. r.n <= sent'[r.pid]
    BY <1>1, <1>2, <1>7
  <2>6. \A i \in DOMAIN requests' : requests'[i].n <= sent'[requests'[i].pid]
    BY <1>4, <2>2, <2>4, <2>5
  <2>7. \A i, h \in DOMAIN requests' : Same(requests'[i], requests'[h]) => i = h
    BY <1>4, <2>2, <2>4 DEF Apart, Same
  <2>8. \A i \in DOMAIN requests', j \in jobs' : ~ Same(requests'[i], j)
    BY <1>3, <1>4, <2>3, <2>4 DEF Apart
  <2>9. \A j, o \in jobs' : Same(j, o) => j = o
    BY <1>3 DEF Apart
  <2> QED
    BY <2>1, <2>3, <2>6, <2>7, <2>8, <2>9 DEF Apart
<1>9. ASSUME NEW p \in Procs PROVE Owed(p)' = Cardinality(Waiting(p)') + strays'[p]
  <2>1. Cardinality(Places(requests', p)) = Cardinality(Places(requests, p)) + IF q = p THEN 1 ELSE 0
    BY <1>2, <1>3, PlacesAppend
  <2>2. Cardinality(Waiting(p)') = Cardinality(Waiting(p)) + IF q = p THEN 1 ELSE 0
    BY <1>3, <1>9, WaitingMore DEF q
  <2>3. JobsOf(p)' = JobsOf(p) /\ answers'[p] = answers[p] /\ strays'[p] = strays[p]
    BY <1>3 DEF JobsOf
  <2>4. Owed(p)' = Cardinality(Places(requests', p)) + Cardinality(JobsOf(p)') + Len(answers'[p])
    BY OwedIs
  <2>5. Cardinality(Places(requests, p)) + Cardinality(JobsOf(p)) + Len(answers[p]) = Cardinality(Waiting(p)) + strays[p]
    BY OwedIs DEF AnsweredOnce
  <2>6. /\ Cardinality(Places(requests, p)) \in Nat
        /\ Cardinality(JobsOf(p)) \in Nat
        /\ Len(answers[p]) \in Nat
        /\ strays[p] \in Nat
        /\ Cardinality(Waiting(p)) \in Nat
    BY <1>9, OwedType
  <2>7. Owed(p)' = Cardinality(Places(requests', p)) + Cardinality(JobsOf(p)) + Len(answers[p])
    BY <2>3, <2>4
  <2>8. CASE q = p
    <3>1. Owed(p)' = Cardinality(Waiting(p)) + strays[p] + 1
      BY <2>1, <2>5, <2>6, <2>7, <2>8
    <3> QED
      BY <2>2, <2>3, <2>6, <2>8, <3>1
  <2>9. CASE q # p
    <3>1. /\ Cardinality(Places(requests', p)) = Cardinality(Places(requests, p))
          /\ Cardinality(Waiting(p)') = Cardinality(Waiting(p))
      BY <2>1, <2>2, <2>6, <2>9
    <3> QED
      BY <2>3, <2>5, <2>7, <3>1
  <2> QED
    BY <2>8, <2>9
<1> QED
  BY <1>8, <1>9 DEF AnsweredOnce

LEMMA CountReceive ==
  ASSUME TypeOK, Apart, AnsweredOnce, NEW t \in Threads, Receive(t)
  PROVE  Apart' /\ AnsweredOnce'
<1> DEFINE q == ProcOf[t]
<1>1. q \in Procs
  BY Processes
<1>2. /\ answers[q] # <<>>
      /\ answers' = [answers EXCEPT ![q] = Tail(@)]
      /\ at[t] = "wait" /\ at' = [at EXCEPT ![t] = "out"]
      /\ UNCHANGED <<requests, jobs, sent, strays>>
  BY DEF Receive, Returns, server
<1>3. Apart'
  BY <1>2 DEF Apart
<1>4. ASSUME NEW p \in Procs PROVE Owed(p)' = Cardinality(Waiting(p)') + strays'[p]
  <2>1. Len(answers'[p]) = Len(answers[p]) - IF q = p THEN 1 ELSE 0
    <3>1. answers[p] \in Seq(Answers) /\ Len(answers[p]) \in Nat
      BY LenProperties DEF TypeOK
    <3>2. CASE p = q
      <4>1. answers'[p] = Tail(answers[p]) /\ answers[p] # <<>>
        BY <1>2, <3>2 DEF TypeOK
      <4> QED
        BY <3>1, <3>2, <4>1, HeadTailProperties
    <3>3. CASE p # q
      BY <1>1, <1>2, <3>1, <3>3 DEF TypeOK
    <3> QED
      BY <3>2, <3>3
  <2>2. Cardinality(Waiting(p)') = Cardinality(Waiting(p)) - IF q = p THEN 1 ELSE 0
    BY <1>2, <1>4, WaitingLess
  <2>3. JobsOf(p)' = JobsOf(p) /\ Places(requests', p) = Places(requests, p) /\ strays'[p] = strays[p]
    BY <1>2 DEF JobsOf
  <2>4. Owed(p)' = Cardinality(Places(requests', p)) + Cardinality(JobsOf(p)') + Len(answers'[p])
    BY OwedIs
  <2>5. Cardinality(Places(requests, p)) + Cardinality(JobsOf(p)) + Len(answers[p]) = Cardinality(Waiting(p)) + strays[p]
    BY OwedIs DEF AnsweredOnce
  <2>6. /\ Cardinality(Places(requests, p)) \in Nat
        /\ Cardinality(JobsOf(p)) \in Nat
        /\ Len(answers[p]) \in Nat
        /\ strays[p] \in Nat
        /\ Cardinality(Waiting(p)) \in Nat
    BY <1>4, OwedType
  <2>7. Owed(p)' = Cardinality(Places(requests, p)) + Cardinality(JobsOf(p)) + Len(answers'[p])
    BY <2>3, <2>4
  <2>8. CASE q = p
    <3>1. Len(answers'[p]) = Len(answers[p]) - 1
      BY <2>1, <2>8
    <3>2. Cardinality(Waiting(p)') = Cardinality(Waiting(p)) - 1
      BY <2>2, <2>8
    <3>3. Cardinality(Places(requests, p)) + Cardinality(JobsOf(p)) + Len(answers'[p])
            = Cardinality(Waiting(p)') + strays[p]
      <4> DEFINE a == Cardinality(Places(requests, p))
                 b == Cardinality(JobsOf(p))
                 l == Len(answers[p])
                 w == Cardinality(Waiting(p))
      <4>1. a \in Nat /\ b \in Nat /\ l \in Nat /\ w \in Nat /\ strays[p] \in Nat /\ a + b + l = w + strays[p]
        BY <2>5, <2>6
      <4> HIDE DEF a, b, l, w
      <4>2. a + b + (l - 1) = (w - 1) + strays[p]
        BY <4>1
      <4> QED
        BY <3>1, <3>2, <4>2 DEF a, b, l, w
    <3> QED
      BY <2>3, <2>7, <3>3
  <2>9. CASE q # p
    <3>1. Len(answers'[p]) = Len(answers[p]) /\ Cardinality(Waiting(p)') = Cardinality(Waiting(p))
      BY <2>1, <2>2, <2>6, <2>9
    <3> QED
      BY <2>3, <2>5, <2>7, <3>1
  <2> QED
    BY <2>8, <2>9
<1> QED
  BY <1>3, <1>4 DEF AnsweredOnce

LEMMA CountTimesOut ==
  ASSUME TypeOK, Apart, AnsweredOnce, NEW t \in Threads, TimesOut(t)
  PROVE  Apart' /\ AnsweredOnce'
<1> DEFINE q == ProcOf[t]
<1>1. q \in Procs
  BY Processes
<1>2. /\ at[t] = "wait" /\ at' = [at EXCEPT ![t] = "out"]
      /\ strays' = [strays EXCEPT ![q] = @ + 1]
      /\ UNCHANGED <<requests, answers, jobs, sent>>
  BY DEF TimesOut, Returns, queues, server
<1>3. Apart'
  BY <1>2 DEF Apart
<1>4. ASSUME NEW p \in Procs PROVE Owed(p)' = Cardinality(Waiting(p)') + strays'[p]
  <2>1. strays'[p] = strays[p] + IF q = p THEN 1 ELSE 0
    BY <1>1, <1>2 DEF TypeOK
  <2>2. Cardinality(Waiting(p)') = Cardinality(Waiting(p)) - IF q = p THEN 1 ELSE 0
    BY <1>2, <1>4, WaitingLess
  <2>3. Owed(p)' = Owed(p)
    BY <1>2 DEF Owed
  <2>4. Owed(p) = Cardinality(Waiting(p)) + strays[p]
    BY DEF AnsweredOnce
  <2> HIDE DEF q
  <2> QED
    BY <1>4, <2>1, <2>2, <2>3, <2>4, OwedType
<1> QED
  BY <1>3, <1>4 DEF AnsweredOnce

LEMMA CountVanish ==
  ASSUME TypeOK, Apart, AnsweredOnce, NEW q \in Procs, Vanish(q)
  PROVE  Apart' /\ AnsweredOnce'
<1>1. /\ at' = [t \in Threads |-> IF ProcOf[t] = q THEN "out" ELSE at[t]]
      /\ strays' = [strays EXCEPT ![q] = @ + Cardinality(Waiting(q))]
      /\ UNCHANGED <<requests, answers, jobs, sent>>
  BY DEF Vanish, queues, server
<1>2. Apart'
  BY <1>1 DEF Apart
<1>3. ASSUME NEW p \in Procs PROVE Owed(p)' = Cardinality(Waiting(p)') + strays'[p]
  <2>1. Owed(p)' = Owed(p) /\ Owed(p) = Cardinality(Waiting(p)) + strays[p]
    BY <1>1 DEF Owed, AnsweredOnce
  <2>2. CASE p = q
    <3>1. Waiting(p)' = {}
      BY <1>1, <2>2 DEF Waiting
    <3>2. Cardinality(Waiting(p)') = 0
      BY <3>1, FS_EmptySet
    <3>3. strays'[p] = strays[p] + Cardinality(Waiting(p))
      BY <1>1, <2>2 DEF TypeOK
    <3> QED
      BY <1>3, <2>1, <3>2, <3>3, OwedType
  <2>3. CASE p # q
    <3>1. Waiting(p)' = Waiting(p)
      BY <1>1, <2>3 DEF Waiting
    <3>2. strays'[p] = strays[p]
      BY <1>1, <2>3 DEF TypeOK
    <3> QED
      BY <2>1, <3>1, <3>2
  <2> QED
    BY <2>2, <2>3
<1> QED
  BY <1>2, <1>3 DEF AnsweredOnce

LEMMA CountDispatch ==
  ASSUME TypeOK, Apart, AnsweredOnce, Dispatch
  PROVE  Apart' /\ AnsweredOnce'
<1> DEFINE r == Head(requests)
<1>1. requests \in Seq(Requests) /\ requests # <<>>
  BY DEF TypeOK, Dispatch
<1>2. /\ r = requests[1] /\ Len(requests) \in Nat /\ 1 \in DOMAIN requests
      /\ DOMAIN requests = 1 .. Len(requests) /\ DOMAIN Tail(requests) = 1 .. Len(requests) - 1
      /\ \A i \in 1 .. Len(requests) - 1 : Tail(requests)[i] = requests[i + 1]
  BY <1>1, HeadTailProperties, LenProperties, EmptySeq
<1>3. /\ requests' = Tail(requests)
      /\ jobs' = jobs \union {Job(r)}
      /\ Job(r).pid = r.pid /\ Job(r).n = r.n /\ r.pid \in Procs
      /\ UNCHANGED <<at, sent>>
  <2>1. r \in Requests
    BY <1>1, HeadTailProperties
  <2> QED
    BY <2>1 DEF Dispatch, Job, Requests, client
<1>4. ASSUME NEW p \in Procs
      PROVE  \E d \in {0, 1} : Len(answers'[p]) = Len(answers[p]) + d /\ strays'[p] = strays[p] + d
  <2>1. Len(answers[p]) \in Nat /\ strays[p] \in Nat /\ answers[p] \in Seq(Answers)
    BY LenProperties DEF TypeOK
  <2>2. CASE UNCHANGED <<answers, strays>>
    BY <2>1, <2>2
  <2>3. CASE ~ UNCHANGED <<answers, strays>>
    <3> DEFINE a == [n |-> r.n, kind |-> "error"]
    <3>1. /\ answers' = [answers EXCEPT ![r.pid] = Append(@, a)]
          /\ strays' = [strays EXCEPT ![r.pid] = @ + 1]
      BY <2>3 DEF Dispatch
    <3>2. a \in Answers
      <4>1. r \in Requests
        BY <1>1, HeadTailProperties
      <4> QED
        BY <4>1 DEF Requests, Answers
    <3> HIDE DEF r, a
    <3>3. CASE p = r.pid
      <4>1. answers'[p] = Append(answers[p], a) /\ strays'[p] = strays[p] + 1
        BY <3>1, <3>3 DEF TypeOK
      <4>2. Len(answers'[p]) = Len(answers[p]) + 1
        BY <2>1, <3>2, <4>1, AppendProperties
      <4> QED
        BY <4>1, <4>2
    <3>4. CASE p # r.pid
      <4>1. answers'[p] = answers[p] /\ strays'[p] = strays[p]
        BY <3>1, <3>4 DEF TypeOK
      <4> QED
        BY <2>1, <4>1
    <3> QED
      BY <3>3, <3>4
  <2> QED
    BY <2>2, <2>3
<1>5. \A i \in DOMAIN requests' :
        i \in Nat /\ i + 1 \in DOMAIN requests /\ i + 1 # 1 /\ requests[i + 1] = requests'[i]
  BY <1>2, <1>3
<1> HIDE DEF r
<1>6. \A j \in jobs : ~ Same(Job(r), j)
  BY <1>2, <1>3 DEF Apart, Same
<1>7. Apart'
  <2>1. IsFiniteSet(jobs')
    BY <1>3, FS_AddElement DEF Apart
  <2>2. \A i \in DOMAIN requests' : requests'[i].n <= sent'[requests'[i].pid] /\ ~ Same(requests'[i], Job(r))
    BY <1>2, <1>3, <1>5 DEF Apart, Same
  <2>3. \A i, h \in DOMAIN requests' : Same(requests'[i], requests'[h]) => i = h
    <3> SUFFICES ASSUME NEW i \in DOMAIN requests', NEW h \in DOMAIN requests',
                        Same(requests'[i], requests'[h])
                 PROVE  i = h
      OBVIOUS
    <3>1. i + 1 = h + 1
      BY <1>5 DEF Apart
    <3> QED
      BY <1>5, <3>1
  <2>4. \A j \in jobs' : j.n <= sent'[j.pid]
    BY <1>2, <1>3 DEF Apart
  <2>5. \A j, o \in jobs' : Same(j, o) => j = o
    BY <1>3, <1>6 DEF Apart, Same
  <2>6. \A i \in DOMAIN requests', j \in jobs' : ~ Same(requests'[i], j)
    BY <1>3, <1>5, <2>2 DEF Apart
  <2> QED
    BY <2>1, <2>2, <2>3, <2>4, <2>5, <2>6 DEF Apart
<1>8. ASSUME NEW p \in Procs PROVE Owed(p)' = Cardinality(Waiting(p)') + strays'[p]
  <2>1. Cardinality(Places(requests', p)) = Cardinality(Places(requests, p)) - IF r.pid = p THEN 1 ELSE 0
    BY <1>1, <1>2, <1>3, PlacesTail
  <2>2. Cardinality(JobsOf(p)') = Cardinality(JobsOf(p)) + IF r.pid = p THEN 1 ELSE 0
    <3>1. IsFiniteSet(JobsOf(p)) /\ Cardinality(JobsOf(p)) \in Nat
      BY JobsOfFinite DEF Apart
    <3>2. CASE r.pid = p
      <4>1. JobsOf(p)' = JobsOf(p) \union {Job(r)} /\ Job(r) \notin JobsOf(p)
        BY <1>3, <1>6, <3>2 DEF JobsOf, Same
      <4> QED
        BY <3>1, <3>2, <4>1, FS_AddElement
    <3>3. CASE r.pid # p
      <4>1. JobsOf(p)' = JobsOf(p)
        BY <1>3, <3>3 DEF JobsOf
      <4> QED
        BY <3>1, <3>3, <4>1
    <3> QED
      BY <3>2, <3>3
  <2>3. Waiting(p)' = Waiting(p)
    BY <1>3 DEF Waiting
  <2>4. Owed(p)' = Cardinality(Places(requests', p)) + Cardinality(JobsOf(p)') + Len(answers'[p])
    BY OwedIs
  <2>5. Cardinality(Places(requests, p)) + Cardinality(JobsOf(p)) + Len(answers[p]) = Cardinality(Waiting(p)) + strays[p]
    BY OwedIs DEF AnsweredOnce
  <2>6. PICK d \in {0, 1} : Len(answers'[p]) = Len(answers[p]) + d /\ strays'[p] = strays[p] + d
    BY <1>4, <1>8
  <2>7. d \in Int /\ Cardinality(Waiting(p)') = Cardinality(Waiting(p))
    BY <2>3
  <2>8. /\ Cardinality(Places(requests, p)) \in Nat
        /\ Cardinality(JobsOf(p)) \in Nat
        /\ Len(answers[p]) \in Nat
        /\ strays[p] \in Nat
        /\ Cardinality(Waiting(p)) \in Nat
    BY <1>8, OwedType
  <2>9. Cardinality(Places(requests', p)) + Cardinality(JobsOf(p)') = Cardinality(Places(requests, p)) + Cardinality(JobsOf(p))
    BY <2>1, <2>2, <2>8
  <2>10. /\ Cardinality(Places(requests', p)) \in Int /\ Cardinality(JobsOf(p)') \in Int
         /\ Len(answers'[p]) \in Int /\ strays'[p] \in Int
    BY <2>1, <2>2, <2>6, <2>7, <2>8
  <2>11. Owed(p)' = Cardinality(Places(requests, p)) + Cardinality(JobsOf(p)) + Len(answers[p]) + d
    BY <2>4, <2>6, <2>7, <2>8, <2>9, <2>10
  <2> QED
    BY <2>5, <2>6, <2>7, <2>8, <2>11
<1> QED
  BY <1>7, <1>8 DEF AnsweredOnce

\* Jobs that are only marked with their answer are as many.
LEMMA CountMarked ==
  ASSUME TypeOK, Apart, AnsweredOnce, UNCHANGED <<requests, answers, at, sent, strays>>,
         \E f : /\ jobs' = {f[j] : j \in jobs}
                /\ \A j \in jobs : f[j].pid = j.pid /\ f[j].n = j.n
  PROVE  Apart' /\ AnsweredOnce'
<1>1. PICK f : /\ jobs' = {f[j] : j \in jobs}
               /\ \A j \in jobs : f[j].pid = j.pid /\ f[j].n = j.n
  OBVIOUS
<1>2. \A j, o \in jobs : Same(f[j], f[o]) => j = o
  BY <1>1 DEF Apart, Same
<1>3. IsFiniteSet(jobs')
  <2> DEFINE g == [j \in jobs |-> f[j]]
  <2>1. g \in [jobs -> jobs'] /\ \A y \in jobs' : \E x \in jobs : g[x] = y
    BY <1>1
  <2>2. \A x, y \in jobs : g[x] = g[y] => x = y
    BY <1>2 DEF Same
  <2>3. IsFiniteSet(jobs)
    BY DEF Apart
  <2> DEFINE T == jobs'
  <2>4. g \in [jobs -> T] /\ \A y \in T : \E x \in jobs : g[x] = y
    BY <2>1
  <2> HIDE DEF g, T
  <2>5. IsFiniteSet(T)
    BY <2>2, <2>3, <2>4, SameSize
  <2> QED
    BY <2>5 DEF T
<1>4. Apart'
  <2>1. \A j \in jobs' : j.n <= sent'[j.pid]
    BY <1>1 DEF Apart
  <2>2. \A j, o \in jobs' : Same(j, o) => j = o
    <3> SUFFICES ASSUME NEW j \in jobs', NEW o \in jobs', Same(j, o) PROVE j = o
      OBVIOUS
    <3>1. PICK x \in jobs, y \in jobs : j = f[x] /\ o = f[y]
      BY <1>1
    <3> QED
      BY <1>2, <3>1
  <2>3. \A i \in DOMAIN requests', j \in jobs' : ~ Same(requests'[i], j)
    BY <1>1 DEF Apart, Same
  <2> QED
    BY <1>3, <2>1, <2>2, <2>3 DEF Apart
<1>5. ASSUME NEW p \in Procs PROVE Owed(p)' = Cardinality(Waiting(p)') + strays'[p]
  <2>1. Cardinality(JobsOf(p)') = Cardinality(JobsOf(p))
    <3> DEFINE g == [j \in JobsOf(p) |-> f[j]]
    <3>1. \A j \in JobsOf(p) : f[j] \in JobsOf(p)'
      BY <1>1 DEF JobsOf
    <3>2. \A y \in JobsOf(p)' : \E x \in JobsOf(p) : f[x] = y
      BY <1>1 DEF JobsOf
    <3>3. \A x, y \in JobsOf(p) : f[x] = f[y] => x = y
      BY <1>2 DEF JobsOf, Same
    <3>4. IsFiniteSet(JobsOf(p))
      BY JobsOfFinite DEF Apart
    <3>5. /\ g \in [JobsOf(p) -> JobsOf(p)']
          /\ \A y \in JobsOf(p)' : \E x \in JobsOf(p) : g[x] = y
          /\ \A x, y \in JobsOf(p) : g[x] = g[y] => x = y
      BY <3>1, <3>2, <3>3
    <3> HIDE DEF g
    <3> QED
      BY <3>4, <3>5, SameSize
  <2>2. Waiting(p)' = Waiting(p)
    BY DEF Waiting
  <2>3. Owed(p)' = Owed(p)
    BY <2>1, OwedIs
  <2> QED
    BY <2>2, <2>3 DEF AnsweredOnce
<1> QED
  BY <1>4, <1>5 DEF AnsweredOnce

LEMMA CountRun == ASSUME TypeOK, Apart, AnsweredOnce, NEW j \in jobs, Run(j) PROVE Apart' /\ AnsweredOnce'
<1>1. UNCHANGED <<requests, answers, at, sent, strays>>
  BY DEF Run, RunSound, RunQuery, RunSetRoute, RunAdd, RunRemove, client, queues, ghost
<1>2. PICK answer : jobs' = Finished(j, answer)
  BY DEF Run, RunSound, RunQuery, RunSetRoute, RunAdd, RunRemove
<1>3. PICK f : f = [o \in jobs |-> IF o = j THEN [j EXCEPT !.answer = answer] ELSE o]
  OBVIOUS
<1>4. jobs' = {f[o] : o \in jobs}
  BY <1>2, <1>3 DEF Finished
<1>5. [j EXCEPT !.answer = answer].pid = j.pid /\ [j EXCEPT !.answer = answer].n = j.n
  BY DEF TypeOK, Jobs
<1>6. \A o \in jobs : f[o].pid = o.pid /\ f[o].n = o.n
  BY <1>3, <1>5
<1> QED
  BY <1>1, <1>4, <1>6, CountMarked

LEMMA CountTellDone ==
  ASSUME TypeOK, Apart, AnsweredOnce, NEW k \in Lists, TellDone(k)
  PROVE  Apart' /\ AnsweredOnce'
<1>1. UNCHANGED <<requests, answers, at, sent, strays>>
  BY DEF TellDone, client, queues, ghost
<1>2. PICK f : f = [j \in jobs |-> IF j.answer = "telling" /\ [pid |-> j.pid, n |-> j.n] = teller[k]
                                   THEN [j EXCEPT !.answer = j.kind] ELSE j]
  OBVIOUS
<1>3. jobs' = {f[j] : j \in jobs}
  BY <1>2 DEF TellDone
<1>4. \A j \in jobs : [j EXCEPT !.answer = j.kind].pid = j.pid /\ [j EXCEPT !.answer = j.kind].n = j.n
  BY DEF TypeOK, Jobs
<1>5. \A j \in jobs : f[j].pid = j.pid /\ f[j].n = j.n
  BY <1>2, <1>4
<1> QED
  BY <1>1, <1>3, <1>5, CountMarked

\* An answer takes the place of its job.
LEMMA CountAnswer ==
  ASSUME TypeOK, Apart, AnsweredOnce, NEW j \in jobs, Answer(j)
  PROVE  Apart' /\ AnsweredOnce'
<1> DEFINE a == [n |-> j.n, kind |-> j.answer]
<1>1. /\ answers' = [answers EXCEPT ![j.pid] = Append(@, a)]
      /\ jobs' = jobs \ {j}
      /\ UNCHANGED <<requests, at, sent, strays>>
  BY DEF Answer, client, ghost
<1>2. j.pid \in Procs /\ a \in Answers
  BY DEF TypeOK, Jobs, Answer, Answers
<1> HIDE DEF a
<1>3. Apart'
  <2>1. IsFiniteSet(jobs')
    BY <1>1, FS_RemoveElement DEF Apart
  <2> QED
    BY <1>1, <2>1 DEF Apart
<1>4. ASSUME NEW p \in Procs PROVE Owed(p)' = Cardinality(Waiting(p)') + strays'[p]
  <2>1. IsFiniteSet(JobsOf(p)) /\ Cardinality(JobsOf(p)) \in Nat
    BY JobsOfFinite DEF Apart
  <2>2. answers[p] \in Seq(Answers) /\ Len(answers[p]) \in Nat
    BY LenProperties DEF TypeOK
  <2>3. Cardinality(JobsOf(p)') + Len(answers'[p]) = Cardinality(JobsOf(p)) + Len(answers[p])
    <3>1. CASE p = j.pid
      <4>1. JobsOf(p)' = JobsOf(p) \ {j} /\ j \in JobsOf(p)
        BY <1>1, <3>1 DEF JobsOf
      <4>2. Cardinality(JobsOf(p)') = Cardinality(JobsOf(p)) - 1
        BY <2>1, <4>1, FS_RemoveElement
      <4>3. answers'[p] = Append(answers[p], a)
        BY <1>1, <3>1 DEF TypeOK
      <4>4. Len(answers'[p]) = Len(answers[p]) + 1
        BY <1>2, <2>2, <4>3, AppendProperties
      <4> QED
        BY <2>1, <2>2, <4>2, <4>4
    <3>2. CASE p # j.pid
      <4>1. JobsOf(p)' = JobsOf(p)
        BY <1>1, <3>2 DEF JobsOf
      <4>2. answers'[p] = answers[p]
        BY <1>1, <1>2, <3>2 DEF TypeOK
      <4> QED
        BY <4>1, <4>2
    <3> QED
      BY <3>1, <3>2
  <2>4. Waiting(p)' = Waiting(p) /\ Places(requests', p) = Places(requests, p) /\ strays'[p] = strays[p]
    BY <1>1 DEF Waiting
  <2>5. Owed(p)' = Cardinality(Places(requests', p)) + Cardinality(JobsOf(p)') + Len(answers'[p])
    BY OwedIs
  <2>6. Cardinality(Places(requests, p)) + Cardinality(JobsOf(p)) + Len(answers[p]) = Cardinality(Waiting(p)) + strays[p]
    BY OwedIs DEF AnsweredOnce
  <2>7. IsFiniteSet(JobsOf(p)') /\ Cardinality(JobsOf(p)') \in Nat /\ Len(answers'[p]) \in Nat
    <3>1. TypeOK' /\ IsFiniteSet(jobs')
      BY <1>3, TypeAnswer DEF Apart
    <3>2. IsFiniteSet(JobsOf(p)')
      <4>1. JobsOf(p)' \subseteq jobs'
        BY DEF JobsOf
      <4> QED
        BY <3>1, <4>1, FS_Subset
    <3>3. answers'[p] \in Seq(Answers)
      BY <3>1 DEF TypeOK
    <3> QED
      BY <3>2, <3>3, FS_CardinalityType, LenProperties
  <2>8. /\ Cardinality(Places(requests, p)) \in Nat
        /\ Cardinality(JobsOf(p)) \in Nat
        /\ Len(answers[p]) \in Nat
        /\ strays[p] \in Nat
        /\ Cardinality(Waiting(p)) \in Nat
    BY <1>4, OwedType
  <2>9. Owed(p)' = Cardinality(Places(requests, p)) + Cardinality(JobsOf(p)') + Len(answers'[p])
    BY <2>4, <2>5
  <2>10. Owed(p)' = Cardinality(Places(requests, p)) + Cardinality(JobsOf(p)) + Len(answers[p])
    <3>1. Owed(p)' = Cardinality(Places(requests, p)) + (Cardinality(JobsOf(p)') + Len(answers'[p]))
      BY <2>7, <2>8, <2>9
    <3>2. Owed(p)' = Cardinality(Places(requests, p)) + (Cardinality(JobsOf(p)) + Len(answers[p]))
      BY <2>3, <3>1
    <3> QED
      BY <2>8, <3>2
  <2>11. Owed(p)' = Cardinality(Waiting(p)) + strays[p]
    BY <2>6, <2>10
  <2> QED
    BY <2>4, <2>11
<1> QED
  BY <1>3, <1>4 DEF AnsweredOnce

LEMMA CountNext == TypeOK /\ Apart /\ AnsweredOnce /\ [Next]_vars => Apart' /\ AnsweredOnce'
<1> SUFFICES ASSUME TypeOK, Apart, AnsweredOnce, [Next]_vars PROVE Apart' /\ AnsweredOnce'
  OBVIOUS
<1>1. CASE UNCHANGED <<requests, answers, jobs, sent, strays, at>>
  <2>1. \A p \in Procs : Waiting(p)' = Waiting(p)
    BY <1>1 DEF Waiting
  <2> QED
    BY <1>1, <2>1, CountQuiet
<1>2. CASE \E t \in Threads : Send(t) \/ Receive(t) \/ TimesOut(t)
  BY <1>2, CountSend, CountReceive, CountTimesOut
<1>3. ASSUME NEW t \in Threads,
             \/ \E kind \in Kinds, cb \in BOOLEAN : Call(t, kind, cb)
             \/ InitMutex(t) \/ MakeThread(t) \/ MemoryRefused(t)
      PROVE  Apart' /\ AnsweredOnce'
  <2>1. UNCHANGED <<requests, answers, jobs, sent, strays>>
    BY <1>3 DEF Call, InitMutex, MakeThread, MemoryRefused, queues, server, ghost
  <2>2. at[t] # "wait" /\ \E place \in {"init", "make", "lock", "out"} : at' = [at EXCEPT ![t] = place]
    BY <1>3 DEF Call, Initialised, InitMutex, MakeThread, MemoryRefused
  <2>3. \A p \in Procs : Waiting(p)' = Waiting(p)
    BY <2>2 DEF TypeOK, Waiting
  <2> QED
    BY <2>1, <2>3, CountQuiet
<1>4. CASE \E p \in Procs : Exit(p) \/ FiniDone(p) \/ Ended(p) \/ Die(p)
  <2>1. CASE \E p \in Procs : Vanish(p)
    BY <2>1, CountVanish
  <2>2. CASE \E p \in Procs : DestroyMutex(p)
    BY <1>1, <2>2 DEF DestroyMutex, queues, server
  <2> QED
    BY <1>4, <2>1, <2>2 DEF Exit, FiniDone, Ended, Die
<1>5. CASE \E p \in Procs : TakeCallback(p) \/ FiniStart(p) \/ FiniSend(p)
  BY <1>1, <1>5 DEF TakeCallback, FiniStart, FiniSend, queues, server, ghost
<1>6. CASE Dispatch
  BY <1>6, CountDispatch
<1>7. CASE \E j \in jobs : Run(j) \/ Answer(j)
  BY <1>7, CountRun, CountAnswer
<1>8. CASE \E k \in Lists : TellDone(k)
  BY <1>8, CountTellDone
<1>9. CASE \E k \in Lists : DeviceChanges(k) \/ TellNext(k)
  BY <1>1, <1>9 DEF DeviceChanges, TellNext, client, queues, ghost
<1>10. CASE (\E s \in sounds : SoundOver(s)) \/ \E s \in ending : SoundEnds(s)
  BY <1>1, <1>10 DEF SoundOver, SoundEnds, client, queues, ghost
<1>11. CASE UNCHANGED vars
  BY <1>1, <1>11 DEF vars, client, queues, server, ghost
<1> QED
  BY <1>2, <1>3, <1>4, <1>5, <1>6, <1>7, <1>8, <1>9, <1>10, <1>11 DEF Next

-----------------------------------------------------------------------------
(* Theorems.                                                               *)

\* The exchange of requests and answers keeps its inductive invariant
\* (mm_sound_client.c, mm_sound_mgr_ipc.c).
THEOREM Invariance == Spec => []IInv
<1>1. IInv /\ [Next]_vars => IInv'
  BY TypeNext, OwnerNext, AloneNext DEF IInv
<1> QED
  BY InitInv, <1>1, PTL DEF Spec

\* The queues, the jobs of the server and its two lists hold what they are meant to
\* (mm_sound_mgr_ipc.c, mm_sound_mgr_device.c, mm_sound_client.c).
THEOREM TypeCorrect == Spec => []TypeOK
<1>1. IInv => TypeOK
  BY DEF IInv
<1> QED
  BY Invariance, <1>1, PTL

\* Any number of threads of a process can call the library at the same time: the one that waits
\* has the mutex (g_thread_mutex of mm_sound_client.c), as long as it has not been initialised
\* while it was held, or destroyed while it was in use.
THEOREM MutexHeld == Spec => []OwnerWaits
<1>1. IInv => OwnerWaits
  BY DEF IInv
<1> QED
  BY Invariance, <1>1, PTL

\* One message is under way for a process at a time, unless it has given up a request, or the mutex
\* has been initialised while a thread held it or destroyed while one used it (MMSoundClientPlaySound
\* and the others of mm_sound_client.c).
THEOREM OneAtATime == Spec => []Alone
<1>1. IInv => Alone
  BY DEF IInv
<1> QED
  BY Invariance, <1>1, PTL

\* A call takes the answer to its own request, as long as its process has not given one up, nor has
\* the mutex been taken from one of its threads by the first call of another, or by the end of the
\* library (__MMIpcRecvMsg of mm_sound_client.c looks at the process and the type only).
THEOREM OwnAnswerTaken == Spec => OwnAnswer
<1>1. ASSUME IInv, [Next]_vars PROVE TakesOwn
  <2> SUFFICES ASSUME NEW t \in Threads, at[t] = "wait", at'[t] = "out",
                      answers'[ProcOf[t]] # answers[ProcOf[t]], Undisturbed(ProcOf[t])
               PROVE  Head(answers[ProcOf[t]]).n = sent[ProcOf[t]]
    BY DEF TakesOwn
  <2>1. ProcOf[t] \in Procs
    BY Processes
  <2>2. answers[ProcOf[t]] # <<>>
    BY <1>1, <2>1, ReturnTakes DEF IInv
  <2>3. answers[ProcOf[t]][1].n = sent[ProcOf[t]]
    BY <1>1, <2>1, <2>2 DEF IInv, Alone, OneMessage
  <2>4. Head(answers[ProcOf[t]]) = answers[ProcOf[t]][1]
    <3>1. answers[ProcOf[t]] \in Seq(Answers)
      BY <1>1, <2>1 DEF IInv, TypeOK
    <3> QED
      BY <2>2, <3>1, EmptySeq
  <2> QED
    BY <2>3, <2>4
<1>2. IInv /\ [Next]_vars => [TakesOwn]_vars
  BY <1>1
<1> QED
  BY Invariance, <1>2, PTL DEF Spec, OwnAnswer

\* Every request is answered once: what is under way for a process is the answer it waits for and
\* one for each request it has given up, which stays in the queue for good
\* (__MMIpcRecvMsg of mm_sound_client.c, _MMSoundMgrRun and MMSoundMgrIpcReady of mm_sound_mgr_ipc.c).
THEOREM AlwaysAnsweredOnce == Spec => []AnsweredOnce
<1>1. IInv => TypeOK
  BY DEF IInv
<1> QED
  BY <1>1, CountInit, CountNext, Invariance, PTL DEF Spec
=============================================================================
