---------------------------------- MODULE Ipc ----------------------------------
(***************************************************************************)
(* The three message queues between the sound server and its clients.      *)
(*                                                                         *)
(* A call of the library takes the mutex of its process, sends a request,  *)
(* polls for an answer and gives up after a while (mm_sound_client.c).     *)
(* The server gives each request a thread of its own                       *)
(* (mm_sound_mgr_ipc.c).  Two lists say which process is told of changes   *)
(* of devices (mm_sound_mgr_device.c); what is told, and the end of        *)
(* sounds, goes through the third queue to a callback thread that the      *)
(* library starts when it is first needed.                                 *)
(*                                                                         *)
(* Messages are found by the process they are for, so each queue is kept   *)
(* as a sequence per process, except that of the requests.  Calls are      *)
(* numbered in each process, and messages bear the number of the call they *)
(* come from; the code has no such number.                                 *)
(***************************************************************************)
EXTENDS Integers, Sequences, FiniteSets, Functions

CONSTANTS
  Procs,      \* the client processes
  Threads,    \* their application threads
  ProcOf,     \* the process of a thread
  Does,       \* the kinds of requests a thread makes
  Ends,       \* how a process may end: "exit", "kill"
  MaxCalls,   \* bound on the requests of each process
  MaxChanges, \* bound on the changes of devices each list is told of
  Room,       \* how many messages the callback queue holds
  Faults,     \* what may go wrong, see below
  Nobody      \* no thread, no job

Plays   == {"file", "memory"}      \* MM_SOUND_MSG_REQ_FILE, _MEMORY
Sounds  == Plays \union {"tone", "stop"}
Queries == {"isRoute", "foreach", "getDevice", "isA2dp"}
Adds    == {"addActive", "addRoute"}
Removes == {"removeActive", "removeRoute"}
Kinds   == Sounds \union Queries \union Adds \union Removes \union {"setRoute"}
Lists   == {"active", "route"}

\* The list a request to be told, or not to be told, is about.
ListOf == [addActive |-> "active", removeActive |-> "active",
           addRoute  |-> "route",  removeRoute  |-> "route"]

ASSUME ConstantsAssumption ==
  /\ IsFiniteSet(Threads)
  /\ ProcOf \in [Threads -> Procs]
  /\ Does \in [Threads -> SUBSET Kinds]
  /\ Ends \in [Procs -> SUBSET {"exit", "kill"}]
  /\ MaxCalls \in [Procs -> Nat]
  /\ MaxChanges \in [Lists -> Nat]
  /\ Room \in Nat \ {0}
  \* "late": an answer takes longer than a client waits; "thread": no thread can be created;
  \* "push": the pool reports an error; "memory": no shared memory
  /\ Faults \subseteq {"late", "thread", "push", "memory"}
  /\ Nobody \notin Threads /\ Nobody \notin Procs

Numbers == Nat \ {0}
Requests == [pid : Procs, n : Numbers, kind : Kinds, cb : BOOLEAN]
Answers == [n : Numbers, kind : Kinds \union {"error"}]
Messages == [type : Lists \union {"stop", "destroy"}, n : Nat]
Entries == [pid : Procs, n : Numbers]
Jobs == [pid : Procs, n : Numbers, kind : Kinds, cb : BOOLEAN,
         answer : Kinds \union {"error", "none", "telling"}]

VARIABLES
  \* the client processes
  at,       \* where a thread is: "out" of the library, about to "init"ialise the mutex, about to
            \* "make" the callback thread, waiting for the "lock", or "wait"ing for its answer
  call,     \* what the thread asks for
  initted,  \* g_mutex_initted /= -1
  owner,    \* g_thread_mutex: the thread that holds it
  marked,   \* g_thread_id /= -1
  workers,  \* the number of callback threads
  left,     \* g_exit_thread
  fini,     \* MMSoundClientCallbackFini: "no", "send", "wait", "over"; "gone" when the process is
  \* the queues
  requests, answers, callbacks,
  \* the server
  jobs,     \* requests that have a thread, with the answer once there is one
  list,     \* g_active_device_cb_list, g_available_route_cb_list
  telling,  \* the mutex of each list and the loop over it: 0 when free, or the next position
  teller,   \* the job that runs the loop, Nobody if it is an accessory's thread
  sounds,   \* sounds that play and have a stop callback
  ending,   \* the one whose end holds g_slot_mutex
  changes,
  \* what only the properties use
  sent,     \* the number of the process's last request
  reset,    \* the mutex has been initialised while it was held, or destroyed while it was in use
  strays,   \* answers sent or to be sent that nobody waits for
  view      \* what a process knows of its callbacks: a call's number, 0 removed, -1 unknown

client == <<at, call, initted, owner, marked, workers, left, fini>>
queues == <<requests, answers, callbacks>>
server == <<jobs, list, telling, teller, sounds, ending, changes>>
ghost  == <<sent, reset, strays, view>>
vars   == <<client, queues, server, ghost>>

\* What a thread asked for is of no interest once it has returned.
NoCall == [kind |-> "stop", cb |-> FALSE]

Init ==
  /\ at = [t \in Threads |-> "out"]
  /\ call = [t \in Threads |-> NoCall]
  /\ initted = [p \in Procs |-> FALSE]
  /\ owner = [p \in Procs |-> Nobody]
  /\ marked = [p \in Procs |-> FALSE]
  /\ workers = [p \in Procs |-> 0]
  /\ left = [p \in Procs |-> FALSE]
  /\ fini = [p \in Procs |-> "no"]
  /\ requests = <<>>
  /\ answers = [p \in Procs |-> <<>>]
  /\ callbacks = [p \in Procs |-> <<>>]
  /\ jobs = {}
  /\ list = [k \in Lists |-> <<>>]
  /\ telling = [k \in Lists |-> 0]
  /\ teller = [k \in Lists |-> [pid |-> Nobody, n |-> 0]]
  /\ sounds = {}
  /\ ending = {}
  /\ changes = [k \in Lists |-> 0]
  /\ sent = [p \in Procs |-> 0]
  /\ reset = [p \in Procs |-> FALSE]
  /\ strays = [p \in Procs |-> 0]
  /\ view = [p \in Procs |-> [k \in Lists |-> 0]]

Alive(p) == fini[p] # "gone"
Waiting(p) == {t \in Threads : ProcOf[t] = p /\ at[t] = "wait"}
Busy(p) == {t \in Threads : ProcOf[t] = p /\ at[t] # "out"}

\* The callback queue is shared by all processes, and msgsnd waits while it is full.
CallbackRoom == FoldFunction(LAMBDA s, total : Len(s) + total, 0, callbacks) < Room

-----------------------------------------------------------------------------
(* The library's calls.                                                    *)

\* With the mutex there, a sound with a callback looks for the callback thread, and this before
\* it has the mutex.
Initialised(p, c) == IF c.cb /\ ~marked[p] THEN "make" ELSE "lock"

\* A call begins.  The first one will initialise the mutex (__mm_sound_client_get_msg_queue).
Call(t, kind, cb) ==
  /\ at[t] = "out"
  /\ Alive(ProcOf[t])
  /\ sent[ProcOf[t]] + Cardinality(Busy(ProcOf[t])) < MaxCalls[ProcOf[t]]
  /\ kind \in Does[t]
  /\ cb => kind \in Plays
  /\ call' = [call EXCEPT ![t] = [kind |-> kind, cb |-> cb]]
  /\ at' = [at EXCEPT ![t] = IF initted[ProcOf[t]] THEN Initialised(ProcOf[t], [kind |-> kind, cb |-> cb])
                                                   ELSE "init"]
  /\ UNCHANGED <<initted, owner, marked, workers, left, fini, queues, server, ghost>>

\* Nothing protects g_mutex_initted: of two first calls the second initialises a mutex that the
\* first may hold already, and then nobody holds it.
InitMutex(t) ==
  LET p == ProcOf[t] IN
  /\ at[t] = "init"
  /\ initted' = [initted EXCEPT ![p] = TRUE]
  /\ owner' = [owner EXCEPT ![p] = Nobody]
  /\ reset' = [reset EXCEPT ![p] = @ \/ owner[p] # Nobody]
  /\ at' = [at EXCEPT ![t] = Initialised(p, call[t])]
  /\ UNCHANGED <<call, marked, workers, left, fini, queues, server, sent, strays, view>>

\* pthread_create, whose error number is positive while the code compares with -1.
Create(p) ==
  /\ marked' = [marked EXCEPT ![p] = TRUE]
  /\ \/ workers' = [workers EXCEPT ![p] = @ + 1]
     \/ "thread" \in Faults /\ workers' = workers

MakeThread(t) ==
  /\ at[t] = "make"
  /\ Create(ProcOf[t])
  /\ at' = [at EXCEPT ![t] = "lock"]
  /\ UNCHANGED <<call, initted, owner, left, fini, queues, server, ghost>>

\* pthread_mutex_lock returns when nobody holds the mutex, and at once, with an error nobody
\* looks at, when it has been destroyed.
MutexFree(p) == owner[p] = Nobody \/ (fini[p] = "over" /\ ~initted[p])

\* The memory is too big, or cannot be shared: the call returns, with the code of success.
MemoryRefused(t) ==
  /\ "memory" \in Faults
  /\ at[t] = "lock"
  /\ MutexFree(ProcOf[t])
  /\ call[t].kind = "memory"
  /\ at' = [at EXCEPT ![t] = "out"]
  /\ call' = [call EXCEPT ![t] = NoCall]
  /\ UNCHANGED <<initted, owner, marked, workers, left, fini, queues, server, ghost>>

\* Mutant: the mutex protects the sending only.
SendUnlocked(t) ==
  LET p == ProcOf[t]
      r == [pid |-> p, n |-> sent[p] + 1, kind |-> call[t].kind, cb |-> call[t].cb] IN
  /\ at[t] = "lock"
  /\ MutexFree(p)
  /\ at' = [at EXCEPT ![t] = "wait"]
  /\ requests' = Append(requests, r)
  /\ sent' = [sent EXCEPT ![p] = @ + 1]
  /\ view' = IF r.kind \in Adds \union Removes
             THEN [view EXCEPT ![p][ListOf[r.kind]] = -1] ELSE view
  /\ UNCHANGED <<call, initted, owner, marked, workers, left, fini, answers, callbacks, server,
                 reset, strays>>

\* pthread_mutex_lock, then __MMIpcSndMsg.
Send(t) ==
  LET p == ProcOf[t]
      r == [pid |-> p, n |-> sent[p] + 1, kind |-> call[t].kind, cb |-> call[t].cb] IN
  /\ at[t] = "lock"
  /\ MutexFree(p)
  /\ at' = [at EXCEPT ![t] = "wait"]
  /\ owner' = [owner EXCEPT ![p] = t]
  /\ requests' = Append(requests, r)
  /\ sent' = [sent EXCEPT ![p] = @ + 1]
  /\ view' = IF r.kind \in Adds \union Removes
             THEN [view EXCEPT ![p][ListOf[r.kind]] = -1] ELSE view
  /\ UNCHANGED <<call, initted, marked, workers, left, fini, answers, callbacks, server, reset, strays>>

\* The answer is the one the request is for, as far as the library looks: at the type.
Fits(kind, answer) == answer = kind \/ {answer, kind} \subseteq Plays

\* The mutex is unlocked, also by a thread that has lost it.
Returns(t) ==
  /\ at' = [at EXCEPT ![t] = "out"]
  /\ call' = [call EXCEPT ![t] = NoCall]
  /\ owner' = [owner EXCEPT ![ProcOf[t]] = Nobody]

\* __MMIpcRecvMsg finds an answer.  After an error, or an answer of another type, the message's
\* code is returned, and that of a wrong type is the code of success.
Receive(t) ==
  LET p    == ProcOf[t]
      kind == call[t].kind
      fits == Fits(kind, Head(answers[p]).kind) IN
  /\ at[t] = "wait"
  /\ answers[p] # <<>>
  /\ Returns(t)
  /\ answers' = [answers EXCEPT ![p] = Tail(@)]
  /\ IF fits /\ kind \in Adds /\ ~marked[p] THEN Create(p) ELSE UNCHANGED <<marked, workers>>
  /\ view' = IF fits /\ kind \in Adds \union Removes
             THEN [view EXCEPT ![p][ListOf[kind]] = IF kind \in Adds THEN sent[p] ELSE 0]
             ELSE view
  /\ UNCHANGED <<initted, left, fini, requests, callbacks, server, sent, reset, strays>>

\* Mutant: a client waits for ever.
WaitsForEver(t) == FALSE

\* No answer in 20000 polls.  The answer that comes later is left for the next call.
TimesOut(t) ==
  LET p == ProcOf[t] IN
  /\ "late" \in Faults
  /\ at[t] = "wait"
  /\ answers[p] = <<>>
  /\ Returns(t)
  /\ strays' = [strays EXCEPT ![p] = @ + 1]
  /\ UNCHANGED <<initted, marked, workers, left, fini, queues, server, sent, reset, view>>

-----------------------------------------------------------------------------
(* The callback thread, and the end of a process.                          *)

\* Mutant: the thread leaves without a word.
LeavesSilently(p) ==
  LET last == Head(callbacks[p]).type = "destroy" IN
  /\ workers[p] > 0
  /\ callbacks[p] # <<>>
  /\ callbacks' = [callbacks EXCEPT ![p] = Tail(@)]
  /\ workers' = [workers EXCEPT ![p] = IF last THEN @ - 1 ELSE @]
  /\ UNCHANGED <<at, call, initted, owner, marked, left, fini, requests, answers, server, ghost>>

\* callbackfunc takes a message and runs the callback, or leaves.  A thread that is slow in
\* a callback is slow to take the next message.
TakeCallback(p) ==
  LET last == Head(callbacks[p]).type = "destroy" IN
  /\ workers[p] > 0
  /\ callbacks[p] # <<>>
  /\ callbacks' = [callbacks EXCEPT ![p] = Tail(@)]
  /\ workers' = [workers EXCEPT ![p] = IF last THEN @ - 1 ELSE @]
  /\ left' = [left EXCEPT ![p] = @ \/ last]
  /\ UNCHANGED <<at, call, initted, owner, marked, fini, requests, answers, server, ghost>>

\* A process is gone, but not what it sent, what is meant for it, and its place in the lists.
Vanish(p) ==
  /\ fini' = [fini EXCEPT ![p] = "gone"]
  /\ at' = [t \in Threads |-> IF ProcOf[t] = p THEN "out" ELSE at[t]]
  /\ call' = [t \in Threads |-> IF ProcOf[t] = p THEN NoCall ELSE call[t]]
  /\ initted' = [initted EXCEPT ![p] = FALSE]
  /\ owner' = [owner EXCEPT ![p] = Nobody]
  /\ workers' = [workers EXCEPT ![p] = 0]
  /\ marked' = [marked EXCEPT ![p] = FALSE]
  /\ left' = [left EXCEPT ![p] = FALSE]
  /\ strays' = [strays EXCEPT ![p] = @ + Cardinality(Waiting(p))]
  /\ view' = [view EXCEPT ![p] = [k \in Lists |-> -1]]
  /\ UNCHANGED <<queues, server, sent, reset>>

\* The library's destructor ends with the mutex.  Other threads may still use it, or make a new
\* one, until the process is gone.
DestroyMutex(p) ==
  /\ fini' = [fini EXCEPT ![p] = "over"]
  /\ left' = [left EXCEPT ![p] = FALSE]
  /\ initted' = [initted EXCEPT ![p] = FALSE]
  /\ reset' = [reset EXCEPT ![p] = @ \/ Busy(p) # {}]
  /\ UNCHANGED <<at, call, owner, marked, workers, queues, server, sent, strays, view>>

\* Without a callback thread there is nothing to wait for.
Exit(p) ==
  /\ "exit" \in Ends[p]
  /\ fini[p] = "no"
  /\ \E t \in Threads : ProcOf[t] = p /\ at[t] = "out"
  /\ ~marked[p]
  /\ DestroyMutex(p)

FiniStart(p) ==
  /\ "exit" \in Ends[p]
  /\ fini[p] = "no"
  /\ \E t \in Threads : ProcOf[t] = p /\ at[t] = "out"
  /\ marked[p]
  /\ fini' = [fini EXCEPT ![p] = "send"]
  /\ UNCHANGED <<at, call, initted, owner, marked, workers, left, queues, server, ghost>>

FiniSend(p) ==
  /\ fini[p] = "send"
  /\ CallbackRoom
  /\ callbacks' = [callbacks EXCEPT ![p] = Append(@, [type |-> "destroy", n |-> 0])]
  /\ fini' = [fini EXCEPT ![p] = "wait"]
  /\ UNCHANGED <<at, call, initted, owner, marked, workers, left, requests, answers, server, ghost>>

FiniDone(p) ==
  /\ fini[p] = "wait"
  /\ left[p]
  /\ DestroyMutex(p)

Ended(p) ==
  /\ fini[p] = "over"
  /\ Vanish(p)

Die(p) ==
  /\ "kill" \in Ends[p]
  /\ Alive(p)
  /\ Vanish(p)
-----------------------------------------------------------------------------
(* The server.                                                             *)

Job(r) == [pid |-> r.pid, n |-> r.n, kind |-> r.kind, cb |-> r.cb, answer |-> "none"]

\* MMSoundMgrIpcReady hands a request to the pool.  When the pool cannot start a thread it
\* reports an error and keeps the request all the same: there will be two answers.
Dispatch ==
  LET r == Head(requests) IN
  /\ requests # <<>>
  /\ requests' = Tail(requests)
  /\ jobs' = jobs \union {Job(r)}
  /\ \/ UNCHANGED <<answers, strays>>
     \/ /\ "push" \in Faults
        /\ answers' = [answers EXCEPT ![r.pid] = Append(@, [n |-> r.n, kind |-> "error"])]
        /\ strays' = [strays EXCEPT ![r.pid] = @ + 1]
  /\ UNCHANGED <<client, callbacks, list, telling, teller, sounds, ending, changes, sent, reset, view>>

Finished(j, answer) == (jobs \ {j}) \union {[j EXCEPT !.answer = answer]}

\* A request for the codec manager, which takes g_slot_mutex.  A sound that plays will report
\* its end.
RunSound(j) ==
  /\ j.answer = "none" /\ j.kind \in Sounds
  /\ ending = {}
  /\ \/ jobs' = Finished(j, "error") /\ sounds' = sounds
     \/ /\ jobs' = Finished(j, j.kind)
        /\ sounds' = IF j.cb THEN sounds \union {[pid |-> j.pid, n |-> j.n]} ELSE sounds
  /\ UNCHANGED <<client, queues, list, telling, teller, ending, changes, ghost>>

RunQuery(j) ==
  /\ j.answer = "none" /\ j.kind \in Queries
  /\ jobs' = Finished(j, j.kind)
  /\ UNCHANGED <<client, queues, list, telling, teller, sounds, ending, changes, ghost>>

\* Setting the route tells the list of active devices if it changes them, in the same thread.
RunSetRoute(j) ==
  /\ j.answer = "none" /\ j.kind = "setRoute"
  /\ \/ jobs' = Finished(j, j.kind) /\ UNCHANGED <<telling, teller>>
     \/ /\ telling["active"] = 0
        /\ telling' = [telling EXCEPT !["active"] = 1]
        /\ teller' = [teller EXCEPT !["active"] = [pid |-> j.pid, n |-> j.n]]
        /\ jobs' = Finished(j, "telling")
  /\ UNCHANGED <<client, queues, list, sounds, ending, changes, ghost>>

\* The first entry of a process in a list of entries, 0 if it has none.
Position(l, p) ==
  IF \E i \in 1 .. Len(l) : l[i].pid = p
  THEN CHOOSE i \in 1 .. Len(l) : l[i].pid = p /\ \A h \in 1 .. i - 1 : l[h].pid # p
  ELSE 0

\* Mutant: every call makes a new entry.
AppendedAlways(l, p, n) == Append(l, [pid |-> p, n |-> n])

\* An entry is replaced where it is, or goes to the end.
Added(l, p, n) ==
  IF Position(l, p) = 0 THEN Append(l, [pid |-> p, n |-> n])
                        ELSE [l EXCEPT ![Position(l, p)] = [pid |-> p, n |-> n]]

RunAdd(j) ==
  LET k == ListOf[j.kind] IN
  /\ j.answer = "none" /\ j.kind \in Adds
  /\ telling[k] = 0
  /\ list' = [list EXCEPT ![k] = Added(@, j.pid, j.n)]
  /\ jobs' = Finished(j, j.kind)
  /\ UNCHANGED <<client, queues, telling, teller, sounds, ending, changes, ghost>>

Removed(l, p) ==
  LET i == Position(l, p) IN
  IF i = 0 THEN l ELSE SubSeq(l, 1, i - 1) \o SubSeq(l, i + 1, Len(l))

\* Mutant: nothing is answered when there was nothing to remove.
RemoveSilently(j) ==
  LET k == ListOf[j.kind] IN
  /\ j.answer = "none" /\ j.kind \in Removes
  /\ telling[k] = 0
  /\ list' = [list EXCEPT ![k] = Removed(@, j.pid)]
  /\ jobs' = IF Position(list[k], j.pid) = 0 THEN jobs \ {j} ELSE Finished(j, j.kind)
  /\ UNCHANGED <<client, queues, telling, teller, sounds, ending, changes, ghost>>

RunRemove(j) ==
  LET k == ListOf[j.kind] IN
  /\ j.answer = "none" /\ j.kind \in Removes
  /\ telling[k] = 0
  /\ list' = [list EXCEPT ![k] = Removed(@, j.pid)]
  /\ jobs' = Finished(j, j.kind)
  /\ UNCHANGED <<client, queues, telling, teller, sounds, ending, changes, ghost>>

\* Mutant: the answer does not wait until everyone has been told.
AnswerEarly(j) ==
  /\ j.answer # "none"
  /\ answers' = [answers EXCEPT ![j.pid] = Append(@, [n |-> j.n, kind |-> j.answer])]
  /\ jobs' = jobs \ {j}
  /\ UNCHANGED <<client, requests, callbacks, list, telling, teller, sounds, ending, changes, ghost>>

\* The end of _MMSoundMgrRun.
Answer(j) ==
  /\ j.answer \notin {"none", "telling"}
  /\ answers' = [answers EXCEPT ![j.pid] = Append(@, [n |-> j.n, kind |-> j.answer])]
  /\ jobs' = jobs \ {j}
  /\ UNCHANGED <<client, requests, callbacks, list, telling, teller, sounds, ending, changes, ghost>>

\* An accessory's thread, or the end or start of a call, changes a device.
DeviceChanges(k) ==
  /\ changes[k] < MaxChanges[k]
  /\ telling[k] = 0
  /\ changes' = [changes EXCEPT ![k] = @ + 1]
  /\ telling' = [telling EXCEPT ![k] = 1]
  /\ teller' = [teller EXCEPT ![k] = [pid |-> Nobody, n |-> 0]]
  /\ UNCHANGED <<client, queues, jobs, list, sounds, ending, ghost>>

\* One turn of the loop, in _MMIpcCBSndMsg as long as there is no room.
TellNext(k) ==
  LET e == list[k][telling[k]] IN
  /\ telling[k] \in 1 .. Len(list[k])
  /\ CallbackRoom
  /\ callbacks' = [callbacks EXCEPT ![e.pid] = Append(@, [type |-> k, n |-> e.n])]
  /\ telling' = [telling EXCEPT ![k] = @ + 1]
  /\ UNCHANGED <<client, requests, answers, jobs, list, teller, sounds, ending, changes, ghost>>

\* Mutant: the mutex of the list is not released.
TellKeepsMutex(k) ==
  /\ telling[k] = Len(list[k]) + 1
  /\ telling' = [telling EXCEPT ![k] = @ + 1]
  /\ teller' = [teller EXCEPT ![k] = [pid |-> Nobody, n |-> 0]]
  /\ jobs' = {IF j.answer = "telling" /\ [pid |-> j.pid, n |-> j.n] = teller[k]
              THEN [j EXCEPT !.answer = j.kind] ELSE j : j \in jobs}
  /\ UNCHANGED <<client, queues, list, sounds, ending, changes, ghost>>

TellDone(k) ==
  /\ telling[k] > Len(list[k])
  /\ telling' = [telling EXCEPT ![k] = 0]
  /\ teller' = [teller EXCEPT ![k] = [pid |-> Nobody, n |-> 0]]
  /\ jobs' = {IF j.answer = "telling" /\ [pid |-> j.pid, n |-> j.n] = teller[k]
              THEN [j EXCEPT !.answer = j.kind] ELSE j : j \in jobs}
  /\ UNCHANGED <<client, queues, list, sounds, ending, changes, ghost>>

\* The codec manager calls _MMSoundMgrStopCB when a sound is over, and has g_slot_mutex while
\* that waits for room.
SoundOver(s) ==
  /\ ending = {}
  /\ sounds' = sounds \ {s}
  /\ ending' = {s}
  /\ UNCHANGED <<client, queues, jobs, list, telling, teller, changes, ghost>>

SoundEnds(s) ==
  /\ CallbackRoom
  /\ ending' = {}
  /\ callbacks' = [callbacks EXCEPT ![s.pid] = Append(@, [type |-> "stop", n |-> s.n])]
  /\ UNCHANGED <<client, requests, answers, jobs, list, telling, teller, sounds, changes, ghost>>
-----------------------------------------------------------------------------
Run(j) == RunSound(j) \/ RunQuery(j) \/ RunSetRoute(j) \/ RunAdd(j) \/ RunRemove(j)

Next ==
  \/ \E t \in Threads :
       \/ \E kind \in Kinds, cb \in BOOLEAN : Call(t, kind, cb)
       \/ InitMutex(t) \/ MakeThread(t) \/ MemoryRefused(t) \/ Send(t) \/ Receive(t) \/ TimesOut(t)
  \/ \E p \in Procs :
       \/ TakeCallback(p)
       \/ Exit(p) \/ FiniStart(p) \/ FiniSend(p) \/ FiniDone(p) \/ Ended(p) \/ Die(p)
  \/ Dispatch
  \/ \E j \in jobs : Run(j) \/ Answer(j)
  \/ \E k \in Lists : DeviceChanges(k) \/ TellNext(k) \/ TellDone(k)
  \/ \E s \in sounds : SoundOver(s)
  \/ \E s \in ending : SoundEnds(s)

Spec == Init /\ [][Next]_vars

\* Every thread that can go on does.  Calls are begun, processes end and devices change as they
\* please, and a sound may play for ever.  A thread that waits for a mutex while it is initialised
\* again may never be woken.
Serves(p, n) == \E j \in jobs : j.pid = p /\ j.n = n /\ (Run(j) \/ Answer(j))

Fairness ==
  /\ \A t \in Threads :
       /\ WF_vars(InitMutex(t)) /\ WF_vars(MakeThread(t))
       /\ WF_vars(Send(t) /\ ~reset[ProcOf[t]])
       /\ WF_vars(Receive(t) \/ TimesOut(t))
  /\ \A p \in Procs :
       /\ WF_vars(TakeCallback(p))
       /\ WF_vars(FiniSend(p)) /\ WF_vars(FiniDone(p))
       /\ \A n \in 1 .. MaxCalls[p] : WF_vars(Serves(p, n))
  /\ WF_vars(Dispatch)
  /\ WF_vars(\E s \in ending : SoundEnds(s))
  /\ \A k \in Lists : WF_vars(TellNext(k)) /\ WF_vars(TellDone(k))

FairSpec == Spec /\ Fairness
-----------------------------------------------------------------------------
(* Properties.                                                             *)

TypeOK ==
  /\ at \in [Threads -> {"out", "init", "make", "lock", "wait"}]
  /\ call \in [Threads -> [kind : Kinds, cb : BOOLEAN]]
  /\ initted \in [Procs -> BOOLEAN]
  /\ owner \in [Procs -> Threads \union {Nobody}]
  /\ marked \in [Procs -> BOOLEAN]
  /\ workers \in [Procs -> Nat]
  /\ left \in [Procs -> BOOLEAN]
  /\ fini \in [Procs -> {"no", "send", "wait", "over", "gone"}]
  /\ requests \in Seq(Requests)
  /\ answers \in [Procs -> Seq(Answers)]
  /\ callbacks \in [Procs -> Seq(Messages)]
  /\ jobs \subseteq Jobs
  /\ list \in [Lists -> Seq(Entries)]
  /\ telling \in [Lists -> Nat]
  /\ teller \in [Lists -> [pid : Procs \union {Nobody}, n : Nat]]
  /\ sounds \subseteq Entries
  /\ ending \subseteq Entries
  /\ changes \in [Lists -> Nat] /\ \A k \in Lists : changes[k] <= MaxChanges[k]
  /\ sent \in [Procs -> Nat]
  /\ reset \in [Procs -> BOOLEAN]
  /\ strays \in [Procs -> Nat]
  /\ view \in [Procs -> [Lists -> Nat \union {-1}]]

\* A process whose calls go one at a time: it has given up no request, and the mutex has not been
\* initialised while it was held or destroyed while it was in use.
Undisturbed(p) == strays[p] = 0 /\ ~reset[p]

\* What the server owes a process, and what it has already answered.
Owed(p) == Cardinality({i \in 1 .. Len(requests) : requests[i].pid = p})
             + Cardinality({j \in jobs : j.pid = p}) + Len(answers[p])

\* Every request is answered once: what is under way for a process is the answer it waits for
\* and one for each request it has given up.  Nothing ever takes the latter out of the queue, so
\* that each later call takes the answer of an earlier one (mm_sound_client.c, __MMIpcRecvMsg).
AnsweredOnce == \A p \in Procs : Owed(p) = Cardinality(Waiting(p)) + strays[p]

\* A call takes the answer to its own request, as long as its process has not given one up and
\* the mutex has not been taken from a thread that held it: two threads of a process use one
\* message type and rely on the mutex, which their first calls make (mm_sound_client.c).
TakesOwn ==
  \A t \in Threads :
    LET p == ProcOf[t] IN
    /\ at[t] = "wait" /\ at'[t] = "out" /\ answers'[p] # answers[p]
    /\ Undisturbed(p)
    => Head(answers[p]).n = sent[p]

OwnAnswer == [][TakesOwn]_vars

\* The mutex of a process is there when a thread is past the first check, and is held by the one
\* thread that waits for an answer, unless it has been taken from a thread ...
OwnerWaits ==
  /\ \A t \in Threads : at[t] = "wait" /\ ~reset[ProcOf[t]] => owner[ProcOf[t]] = t
  /\ \A p \in Procs : owner[p] # Nobody /\ ~reset[p] =>
       at[owner[p]] = "wait" /\ ProcOf[owner[p]] = p

MutexExists ==
  \A t \in Threads : at[t] \in {"make", "lock", "wait"} /\ ~reset[ProcOf[t]] => initted[ProcOf[t]]

\* ... and, unless the process has given up a request, what is under way for it is one message:
\* the request, its job or its answer.
OneMessage(p) ==
  /\ \A i \in DOMAIN requests : requests[i].pid = p =>
       /\ requests[i].n = sent[p] /\ owner[p] # Nobody /\ answers[p] = <<>>
       /\ \A j \in jobs : j.pid # p
       /\ \A h \in DOMAIN requests : requests[h].pid = p => h = i
  /\ \A j \in jobs : j.pid = p =>
       /\ j.n = sent[p] /\ owner[p] # Nobody /\ answers[p] = <<>>
       /\ \A o \in jobs : o.pid = p => o = j
  /\ answers[p] # <<>> =>
       Len(answers[p]) = 1 /\ answers[p][1].n = sent[p] /\ owner[p] # Nobody

Alone == \A p \in Procs : Undisturbed(p) => OneMessage(p)

\* What a process was told about its device callbacks is what the server's lists say: the
\* callback of its last successful call to add, once, or none after its call to remove, as long
\* as its calls go one at a time (_mm_sound_mgr_device_add_active_device_callback and the other three).
SubscribedIsListed ==
  \A p \in Procs, k \in Lists :
    Undisturbed(p) =>
      LET mine == {i \in 1 .. Len(list[k]) : list[k][i].pid = p} IN
      /\ view[p][k] = 0 => mine = {}
      /\ view[p][k] > 0 => \E i \in mine : mine = {i} /\ list[k][i].n = view[p][k]

\* A process has messages that none of its threads will read.
Unheard == \E p \in Procs : callbacks[p] # <<>> /\ workers[p] = 0

Pending(p, n) == \/ \E i \in 1 .. Len(requests) : requests[i].pid = p /\ requests[i].n = n
                 \/ \E j \in jobs : j.pid = p /\ j.n = n

\* The server answers every request, though it keeps the mutex of a list, or that of the sounds,
\* while it waits for room in the callback queue.  Only a process that never reads its messages
\* can stop it (_mm_sound_mgr_device_active_device_callback, _MMSoundMgrCodecStopCallback).
ServerAnswers ==
  \A p \in Procs : \A n \in 1 .. MaxCalls[p] : []<>~Pending(p, n) \/ <>[]Unheard

\* Every call of the library returns, whatever has become of the server's threads, unless the
\* mutex has been initialised or destroyed under a thread that uses it.
CallsReturn == \A t \in Threads : at[t] # "out" ~> at[t] = "out" \/ reset[ProcOf[t]]

\* The end of a process is not held up by its callback thread for ever, unless the queue is
\* full of messages nobody reads (MMSoundClientCallbackFini).
FiniReturns == \A p \in Procs : []<>(fini[p] \notin {"send", "wait"}) \/ <>[]Unheard

-----------------------------------------------------------------------------
(* Statements of the repository the code does not keep.                    *)

\* "Active device callback deregistered and does not be called anymore." (mm_sound.h:2011)
\* A message that is in the queue when the callback is removed is delivered all the same.
NotCalledAfterRemove ==
  [][\A p \in Procs, k \in Lists :
       callbacks[p] # <<>> /\ callbacks'[p] = Tail(callbacks[p]) /\ Head(callbacks[p]).type = k => view[p][k] # 0]_vars

\* "callback thread is created just once" (mm_sound_client.c:485): MMSoundClientPlaySound looks
\* at g_thread_id before it has the mutex.
OneCallbackThread == \A p \in Procs : workers[p] <= 1

\* "When the the callback thread is not created, do not wait destory thread"
\* (mm_sound_client.c:98): pthread_create returns a positive number when it fails, which is
\* taken for a thread.
WaitsOnlyForThread == \A p \in Procs : fini[p] = "wait" => left[p] \/ workers[p] > 0
=============================================================================
