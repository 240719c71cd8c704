# libmm-sound: a model of the sound server

libmm-sound is the sound library of a phone: a server process that plays system
sounds, decides who may play and chooses audio devices, and a library that
applications link to reach it. This directory holds TLA+ modules for the parts
of both where several threads or processes meet, TLC configurations that
check them, and proofs for TLAPS. Paths below are relative to the repository;
`asm.c` is short for `src/server/mm_sound_mgr_asm.c`, and so on.

- [The system](#the-system)
- [The modules](#the-modules)
- [What the runs check](#what-the-runs-check)
- [Where the code disagrees with itself](#where-the-code-disagrees-with-itself)
- [What is proved](#what-is-proved)
- [What is not modelled](#what-is-not-modelled)
- [Plan](#plan)

## The system

| part | state it keeps | operations | threads and partners |
|---|---|---|---|
| audio session manager (`asm.c`) | the list of instances (process, handle, event, state, resource, "resume" and "dirty" marks), two status words, one of them published | register, unregister, set state, get own state, emergency exit; resume of what was interrupted | one thread on a System V queue, and every server thread that plays a sound, under `g_mutex_asm`; calls clients back through named pipes and waits up to 1.5 s |
| codec manager (`mm_sound_mgr_codec.c`) | the table of slots under `g_slot_mutex` | play, tone, stop, end of a sound | the pool threads of the dispatcher, the workers of the plugins, the session manager's callback |
| wave and tone plugins (`plugin/wav`, `plugin/tone`) | an instance with a state word per sound | create, play, stop, destroy; the worker's loop | one worker per sound; calls the codec manager when it is over |
| key tone plugin (`plugin/keytone`) | a state word, the mapped source, the audio device | a key is read; a sound is played | a pool thread that reads a named pipe, and a player; one mutex, one condition variable |
| sessions and devices (`mm_sound_mgr_session.c`) | available and active devices, session, subsession | accessory on or off, session start or end, subsession, route | up to five threads, with the lock commented out (lines 66-67) |
| request dispatcher (`mm_sound_mgr_ipc.c`) | three System V queues: requests, answers, callbacks | one per message type | a pool thread per request; a message is for the process whose number is its type |
| device callbacks (`mm_sound_mgr_device.c`) | two lists of clients under two mutexes | add, remove, notify | pool threads, and every handler of a device change; a mutex is held while the callback queue is full |
| accessory watchers (`mm_sound_mgr_headset.c`, `..._dock.c`, `..._pulse.c`) | the last state seen | report a change | two threads and an event loop |
| client library (`mm_sound_client.c`, `mm_sound.c`, `mm_sound_keysound.c`) | a mutex that the first call makes, a callback thread, volume callbacks | the public interface | queues to the server, callbacks in a thread of its own |
| PCM streams (`mm_sound.c`) | per stream: the session manager's handle, the event, `is_started`, the audio device and its cork | open, start, stop, close, read, write | the application's thread, and the session manager's callback in another, with no lock between them |
| the rest | thread pool, plugin loader, server main, recovery, helpers, test program | | |

The behaviours that are hard to test, and that the modules are about:

- the session manager works on one request for seconds, in which processes die
  and further requests arrive, and it decides on a handle, waits for callbacks
  and records the result in different steps;
- a request to play keeps the slot mutex while it waits for the session
  manager, which may be waiting for a handler that needs the slot mutex;
- the state words of the plugins are written by two threads, one without a lock;
- sessions do not nest, though calls, alarms and the radio overlap;
- devices are chosen by several threads that look at a structure and act on it
  later, and that clear and set the bits of one word without a lock;
- the session manager keeps its mutex while it waits for room in the queue of answers,
  and forgets the sounds of a process that dies while their workers play on;
- a PCM stream is started, stopped and closed by its application while the session
  manager's callback stops it, and the server waits for that callback for 1.5 s;
- the threads of a process share one address for answers, a call that gives up
  leaves its answer to the next one, and the mutex between them is made without a lock;
- all processes share the callback queue, those that no longer read it included, and
  the server waits for room in it with mutexes held.

`PROJECT.json` lists each of these hazards at its line with the properties that
watch it.

## The modules

| module | models |
|---|---|
| `AsmPolicy` | the priority matrix and the predicates on events |
| `HandleTable` | the abstract promise of the session manager about handles |
| `Arbiter` | the abstract promise of the session manager and the streams together: who may sound, and who does |
| `AsmServer` | the session manager: list, walk, callbacks, paused pass, clients |
| `Codec` | codec manager, plugin workers, dispatcher handlers, and the session manager as seen from here |
| `Session` | sessions and devices |
| `Keytone` | the key tone plugin |
| `Ipc` | client library, queues, dispatcher, device callbacks, callback threads |
| `Pcm` | PCM streams, composed with `AsmServer`, whose clients they are |
| `MCAsm`, `MCCodec`, `MCSession`, `MCKeytone`, `MCIpc`, `MCPcm` | the values TLC needs |
| `AsmServerProofs`, `AsmClientProofs`, `CodecProofs`, `SessionProofs`, `KeytoneProofs`, `IpcProofs`, `IpcListProofs`, `PcmProofs` | the theorems |

### AsmServer

`pc` says where the holder of `g_mutex_asm` is; the mutex is free exactly when it
is `idle`. A request is taken from the queue (`Accept`), dead processes are
removed one by one (`ReapOne`, `ReapDone`), and a request to play is compared with
the list from its head (`Walk...`): who does not sound is skipped, who may
mix lets the request take effect (`Commit`), who refuses ends the walk, and who has
to give way is called back. A callback is a step of its own: first of the
process's monitor instance, then of the instance itself. The client answers
anything, or fails, or is not heard within 1500 ms. `cursor` is `temp_list`, as
a position; a registration that takes effect during the walk puts a new
head in front, and `CommitAndStep` moves the position with the element. The
answer is an uninitialised local in the code; `reply.cmd = "UNSET"` stands for that.
`SendAnswer` is the `msgsnd` of the answer, which waits for room with the mutex held
(`asm.c:825-831`): a live client takes its answer at once, and `unread` counts those to
processes that died before they could. (Requests that are made in the server itself get
the answer copied, `asm.c:1730`; those are in `Codec`.) A registration that finds no handle
is answered, too (`RegisterFull`), with a command nothing has written
(`asm.c:1529-1534`); clients look at the handle first.

Clients register, set states, unregister, exit and die. A client waits for the answer
of a request that has one (`Waiting`); unregistering and the states other than PLAYING
are not answered (`asm.c:1551-1576`, `1630`), and the client goes on while the server still
has the request in its queue. It holds a handle from the answer to its next
unregister. `Misnamed` are events under which clients may speak of an instance of
another one, as PCM streams do. `Uses` says which events a process
registers, `Claims` which resources it asks for, and the handle limit is
`MaxHandle`. The event of the walk may be any of the 19 of the matrix, which is
copied number by number in `AsmPolicy`. What the client library does with an
answer (`Learn`) lies outside this repository and is taken from the codec
manager's use of it: a registration answered with STOP fails.

### Codec

Each play request has one thread (`pc`), one plugin instance (`st`) and one worker,
which all bear its name. The long critical section of `MMSoundMgrCodecPlay` runs
from `Lock` through the session manager (`AsmEnter`, `AsmGrants`, `AsmRefuses`) to
`Play`; short ones are single steps guarded by a free mutex. The session manager
appears as what it is here: a second mutex, whose holder may call a sound
back (`Ask`) and waits for the handler or for the time limit. A handler that is
late runs later, on whatever is in the slot by then. `Reset` is the loop that
declares all slots idle when the table is full; it runs without the mutex and is
one step. What a worker reads from an instance that has been freed is
anything; nothing is said of what it writes there but the state word. `closes` counts how
often each source is closed.

The session manager may list a sound and then refuse it (`AsmRefuses`, `pc` is `refused`):
the entry stays, as in `AsmZombie`. It may forget one, too: clients die (`Dies`, `gone`), and whoever
holds its mutex then takes their entries off (`ForgetDead`) while the workers play on. A handle
that has been freed so may be given to another sound, so that `Forget`, the end of a session,
takes off any entry, or none, when its own is not there. A request that is turned away, because its source does not parse or
the table is full, jumps past the initialisation of `need_asm_unregister`
(`mm_sound_mgr_codec.c:178`, `212`, `290`) and may do that as well (`TurnsAway`).
A slot that a refused request has left is not idle and has no instance; who stops it
calls the plugin with the handle -1, or none, and the server may crash (`CodecStop`, `crashed`), after which
nothing happens. The callback of a refused sound is not run: the client library, which lies outside this
repository, has not recorded it.

### Session

Every handler is an actor: one for each accessory, one for the session
manager, one for route requests. `at[x]` is the place the handler has reached;
a step is what it does between two calls out of the file or two accesses whose
order matters. The words of available and active devices are changed without a lock, by macros
each of which loads the word, clears or sets bits and stores it (lines 69-80). So an update is a
task of the handler, `todo[x]`, with the bits to be cleared and set; `Part` is what one
macro does of it, `Load` copies the word (`copy[x]`) and `Store` writes it back, whatever it
has become in between. `Only` is `SET_PLAYBACK_ONLY_ACTIVE` and `SET_CAPTURE_ONLY_ACTIVE`, which clear all of a
kind and then set one. What a handler reads between two of its own writes,
such as the priorities of `BestOut`, is one step. `torn` remembers that two handlers have been updating the
active devices at the same time; only properties use it. Telling a client may
fail, and so may the call that takes back the path of a call (`FailsAt`, `RouteFails`: lines 311-315 and 337-361). Dock and bluetooth headset profile share an event loop
(`SameThread`). `calls` is not a variable of the code: it is the calls the session
manager has started and not ended, and only properties and the guard for the end
of a call use it. The audio path is the output the audio system was last told.

### Keytone

`control` is the reading thread, `player` the playing one, `waiting` the threads
inside `pthread_cond_wait`. A step is a critical section, or one period of sound.
The reading thread holds the mutex from the key it has read to the end of its
loop's body except while it waits; `control = "load"` marks that. `TimeOver` is
the end of the two seconds, after which the player still has to get the mutex
(`Late`): a key may come in between.

### Ipc

`at[t]` is the place of an application's thread in a call of the library: `init` when it
has found that there is no mutex yet, `lock`
before `g_thread_mutex`, `wait` in the loop of `__MMIpcRecvMsg`, `make` where
`MMSoundClientPlaySound` has found that there is no callback thread. All calls have
the same shape, so that a call is its kind (`Kinds`) and whether it has a stop
callback (`cb`). The kernel finds messages by the process they are for; the queues of
answers and callbacks are therefore a sequence for each process, and what they share
is the room (`CallbackRoom`). A request becomes a job (`Dispatch`), since the pool
has no limit; the job does its work in one step (`RunSound`, `RunAdd`, ...) and
answers in another. Telling the clients of a device is a loop with one step per
client (`TellNext`) under the mutex of the list (`telling[k] # 0`), run by an
accessory's thread or, for a route request, by the job, which answers when everyone
has been told. The end of a sound holds `g_slot_mutex` (`ending`) until its message is
sent. `workers[p]` counts callback threads, `marked` is `g_thread_id /= -1`.

The mutex of a process is made by the first call that does not find it (`initted`,
`InitMutex`, `mm_sound_client.c:341-345`), and nothing protects that: the second of two first calls
makes it anew, and then nobody holds it. It is destroyed when the process ends (`DestroyMutex`, lines
117-121), whoever uses it, and may be made once more before the process is gone (`Ended`).

Four variables serve the properties only: `sent`, the number of a process's last
request, which the code does not have; `strays`, the answers nobody waits for;
`reset`, that the mutex has been made anew while it was held or destroyed while a call was
under way; and `view`, what a process knows about its callbacks from the answers it got.

### Pcm

The module extends `AsmServer`: the steps of the server are that module's, and each
says what it means for the streams. `at[p]` is the place of the application's thread
with stream `p`, `handler[p]` that of `sound_pcm_asm_callback`, `asked[p]` the commands in
the stream's pipe. `started` is the field of the code, `corked` the device's. `Start` sends
the request; its answer (`StartAnswered`) leads to `StartMark` and `StartUncork`, two
assignments that the callback may come between; `Stop` is drain, mark, cork and tell,
the last without an answer. The callback looks at `is_started` (`HandlerChecks`), drains,
marks, corks and answers. A server that has waited long enough (`GivesUp`) goes on; the
answer that comes then is lost or stays in the pipe (`stale`) and is read as the answer to
the next callback. Closing frees the handle, and a callback that runs meanwhile works
on freed memory, or on that of the next stream (`stray`). A stream may be opened for a
given event, by `mm_sound_pcm_play_open_ex`: then it is registered with that event and
without a callback, and from then on speaks of event 0, since the event is not stored
(`AskedEvent`). Opening the device is part of the step that answers the registration.

Two variables serve the properties: `orphans`, the registrations whose device could not be
opened, and `missed`: the last STOP did not stop the stream in time, because it was lost,
came late, or came in the middle of a start. It is cleared by a start that is granted when
nothing of that STOP is left.

## What the runs check

Passing runs; every property has a mutant, a plausible bug in one definition
that makes TLC find it violated under the same configuration.

| run | instance | properties |
|---|---|---|
| `AsmPlayers` | a player with a monitor instance and a camcorder, one device they share; three handles | `HeldIsListed`: what a client believes it owns is in the list. `GrantFreesResources`: no paused instance keeps the device. `TypeOK` |
| `AsmMixed` | three instances for two handles, events the matrix has no answer for, deaths with a request in the queue | `GrantSilencesConflicts`: nobody who must be silent plays when a request is granted. `HandsOutHandles` (refinement of `HandleTable`), `HandlesUnique`, `StatusConsistent`, `ComparisonAnswers`, `ServerReturns` (liveness) |
| `PcmStreams` | an exclusive stream whose callback may be late, and one that is ordinary or opened for an alarm; two handles | `AudibleIsListed`: what sounds is listed as playing. `ClashesNeverSound`: two streams sound at a time only if the matrix mixes them. `StartedIsAudible`: a stream that takes data plays it. `ClosedIsUnlisted`: a closed stream has no registration. `StreamsAreArbitrated` (refinement of `Arbiter`): each step permits or withdraws one stream, or starts or ends its sound; none is permitted that clashes, and none is withdrawn that sounds |
| `CodecKeytones` | two key tones and an unmanaged sound, three slots, failing parser and device | `OneOwner`: a worker finds its own instance in its slot. `NoUseAfterFree`: nothing refers to a freed instance. `SoundIsManaged`: what sounds is listed. `SourcesReleased`: each source is closed once. `RegistrationsReleased`: what is over is not listed, unless it was refused after it had been |
| `CodecReset` | a sound and two tones, one of no duration, for one slot; what cannot be played; clients that die: the table is reset under a sound, and the next request takes the slot | `OwnCallback`: until a request is turned away, who is told of the end of a sound has played it. `RequestsReturn`, `SoundsEnd` (liveness) |
| `SessionSerial` | four accessories, call, notification, radio, subsessions, all ten routes, one handler at a time | `OutputAvailable`: what plays is there. `PathFollowsActive`: the audio path is that of the active device |
| `SessionThreads` | headset and dock, a call, two routes, two handlers at a time, with every load and store | `OutputExists`: a device plays when all is quiet. `OneActive`: one at most, also in the middle of an update. Both unless `torn` |
| `KeytoneKeys` | six keys, a pipe for three, sounds of up to three periods, failing files and device | `Handover`, `PlaysOnOpenDevice`, `PlaysMappedFile`, `NotForgotten`, `Played`, `CutReturns` (liveness), `TypeOK` |
| `IpcCalls` | two applications, one with two threads; sounds with and without callbacks, adding and removing a device callback; first calls that both make the mutex; late answers, a pool that reports an error; the first application may be killed | `AnsweredOnce`: every request gets one answer, and what a call gave up stays in the queue for the next. `OwnAnswer`: before that, a call takes the answer to its own request. `SubscribedIsListed`: what a client was told about its callback is what the list says |
| `IpcEnds` | a callback queue for one message; an application plays, watches, asks and exits, another sets the route | `ServerAnswers`, `CallsReturn`, `FiniReturns` (liveness), `TypeOK` |

`CHECK_DEADLOCK FALSE` appears where the system may really stop: all processes
may die (`AsmServer`), all requests may be over (`Codec`), no key may be
pressed (`Keytone`), no call may be made (`Ipc`), and every open may have failed at
the device, until the bound on handles is used up (`Pcm`). `Session` never stops.

### Bounds

- `MaxHandle` is 2 or 3 instead of 256: full with the instances there are
  (`AsmMixed`), or just enough for them. What differs with more handles is only the
  length of the walk, and three instances suffice for one that mixes, one that
  refuses and the requester.
- `MaxQueue` is 1: with one request in processing and one waiting the order of two
  requests is covered, also of two from one client, the first of which has no answer. `MaxHeld` caps the
  instances of a process.
- `AskStates` and `Uses` select what clients ask for, so that each run has one
  mechanism in it: stopping, pausing with resources, undecided cases.
- `AnswerRoom` is 1: the server goes on with an unread answer in the queue or stops with it,
  and more room would only need more deaths.
- `NumSlots` is 1 or 3 instead of the code's limit, so that the table is full with the second
  request and a third one comes after the reset (`CodecReset`), or never is. `OwnCallback` was also
  checked once with two slots (2.8 million states), `SourcesReleased` and `RegistrationsReleased`
  with two requests whose clients may die. Each request is served once; a second request for the
  same sound would be another name.
- `MaxBusy` caps the handlers under way, at two in `SessionThreads`, which has the states up to
  the first one in which two handlers are updating the active devices (`CONSTRAINT NotTorn`);
  after it the properties claim nothing, and nothing makes `torn` false again. The proofs of `OutputExists` and
  `OneActive` cover any number of handlers.
- `MaxKeys` is 6 with a pipe of 3: a cut, a cut at the end of a sound, a key in the
  two seconds, one after them, and a full pipe all occur in one behaviour.

- `Pcm`: two streams, with `Opens` for how each may be opened. `MaxUnread` is 1, since the server
  writes a second command to a pipe only after it has given up the first. `Slow` says whose
  callback may be late; the instance with both was checked once (6.8 million states).
  `MaxHeld` of the first stream is 2, so that it can be opened again after a device
  failure. With three streams the defect that `AsmZombie` shows would come in, and
  `ClashesNeverSound` would fail for that reason.
- A third process adds nothing to the properties of `AsmPlayers` and `AsmMixed`: an instance
  with a telephone, an application that beeps and an exclusive one, each with one handle, was
  checked once for `HeldIsListed` and `GrantSilencesConflicts` (2.4 million states).

- `Ipc`: a process makes two requests, the other one; each request is one of a few
  kinds (`Does`), chosen so that every action occurs in one of the two runs. The two
  lists are handled by the same definitions; the runs use the one of active
  devices. `Room` is 1 where the kernel's queue holds some messages of a
  kilobyte each: one message for a process that is gone fills it.

### Fairness

- `AsmServer`: weak fairness of the server's own steps, as its thread is
  runnable at all of them. `CallbackTimedOut` is among them because `poll` has a
  limit of 1500 ms. No client has to send, answer or die.
- `Codec`: weak fairness of each request's thread and each worker, of the time
  limit, and of the session manager's other user, who releases the mutex when
  nothing is being waited for. No handler has to run, and no client has to call or to die. A worker that
  waits for a change of what was the state word of a freed instance need not go on
  (`MayWait`; the loop at `mm_sound_plugin_codec_wave.c:395` normally polls for ever then), and a
  server that has crashed does nothing. The waits for the
  two mutexes need no strong fairness on these instances, since each sound enters the
  queue for a mutex a bounded number of times.
- `Keytone` (`FairSpec`): both threads run. Which of the faults happens, and
  whether a key is pressed, is open.
- `Ipc` (`FairSpec`): every thread that can go on does: those that are in a call, the
  callback threads, the dispatcher, each job, and each thread that waits for room.
  Nobody has to make a call, to exit or to change a device, and a sound may play for
  ever. A thread that waits for a mutex while it is made anew may never be woken (`reset`).
  The fairness is weak, so that a thread whose wait for room or for a mutex ends
  only now and then may wait for ever, and the properties hold all the same.
- `Session` and `Pcm`: none. All their properties are about safety.

### Conditions under which the properties hold

Some properties hold only without one particular event, and the runs say so with a
constant:

- `HeldIsListed` needs `DieBusy = FALSE`. The request of a
  process that died with it in the queue names a handle that may be somebody else's
  by the time it is served, and `__asm_unregister_list` looks at the handle only.
  It also needs a case in the matrix for every two events in use: a rich call that
  registers while a call plays meets `ASM_CASE_NONE`, and is told that it succeeded
  without ever being listed (`asm.c:1260-1265`; `AsmMixed` with `DieBusy = FALSE`
  shows it). `Settled` in `AsmClientProofs` states both.
- `ServerReturns` leaves out one case: the queue of answers is full of messages to processes
  that died with a request in the server's queue (`unread = AnswerRoom`). Nobody reads them,
  and the next answer to such a process, or to anybody, waits in `msgsnd` for ever with
  `g_mutex_asm` held. `RequestsReturn` of `Codec` is about a session manager that this has not happened to.
- `ComparisonAnswers` is about the comparison only: see `RegisterFull` above; the answer to
  a question for one's own state has its state and nothing else.
- `NoUseAfterFree` and `SourcesReleased` are checked without the fault `play`: after
  it (`mm_sound_mgr_codec.c:279-284`) the worker of the destroyed instance goes on
  polling it, the slot stays taken, and the dispatcher closes the source a second
  time.
- `SoundIsManaged` is claimed until a client dies or a request is turned away. After the
  first the session manager has forgotten a sound that plays on
  (`asm.c:649-668`, `673-714`), and when that one ends it may take another's entry with it;
  after the second a handle that was never set has been unregistered, whosever that is.
- `OwnCallback` is claimed until a request is turned away, since the reset gives
  a slot that is in use to the next request, and needs devices that open: otherwise the slot
  keeps the callback of the
  sound that failed, and a tone that gets the slot reports its end to that client.
- `RegistrationsReleased` is checked for sounds, and leaves out what was refused after it had
  been listed (`asm.c:963`, `1246-1256`), which nobody unregisters. A tone whose device cannot be opened
  keeps its registration as well: the failure path of `MMSoundMgrCodecPlayDtmf` sets
  `need_asm_unregister` and never looks at it (`mm_sound_mgr_codec.c:385-402`).
- `OneOwner`, `NoUseAfterFree`, `SourcesReleased` and `RegistrationsReleased` fail once the
  table has been full and reset; `CodecKeytones` has a slot for every request.
- `SoundsEnd` leaves out endless sounds and tones of no duration; the worker of the
  latter returns without the callback (`mm_sound_plugin_codec_tone.c:1026-1028`). It leaves out
  sounds whose instance is freed before they end: one that cannot be played, or one whose slot
  another sound's worker cleans up after a reset. It, `RequestsReturn` and `StopIsEffective` allow the crash
  over a slot without an instance.
- `OutputExists` and `OneActive` are claimed unless two handlers have been updating the active
  devices at the same time (`torn`): the code has no lock against it, and `OneActiveWhenQuiet` in the
  next section shows what comes of it.
- `OutputExists` and `OutputAvailable` need the end of a call to go through
  (`"routeMedia"` not in `FailsAt`): if a client or the audio system cannot be told, lines 340 and 359 of
  `mm_sound_mgr_session.c` leave the devices as they are.
- `OutputAvailable` and `PathFollowsActive` are for one handler at a time; with
  several an accessory may go between the check of a route and its use.
- `PlaysMappedFile` needs files that are wave files; see the next section.
- The properties of `Pcm` leave out a stream that has `missed` a STOP. Three things in the
  code bring that about: a callback that takes longer than the server waits, or whose
  pipe fails (`Slow`); a stream opened for a given event, which has no callback at all; and a STOP
  between the grant of a start and `is_started` (`mm_sound.c:602-608`), which finds nothing to
  stop. Nor do they speak of a stream whose callback has been asked and has not answered, and of
  one that a stop has marked and is about to cork.
- `Opens` has no stream that capture or play opens in the session of a call: capture then
  does not register but starts and stops all the same, with a handle of 0, and play registers
  but never unregisters (`mm_sound.c:557`, `980`).
- `ClosedIsUnlisted` leaves out the registrations of streams whose device could not be opened
  (`mm_sound.c:572-575`, `882-885`), which last as long as the process.
- `OwnAnswer` and `SubscribedIsListed` speak of a process that has given up no
  request and whose mutex has not been made anew while it was held, or destroyed while it was in use
  (`Undisturbed`); `CallsReturn` needs the latter. Two threads that make their first calls at the same time are
  enough for that: both have a request under way then, and take each other's answers. After a
  request has been given up no call gets its own answer any more: nothing
  takes the old one out of the queue. A call returns success then, if the code in the answer
  is that of success.
- `ServerAnswers` and `FiniReturns` leave out one case: a process that is gone, or has no
  callback thread, has a message in the callback queue for ever (`Unheard`). With
  the queue full of such messages the server's threads stop for good, with the mutex of
  the list or of the slots, and an exiting process cannot send the message that ends
  its callback thread. `CallsReturn` holds even so, by the time limit.

## Where the code disagrees with itself

Two runs show a statement of the repository that the code does not keep; TLC's
trace is the argument.

| run | statement | what happens |
|---|---|---|
| `AsmZombie` | the policy is called `1PLAY_2STOP`: the second is stopped | the walk enters a request into the list as PLAYING at the first instance it may mix with, and a later instance refuses it. The client is told STOP; its entry plays on in the list (`asm.c:963`, `1246-1256`) |
| `CodecLostStop` | "Playing sound file will be stopped" (`src/include/mm_sound.h:1351`) | the worker reads its state, a stop request writes STOP, the worker writes PLAY (`mm_sound_plugin_codec_wave.c:422-424`); an endless sound is never stopped |

Further statements stand at the end of the modules without a run of their own.
Each was refuted by TLC on the instance named here:

| statement | instance | why |
|---|---|---|
| `MonitorsCleanWhenIdle` ("Make all monitor handle dirty flag clean", `asm.c:1292`) | `AsmPlayers` | the pass over paused instances marks monitors after the marks have been cleared (line 1356) |
| `ResumeAfterLastInterruption` ("RESUME", `asm.c:1413-1443`) | `AsmZombie` with `Uses <- AlarmUses` | the end of an alarm resumes whom a call still interrupts |
| `StopIsAccepted` (`mm_sound.h:1350-1351`) | `CodecLostStop` with three plays | the full table is reset (`mm_sound_mgr_codec.c:575-578`), and a sound that plays is idle for the stop request |
| `NoCallbackAfterStop` ("it does not call stop callback", `mm_sound.h:1347-1348`) | `CodecLostStop` | the end of a stopped sound is reported like any other (`mm_sound_mgr_codec.c:463-467`) |
| `SourcesReleased` for files ("Will be closed a sources", `mm_sound_mgr_ipc.c:496`) | `CodecKeytones` with `Origin <- Files` | nothing follows the log message |
| `NoAutoActivationInCall` ("For voicecall session, activation device is up-to application policy", `mm_sound_mgr_session.c:817`) | `SessionSerial` | an alarm that ends during a call makes the session MEDIA (lines 1192-1231), and a headset that is plugged in then becomes active |
| `PickedUpHasFile` ("Not Expected", `mm_sound_plugin_run_key_tone.c:391`) | `KeytoneKeys` with the fault `parse` | a second key whose file is no wave file sets the shared source to NULL while the first is handed over and not picked up (lines 203-206) |
| `NotCalledAfterRemove` ("deregistered and does not be called anymore", `mm_sound.h:2011`) | `IpcCalls` | the message was in the queue when the callback was removed |
| `OneCallbackThread` ("created just once", `mm_sound_client.c:485`) | `IpcCalls` with two threads that play | both look at `g_thread_id` before they have the mutex |
| `WaitsOnlyForThread` ("When the the callback thread is not created, do not wait destory thread", `mm_sound_client.c:98`) | `IpcCalls` with the fault `thread` and an exit | `pthread_create` returns a positive number when it fails, the code compares with -1 |
| `OneActiveWhenQuiet` ("(+)LOCKED", `mm_sound_mgr_session.c:66`) | `SessionThreads` without the constraint | the lock beside the message is commented out: headset and dock are plugged in at the same time, each handler clears the active outputs before the other sets its own, and both are active when all is quiet (lines 69-76) |
| `ActiveIsAvailable` ("Failed to set active state to unavailable device", `mm_sound_mgr_session.c:1140`) | `SessionSerial` | a route for the output alone, like a bluetooth device, leaves the headset's microphone active, and when the headset is unplugged its handler returns early because its output is not active |
| `StoppedIsSilent` ("Do stop", `mm_sound.c:477`) | `PcmStreams` | the STOP comes between the grant of the start and `is_started`: the callback answers in time that it has stopped the stream, and the start goes on (`mm_sound.c:602-613`) |
| `NoStrayHandler` ("PCM play handle will be terminated", `mm_sound.h:874`) | `PcmStreams` | the callback runs in another thread when the handle is freed (`mm_sound.c:762`) |
| `NoOrphans` (an open that fails gives back what it took, as at `mm_sound.c:553`) | `PcmStreams` | the registration stays when the device cannot be opened (`mm_sound.c:572-575`) |

## What is proved

`tlapm` checks the theorems for all values of the constants that satisfy the
assumptions of the modules.

**AsmServerProofs.** `IInv` is `TypeOK` with `HandlesUnique`, `StatusConsistent`,
`ComparisonAnswers` and `WalkInv`. None of the three middle ones is inductive: that
handles stay unique depends on the handle of a registration under way being free
until the instance is listed, through any number of callbacks; that the comparison gives an
answer depends on the walk having a sounding instance ahead of it as long as
there is no answer, which in turn depends on the status words; and the callbacks
need the position of the walk to be still in the list. `WalkInv` says
these three. Lemmas state what each list helper (`ChangeState`, `NeedResume`,
`Unregister`, `Register`, ...) does to length, handles, owners and states, and the
proof has a lemma per group of actions. Theorems: `TypeCorrect`,
`HandlesStayUnique`, `StatusStaysConsistent`, `ComparisonAlwaysAnswers`, and
`ImplementsHandleTable`: every step of the server is a grant of a free handle, the release
of one, or nothing, in `HandleTable`.

**AsmClientProofs.** What the server promises its clients, on top of `IInv`.
`GrantsSilence` and `GrantsFree` hold without any condition. A grant comes when both
loops are over, so `GrantInv` carries what each has done along the walk: unless the request
has been refused, every instance behind the cursor is silent, or keeps none of the
resources. It is inductive because nothing in between makes an instance behind the
cursor sound again: a callback's answer changes the visited instance only, the new head
is the requester's own, which conflicts with nobody in its own process, and a refusal is final. With
`HeldStaysListed`, the handle a live process was given stands for an instance of its own with the
event it asked for, if `Settled`. `HeldInv` says why. The queue is where it could go
wrong: a process that waits for an answer has sent nothing since (`InOrder`), a handle
that is given back is not used again by a request that is still to come
(`GivenBack`), the handle of a registration under way is nobody's yet (`Fresh`), and the events
in the list and in the queue are those their processes use (`UsesOwn`), without which
`Settled` says nothing about the walk.

**PcmProofs.** The streams are clients of `AsmServer` (`StreamsAreClients`: every step of
`Pcm` is a step of that module's `Next` or leaves it alone), so that `IInv`
holds with them, and what it implies (`ManagerServesStreams`). `PInv` adds what relates the
streams to the server. `Queued`: which request a stream may have in the queue at
each place, and what may stand behind it, since a stop and a close are not answered: a handle is
given up once, and by no one else. `Compared`: a request that will be granted is
listed, as playing if it asks to play. `Lent`: an open stream's handle
is in the list. `ListExplained`: every entry of the list is an open stream's, or on its way in or
out, or an orphan. `NoMonitors`. `StreamInv`, the heart of it, about one stream by itself: as
long as no STOP has been missed, a callback is under way only while the server waits for it,
the start and the callback do not cross, `is_started` and the cork agree but for a few
places, and a stream that sounds undisturbed is listed as playing. None of these is inductive
without the others: the server takes an entry out of PLAYING at the end of a callback, and that
the stream is silent by then depends on where its two threads are. Theorems:
`PcmInductive`, `PcmTypeCorrect`, `AudibleStaysListed`, `StartedStaysAudible`,
`ClosedStaysUnlisted`, for any number of streams, ways to open them, late callbacks and
handles.

`StreamsNeverClash` (`ClashesNeverSound`) needs two more invariants at once: `GrantInv` of
`AsmClientProofs`, which the streams inherit as clients, and `ClashInv`. `Phrased`: a request to
start is for the event that the stream has been opened with, or for the first of the enumeration
if one was given. `NamedRight`: so is what is listed. `OnePlays`: of
each stream one instance plays, its own, or the one that an earlier open has left to be
unregistered. `Ungranted`: while a start is compared its stream does not sound, and if the start is
refused nothing of it is listed. `Joined`: any two streams that have been told to play may sound
together. What makes `Joined` inductive is that an instance begins to play in no step but the one
that lists a start (`Stems`), and that at the answer everything else that plays has been met by
the walk. The theorem assumes `Orderly` of the events: the matrix lets each stream join or stop each other
one, or refuse it when there are only two streams. `PcmStreams` has such streams. It is
not true without that: with an alarm and an ordinary stream playing, the start of an
exclusive stream stops the ordinary one, is listed, and is then refused because of the alarm
(`AsmZombie`); its second attempt finds it listed as playing, is granted without
a comparison, and both sound. TLC finds this with three streams.

`StreamsImplementArbiter` (`StreamsAreArbitrated`) says in one formula what the streams
and the session manager are for, without a request, a callback or a handle in it. Under the mapping
`permitted` are the open streams whose instance is listed as playing and whose start is not still
being compared, `sounding` those that sound, `astray` those that have missed a STOP, and
`way` is how each has been opened. The proof has two halves. `StepMoves`: a step of `Pcm`
moves one stream at most, in the sense that `how`, `Granted`, `Audible` and `missed` stay
as they are for all others (`OneMoves`, action by action), and the one it moves does
what `Moved` allows: it is opened while silent, begins to sound only if it
is permitted or astray, and loses its permission only when it is silent or has missed the STOP.
The last is `AudibleIsGranted` after the step: what sounds and has missed nothing has been told to
play. It rests on `StreamInv`, since the server withdraws at the end of a callback and
the stream must be silent by then. `MoveIsArbitrated` turns such a move into
an action of `Arbiter`; a permission is given by the answer to a start, and `Joined` says that
who has been told to play by then may sound with it (`WaysMeet`). Like `StreamsNeverClash`
it assumes `Orderly`.

**CodecProofs.** What every run of `Codec` keeps, whatever fails and also after the table
was reset, is that the variables keep their types, that calls and instances are numbered apart,
and that the slot mutex has the one holder that is in a critical section (`SlotMutexHeld`).
The rest is not true for ever, since the reset of a full table at
`mm_sound_mgr_codec.c:575-578` forgets slots whose workers run on. Some theorems therefore assume
`[]NeverFull`, and some are about a property that claims nothing once a request has been turned
away; `TurnedAwayNext` (who has been turned away stays so) makes the second kind follow from the
same invariants. `Owned` and `Placed` are
inductive as long as there is no reset: each worker has a slot of its own with its instance in it, from its
creation to the moment its end holds the mutex; `SlotsHaveOneOwner` follows. On top of them
`FreedInv` (what has been freed is referred to by nobody: `FreedIsForgotten`), `FailedInv` (a
request that fails has no worker),
`RegisteredInv` and `EntryExplained` (what sounds is registered, unless a client has died, and the
reverse: what is registered belongs to a request or a worker on its
way, or was refused after it had been listed: `SoundsAreRegistered`, `RegistrationsGo`), `ClosedInv` (a source is
open, or closed once: `SourcesClosedOnce`) and `MessageInv` (a slot's client is that of
its instance: `CallbacksAreOwn`). Each theorem names the faults it excludes, because the code
fails it with them: a failed Play for `FreedIsForgotten` to `SourcesClosedOnce`, a failed creation of a tone or a tone without
duration for `RegistrationsGo`, sounds from files for `SourcesClosedOnce`, a failed creation
for `CallbacksAreOwn`. Clients may die in all of them. `TableHasRoom` says when `NeverFull` is true: while no more requests
have come than there are slots, by the pigeonhole principle on slots and numbers.

**SessionProofs.** `OutputAlwaysExists` and `OneDeviceActive` are for any number of handlers,
with every load and store of the words, as long as `torn` is not set. `OneWriter` says what that
buys: one handler at a time updates the active devices, what it has loaded is what they are, and
only an accessory's handler takes an output away without setting another.
Properties of the word are then stated of `ActiveDue`, what it becomes when the update under way is
done. `SomeoneChooses`: while no device is due to play, a call is on or some handler
is still going to choose; `CallIsOn`: a call session is that of a call that is on. The two with
`OneWriter` are `OutputInv`. `OutputAlwaysExists` assumes that the end of a call goes through.
For `OneDeviceActive` the update under way must not set a device of a kind before it has cleared the
others, which is what `OneInv` adds. `TypeCorrect`, which no run repeats.
`ActiveStaysAvailable` and `PathAlwaysFollows` are for one handler at a time (`MaxBusy = 1`), as
the properties are, and make the same assumption. `Serial` says that the
handler is alone. `AvailableInv` lets a device that plays be missing only while the
handler that removed it has not chosen anew, and `PathInv` lets the path differ from the active
device only while the handler that changed it has still to set it, or a session has its own
idea; both are about what the words become, and each names the places of each handler where this is so.

**KeytoneProofs.** `ThreadsAgree` (`Handover`) relates the state word to the places of
both threads and to who waits; it is inductive with `TypeOK`. `DeviceIsOpen`,
`FileIsMapped` (assuming that files are wave files) and `NoneForgotten` add `Mapped`:
the flag tells whether the device is open, and what is handed over is mapped.

**IpcProofs.** `OwnAnswerTaken` (`OwnAnswer`) rests on invariants that are
inductive with `TypeOK`. `OwnerWaits`: the mutex of a process is held by the one thread
that waits for an answer (`MutexHeld`), and `MutexExists`: it is there for all that have passed the check, both unless `reset`.
`Alone`: unless the process has given up a
request, or `reset`, one message is under way for it, be it the request, its job or its answer,
its number is that of the last request, and while the mutex is free there is none
(`OneAtATime`). A call that is given up, and the end of a process while a thread waits,
end that for good; the proof that they count as given up needs the threads to be finitely
many. No fault breaks it before: an error the pool reports is a second answer, and counts
as one given up at once. That the two lists stay lists of entries (`TypeCorrect`) needs the
first entry of a process to exist when there is one, from the numbers being well ordered.
`AlwaysAnsweredOnce` (`AnsweredOnce`) counts: `Apart` says that requests and jobs have
different numbers in a process, so that a request that becomes a job, a job that is marked with
its answer and a job that becomes an answer are as many as before (`SameSize`, `PlacesTail`,
`CountMarked`). It holds without a condition: for requests that were given up, and for a mutex that does not exclude.

**IpcListProofs.** `SubscribedListed` (`SubscribedIsListed`) follows from `ListInv`, which is
inductive relative to `IInv`: a process has at most one entry in a list (`OneEntry`), and, as long as its calls go one at
a time (`Undisturbed`), it is `Told` what the lists say. `Told` carries the promise along
the way of the one message that is under way (`Alone`): the request and its job are about what
the thread that holds the mutex asked, the job has an answer only when the list is as
the request wants it, and so has the process. While the request is under way the process does not know its
place in that list, and no other step can change its place in any. The lemmas
`AddedIs` and `RemovedIs` say what the two operations on lists do to the entries
of this process and of all others.

Only model-checked: the liveness properties (`ServerReturns`, `RequestsReturn`,
`SoundsEnd`, `Played`, `CutReturns`, `ServerAnswers`, `CallsReturn`, `FiniReturns`), since fairness and ENABLED are beyond the
prover; and `ClashesNeverSound` and `StreamsAreArbitrated` for events that are not `Orderly`.
No module uses RECURSIVE operators, and no theorem needs an induction over data, which the
prover cannot do either.

## What is not modelled

- In `AsmServer`: get state and dump, which change nothing; the subsession
  requests (see `Session`); the privilege check of `USE_SECURITY` builds; the field
  `monitor_active`; the file descriptors of the callback pipes; the memory of a
  freed list node, which `__check_dead_process` reads after `free`
  (`asm.c:660`). Answers that come late are covered by letting any callback return
  any answer.
- In `Codec`: what is read from and written to freed memory but the state word; failure of `malloc` and of starting a thread; the wave parser, the
  synthesis of tones, volume ramps; failures of the audio device while it plays.
- In `Session`: names of bluetooth sinks, volumes, gains and options of the audio
  path. Setting the path is one step. One route request at a time, though pool threads
  may serve two.
- In `Keytone`: the entry points `Stop` and `Fini`, spurious wake-ups, and
  more than one application: keys are anonymous.
- In `Ipc`: a second thread that finds the mutex made before the numbers of the queues have been looked up
  (`mm_sound_client.c:345-348`); failures of `malloc` and of the queues themselves (the dispatcher then
  leaves a request without an answer, or exits); room in the queues of requests and
  answers; the route list of a message, which `_mm_sound_mgr_device_available_device_callback`
  fills from an uninitialised variable; a callback that calls the library, which for
  the callback of foreach means waiting for a mutex its own thread holds; a process
  number that is used again.
- In `Pcm`: argument checks, data, failures of drain and cork, RESUME (which the callback
  ignores), the application's own callback, several application threads on one stream, and the
  death of a process; the streams of a process share nothing but its number, and each stream
  has a process of its own.
- Not modelled at all: the volume keys, the plugin loader, the
  server's start and recovery, the test program.

## Plan

1. Done: `AsmServer` with `HandleTable`, then `Codec`, `Session`, `Keytone` and `Ipc`,
   with their runs; then `Pcm` over `AsmServer`, with `Arbiter`; type correctness, the safety invariants above
   and the two refinements (`HandleTable`, `Arbiter`) proved.
2. Extend: PCM streams in the session of a call; `Stop` of the key tone plugin; callbacks
   that call the library.
3. Compose: the session manager's end and start of sessions with `Session`, so that
   `calls` becomes what the list of `AsmServer` says; `Codec`'s view of the session
   manager as an abstraction of `AsmServer`, as `Pcm` has it.
4. Prove: `HeldIsListed` under the weaker condition that a process dies with nothing but a start or a
   stop in the queue.
