------------------------------- MODULE Keytone -------------------------------
(***************************************************************************)
(* The key tone plugin (server/plugin/keytone): applications write the     *)
(* names of sounds to a named pipe; one thread of the pool reads them,     *)
(* maps the file and hands it to a second thread, which plays it and       *)
(* closes it.  A new key cuts the sound that plays.  The two threads share *)
(* a state word, a mutex and one condition variable on which both wait.    *)
(*                                                                         *)
(* A step is a critical section of the mutex, or what the player does      *)
(* between two of them: one period written, or the file closed.            *)
(***************************************************************************)
EXTENDS Naturals, Sequences

CONSTANTS
  MaxKeys,    \* bound: the keys that are pressed
  PipeSize,   \* how many keys the pipe holds
  MaxPeriods, \* bound: the length of a sound, in periods of the audio device
  Faults      \* which of "open", "parse" and "create" may fail

ASSUME KeytoneAssumption ==
  /\ MaxKeys \in Nat /\ PipeSize \in Nat \ {0} /\ MaxPeriods \in Nat
  /\ Faults \subseteq {"open", "parse", "create"}

VARIABLES
  pressed,   \* keys pressed so far; a key is known by its number
  pipe,      \* the keys that wait
  control,   \* where the reading thread is
  key,       \* the key it works on
  source,    \* the file it has mapped last, 0 for none
  size,      \* the length of the sound in it
  state,     \* g_keytone.state
  created,   \* g_CreatedFlag
  handle,    \* is the audio device open?
  player,    \* where the playing thread is
  copy,      \* the file it plays, 0 for none
  left,      \* periods to be written
  waiting,   \* the threads that wait for the condition variable
  open       \* the files that are mapped

vars == <<pressed, pipe, control, key, source, size, state, created, handle, player, copy, left,
          waiting, open>>

reader == <<control, key, source, size>>
device == <<created, handle>>

Keys  == 1 .. MaxKeys
Files == 0 .. MaxKeys

RenderStates == {"READY", "START", "STARTED", "STOP", "STOPED", "STOPED_N_WAIT", "COND_TIMED_WAIT"}
-----------------------------------------------------------------------------
(* Applications.                                                           *)

\* mm_sound_play_keysound; when the pipe is full the application gets an error.
Press ==
  /\ pressed < MaxKeys
  /\ pressed' = pressed + 1
  /\ pipe' = IF Len(pipe) < PipeSize THEN Append(pipe, pressed + 1) ELSE pipe
  /\ UNCHANGED <<reader, state, device, player, copy, left, waiting, open>>
-----------------------------------------------------------------------------
(* The reading thread, MMSoundPlugRunKeytoneControlRun.                    *)

\* Mutant: the sound that plays is not cut.
MustCutNever == FALSE

\* A sound plays.
MustCut == state = "STARTED"

\* A key is read. The sound that plays is told to stop, and the thread waits until it has.
Read ==
  /\ control = "read" /\ pipe # <<>>
  /\ key' = Head(pipe) /\ pipe' = Tail(pipe)
  /\ IF MustCut
     THEN state' = "STOP" /\ waiting' = waiting \cup {"control"} /\ control' = "cut"
     ELSE UNCHANGED <<state, waiting>> /\ control' = "load"
  /\ UNCHANGED <<pressed, source, size, device, player, copy, left, open>>

Wake == control = "cut" /\ "control" \notin waiting

\* The rest of the loop's body, under the mutex since the key was read or the wait ended.
Loads == control = "load" \/ Wake

\* Mutant: the file that was mapped last is closed.
OpenFailsClosing ==
  /\ Loads /\ "open" \in Faults
  /\ control' = "read"
  /\ open' = open \ {source} /\ source' = 0
  /\ UNCHANGED <<pressed, pipe, key, size, state, device, player, copy, left, waiting>>

\* The file cannot be opened: the source is left as it is.
OpenFails ==
  /\ Loads /\ "open" \in Faults
  /\ control' = "read"
  /\ UNCHANGED <<pressed, pipe, key, source, size, state, device, player, copy, left, waiting, open>>

\* It is no wave file, or the audio device cannot be opened: the file is closed again.
ParseOrCreateFails ==
  /\ Loads
  /\ "parse" \in Faults \/ ("create" \in Faults /\ ~created)
  /\ source' = 0
  /\ control' = "read"
  /\ UNCHANGED <<pressed, pipe, key, size, state, device, player, copy, left, waiting, open>>

\* Mutant: the playing thread is signalled only while it waits for two seconds.
SignalledInTimeOnly == state = "COND_TIMED_WAIT"

\* The playing thread is signalled when it waits.
Signalled == state \in {"STOPED_N_WAIT", "COND_TIMED_WAIT"}

\* The file is handed over; the first one starts the playing thread.
Load ==
  /\ Loads
  /\ source' = key /\ open' = open \cup {key}
  /\ size' \in 0 .. MaxPeriods
  /\ created' = TRUE
  /\ handle' = (handle \/ ~created)
  /\ waiting' = IF Signalled THEN waiting \ {"player"} ELSE waiting
  /\ player' = IF player = "none" THEN "top" ELSE player
  /\ state' = "START"
  /\ control' = "read"
  /\ UNCHANGED <<pressed, pipe, key, copy, left>>
-----------------------------------------------------------------------------
(* The playing thread, _MMSoundKeytoneRender.                              *)

\* The reading thread holds the mutex from the key it has read to the end of its loop's body.
Free == control # "load"

\* The top of its loop: what was left of a sound that was cut does not count.
PickUp ==
  /\ Free /\ player = "top" /\ state = "START"
  /\ copy' = source /\ left' = size
  /\ state' = "STARTED"
  /\ player' = "play"
  /\ UNCHANGED <<pressed, pipe, reader, device, waiting, open>>

\* The sound was cut, or the device closed: the thread waits for a key.
WaitForKey ==
  /\ Free /\ player = "top" /\ state = "STOPED"
  /\ state' = "STOPED_N_WAIT"
  /\ waiting' = waiting \cup {"player"}
  /\ player' = "wait"
  /\ UNCHANGED <<pressed, pipe, reader, device, copy, left, open>>

KeyCame ==
  /\ Free /\ player = "wait" /\ "player" \notin waiting
  /\ player' = "top"
  /\ UNCHANGED <<pressed, pipe, reader, state, device, copy, left, waiting, open>>

\* Mutant: the length is not looked at.
WriteOn ==
  /\ Free /\ player = "play" /\ state # "STOP"
  /\ left' = left - 1
  /\ UNCHANGED <<pressed, pipe, reader, state, device, player, copy, waiting, open>>

\* One period, unless the state is STOP.
Write ==
  /\ Free /\ player = "play" /\ left > 0 /\ state # "STOP"
  /\ left' = left - 1
  /\ UNCHANGED <<pressed, pipe, reader, state, device, player, copy, waiting, open>>

\* mm_source_close of the copy, after the last period or when the sound is cut.
Close ==
  /\ Free /\ player = "play" /\ (left = 0 \/ state = "STOP")
  /\ open' = open \ {copy}
  /\ copy' = 0
  /\ player' = "end"
  /\ UNCHANGED <<pressed, pipe, reader, state, device, left, waiting>>

\* Mutant: the reading thread is not told.
ToldNever(w) == w

\* The waiting threads after the reading thread has been signalled.
Told(w) == w \ {"control"}

\* The sound was to be cut, even if it was at its end already.
Cut ==
  /\ Free /\ player = "end" /\ state = "STOP"
  /\ state' = "STOPED"
  /\ waiting' = Told(waiting)
  /\ player' = "top"
  /\ UNCHANGED <<pressed, pipe, reader, device, copy, left, open>>

\* It was not: for two seconds the device stays open for the next key.
Linger ==
  /\ Free /\ player = "end" /\ state # "STOP"
  /\ state' = "COND_TIMED_WAIT"
  /\ waiting' = waiting \cup {"player"}
  /\ player' = "linger"
  /\ UNCHANGED <<pressed, pipe, reader, device, copy, left, open>>

NextKey ==
  /\ Free /\ player = "linger" /\ "player" \notin waiting
  /\ player' = "top"
  /\ UNCHANGED <<pressed, pipe, reader, state, device, copy, left, waiting, open>>

\* The time is over, though the thread gets the mutex only later.
TimeOver ==
  /\ player = "linger" /\ "player" \in waiting
  /\ waiting' = waiting \ {"player"}
  /\ player' = "late"
  /\ UNCHANGED <<pressed, pipe, reader, state, device, copy, left, open>>

\* Mutant: whether a key has come in the meantime is not looked at.
MayCloseAlways == TRUE

MayClose == state # "START"

\* Mutant: the flag is not reset.
CreatedAfterKept == created

\* g_CreatedFlag after the device has been closed.
CreatedAfter == FALSE

Late ==
  /\ Free /\ player = "late"
  /\ IF MayClose
     THEN handle' = FALSE /\ created' = CreatedAfter /\ state' = "STOPED"
     ELSE UNCHANGED <<device, state>>
  /\ player' = "top"
  /\ UNCHANGED <<pressed, pipe, reader, copy, left, waiting, open>>
-----------------------------------------------------------------------------
Init ==
  /\ pressed = 0 /\ pipe = <<>>
  /\ control = "read" /\ key = 0 /\ source = 0 /\ size = 0
  /\ state = "READY" /\ created = FALSE /\ handle = FALSE
  /\ player = "none" /\ copy = 0 /\ left = 0
  /\ waiting = {} /\ open = {}

Control == Read \/ OpenFails \/ ParseOrCreateFails \/ Load

Player ==
  PickUp \/ WaitForKey \/ KeyCame \/ Write \/ Close \/ Cut \/ Linger \/ NextKey \/ TimeOver \/ Late

Next == Press \/ Control \/ Player

Spec == Init /\ [][Next]_vars

\* Both threads run; applications need not press keys, and which of the faults happens is open.
FairSpec == Spec /\ WF_vars(Control) /\ WF_vars(Player)
-----------------------------------------------------------------------------
(* Properties.                                                             *)

\* The kinds of value each variable takes.
TypeOK ==
  /\ pressed \in Files /\ pipe \in Seq(Keys)
  /\ control \in {"read", "load", "cut"}
  /\ key \in Files /\ source \in Files /\ size \in 0 .. MaxPeriods
  /\ state \in RenderStates
  /\ created \in BOOLEAN /\ handle \in BOOLEAN
  /\ player \in {"none", "top", "play", "end", "wait", "linger", "late"}
  /\ copy \in Files /\ left \in 0 .. MaxPeriods
  /\ waiting \subseteq {"control", "player"}
  /\ open \subseteq Files

\* The state word says what the threads do, though each of them sets it behind the other's back:
\* a sound that has been handed over waits until it is picked up, the reading thread waits only
\* while the player is going to signal it, and the player only while the next key will.
Handover ==
  /\ player = "none" <=> state = "READY"
  /\ control = "load" => state \notin {"STARTED", "STOP"}
  /\ control = "cut" => state \in {"STOP", "STOPED", "STOPED_N_WAIT"}
  /\ "control" \in waiting <=> state = "STOP"
  /\ "control" \in waiting => control = "cut"
  /\ state \in {"STARTED", "STOP"} <=> player \in {"play", "end"}
  /\ "player" \in waiting => /\ player \in {"wait", "linger"}
                             /\ state \in {"STOPED_N_WAIT", "COND_TIMED_WAIT"}
  /\ player = "wait" => state \in {"STOPED_N_WAIT", "START"}
  /\ player \in {"linger", "late"} => state \in {"COND_TIMED_WAIT", "START"}
  /\ player \in {"wait", "linger"} /\ "player" \notin waiting => state = "START"
  /\ state = "STOPED_N_WAIT" => player = "wait" /\ "player" \in waiting
  /\ state = "COND_TIMED_WAIT" => player \in {"linger", "late"}

\* A sound is written to a device that is open: the player closes it when its time is over, and
\* the reading thread opens it again before it hands the next sound over.
PlaysOnOpenDevice == state \in {"START", "STARTED", "STOP"} => handle

\* What the player reads is mapped until it has closed it itself.
PlaysMappedFile == player = "play" /\ left > 0 => copy \in open

\* What the last two rest on: the flag tells whether the device is open, and, as long as no file
\* turns out to be something else, what is handed over is mapped until it is played to its end.
Mapped ==
  /\ created = handle
  /\ "parse" \notin Faults /\ state = "START" => source \in open
  /\ "parse" \notin Faults /\ player = "play" => copy \in open

\* A sound that was handed over is not forgotten: START is followed by STARTED only, though the
\* player sets the state without looking at it after a sound and when its time is over.
NotForgotten == [][state = "START" => state' \in {"START", "STARTED"}]_vars

\* ... and it is played.
Played == state = "START" ~> state = "STARTED"

\* The thread that cuts a sound returns to its pipe.
CutReturns == control = "cut" ~> control = "read"

-----------------------------------------------------------------------------
(* A statement that the code does not keep when a file is no wave file.    *)

\* "Not Expected": the player finds a file when it picks up a sound.
PickedUpHasFile == player = "play" /\ left > 0 => copy # 0
=============================================================================
