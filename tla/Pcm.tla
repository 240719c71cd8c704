--------------------------------- MODULE Pcm ---------------------------------
(***************************************************************************)
(* The PCM streams of the client library (mm_sound.c): a stream is opened, *)
(* started, stopped and closed by a thread of its application, and stopped *)
(* by the callback of the session manager, which runs in another thread of *)
(* that process without any lock between the two.  The session manager is  *)
(* the one of AsmServer, of which every stream is a client; each stream    *)
(* has a process of its own and claims no resource.                        *)
(***************************************************************************)
EXTENDS AsmServer

CONSTANTS
  Opens,       \* Opens[p]: how p's stream may be opened: for the event of the session, or a given one
  Slow,        \* the streams whose callback may fail or take longer than the server waits
  MaxUnread    \* bound: callbacks in a pipe that nobody has read

VARIABLES
  how,         \* how the stream has been opened
  at,          \* where the application's thread is with the stream
  handle,      \* asm_handle
  started,     \* is_started
  corked,      \* the audio stream is silent
  asked,       \* callbacks written to the stream's pipe that nobody has read
  handler,     \* where sound_pcm_asm_callback is
  stale,       \* an answer that came too late is still in the return pipe
  orphans,     \* (for the properties) handles of streams whose device could not be opened
  missed       \* (for the properties) the last STOP did not stop the stream in time

streamVars == <<how, at, handle, started, corked, asked, handler, stale, orphans, missed>>
pcmVars == <<vars, streamVars>>

Ways     == [event : Events, given : BOOLEAN]
Places   == {"closed", "opening", "ready", "starting", "granted", "marked",
             "stopping", "corking", "stopped", "closing"}
Handling == {"idle", "draining", "corking", "answering", "stray"}

ASSUME PcmAssumption ==
  /\ Opens \in [Pids -> SUBSET Ways]
  /\ Slow \subseteq Pids
  /\ MaxUnread \in Nat \ {0}
  \* in the session of a call capture does not register, and play does not unregister
  /\ \A p \in Pids : \A o \in Opens[p] : o.event \in {"CALL", "VIDEOCALL"} => o.given
  \* monitors are not streams
  /\ \A p \in Pids : \A o \in Opens[p] : o.event # "MONITOR"
  \* the streams are the clients that AsmServer allows
  /\ \A p \in Pids : {o.event : o \in Opens[p]} \subseteq Uses[p] /\ {} \in Claims[p]
  /\ {"NONE", "PLAYING", "STOP"} \subseteq AskStates
  /\ EventSeq[1] \in Misnamed

\* The event a start asks with: mm_sound_pcm_play_open_ex does not keep the event it is given,
\* and 0 is the first of the enumeration.
AskedEvent(p) == IF how[p].given THEN EventSeq[1] ELSE how[p].event
-----------------------------------------------------------------------------
(* The application's thread.                                               *)

Goes(p, from, to) == at[p] = from /\ at' = [at EXCEPT ![p] = to]

\* What p believes it owns.
Given(p) == [pid |-> p, handle |-> handle[p], event |-> how[p].event]

Ask(p, req, ev, h, st) ==
  Send([pid |-> p, req |-> req, handle |-> h, event |-> ev, state |-> st, resource |-> {}])

\* mm_sound_pcm_capture_open, mm_sound_pcm_play_open_ex: the stream is registered first.
Open(p) ==
  /\ Goes(p, "closed", "opening")
  /\ Cardinality(HeldBy(p)) < MaxHeld[p]
  /\ \E o \in Opens[p] : /\ Ask(p, "REGISTER", o.event, NoHandle, "NONE")
                         /\ how' = [how EXCEPT ![p] = o]
  /\ UNCHANGED <<held, handle, started, corked, asked, handler, stale, orphans, missed>>

\* _pcm_sound_start: the session manager is asked, ...
Start(p) ==
  /\ Goes(p, "ready", "starting")
  /\ Ask(p, "SETSTATE", AskedEvent(p), handle[p], "PLAYING")
  /\ UNCHANGED <<held, how, handle, started, corked, asked, handler, stale, orphans, missed>>

\* ... the stream is started ...
StartMark(p) ==
  /\ Goes(p, "granted", "marked")
  /\ started' = [started EXCEPT ![p] = TRUE]
  /\ UNCHANGED <<vars, how, handle, corked, asked, handler, stale, orphans, missed>>

\* ... and un-corked.
StartUncork(p) ==
  /\ Goes(p, "marked", "ready")
  /\ corked' = [corked EXCEPT ![p] = FALSE]
  /\ UNCHANGED <<vars, how, handle, started, asked, handler, stale, orphans, missed>>

\* _pcm_sound_stop: a stream that is not started is left alone, others are drained, ...
Stop(p) ==
  /\ Goes(p, "ready", "stopping")
  /\ started[p]
  /\ UNCHANGED <<vars, how, handle, started, corked, asked, handler, stale, orphans, missed>>

StopMark(p) ==
  /\ Goes(p, "stopping", "corking")
  /\ started' = [started EXCEPT ![p] = FALSE]
  /\ UNCHANGED <<vars, how, handle, corked, asked, handler, stale, orphans, missed>>

StopCork(p) ==
  /\ Goes(p, "corking", "stopped")
  /\ corked' = [corked EXCEPT ![p] = TRUE]
  /\ UNCHANGED <<vars, how, handle, started, asked, handler, stale, orphans, missed>>

\* ... and the session manager is told, which does not answer.
StopTell(p) ==
  /\ Goes(p, "stopped", "ready")
  /\ Ask(p, "SETSTATE", AskedEvent(p), handle[p], "STOP")
  /\ UNCHANGED <<held, how, handle, started, corked, asked, handler, stale, orphans, missed>>

\* mm_sound_pcm_capture_close, mm_sound_pcm_play_close: the device first, ...
Close(p) ==
  /\ Goes(p, "ready", "closing")
  /\ corked' = [corked EXCEPT ![p] = TRUE]
  /\ UNCHANGED <<vars, how, handle, started, asked, handler, stale, orphans, missed>>

\* Mutant: only a stream that is started is unregistered.
CloseUnregisterStarted(p) ==
  /\ Goes(p, "closing", "closed")
  /\ IF started[p]
     THEN Ask(p, "UNREGISTER", AskedEvent(p), handle[p], "NONE")
     ELSE UNCHANGED <<list, statusPlaying, statusPause, session, pc, cur, cursor, pass, updated,
                      quiet, reply, inbox, unread, alive>>
  /\ held' = held \ {Given(p)}
  /\ started' = [started EXCEPT ![p] = FALSE]
  /\ asked' = [asked EXCEPT ![p] = 0]
  /\ stale' = [stale EXCEPT ![p] = FALSE]
  /\ handler' = [handler EXCEPT ![p] = IF @ = "idle" THEN "idle" ELSE "stray"]
  /\ UNCHANGED <<how, handle, corked, orphans, missed>>

\* ... then the registration and the memory.  The library stops reading the pipe (external); a
\* handler that runs goes on with the freed handle.
CloseUnregister(p) ==
  /\ Goes(p, "closing", "closed")
  /\ Ask(p, "UNREGISTER", AskedEvent(p), handle[p], "NONE")
  /\ held' = held \ {Given(p)}
  /\ started' = [started EXCEPT ![p] = FALSE]
  /\ asked' = [asked EXCEPT ![p] = 0]
  /\ stale' = [stale EXCEPT ![p] = FALSE]
  /\ handler' = [handler EXCEPT ![p] = IF @ = "idle" THEN "idle" ELSE "stray"]
  /\ UNCHANGED <<how, handle, corked, orphans, missed>>

Application(p) ==
  \/ Open(p)
  \/ Start(p) \/ StartMark(p) \/ StartUncork(p)
  \/ Stop(p) \/ StopMark(p) \/ StopCork(p) \/ StopTell(p)
  \/ Close(p) \/ CloseUnregister(p)
-----------------------------------------------------------------------------
(* The session manager, and what it tells the streams.                     *)

\* The registration is answered, and the audio device is opened.  If that fails the memory is
\* freed and the registration stays.
Opened(p) ==
  /\ handle' = [handle EXCEPT ![p] = reply.alloc]
  /\ \/ at' = [at EXCEPT ![p] = "ready"] /\ UNCHANGED orphans
     \/ at' = [at EXCEPT ![p] = "closed"] /\ orphans' = orphans \cup {reply.alloc}

\* All handles are taken: the stream is not opened.
OpenRefused ==
  /\ RegisterFull
  /\ at' = [at EXCEPT ![cur.pid] = "closed"]
  /\ UNCHANGED <<how, handle, started, corked, asked, handler, stale, orphans, missed>>

Undisturbed(p) == asked[p] = 0 /\ handler[p] = "idle"

\* Mutant: the stream is started whatever the answer is.
StartAnsweredAnyway(p, granted) ==
  /\ at' = [at EXCEPT ![p] = "granted"]
  /\ missed' = [missed EXCEPT ![p] = @ /\ ~(Undisturbed(p) /\ ~stale[p])]
  /\ UNCHANGED <<handle, orphans>>

\* The answer to a start.  What an earlier STOP has missed is over when nothing of it is left.
StartAnswered(p, granted) ==
  /\ at' = [at EXCEPT ![p] = IF granted THEN "granted" ELSE "ready"]
  /\ missed' = [missed EXCEPT ![p] = @ /\ ~(granted /\ Undisturbed(p) /\ ~stale[p])]
  /\ UNCHANGED <<handle, orphans>>

FinishRequest ==
  /\ Finish
  /\ \/ cur.req = "REGISTER" /\ Opened(cur.pid) /\ UNCHANGED missed
     \/ cur.req = "SETSTATE" /\ StartAnswered(cur.pid, reply.cmd # "STOP")
  /\ UNCHANGED <<how, started, corked, asked, handler, stale>>

SetState ==
  /\ SetStateDirectly
  /\ \/ cur.state = "PLAYING" /\ StartAnswered(cur.pid, TRUE)
     \/ cur.state = "STOP" /\ UNCHANGED <<at, missed, handle, orphans>>
  /\ UNCHANGED <<how, started, corked, asked, handler, stale>>

\* A stream whose event was given has no callback.
MayFail(p) == p \in Slow \/ how[p].given

\* The command is written to the stream's pipe, unless there is none.
Interrupt ==
  /\ WalkInterrupt
  /\ \/ MayFail(Visited.pid) /\ UNCHANGED asked
     \/ /\ ~how[Visited.pid].given
        /\ asked[Visited.pid] < MaxUnread
        /\ asked' = [asked EXCEPT ![Visited.pid] = @ + 1]
  /\ UNCHANGED <<how, at, handle, started, corked, handler, stale, orphans, missed>>

AwaitsAnswer(p) == pc = "worker" /\ Visited.pid = p

\* Nobody is going to answer for p: the stream has been closed.
Deaf(p) == asked[p] = 0 /\ handler[p] \in {"idle", "stray"}

\* The time limit, a pipe that fails, and an answer that was meant for an earlier callback: the
\* server goes on though the stream has not been stopped.
GivesUp ==
  /\ pc = "worker"
  /\ MayFail(Visited.pid) \/ Deaf(Visited.pid)
  /\ \/ CallbackTimedOut /\ UNCHANGED stale
     \/ CallbackFailed /\ UNCHANGED stale
     \/ /\ stale[Visited.pid]
        /\ Returned("PAUSE")
        /\ stale' = [stale EXCEPT ![Visited.pid] = FALSE]
  /\ missed' = [missed EXCEPT ![Visited.pid] = TRUE]
  /\ UNCHANGED <<how, at, handle, started, corked, asked, handler, orphans>>

Internal ==
  /\ \/ Accept \/ DoUnregister \/ ReapDone \/ DispatchRegister \/ DispatchPlay
     \/ WalkSkip \/ WalkPass \/ WalkRefuse \/ WalkEnd \/ StartPausedPass
  /\ UNCHANGED streamVars

SessionManager == FinishRequest \/ OpenRefused \/ SetState \/ Interrupt \/ GivesUp \/ Internal
-----------------------------------------------------------------------------
(* sound_pcm_asm_callback, in a thread of the session manager's library.   *)
(* The only command the matrix has for the events of streams is STOP.      *)

\* Mutant: the answer is written before the stream is stopped.
HandlerChecksLast(p) ==
  /\ handler[p] = "idle"
  /\ asked[p] > 0
  /\ asked' = [asked EXCEPT ![p] = @ - 1]
  /\ handler' = [handler EXCEPT ![p] = "answering"]
  /\ missed' = [missed EXCEPT ![p] = @ \/ at[p] \in {"granted", "marked"}]
  /\ UNCHANGED <<vars, how, at, handle, started, corked, stale, orphans>>

\* _pcm_sound_stop_internal looks whether the stream is started; in the middle of a start that
\* is too early.
HandlerChecks(p) ==
  /\ handler[p] = "idle"
  /\ asked[p] > 0
  /\ asked' = [asked EXCEPT ![p] = @ - 1]
  /\ handler' = [handler EXCEPT ![p] = IF started[p] THEN "draining" ELSE "answering"]
  /\ missed' = [missed EXCEPT ![p] = @ \/ at[p] \in {"granted", "marked"}]
  /\ UNCHANGED <<vars, how, at, handle, started, corked, stale, orphans>>

\* Mutant: is_started is not reset.
HandlerMarksNot(p) ==
  /\ handler[p] = "draining"
  /\ handler' = [handler EXCEPT ![p] = "corking"]
  /\ UNCHANGED <<vars, how, at, handle, started, corked, asked, stale, orphans, missed>>

HandlerMarks(p) ==
  /\ handler[p] = "draining"
  /\ handler' = [handler EXCEPT ![p] = "corking"]
  /\ started' = [started EXCEPT ![p] = FALSE]
  /\ UNCHANGED <<vars, how, at, handle, corked, asked, stale, orphans, missed>>

\* Mutant: the device goes on.
HandlerCorksNot(p) ==
  /\ handler[p] = "corking"
  /\ handler' = [handler EXCEPT ![p] = "answering"]
  /\ UNCHANGED <<vars, how, at, handle, started, corked, asked, stale, orphans, missed>>

HandlerCorks(p) ==
  /\ handler[p] = "corking"
  /\ handler' = [handler EXCEPT ![p] = "answering"]
  /\ corked' = [corked EXCEPT ![p] = TRUE]
  /\ UNCHANGED <<vars, how, at, handle, started, asked, stale, orphans, missed>>

\* The application is told, and the result is written to the return pipe.  When the server does
\* not wait any more the answer is lost, or stays for the next callback.
HandlerAnswers(p) ==
  /\ handler[p] = "answering"
  /\ handler' = [handler EXCEPT ![p] = "idle"]
  /\ \/ /\ AwaitsAnswer(p)
        /\ Returned("PAUSE")
        /\ missed' = [missed EXCEPT ![p] = @ \/ asked[p] > 0]
        /\ UNCHANGED stale
     \/ /\ ~AwaitsAnswer(p)
        /\ \E kept \in BOOLEAN : stale' = [stale EXCEPT ![p] = kept \/ @]
        /\ UNCHANGED <<vars, missed>>
  /\ UNCHANGED <<how, at, handle, started, corked, asked, orphans>>

\* The handler of a stream that has been closed works on memory that is free, or that the
\* stream opened since then has got.
HandlerStrays(p) ==
  /\ handler[p] = "stray"
  /\ handler' = [handler EXCEPT ![p] = "idle"]
  /\ \/ UNCHANGED <<started, corked>>
     \/ /\ started' = [started EXCEPT ![p] = FALSE]
        /\ corked' = [corked EXCEPT ![p] = TRUE]
  /\ UNCHANGED <<vars, how, at, handle, asked, stale, orphans, missed>>

Handler(p) ==
  HandlerChecks(p) \/ HandlerMarks(p) \/ HandlerCorks(p) \/ HandlerAnswers(p) \/ HandlerStrays(p)
-----------------------------------------------------------------------------
PcmInit ==
  /\ Init
  /\ how \in [Pids -> [event : {EventSeq[1]}, given : {FALSE}]]
  /\ at = [p \in Pids |-> "closed"]
  /\ handle = [p \in Pids |-> 0]
  /\ started = [p \in Pids |-> FALSE]
  /\ corked = [p \in Pids |-> TRUE]
  /\ asked = [p \in Pids |-> 0]
  /\ handler = [p \in Pids |-> "idle"]
  /\ stale = [p \in Pids |-> FALSE]
  /\ orphans = {}
  /\ missed = [p \in Pids |-> FALSE]

PcmNext == SessionManager \/ \E p \in Pids : Application(p) \/ Handler(p)

PcmSpec == PcmInit /\ [][PcmNext]_pcmVars
-----------------------------------------------------------------------------
(* Properties.                                                             *)

\* The kinds of value each variable takes.
PcmTypeOK ==
  /\ TypeOK
  /\ how \in [Pids -> Ways]
  /\ at \in [Pids -> Places]
  /\ handle \in [Pids -> Handles]
  /\ started \in [Pids -> BOOLEAN]
  /\ corked \in [Pids -> BOOLEAN]
  /\ asked \in [Pids -> 0 .. MaxUnread]
  /\ handler \in [Pids -> Handling]
  /\ stale \in [Pids -> BOOLEAN]
  /\ orphans \subseteq Handles
  /\ missed \in [Pids -> BOOLEAN]

\* The streams use the session manager as AsmServer says its clients do: with one request at a
\* time and the handles they were given.  What is proved of AsmServer holds here.
IsClient == Init /\ [][Next]_vars

\* p sounds, and no stop is about to cork it.
Audible(p) == ~corked[p] /\ at[p] # "corking"

\* A stream sounds only while the session manager has it as playing, once callbacks on their way
\* have been heard and unless one was lost, late, or in the middle of a start.
AudibleIsListed ==
  \A p \in Pids : Audible(p) /\ ~missed[p] /\ Undisturbed(p) => IsItPlayingNow(list, p, handle[p])

MayJoin(p, q) == SoundCase(how[p].event, AskedEvent(q)) = Mix

\* Two streams sound at a time only if the matrix lets one of them join the other.
ClashesNeverSound ==
  \A p, q \in Pids :
    p # q /\ Audible(p) /\ Audible(q) /\ ~missed[p] /\ ~missed[q] => MayJoin(p, q) \/ MayJoin(q, p)

\* What the application may write to, is_started being set, is not corked: callbacks and calls
\* that cross do not leave a stream that takes data and plays none.
StartedIsAudible ==
  \A p \in Pids : started[p] /\ at[p] = "ready" /\ ~missed[p] /\ Undisturbed(p) => ~corked[p]

\* A closed stream leaves no registration behind, apart from those whose device failed.
ClosedIsUnlisted ==
  \A i \in DOMAIN list :
    at[list[i].pid] = "closed" => Busy(list[i].pid) \/ list[i].handle \in orphans
-----------------------------------------------------------------------------
(* What the streams and the session manager implement together.            *)

IsOpen(p) == at[p] \notin {"closed", "opening"}

\* The instances that play, as OwnedIn has all of them.
PlayingIn(l)  == {<<l[i].handle, l[i].pid>> : i \in {j \in DOMAIN l : l[j].state = "PLAYING"}}
Playing(p, h) == <<h, p>> \in PlayingIn(list)

\* A start is being compared with what plays.
Starting == pc \in Comparing /\ cur.req = "SETSTATE"

\* p has been told that it may play.
Granted(p) == IsOpen(p) /\ Playing(p, handle[p]) /\ ~(Starting /\ cur.pid = p)

\* The event with which a stream opened like this asks to play.
StartsAs(o) == IF o.given THEN EventSeq[1] ELSE o.event

Arbitration ==
  INSTANCE Arbiter
    WITH Streams   <- Pids,
         MayMeet   <- {w \in Ways \X Ways : SoundCase(w[1].event, StartsAs(w[2])) = Mix},
         way       <- how,
         permitted <- {p \in Pids : Granted(p)},
         sounding  <- {p \in Pids : Audible(p)},
         astray    <- {p \in Pids : missed[p]}

\* Streams and session manager, with all their requests, callbacks and crossings, permit and
\* withdraw one stream at a time, permit none that clashes, and withdraw none that sounds.
StreamsAreArbitrated == Arbitration!Spec
-----------------------------------------------------------------------------
(* Further statements that the code does not keep; README.md says where    *)
(* each of them fails.                                                     *)

\* "Do stop" (the comment in the callback): a STOP that is answered in time stops the stream.
StoppedIsSilent ==
  \A p \in Pids \ Slow : Audible(p) /\ Undisturbed(p) => IsItPlayingNow(list, p, handle[p])

\* "PCM play handle will be terminated": no callback works on the handle after that.
NoStrayHandler == \A p \in Pids : handler[p] # "stray"

\* A stream that could not be opened is not registered.
NoOrphans == orphans = {}
=============================================================================
