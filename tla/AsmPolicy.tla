------------------------------ MODULE AsmPolicy ------------------------------
(***************************************************************************)
(* The conflict policy of the audio session manager: the priority matrix   *)
(* of server/mm_sound_mgr_asm.c and the predicates over sound events that  *)
(* the server consults.  Row = the event that is sounding, column = the    *)
(* event that asks to sound.                                               *)
(***************************************************************************)
EXTENDS Naturals, Sequences

\* The order of ASM_sound_events_t, which indexes the matrix.
EventSeq ==
  << "SHARE_MMPLAYER", "SHARE_MMCAMCORDER", "SHARE_MMSOUND", "SHARE_OPENAL", "SHARE_AVSYSTEM",
     "EXCLUSIVE_MMPLAYER", "EXCLUSIVE_MMCAMCORDER", "EXCLUSIVE_MMSOUND", "EXCLUSIVE_OPENAL",
     "EXCLUSIVE_AVSYSTEM", "NOTIFY", "CALL", "SHARE_FMRADIO", "EXCLUSIVE_FMRADIO",
     "EARJACK_UNPLUG", "ALARM", "VIDEOCALL", "MONITOR", "RICH_CALL" >>

Events == {EventSeq[i] : i \in 1..Len(EventSeq)}

\* The five cases the matrix uses (the enumeration has four more).
CaseNone    == 0
RefuseNew   == 1    \* ASM_CASE_1PLAY_2STOP
StopCurrent == 5    \* ASM_CASE_1STOP_2PLAY
PauseCurrent == 6   \* ASM_CASE_1PAUSE_2PLAY
Mix         == 8    \* ASM_CASE_1PLAY_2PLAY_MIX
Cases == {CaseNone, RefuseNew, StopCurrent, PauseCurrent, Mix}

SoundCaseRows ==
  << << 8, 8, 8, 8, 8,  6, 6, 6, 6, 6,  8, 8, 8, 6, 6,  6, 6, 8, 8 >>,
     << 8, 8, 8, 8, 8,  5, 5, 5, 5, 5,  8, 5, 8, 5, 8,  5, 5, 8, 5 >>,
     << 8, 8, 8, 8, 8,  5, 5, 5, 5, 5,  8, 5, 8, 5, 5,  5, 5, 8, 5 >>,
     << 8, 8, 8, 8, 8,  5, 5, 5, 5, 5,  8, 5, 8, 5, 6,  5, 5, 8, 5 >>,
     << 8, 8, 8, 8, 8,  5, 5, 5, 5, 5,  8, 5, 8, 5, 8,  5, 5, 8, 5 >>,
     << 6, 6, 6, 6, 6,  6, 6, 6, 6, 6,  8, 8, 6, 6, 6,  6, 6, 8, 8 >>,
     << 5, 5, 5, 5, 5,  5, 5, 5, 5, 5,  8, 5, 5, 5, 8,  5, 5, 8, 5 >>,
     << 5, 5, 5, 5, 5,  5, 5, 5, 5, 5,  8, 5, 5, 5, 5,  5, 5, 8, 5 >>,
     << 5, 5, 5, 5, 5,  5, 5, 5, 5, 5,  8, 5, 5, 5, 6,  5, 5, 8, 5 >>,
     << 5, 5, 5, 5, 5,  5, 5, 5, 5, 5,  8, 5, 5, 5, 8,  5, 5, 8, 5 >>,
     << 8, 8, 8, 8, 8,  8, 8, 8, 8, 8,  8, 5, 8, 8, 8,  5, 5, 8, 5 >>,
     << 1, 1, 1, 1, 1,  1, 1, 1, 1, 1,  8, 0, 1, 1, 8,  8, 1, 8, 0 >>,
     << 8, 8, 8, 8, 8,  5, 5, 5, 5, 5,  8, 5, 5, 5, 5,  5, 5, 8, 5 >>,
     << 5, 5, 5, 5, 5,  5, 5, 5, 5, 5,  8, 5, 5, 5, 5,  5, 5, 8, 5 >>,
     << 8, 8, 8, 8, 8,  8, 8, 8, 8, 8,  8, 8, 8, 8, 8,  8, 8, 8, 8 >>,
     << 1, 1, 1, 1, 1,  1, 1, 1, 1, 1,  8, 5, 1, 1, 8,  8, 5, 8, 5 >>,
     << 1, 1, 1, 1, 1,  1, 1, 1, 1, 1,  8, 1, 1, 1, 8,  8, 0, 8, 1 >>,
     << 8, 8, 8, 8, 8,  8, 8, 8, 8, 8,  8, 8, 8, 8, 8,  8, 8, 8, 8 >>,
     << 1, 8, 1, 1, 1,  1, 1, 1, 1, 1,  8, 0, 1, 1, 8,  8, 1, 8, 0 >> >>

IndexOf(ev) == CHOOSE i \in 1..Len(EventSeq) : EventSeq[i] = ev

\* ASM_sound_case[current][new]
SoundCase(current, new) == SoundCaseRows[IndexOf(current)][IndexOf(new)]

\* __is_need_resume: the interruptions that are followed by a RESUME.
IsNeedResume(ev) == ev \in {"CALL", "RICH_CALL", "VIDEOCALL", "ALARM"}

VoiceCallEvents == {"CALL", "RICH_CALL"}
RadioEvents     == {"SHARE_FMRADIO", "EXCLUSIVE_FMRADIO"}
=============================================================================
