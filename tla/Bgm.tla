-------------------------------- MODULE Bgm --------------------------------
(***************************************************************************)
(* The background music of the launcher (src/src/sound.c): a thread that   *)
(* decodes the file into a ring of buffers, a thread that plays them, and  *)
(* the GUI thread, which starts and stops the two from its dialogs.        *)
(*                                                                         *)
(* One processor: the GUI thread (priority 31) preempts the player (64),   *)
(* which preempts the reader (65).  A thread that waits for a device, a    *)
(* semaphore or a wakeup leaves the processor to the others.               *)
(***************************************************************************)
EXTENDS Naturals, FiniteSets

CONSTANTS BGM_RING_BUFFER_COUNT,
          MaxWakeups   \* bound: wakeups of the player that are counted

ASSUME BgmAssumption ==
    {BGM_RING_BUFFER_COUNT, MaxWakeups} \subseteq Nat \ {0}

VARIABLES
    inSema, outSema,     \* buffers to be filled, buffers to be played
    deleted,             \* the semaphores and the file are gone (bgmDeinit)
    rdPtr, wrPtr, parts, \* parts: partsToRead of the reader
    fresh, skipped,      \* history: the buffers handed to the player and not yet
                         \* played, decoded or not
    terminateFlag, bgmIsPlaying, bgmThreadRunning, bgmIoThreadRunning,
    wakeups,             \* the wakeups the player has still to take
    play, read, gui,     \* where each thread is
    gEnableBGM, audio_initialized

ringState == <<inSema, outSema, deleted, rdPtr, wrPtr, parts, fresh, skipped>>
bgmFlags == <<terminateFlag, bgmIsPlaying, bgmThreadRunning, bgmIoThreadRunning>>
settings == <<gEnableBGM, audio_initialized>>
bgmVars == <<ringState, bgmFlags, wakeups, play, read, gui, settings>>

Buffers == 0 .. BGM_RING_BUFFER_COUNT - 1
Advance(p, n) == (p + n) % BGM_RING_BUFFER_COUNT
Gone == {"none", "ended"}   \* not created, or DORMANT again

BgmTypeOK ==
    /\ {inSema, outSema, parts} \subseteq 0 .. BGM_RING_BUFFER_COUNT
    /\ {rdPtr, wrPtr} \subseteq Buffers /\ (fresh \cup skipped) \subseteq Buffers
    /\ {terminateFlag, bgmIsPlaying, bgmThreadRunning, bgmIoThreadRunning} \subseteq BOOLEAN
    /\ {deleted, gEnableBGM, audio_initialized} \subseteq BOOLEAN
    /\ wakeups \in 0 .. MaxWakeups
    /\ play \in Gone \cup {"start", "round", "sleep", "poll", "audio", "stop", "last"}
    /\ read \in Gone \cup {"start", "wait", "read", "check", "exit"}
    /\ gui \in {"boot", "idle", "load", "stop_read", "stop_play", "apply", "quit_read",
                "quit_play", "quit", "clash"}

BgmInit ==
    /\ inSema = 0 /\ outSema = 0 /\ deleted = TRUE
    /\ rdPtr = 0 /\ wrPtr = 0 /\ parts = 0 /\ fresh = {} /\ skipped = {}
    /\ terminateFlag = FALSE /\ bgmIsPlaying = FALSE
    /\ bgmThreadRunning = FALSE /\ bgmIoThreadRunning = FALSE
    /\ wakeups = 0 /\ play = "none" /\ read = "none" /\ gui = "boot"
    /\ gEnableBGM \in BOOLEAN /\ audio_initialized = TRUE

----------------------------------------------------------------------------
(* WakeupThread(bgmThreadID): a wakeup of a thread that is not running is  *)
(* lost, others are counted.                                               *)
Wakeup == wakeups' = IF play \in Gone \/ wakeups = MaxWakeups THEN wakeups ELSE wakeups + 1

(* The reader gets the processor.                                          *)
PlayerWaits == play \in Gone \cup {"audio", "stop"} \/ (play = "sleep" /\ wakeups = 0)

(* Neither thread needs the processor.                                     *)
OthersWait ==
    /\ PlayerWaits
    /\ read \in Gone \cup {"read"} \/ (read = "wait" /\ inSema = 0)

----------------------------------------------------------------------------
(* bgmThread.                                                              *)
PlayBegin ==
    /\ play = "start" /\ bgmThreadRunning' = TRUE /\ play' = "round"
    /\ UNCHANGED <<ringState, terminateFlag, bgmIsPlaying, bgmIoThreadRunning, wakeups, read, gui,
                   settings>>

PlayRound ==
    /\ play = "round" /\ play' = IF terminateFlag THEN "stop" ELSE "sleep"
    /\ UNCHANGED <<ringState, bgmFlags, wakeups, read, gui, settings>>

PlayWake ==
    /\ play = "sleep" /\ wakeups > 0
    /\ wakeups' = wakeups - 1 /\ play' = "poll"
    /\ UNCHANGED <<ringState, bgmFlags, read, gui, settings>>

PlayPoll ==
    /\ play = "poll"
    /\ IF outSema > 0 THEN outSema' = outSema - 1 /\ play' = "audio"
                      ELSE play' = "round" /\ UNCHANGED outSema
    /\ UNCHANGED <<inSema, deleted, rdPtr, wrPtr, parts, fresh, skipped, bgmFlags, wakeups, read, gui, settings>>

(* audsrv_wait_audio and audsrv_play_audio have returned.                  *)
PlayAudio ==
    /\ play = "audio" /\ play' = "poll"
    /\ fresh' = fresh \ {rdPtr} /\ skipped' = skipped \ {rdPtr}
    /\ rdPtr' = Advance(rdPtr, 1) /\ inSema' = inSema + 1
    /\ UNCHANGED <<outSema, deleted, wrPtr, parts, bgmFlags, wakeups, read, gui, settings>>

(* audsrv_stop_audio has returned.                                         *)
PlayStop ==
    /\ play = "stop" /\ play' = "last"
    /\ rdPtr' = 0 /\ wrPtr' = 0 /\ bgmThreadRunning' = FALSE
    /\ UNCHANGED <<inSema, outSema, deleted, parts, fresh, skipped, terminateFlag, bgmIsPlaying,
                   bgmIoThreadRunning, wakeups, read, gui, settings>>

PlayLast ==
    /\ play = "last" /\ play' = "ended" /\ bgmIsPlaying' = FALSE
    /\ UNCHANGED <<ringState, terminateFlag, bgmThreadRunning, bgmIoThreadRunning, wakeups, read,
                   gui, settings>>

----------------------------------------------------------------------------
(* bgmIoThread.                                                            *)
ReadBegin ==
    /\ read = "start" /\ PlayerWaits
    /\ bgmIoThreadRunning' = TRUE /\ read' = "wait"
    /\ UNCHANGED <<ringState, terminateFlag, bgmIsPlaying, bgmThreadRunning, wakeups, play, gui,
                   settings>>

(* As many buffers as are free, up to the end of the ring.                 *)
MaxParts ==
    LET room == BGM_RING_BUFFER_COUNT - wrPtr IN IF inSema < room THEN inSema ELSE room

ReadTake ==
    /\ read = "wait" /\ PlayerWaits /\ inSema > 0
    /\ parts' = MaxParts /\ inSema' = inSema - parts' /\ read' = "read"
    /\ UNCHANGED <<outSema, deleted, rdPtr, wrPtr, fresh, skipped, bgmFlags, wakeups, play, gui,
                   settings>>

(* The first of the parts is decoded, or an error ends the music; all of   *)
(* them are handed to the player.                                          *)
ReadDone(ok) ==
    /\ read = "read" /\ PlayerWaits /\ read' = "check"
    /\ LET taken == wrPtr .. wrPtr + parts - 1
           decoded == IF ok THEN {wrPtr} ELSE {}
       IN fresh' = fresh \cup decoded /\ skipped' = skipped \cup (taken \ decoded)
    /\ wrPtr' = Advance(wrPtr, parts) /\ outSema' = outSema + parts /\ parts' = 0
    /\ terminateFlag' = (terminateFlag \/ ~ok)
    /\ Wakeup
    /\ UNCHANGED <<inSema, deleted, rdPtr, bgmIsPlaying, bgmThreadRunning, bgmIoThreadRunning, play,
                   gui, settings>>

ReadCheck ==
    /\ read = "check" /\ PlayerWaits
    /\ IF ~terminateFlag /\ gEnableBGM
       THEN read' = "wait" /\ UNCHANGED bgmIoThreadRunning
       ELSE read' = "exit" /\ bgmIoThreadRunning' = FALSE
    /\ UNCHANGED <<ringState, terminateFlag, bgmIsPlaying, bgmThreadRunning, wakeups, play, gui,
                   settings>>

(* A mutant of ReadExit: the player is not told.                           *)
ReadExitQuiet ==
    /\ read = "exit" /\ PlayerWaits /\ read' = "ended"
    /\ terminateFlag' = TRUE
    /\ UNCHANGED <<ringState, bgmIsPlaying, bgmThreadRunning, bgmIoThreadRunning, wakeups, play, gui,
                   settings>>

ReadExit ==
    /\ read = "exit" /\ PlayerWaits /\ read' = "ended"
    /\ terminateFlag' = TRUE /\ Wakeup
    /\ UNCHANGED <<ringState, bgmIsPlaying, bgmThreadRunning, bgmIoThreadRunning, play, gui, settings>>

----------------------------------------------------------------------------
(* bgmStart and bgmStop, by the GUI thread.                                *)

(* bgmInit, up to the opening of the file.  The stacks of the threads are  *)
(* static: with one of the last threads still on its stack, what follows   *)
(* is undefined.                                                           *)
bgmStart ==
    /\ inSema' = BGM_RING_BUFFER_COUNT /\ outSema' = 0 /\ deleted' = FALSE
    /\ rdPtr' = 0 /\ wrPtr' = 0 /\ parts' = 0 /\ fresh' = {} /\ skipped' = {}
    /\ terminateFlag' = FALSE /\ bgmThreadRunning' = FALSE /\ bgmIoThreadRunning' = FALSE
    /\ wakeups' = 0 /\ play' = "none" /\ read' = "none"
    /\ gui' = IF play \in Gone /\ read \in Gone THEN "load" ELSE "clash"
    /\ UNCHANGED bgmIsPlaying

Keep == UNCHANGED <<ringState, bgmFlags, wakeups, play, read>>

LoadDone ==
    /\ gui = "load" /\ gui' = "idle"
    /\ bgmIsPlaying' = TRUE /\ play' = "start" /\ read' = "start"
    /\ UNCHANGED <<ringState, terminateFlag, bgmThreadRunning, bgmIoThreadRunning, wakeups, settings>>

LoadFails ==
    /\ gui = "load" /\ gui' = "idle" /\ deleted' = TRUE
    /\ UNCHANGED <<inSema, outSema, rdPtr, wrPtr, parts, fresh, skipped, bgmFlags, wakeups, play, read, settings>>

(* A mutant of Stops: the reader is not waited for.                        *)
StopsPlayer(goal) ==
    /\ IF bgmThreadRunning
       THEN gui' = goal.play /\ UNCHANGED deleted ELSE gui' = goal.done /\ deleted' = TRUE

(* The loops of bgmStop, and bgmDeinit.                                    *)
Stops(goal) ==
    IF bgmIoThreadRunning THEN gui' = goal.read /\ UNCHANGED deleted
    ELSE IF bgmThreadRunning THEN gui' = goal.play /\ UNCHANGED deleted
    ELSE gui' = goal.done /\ deleted' = TRUE

ForTheme == [read |-> "stop_read", play |-> "stop_play", done |-> "apply"]
ForQuit == [read |-> "quit_read", play |-> "quit_play", done |-> "quit"]

bgmStop(goal) ==
    /\ terminateFlag' = TRUE /\ Wakeup /\ Stops(goal)
    /\ UNCHANGED <<inSema, outSema, rdPtr, wrPtr, parts, fresh, skipped, bgmIsPlaying, bgmThreadRunning,
                   bgmIoThreadRunning, play, read>>

(* The alarm of a loop of bgmStop.                                         *)
StopLoops(goal) ==
    /\ \/ gui = goal.read /\ ~bgmIoThreadRunning
       \/ gui = goal.play /\ ~bgmThreadRunning
    /\ IF gui = goal.read THEN Stops(goal) ELSE gui' = goal.done /\ deleted' = TRUE
    /\ UNCHANGED <<inSema, outSema, rdPtr, wrPtr, parts, fresh, skipped, bgmFlags, wakeups, play, read, settings>>

(* Between two of its operations the GUI thread waits for a frame, in      *)
(* which threads that were started begin.                                  *)
AtFrame == gui = "idle" /\ play # "start" /\ read # "start"

----------------------------------------------------------------------------
(* guiMainLoop begins.                                                     *)
Boot ==
    /\ gui = "boot"
    /\ IF gEnableBGM THEN bgmStart ELSE gui' = "idle" /\ Keep
    /\ UNCHANGED settings

(* guiSetAudioSettingsState.                                               *)
AudioDialog(on) ==
    /\ AtFrame /\ gEnableBGM' = on
    /\ IF on /\ ~bgmIsPlaying THEN bgmStart ELSE Keep /\ UNCHANGED gui
    /\ UNCHANGED audio_initialized

(* guiShowUIConfig, with another theme or not; applyConfig reads its files. *)
ThemeDialog(another) ==
    /\ AtFrame
    /\ IF another /\ bgmIsPlaying THEN bgmStop(ForTheme) ELSE gui' = "apply" /\ Keep
    /\ UNCHANGED settings

ApplyDone ==
    /\ gui = "apply" /\ OthersWait
    /\ IF gEnableBGM /\ ~bgmIsPlaying THEN bgmStart ELSE gui' = "idle" /\ Keep
    /\ UNCHANGED settings

(* audioEnd, before the NBD server or a game is started.                   *)
audioEnd ==
    /\ AtFrame
    /\ IF gEnableBGM /\ bgmIsPlaying THEN bgmStop(ForQuit) ELSE gui' = "quit" /\ Keep
    /\ UNCHANGED settings

(* audsrv_quit; the NBD server runs, and unloadLwnbdSvr starts again.      *)
AudsrvQuit ==
    /\ gui = "quit" /\ audio_initialized /\ audio_initialized' = FALSE
    /\ Keep /\ UNCHANGED <<gui, gEnableBGM>>

unloadLwnbdSvr ==
    /\ gui = "quit" /\ ~audio_initialized /\ OthersWait /\ audio_initialized' = TRUE
    /\ IF gEnableBGM THEN bgmStart ELSE gui' = "idle" /\ Keep
    /\ UNCHANGED gEnableBGM

Clashed == gui = "clash" /\ UNCHANGED bgmVars

----------------------------------------------------------------------------
Player == gui # "clash" /\ (PlayBegin \/ PlayRound \/ PlayWake \/ PlayPoll \/ PlayAudio \/ PlayStop \/ PlayLast)
Reader ==
    /\ gui # "clash"
    /\ ReadBegin \/ ReadTake \/ (\E ok \in BOOLEAN : ReadDone(ok)) \/ ReadCheck \/ ReadExit
GuiWorks ==
    \/ Boot \/ LoadDone \/ LoadFails \/ StopLoops(ForTheme) \/ StopLoops(ForQuit)
    \/ ApplyDone \/ AudsrvQuit \/ unloadLwnbdSvr
UserActs == (\E b \in BOOLEAN : AudioDialog(b) \/ ThemeDialog(b)) \/ audioEnd

BgmNext == Player \/ Reader \/ GuiWorks \/ UserActs \/ Clashed

(* Each thread goes on when it has the processor and its device answers;   *)
(* what the user does is not asked for.                                    *)
BgmFair == WF_bgmVars(Player) /\ WF_bgmVars(Reader) /\ WF_bgmVars(GuiWorks)
BgmSpec == BgmInit /\ [][BgmNext]_bgmVars /\ BgmFair

----------------------------------------------------------------------------
(* A buffer that is being decoded is neither being played nor one that was *)
(* decoded and is still to be played: the reader stays behind the player   *)
(* by what the semaphores count, although the two share pointers that the  *)
(* player resets at its end.                                               *)
NothingIsOverwritten ==
    read = "read" =>
        wrPtr \notin fresh /\ (play = "audio" => wrPtr # rdPtr)

(* Once bgmStop has returned, neither thread uses the semaphores, the      *)
(* buffers or the file again, which are deleted or freed.                  *)
StoppedIsQuiet ==
    deleted => play \in Gone \cup {"last"} /\ read \in Gone \cup {"exit"}

(* Only what the reader has handed over since it was last played is        *)
(* played: the player never runs ahead of the reader, and never plays a    *)
(* buffer twice.  What it plays need not be decoded: of the parts it takes *)
(* together the reader decodes one (skipped are the others).               *)
PlayedWasHandedOver == play = "audio" => rdPtr \in fresh \cup skipped

(* The reader never decodes over what is played or to be played, the       *)
(* player plays what was handed over, and a stop is a stop of both.        *)
MusicIsSafe ==
    BgmTypeOK /\ NothingIsOverwritten /\ PlayedWasHandedOver /\ StoppedIsQuiet

(* bgmStop returns: the reader is never left waiting for a buffer by a     *)
(* player that has ended.                                                  *)
StopReturns == gui \in {"stop_read", "stop_play", "quit_read", "quit_play"} ~> gui \in {"apply", "quit"}

(* Music that stays enabled and meets no error is played for ever, and     *)
(* music that is switched off ends.                                        *)
EnabledIsPlayed ==
    <>[](gui = "idle" /\ gEnableBGM /\ bgmIsPlaying /\ ~terminateFlag) => []<>(play = "audio")
DisabledEnds == <>[](gui = "idle" /\ ~gEnableBGM) => <>[](~bgmIsPlaying)

(* The threads of the music never wait for each other for ever.            *)
MusicFlows == StopReturns /\ EnabledIsPlayed /\ DisabledEnds
=============================================================================
