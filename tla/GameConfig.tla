----------------------------- MODULE GameConfig -----------------------------
(***************************************************************************)
(* The settings of the selected game: _menuRequestConfig, _menuLoadConfig, *)
(* _menuSaveConfig, gameMenuLoadConfig and menuSaveConfig of               *)
(* src/src/menusys.c, with guiGameHandleDeferedIO and guiHandleDeferedIO   *)
(* of src/src/gui.c, on which the screen of game options waits.            *)
(*                                                                         *)
(* The GUI thread asks for the settings of the game it shows in every      *)
(* frame of the list of games; the worker of the I/O manager reads them    *)
(* while it holds menuSemaId.  The worker preempts the GUI thread, which   *)
(* runs while the worker waits.  SignalSema hands a semaphore to the       *)
(* thread that waits for it.  A configuration is the game it was read for  *)
(* and one value, that of all its options; GcDefault is what               *)
(* ps5GameOptionsLoad shows without a configuration.                       *)
(***************************************************************************)
EXTENDS Naturals, Sequences, SequencesExt

CONSTANTS
    GcGames,     \* the games of the list
    GcValues,    \* the values of a game's options
    GcDefault,   \* the value of a game without settings
    NoGame,      \* no game: a NULL pointer or the number -1
    MaxRequests, \* bound on the requests in the queue
    MaxScans     \* bound on the scans of the devices

ASSUME GameConfigAssumption ==
    /\ NoGame \notin GcGames /\ NoGame \notin [of: GcGames \cup {NoGame}, value: GcValues]
    /\ GcDefault \in GcValues
    /\ MaxRequests \in Nat /\ MaxScans \in Nat

VARIABLES
    current,     \* selected_item->item->current
    listed,      \* the games in the list of their device
    relist,      \* an operation that fills the menu again waits for guiHandleDeferredOps
    itemConfig,  \* the configuration in memory, or NoGame
    itemConfigId,
    itemConfigSource,  \* itemConfigSourceId, itemConfigSupport and itemConfigStartup
    actionStatus,
    menuSema,    \* menuSemaId: "free", or the thread that has it: "worker", "gui"
    requests,    \* the queue of the I/O manager
    ioState,     \* what the worker waits for
    loading,     \* the game _menuLoadConfig reads the settings of
    gui,         \* "top" between two frames, "sema" in a frame, waiting for menuSemaId
    waiting,     \* the loop the GUI thread is in: "no", "load" or "save"
    screen,      \* the screen that is drawn: "list" or "options"
    shown,       \* the game whose options are on the screen
    options,     \* the value the screen shows (ps5GameCompatMode ... ps5GameEnableCheat)
    touched,     \* history: the user changed it since the screen was opened
    disturbed,   \* history: the list of games was rebuilt while the options were open or a
                 \* save waited, or was being rebuilt when they were opened
    chosen,      \* history: for each game, the values saved on its screen of options
    stored,      \* the settings in the files of the games
    scans

gcList == <<current, listed, relist, scans>>
gcScreen == <<waiting, screen, shown, options, touched, disturbed, chosen>>
gcVars == <<gcList, itemConfig, itemConfigId, itemConfigSource, actionStatus, menuSema, requests,
            ioState, loading, gui, gcScreen, stored>>

Config == [of: GcGames \cup {NoGame}, value: GcValues]

(* The worker holds menuSemaId exactly while it reads or writes.           *)
GcTypeOK ==
    /\ {current, itemConfigId, itemConfigSource, loading, shown} \subseteq GcGames \cup {NoGame}
    /\ listed \subseteq GcGames /\ {relist, touched, disturbed} \subseteq BOOLEAN
    /\ itemConfig \in Config \cup {NoGame}
    /\ actionStatus \in 0..1
    /\ menuSema \in {"free", "worker", "gui"} /\ (menuSema = "worker") = (ioState \in {"load", "save"})
    /\ requests \in Seq({"request", "load", "save", "scan"}) /\ Len(requests) <= MaxRequests
    /\ ioState \in {"idle", "load", "save", "scan", "clear"}
    /\ gui \in {"top", "sema"} /\ waiting \in {"no", "load", "save"} /\ screen \in {"list", "options"}
    /\ options \in GcValues /\ stored \in [GcGames -> GcValues]
    /\ chosen \in [GcGames -> SUBSET GcValues]
    /\ scans \in 0..MaxScans

GcInit ==
    /\ current \in GcGames /\ listed = GcGames /\ relist = FALSE
    /\ itemConfig = NoGame /\ itemConfigId = NoGame /\ itemConfigSource = NoGame
    /\ actionStatus = 0 /\ menuSema = "free"
    /\ requests = <<>> /\ ioState = "idle" /\ loading = NoGame
    /\ gui = "top" /\ waiting = "no" /\ screen = "list" /\ shown = NoGame
    /\ options = GcDefault /\ touched = FALSE /\ disturbed = FALSE
    /\ chosen = [g \in GcGames |-> {}]
    /\ stored \in [GcGames -> GcValues \ {GcDefault}]
    /\ scans = 0

----------------------------------------------------------------------------
(* A thread that wants menuSemaId finds it given to the GUI thread.        *)
BlockedOnSema == ioState = "idle" /\ requests # <<>> /\ Head(requests) # "scan" /\ menuSema = "gui"

(* The worker waits for a device, for the GUI lock, for the semaphore or   *)
(* for a request, and the GUI thread can run.                              *)
IoWaits ==
    \/ ioState = "idle" /\ requests = <<>>
    \/ ioState \in {"load", "save", "scan"}
    \/ ioState = "clear" /\ gui = "sema"
    \/ BlockedOnSema

(* SignalSema(menuSemaId).                                                 *)
Released == IF gui = "sema" THEN "gui" ELSE "free"

(* oplResolveGameItem.                                                     *)
Resolves(g) == g \in listed

(* A mutant of RequestConfig: the configuration of the old id is kept.   *)
RequestConfigForgetsOld(queue, inactive) ==
    IF current # NoGame /\ itemConfigId # current
      THEN /\ itemConfigId' = current /\ itemConfigSource' = current
           /\ requests' = Append(queue, "load")
           /\ UNCHANGED <<actionStatus, itemConfig>>
      ELSE /\ actionStatus' = IF itemConfig # NoGame THEN 0 ELSE actionStatus
           /\ requests' = queue
           /\ UNCHANGED <<itemConfig, itemConfigId, itemConfigSource>>

(* _menuRequestConfig, after WaitSema; queue is the queue to put the load  *)
(* in.  inactive stands for guiInactiveFrames >= delay.                    *)
RequestConfig(queue, inactive) ==
    IF current # NoGame /\ itemConfigId # current
      THEN /\ itemConfig' = NoGame
           /\ IF ~Resolves(current)
                THEN /\ actionStatus' = 0 /\ requests' = queue
                     /\ UNCHANGED <<itemConfigId, itemConfigSource>>
                ELSE IF itemConfigId = NoGame \/ inactive
                THEN /\ itemConfigId' = current /\ itemConfigSource' = current
                     /\ requests' = Append(queue, "load")
                     /\ UNCHANGED actionStatus
                ELSE /\ requests' = queue
                     /\ UNCHANGED <<itemConfigId, itemConfigSource, actionStatus>>
      ELSE /\ actionStatus' = IF itemConfig # NoGame THEN 0 ELSE actionStatus
           /\ requests' = queue
           /\ UNCHANGED <<itemConfig, itemConfigId, itemConfigSource>>

----------------------------------------------------------------------------
(* The worker.  A request stays in the queue until it has been served.     *)
ServeRequestConfig ==
    /\ ioState = "idle" /\ requests # <<>> /\ Head(requests) = "request"
    /\ menuSema = "free"
    /\ \E inactive \in BOOLEAN : RequestConfig(Tail(requests), inactive)
    /\ UNCHANGED <<gcList, menuSema, ioState, loading, gui, gcScreen, stored>>

(* _menuLoadConfig up to the call of itemGetConfig, which reads files; the *)
(* semaphore is kept.                                                      *)
LoadStart ==
    /\ ioState = "idle" /\ requests # <<>> /\ Head(requests) = "load"
    /\ menuSema = "free" /\ itemConfig = NoGame
    /\ menuSema' = "worker" /\ ioState' = "load"
    /\ loading' = itemConfigSource
    /\ UNCHANGED <<gcList, itemConfig, itemConfigId, itemConfigSource, actionStatus, requests, gui,
                   gcScreen, stored>>

(* The settings of the game number -1 are whatever memory holds there.     *)
LoadDone ==
    /\ ioState = "load"
    /\ \E v \in GcValues :
         /\ loading # NoGame => v = stored[loading]
         /\ itemConfig' = [of |-> loading, value |-> v]
    /\ actionStatus' = 0
    /\ menuSema' = Released
    /\ ioState' = "idle" /\ loading' = NoGame /\ requests' = Tail(requests)
    /\ UNCHANGED <<gcList, itemConfigId, itemConfigSource, gui, gcScreen, stored>>

LoadNothing ==
    /\ ioState = "idle" /\ requests # <<>> /\ Head(requests) = "load"
    /\ menuSema = "free" /\ itemConfig # NoGame
    /\ actionStatus' = 0 /\ requests' = Tail(requests)
    /\ UNCHANGED <<gcList, itemConfig, itemConfigId, itemConfigSource, menuSema, ioState, loading, gui,
                   gcScreen, stored>>

SaveStart ==
    /\ ioState = "idle" /\ requests # <<>> /\ Head(requests) = "save"
    /\ menuSema = "free"
    /\ menuSema' = "worker" /\ ioState' = "save"
    /\ UNCHANGED <<gcList, itemConfig, itemConfigId, itemConfigSource, actionStatus, requests, loading,
                   gui, gcScreen, stored>>

(* A mutant of SaveDone: actionStatus is not reset.                      *)
SaveDoneKeepsStatus ==
    /\ ioState = "save"
    /\ itemConfigId' = NoGame /\ itemConfigSource' = NoGame
    /\ menuSema' = Released
    /\ ioState' = "idle" /\ requests' = Tail(requests)
    /\ UNCHANGED <<gcList, itemConfig, actionStatus, loading, gui, gcScreen, stored>>

(* configWrite may fail; the user is told, the rest is the same.           *)
SaveDone ==
    /\ ioState = "save"
    /\ \/ /\ itemConfig # NoGame
          /\ stored' = [g \in GcGames |-> IF g = itemConfig.of THEN itemConfig.value ELSE stored[g]]
       \/ UNCHANGED stored
    /\ itemConfigId' = NoGame /\ itemConfigSource' = NoGame
    /\ actionStatus' = 0
    /\ menuSema' = Released
    /\ ioState' = "idle" /\ requests' = Tail(requests)
    /\ UNCHANGED <<gcList, itemConfig, loading, gui, gcScreen>>

(* An update of the menu (module MenuUpdate): the worker empties the menu  *)
(* under the GUI lock, reads the device, and defers what fills it again.   *)
ScanStart ==
    /\ ioState = "idle" /\ requests # <<>> /\ Head(requests) = "scan"
    /\ ioState' = "clear"
    /\ UNCHANGED <<gcList, itemConfig, itemConfigId, itemConfigSource, actionStatus, menuSema, requests,
                   loading, gui, gcScreen, stored>>

ScanClear ==
    /\ ioState = "clear" /\ gui = "top"
    /\ current' = NoGame
    /\ disturbed' = (disturbed \/ screen = "options" \/ Contains(requests, "save"))
    /\ ioState' = "scan"
    /\ UNCHANGED <<listed, relist, scans, itemConfig, itemConfigId, itemConfigSource, actionStatus,
                   menuSema, requests, loading, gui, waiting, screen, shown, options, touched, chosen,
                   stored>>

ScanDone ==
    /\ ioState = "scan"
    /\ listed' \in SUBSET GcGames
    /\ relist' = TRUE
    /\ ioState' = "idle" /\ requests' = Tail(requests)
    /\ UNCHANGED <<current, scans, itemConfig, itemConfigId, itemConfigSource, actionStatus, menuSema,
                   loading, gui, gcScreen, stored>>

Worker ==
    \/ ServeRequestConfig \/ LoadStart \/ LoadDone \/ LoadNothing \/ SaveStart \/ SaveDone
    \/ ScanStart \/ ScanClear \/ ScanDone

----------------------------------------------------------------------------
(* The GUI thread.  A frame of the list, or of a fade from or to it, asks  *)
(* for the settings (menuRenderElements); one of the options does not.     *)
FrameRequests ==
    /\ IoWaits /\ gui = "top" /\ waiting # "save"
    /\ waiting = "load" => actionStatus = 1
    /\ screen = "list" \/ waiting = "load"
    /\ Len(requests) < MaxRequests
    /\ IF menuSema = "free"
         THEN /\ \E inactive \in BOOLEAN : RequestConfig(requests, inactive)
              /\ UNCHANGED gui
         ELSE /\ gui' = "sema"
              /\ UNCHANGED <<requests, itemConfig, itemConfigId, itemConfigSource, actionStatus>>
    /\ UNCHANGED <<gcList, menuSema, ioState, loading, gcScreen, stored>>

FrameGetsSema ==
    /\ IoWaits /\ gui = "sema" /\ menuSema = "gui"
    /\ Len(requests) < MaxRequests
    /\ \E inactive \in BOOLEAN : RequestConfig(requests, inactive)
    /\ gui' = "top" /\ menuSema' = "free"
    /\ UNCHANGED <<gcList, ioState, loading, gcScreen, stored>>

(* guiHandleDeferredOps, which the loops that wait do not call.            *)
DrainOps ==
    /\ IoWaits /\ gui = "top" /\ waiting = "no" /\ relist
    /\ relist' = FALSE
    /\ current' \in IF listed = {} THEN {NoGame} ELSE listed
    /\ UNCHANGED <<listed, scans, itemConfig, itemConfigId, itemConfigSource, actionStatus, menuSema,
                   requests, ioState, loading, gui, gcScreen, stored>>

(* ps5MenuMoveGame.                                                        *)
MoveGame ==
    /\ IoWaits /\ gui = "top" /\ waiting = "no" /\ screen = "list"
    /\ current # NoGame /\ current' \in listed
    /\ UNCHANGED <<listed, relist, scans, itemConfig, itemConfigId, itemConfigSource, actionStatus,
                   menuSema, requests, ioState, loading, gui, gcScreen, stored>>

(* itemExecTriangle and gameMenuLoadConfig up to its loop.                 *)
OpenOptions ==
    /\ IoWaits /\ gui = "top" /\ waiting = "no" /\ screen = "list"
    /\ current # NoGame /\ Resolves(current) /\ Len(requests) < MaxRequests
    /\ waiting' = "load" /\ screen' = "options" /\ shown' = current /\ touched' = FALSE
    /\ disturbed' = (relist \/ Contains(requests, "scan") \/ (disturbed /\ requests # <<>>))
    /\ actionStatus' = 1
    /\ itemConfigId' = NoGame /\ itemConfigSource' = NoGame
    /\ requests' = Append(requests, "request")
    /\ UNCHANGED <<gcList, itemConfig, menuSema, ioState, loading, gui, options, chosen, stored>>

(* The end of the loop, and ps5GameOptionsLoad.                            *)
OptionsLoaded ==
    /\ IoWaits /\ gui = "top" /\ waiting = "load" /\ actionStatus = 0
    /\ waiting' = "no"
    /\ options' = IF itemConfig = NoGame THEN GcDefault ELSE itemConfig.value
    /\ UNCHANGED <<gcList, itemConfig, itemConfigId, itemConfigSource, actionStatus, menuSema, requests,
                   ioState, loading, gui, screen, shown, touched, disturbed, chosen, stored>>

(* ps5GameOptionsSourceIsAvailable.                                        *)
SourceIsAvailable ==
    IF itemConfigSource # NoGame THEN itemConfigSource \in listed
                                 ELSE current # NoGame /\ Resolves(current)

OptionsInput == IoWaits /\ gui = "top" /\ waiting = "no" /\ screen = "options"

ChangeOption ==
    /\ OptionsInput /\ SourceIsAvailable
    /\ options' \in GcValues \ {options} /\ touched' = TRUE
    /\ UNCHANGED <<gcList, itemConfig, itemConfigId, itemConfigSource, actionStatus, menuSema, requests,
                   ioState, loading, gui, waiting, screen, shown, disturbed, chosen, stored>>

(* Square: ps5GameOptionsSave, then menuSaveConfig up to its loop.         *)
SaveOptions ==
    /\ OptionsInput /\ SourceIsAvailable /\ Len(requests) < MaxRequests
    /\ itemConfig' = IF itemConfig = NoGame THEN NoGame ELSE [itemConfig EXCEPT !.value = options]
    /\ actionStatus' = 1 /\ waiting' = "save"
    /\ chosen' = [chosen EXCEPT ![shown] = @ \cup {options}]
    /\ requests' = Append(requests, "save")
    /\ UNCHANGED <<gcList, itemConfigId, itemConfigSource, menuSema, ioState, loading, gui, screen,
                   shown, options, touched, disturbed, stored>>

OptionsSaved ==
    /\ IoWaits /\ gui = "top" /\ waiting = "save" /\ actionStatus = 0
    /\ waiting' = "no"
    /\ UNCHANGED <<gcList, itemConfig, itemConfigId, itemConfigSource, actionStatus, menuSema, requests,
                   ioState, loading, gui, screen, shown, options, touched, disturbed, chosen, stored>>

(* Circle, confirmed where something was changed; or the source is gone.   *)
CloseOptions ==
    /\ OptionsInput
    /\ screen' = "list" /\ shown' = NoGame
    /\ UNCHANGED <<gcList, itemConfig, itemConfigId, itemConfigSource, actionStatus, menuSema, requests,
                   ioState, loading, gui, waiting, options, touched, disturbed, chosen, stored>>

(* menuUpdateHook; ioPutRequest drops an update that is in the queue.      *)
AskScan ==
    /\ IoWaits /\ gui = "top" /\ waiting = "no" /\ ~Contains(requests, "scan")
    /\ scans < MaxScans /\ scans' = scans + 1 /\ Len(requests) < MaxRequests
    /\ requests' = Append(requests, "scan")
    /\ UNCHANGED <<current, listed, relist, itemConfig, itemConfigId, itemConfigSource, actionStatus,
                   menuSema, ioState, loading, gui, gcScreen, stored>>

Gui ==
    \/ FrameRequests \/ FrameGetsSema \/ DrainOps \/ MoveGame \/ OpenOptions \/ OptionsLoaded
    \/ ChangeOption \/ SaveOptions \/ OptionsSaved \/ CloseOptions \/ AskScan

GcNext == Worker \/ Gui

(* The worker is scheduled and devices answer; the GUI thread draws frames *)
(* and leaves a loop whose condition is false.                             *)
GuiRuns == FrameGetsSema \/ OptionsLoaded \/ OptionsSaved
GcFair == WF_gcVars(Worker) /\ WF_gcVars(GuiRuns) /\ WF_gcVars(FrameRequests)
GcSpec == GcInit /\ [][GcNext]_gcVars /\ GcFair

----------------------------------------------------------------------------
(* The configuration in memory is that of the game it is filed under: what *)
(* is drawn or launched with itemConfig never mixes two games, although    *)
(* the ids are reset without menuSemaId (menusys.c:664-687).               *)
ConfigIsOfId ==
    itemConfig # NoGame /\ itemConfigId # NoGame => itemConfig.of = itemConfigId

(* What _menuSaveConfig writes (menusys.c:610-625) into the file of a game *)
(* was on the screen when the options of that same game were saved: a load *)
(* that ends in between never redirects a save.  It can be redirected when *)
(* the list of games is rebuilt under the screen of options.               *)
SavesShownGame ==
    \A g \in GcGames : stored'[g] # stored[g] /\ ~disturbed => stored'[g] \in chosen[g]

(* A save never finds the configuration freed: _menuSaveConfig does not    *)
(* test itemConfig (menusys.c:615), although the loop that waits for it    *)
(* may end with a load (menusys.c:606) and the screen with it.  It can     *)
(* find it freed when the list is rebuilt meanwhile.                       *)
SaveHasConfig == ioState = "save" /\ ~disturbed => itemConfig # NoGame

(* The settings of two games are never mixed, in memory or on the device.  *)
SettingsAreOfGame == [][ConfigIsOfId' /\ SaveHasConfig' /\ SavesShownGame]_gcVars

(* The loop that waits for the settings ends, unless the list of games is  *)
(* emptied meanwhile: then _menuRequestConfig neither loads nor clears     *)
(* actionStatus (menusys.c:630, 658).                                      *)
LoadWaitEnds == waiting = "load" ~> waiting = "no" \/ current = NoGame

(* menuSaveConfig returns.                                                 *)
SaveWaitEnds == waiting = "save" ~> waiting = "no"

(* The settings of a game change only to what its user chose: itemConfigId *)
(* is reset "to invalidate cache and force reload" (menusys.c:616), so the *)
(* screen shows what was stored before it is saved.                        *)
StoredIsChosen == [][stored' # stored => touched]_gcVars
=============================================================================
