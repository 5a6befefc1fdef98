------------------------------- MODULE BdmScan ------------------------------
(***************************************************************************)
(* Hot-plugging of a block device (USB stick, ...): src/src/bdmsupport.c.  *)
(*                                                                         *)
(* The IOP reports every mount and unmount by a SIF command, which an      *)
(* interrupt handler counts (bdmEventHandler).  The I/O worker polls each  *)
(* device slot (bdmNeedsUpdate) and, when that asks for it, reads the list *)
(* of games (bdmUpdateGameList).  The model follows one slot, started in   *)
(* START_MODE_AUTO; events also come from the other slots.                 *)
(*                                                                         *)
(* Times are in polling intervals of 60 frames; BdmPendingSinceFrame and   *)
(* bdmScanReadyFrame are kept as the time passed and the time left.  Two   *)
(* things of the code have no effect and are left out: gBdmDeviceLoading,  *)
(* which nothing reads, and the comparison of the directory stamps, which  *)
(* is reached only when the scan is already decided.                       *)
(***************************************************************************)
EXTENDS Integers, Sequences

CONSTANTS
    Media, None,    \* what may be plugged in, and nothing
    UlMedia,        \* the media that have a ul.cfg
    QuietFrames,    \* BDM_EVENT_QUIET_FRAMES
    FirstScanDelay, \* BDM_FIRST_SCAN_DELAY_FRAMES
    RetryFrames, MaxRetryFrames,  \* BDM_RETRY_SCAN_FRAMES, BDM_MAX_RETRY_SCAN_FRAMES
    MaxEvents,      \* bound on the events
    MaxFailures,    \* bound on the accesses that fail with the device present
    MaxAsks         \* bound on what the user asks for

ASSUME BdmScanAssumption ==
    /\ None \notin Media /\ UlMedia \subseteq Media
    /\ {QuietFrames, FirstScanDelay, RetryFrames, MaxRetryFrames} \subseteq Nat \ {0}
    /\ FirstScanDelay <= MaxRetryFrames /\ RetryFrames <= MaxRetryFrames
    /\ {MaxEvents, MaxFailures, MaxAsks} \subseteq Nat

VARIABLES
    media,                    \* what is plugged into the slot
    sif,                      \* commands on their way from the IOP
    events,                   \* how many events there were
    BdmGeneration, BdmStableGeneration, BdmPendingGeneration,
    pendingAge,               \* guiFrameId - BdmPendingSinceFrame, up to QuietFrames
    BdmUnmountPending,
    visible, prefix,          \* menuItem.visible; bdmPrefix is not empty
    bdmULSizePrev,            \* -2: unknown, -1: no games, 0: the size of ul.cfg
    bdmDeviceTick,
    ForceRefresh, DeferredScan,
    scanWait,                 \* bdmScanReadyFrame - guiFrameId, at least 0
    bdmGames,                 \* the media whose list of games is held
    pc,                       \* where the worker is
    result, wasVisible,       \* its locals result and visible
    failures, asks,
    misread,                  \* history: a scan found nothing although the device was there
    asked                     \* history: a refresh was asked for with no event under way,
                              \* and no scan began and no event came since

gens == <<BdmGeneration, BdmStableGeneration, BdmPendingGeneration, pendingAge, BdmUnmountPending>>
slot == <<visible, prefix, bdmULSizePrev, bdmDeviceTick>>
scan == <<ForceRefresh, DeferredScan, scanWait, bdmGames>>
world == <<media, sif, events>>
locals == <<result, wasVisible>>
bounds == <<failures, asks, misread>>
vars == <<world, gens, slot, scan, pc, locals, bounds, asked>>

Events == {"mount", "unmount", "other_mount", "other_unmount"}

TypeOK ==
    /\ media \in Media \cup {None} /\ sif \in Seq(Events) /\ events \in Nat
    /\ {BdmGeneration, BdmStableGeneration, BdmPendingGeneration, pendingAge} \subseteq Nat
    /\ bdmDeviceTick \in Nat \cup {-1} /\ bdmULSizePrev \in {-2, -1, 0}
    /\ {BdmUnmountPending, visible, prefix, ForceRefresh, DeferredScan, wasVisible, misread, asked}
          \subseteq BOOLEAN
    /\ scanWait \in 0..MaxRetryFrames
    /\ bdmGames \in Media \cup {None}
    /\ pc \in {"idle", "settle", "clear", "check", "device", "scan", "read"}
    /\ result \in {-1, 0, 1}
    /\ failures \in 0..MaxFailures /\ asks \in 0..MaxAsks

(* bdmInitDevicesData and bdmInit; nothing is plugged in.                  *)
Init ==
    /\ media = None /\ sif = <<>> /\ events = 0
    /\ BdmGeneration = 0 /\ BdmStableGeneration = 0 /\ BdmPendingGeneration = 0
    /\ pendingAge = 0 /\ BdmUnmountPending = FALSE
    /\ visible = FALSE /\ prefix = FALSE /\ bdmULSizePrev = -2 /\ bdmDeviceTick = -1
    /\ ForceRefresh = FALSE /\ DeferredScan = FALSE /\ scanWait = 0
    /\ bdmGames = None
    /\ pc = "idle" /\ result = 0 /\ wasVisible = FALSE
    /\ failures = 0 /\ asks = 0 /\ misread = FALSE /\ asked = FALSE

----------------------------------------------------------------------------
(* The devices, as the IOP module bdmevent reports them.                   *)
Plug(m) ==
    /\ media = None /\ events < MaxEvents
    /\ media' = m /\ sif' = Append(sif, "mount") /\ events' = events + 1
    /\ UNCHANGED <<gens, slot, scan, pc, locals, bounds, asked>>

Unplug ==
    /\ media # None /\ events < MaxEvents
    /\ media' = None /\ sif' = Append(sif, "unmount") /\ events' = events + 1
    /\ UNCHANGED <<gens, slot, scan, pc, locals, bounds, asked>>

OtherSlot(e) ==
    /\ events < MaxEvents
    /\ sif' = Append(sif, e) /\ events' = events + 1
    /\ UNCHANGED <<media, gens, slot, scan, pc, locals, bounds, asked>>

(* An interrupt: between any two steps of the threads.                     *)
bdmEventHandler ==
    /\ sif # <<>>
    /\ sif' = Tail(sif)
    /\ BdmGeneration' = BdmGeneration + 1
    /\ BdmUnmountPending' = (Head(sif) \in {"unmount", "other_unmount"})
    /\ asked' = FALSE
    /\ UNCHANGED <<media, events, BdmStableGeneration, BdmPendingGeneration, pendingAge, slot, scan,
                   pc, locals, bounds>>

(* The GUI thread has the lower priority: it runs only when the worker is  *)
(* idle or waits for the IOP.                                              *)
GuiRuns == pc \in {"idle", "device", "scan", "read"}

(* guiFrameId advances by an interval; no command takes as long as that.   *)
Frames ==
    /\ GuiRuns /\ sif = <<>>
    /\ pendingAge < QuietFrames \/ scanWait > 0
    /\ pendingAge' = IF pendingAge < QuietFrames THEN pendingAge + 1 ELSE pendingAge
    /\ scanWait' = IF scanWait > 0 THEN scanWait - 1 ELSE 0
    /\ UNCHANGED <<world, BdmGeneration, BdmStableGeneration, BdmPendingGeneration,
                   BdmUnmountPending, slot, ForceRefresh, DeferredScan, bdmGames, pc,
                   locals, bounds, asked>>

(* An event is not settled yet.                                            *)
Settling == BdmStableGeneration # BdmGeneration

(* Refresh is pressed, or a game is deleted or renamed (the size of ul.cfg *)
(* is then forgotten at once).                                             *)
AskRefresh(ul) ==
    /\ GuiRuns /\ asks < MaxAsks /\ asks' = asks + 1
    /\ ForceRefresh' = TRUE
    /\ asked' = (asked \/ (sif = <<>> /\ ~Settling))
    /\ bdmULSizePrev' = ul
    /\ UNCHANGED <<world, gens, visible, prefix, bdmDeviceTick, DeferredScan, scanWait,
                   bdmGames, pc, locals, failures, misread>>

itemExecRefresh == AskRefresh(bdmULSizePrev)
bdmDeleteGame == AskRefresh(-2)

(* The settings are applied again.                                         *)
bdmInitDevicesData ==
    /\ GuiRuns /\ asks < MaxAsks /\ asks' = asks + 1
    /\ visible' = FALSE /\ bdmDeviceTick' = -1
    /\ UNCHANGED <<world, gens, prefix, bdmULSizePrev, scan, pc, locals, failures, misread, asked>>

----------------------------------------------------------------------------
(* bdmNeedsUpdate: a forced refresh resets what is known of the slot.      *)
(* Mutant: the refresh does not ask for a scan.                            *)
TakeForceRefreshOnly ==
    /\ result' = 0
    /\ ForceRefresh' = FALSE
    /\ UNCHANGED <<bdmDeviceTick, bdmULSizePrev, scanWait, DeferredScan>>

TakeForceRefresh ==
    /\ result' = IF ForceRefresh THEN 1 ELSE 0
    /\ ForceRefresh' = FALSE
    /\ IF ForceRefresh
       THEN bdmDeviceTick' = -1 /\ bdmULSizePrev' = -2 /\ scanWait' = 0
            /\ DeferredScan' = FALSE
       ELSE UNCHANGED <<bdmDeviceTick, bdmULSizePrev, scanWait, DeferredScan>>

(* A change must have been quiet for QuietFrames, unless it is an unmount. *)
Quiet == BdmPendingGeneration = BdmGeneration /\ pendingAge = QuietFrames

Poll ==
    /\ pc = "idle"
    /\ TakeForceRefresh
    /\ IF Settling /\ BdmPendingGeneration # BdmGeneration
       THEN BdmPendingGeneration' = BdmGeneration /\ pendingAge' = 0
       ELSE UNCHANGED <<BdmPendingGeneration, pendingAge>>
    /\ pc' = CASE ~Settling -> "check"
               [] Settling /\ (BdmUnmountPending \/ Quiet) -> "settle"
               [] OTHER -> "idle"
    /\ UNCHANGED <<world, BdmGeneration, BdmStableGeneration, BdmUnmountPending, visible, prefix,
                   bdmGames, wasVisible, bounds, asked>>

(* bdmNeedsUpdate of another slot, which shares the generations: in an     *)
(* update of its own, or in this one, before any list is read.             *)
PollOther ==
    /\ pc \in {"idle", "scan"} /\ Settling
    /\ BdmPendingGeneration' = BdmGeneration
    /\ pendingAge' = IF BdmPendingGeneration # BdmGeneration THEN 0 ELSE pendingAge
    /\ IF BdmUnmountPending \/ Quiet
       THEN BdmStableGeneration' = BdmGeneration /\ BdmUnmountPending' = FALSE
       ELSE UNCHANGED <<BdmStableGeneration, BdmUnmountPending>>
    /\ UNCHANGED <<world, BdmGeneration, slot, scan, pc, locals, bounds, asked>>

(* The generation is read again for this assignment, or kept in a register *)
(* since Poll: an event in between is then one that comes just after.      *)
Settle ==
    /\ pc = "settle"
    /\ BdmStableGeneration' = BdmGeneration
    /\ pc' = "clear"
    /\ UNCHANGED <<world, BdmGeneration, BdmPendingGeneration, pendingAge, BdmUnmountPending, slot,
                   scan, locals, bounds, asked>>

ClearUnmount ==
    /\ pc = "clear"
    /\ BdmUnmountPending' = FALSE
    /\ pc' = "check"
    /\ UNCHANGED <<world, BdmGeneration, BdmStableGeneration, BdmPendingGeneration, pendingAge, slot,
                   scan, locals, bounds, asked>>

(* A deferred scan waits for its time and then forces a scan; a slot that  *)
(* was looked at in this generation needs nothing.                         *)
CheckDeferred ==
    /\ pc = "check" /\ DeferredScan /\ scanWait > 0
    /\ pc' = "idle"
    /\ UNCHANGED <<world, gens, slot, scan, locals, bounds, asked>>

CheckTick ==
    /\ pc = "check" /\ ~(DeferredScan /\ scanWait > 0)
    /\ DeferredScan' = FALSE
    /\ bdmULSizePrev' = IF DeferredScan THEN -2 ELSE bdmULSizePrev
    /\ result' = IF DeferredScan THEN 1 ELSE result
    /\ IF bdmULSizePrev' # -2 /\ bdmDeviceTick = BdmStableGeneration
       THEN pc' = "idle" /\ UNCHANGED <<bdmDeviceTick, wasVisible>>
       ELSE /\ pc' = "device"
            /\ bdmDeviceTick' = BdmStableGeneration /\ wasVisible' = visible
    /\ UNCHANGED <<world, gens, visible, prefix, ForceRefresh, scanWait, bdmGames,
                   bounds, asked>>

(* bdmUpdateDeviceData: the device is opened; what it finds is compared    *)
(* with what was known before it was opened.                               *)
Appeared == media # None /\ (~wasVisible \/ ~prefix)
Vanished == media = None /\ (wasVisible \/ prefix)

bdmDeferScan(frames) ==
    /\ DeferredScan' = TRUE
    /\ scanWait' = IF frames > MaxRetryFrames THEN MaxRetryFrames ELSE frames

(* A mutant of DeviceNotReady: the device is not looked at again.          *)
DeviceNotReadyForGood ==
    /\ pc = "device" /\ Appeared
    /\ failures < MaxFailures /\ failures' = failures + 1
    /\ bdmULSizePrev' = -1
    /\ pc' = IF result = 0 THEN "idle" ELSE "scan"
    /\ UNCHANGED <<world, gens, visible, prefix, bdmDeviceTick, scan, locals, asks, misread, asked>>

DeviceNotReady ==
    /\ pc = "device" /\ Appeared
    /\ failures < MaxFailures /\ failures' = failures + 1
    /\ bdmDeferScan(RetryFrames)
    /\ pc' = IF result = 0 THEN "idle" ELSE "scan"
    /\ UNCHANGED <<world, gens, slot, ForceRefresh, bdmGames, locals, asks, misread, asked>>

DeviceAppeared ==
    /\ pc = "device" /\ Appeared
    /\ prefix' = TRUE /\ visible' = TRUE
    /\ IF result = 0
       THEN DeferredScan' = TRUE /\ scanWait' = FirstScanDelay /\ pc' = "idle"
       ELSE pc' = "scan" /\ UNCHANGED <<DeferredScan, scanWait>>
    /\ UNCHANGED <<world, gens, bdmULSizePrev, bdmDeviceTick, ForceRefresh, bdmGames,
                   locals, bounds, asked>>

(* Mutant: the removal does not lead to an update of the list.             *)
DeviceVanishedNoUpdate ==
    /\ pc = "device" /\ Vanished
    /\ prefix' = FALSE /\ visible' = FALSE /\ bdmULSizePrev' = -2
    /\ scanWait' = 0 /\ DeferredScan' = FALSE
    /\ pc' = "idle"
    /\ UNCHANGED <<world, gens, bdmDeviceTick, ForceRefresh, bdmGames, locals, bounds, asked>>

DeviceVanished ==
    /\ pc = "device" /\ Vanished
    /\ prefix' = FALSE /\ visible' = FALSE /\ bdmULSizePrev' = -2
    /\ scanWait' = 0 /\ DeferredScan' = FALSE
    /\ result' = -1 /\ pc' = "scan"
    /\ UNCHANGED <<world, gens, bdmDeviceTick, ForceRefresh, bdmGames, wasVisible, bounds, asked>>

DeviceSame ==
    /\ pc = "device" /\ ~Appeared /\ ~Vanished
    /\ pc' = IF result = 0 THEN "idle" ELSE "scan"
    /\ UNCHANGED <<world, gens, slot, scan, locals, bounds, asked>>

----------------------------------------------------------------------------
(* bdmUpdateGameList, called because bdmNeedsUpdate returned non-zero.     *)
bdmDeviceReadyForFilesystem ==
    /\ visible /\ prefix
    /\ BdmStableGeneration = BdmGeneration
    /\ ~DeferredScan /\ scanWait = 0

(* Mutant: the list is never released.                                     *)
ScanNotReadyKeep ==
    /\ pc = "scan" /\ ~bdmDeviceReadyForFilesystem
    /\ pc' = "idle"
    /\ UNCHANGED <<world, gens, slot, scan, locals, bounds, asked>>

(* The list is kept while the device is there, and released otherwise.     *)
ScanNotReady ==
    /\ pc = "scan" /\ ~bdmDeviceReadyForFilesystem
    /\ IF visible /\ prefix
       THEN UNCHANGED <<bdmGames, bdmULSizePrev>>
       ELSE bdmGames' = None /\ bdmULSizePrev' = -2
    /\ pc' = "idle"
    /\ UNCHANGED <<world, gens, visible, prefix, bdmDeviceTick, ForceRefresh, DeferredScan, scanWait,
                   locals, bounds, asked>>

ScanStarts ==
    /\ pc = "scan" /\ bdmDeviceReadyForFilesystem
    /\ asked' = FALSE
    /\ pc' = "read"
    /\ UNCHANGED <<world, gens, slot, scan, locals, bounds>>

(* sbReadList never fails: folders that cannot be opened hold no games.    *)
(* The retries of bdmUpdateGameList, for a negative result, never happen.  *)
ScanReadsNothing ==
    /\ pc = "read"
    /\ media = None \/ failures < MaxFailures
    /\ failures' = IF media = None THEN failures ELSE failures + 1
    /\ misread' = (misread \/ media # None)
    /\ bdmGames' = None /\ bdmULSizePrev' = -1
    /\ pc' = "idle"
    /\ UNCHANGED <<world, gens, visible, prefix, bdmDeviceTick, ForceRefresh, DeferredScan, scanWait,
                   locals, asks, asked>>

(* With games and without ul.cfg its size stays unknown.                   *)
ScanReads ==
    /\ pc = "read" /\ media # None
    /\ bdmGames' = media
    /\ bdmULSizePrev' = IF media \in UlMedia THEN 0 ELSE bdmULSizePrev
    /\ pc' = "idle"
    /\ UNCHANGED <<world, gens, visible, prefix, bdmDeviceTick, ForceRefresh, DeferredScan, scanWait,
                   locals, bounds, asked>>

----------------------------------------------------------------------------
Environment ==
    \/ (\E m \in Media : Plug(m)) \/ Unplug
    \/ OtherSlot("other_mount") \/ OtherSlot("other_unmount")
    \/ itemExecRefresh \/ bdmDeleteGame \/ bdmInitDevicesData

Worker ==
    \/ Poll \/ Settle \/ ClearUnmount \/ CheckDeferred \/ CheckTick
    \/ DeviceNotReady \/ DeviceAppeared \/ DeviceVanished \/ DeviceSame
    \/ ScanNotReady \/ ScanStarts \/ ScanReadsNothing \/ ScanReads

Next == Environment \/ bdmEventHandler \/ Frames \/ PollOther \/ Worker
Spec == Init /\ [][Next]_vars

(* Commands arrive; menuUpdateHook puts a request for the slot every 60    *)
(* frames, which the worker serves; and frames pass between two requests,  *)
(* though not while the worker runs: strong fairness.                      *)
FairSpec == Spec /\ WF_vars(bdmEventHandler) /\ SF_vars(Frames) /\ WF_vars(Worker)

----------------------------------------------------------------------------
(* A list of games is held only for a slot that was found connected; when  *)
(* the slot is found empty (bdmPrefix cleared), the list may stay only     *)
(* until the bdmUpdateGameList that follows, on all paths of the two.      *)
ListNeedsDevice == bdmGames # None /\ pc # "scan" => prefix

(* A device that is removed for good leaves the menu and its list of games *)
(* is released, whatever the worker was doing when it went: the scan that  *)
(* then fails, a scan deferred, an event that comes while it settles.      *)
RemovedIsReleased == <>[](media = None) => <>[](bdmGames = None /\ ~visible)

(* A device that stays connected is listed in the end: what bdmDeviceTick  *)
(* is for (bdmsupport.h: "Used alongside BdmGeneration to tell if device   *)
(* data needs to be refreshed").                                           *)
ConnectedIsScanned == \A m \in Media : <>[](media = m) => <>[](bdmGames = m)

(* ConnectedIsScanned when no other event comes, the user asks for nothing *)
(* and the folders can be opened: the device is listed however the driver  *)
(* fails before, and whenever the event comes.                             *)
UndisturbedIsScanned ==
    \A m \in Media :
        <>[](media = m) /\ [](events <= 1 /\ asks = 0 /\ ~misread) => <>[](bdmGames = m)

(* What bdmIsDeviceLoading returns, and so the busy indicator, goes out.   *)
bdmIsDeviceLoading == Settling \/ (DeferredScan /\ scanWait > 0)
LoadingEnds == <>[]~bdmIsDeviceLoading

(* "Check for forced refresh from deleting, renaming, or the manual        *)
(* refresh button" (bdmNeedsUpdate): a refresh that is asked for when no   *)
(* event is settling leads to a scan, if the device stays and no event     *)
(* comes before.                                                           *)
RefreshLeadsToScan == <>[](media # None) => []<>~asked

(* Detection settles: the device that stays is listed, and the indicator   *)
(* that is lit meanwhile goes out (bdmNeedsUpdate, bdmIsDeviceLoading).    *)
DetectionSettles == UndisturbedIsScanned /\ LoadingEnds
=============================================================================
