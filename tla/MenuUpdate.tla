----------------------------- MODULE MenuUpdate -----------------------------
(***************************************************************************)
(* The merged list of games: menuDeferredUpdate, updateMenuFromGameList    *)
(* and clearMenuGameList of src/src/opl.c, the frame loop and the deferred *)
(* menu operations of src/src/gui.c.                                       *)
(*                                                                         *)
(* The I/O worker rebuilds the submenu of the merged module (the first     *)
(* block device): it empties it under the GUI lock, reads the lists of the *)
(* sources that changed, and defers one operation per game, which the GUI  *)
(* thread runs once per frame.  The worker preempts the GUI thread; the    *)
(* GUI thread runs while the worker waits for a device, for the lock, or   *)
(* for a request.  The queue of requests is that of module IoQueue,        *)
(* duplicates dropped; the operations are those of module GuiOps, with     *)
(* their list as a sequence: what is kept of its pointers is whether the   *)
(* last one still leads to its end.                                        *)
(***************************************************************************)
EXTENDS Naturals, Sequences, SequencesExt

CONSTANTS
    UsbGames, HddGames,  \* the games that may be on each source
    NULL, Freed,         \* no entry; an entry whose memory was freed
    MaxAsks,             \* bound on the refreshes and initialisations asked for
    MaxChanges           \* bound on the changes of the devices' contents

Games == UsbGames \cup HddGames
Sources == {"usb", "hdd"}

ASSUME MenuUpdateAssumption ==
    /\ NULL \notin Games /\ Freed \notin Games /\ NULL # Freed
    /\ UsbGames \cap HddGames = {} /\ IsFiniteSet(Games)
    /\ MaxAsks \in Nat /\ MaxChanges \in Nat

VARIABLES
    disk,        \* the games on each source
    usbDirty,    \* bdmNeedsUpdate will return non-zero (see BdmScan)
    games,       \* the list read from each source (bdmGames, hddGames)
    queue,       \* the requests of type IO_MENU_UPDATE_DEFFERED, the served one first
    ops,         \* the games the deferred operations append
    sorting,     \* an operation that sorts the submenu is deferred
    severed,     \* the list of operations is not empty and gUpdateEnd is not its end
    subMenu,     \* the entries of the submenu
    current,     \* menuItem.current
    ps5MergedHddUpdatePending, ps5MergedForceRebuildPending,
    ps5MergedSourceUpdateMask,
    pc,          \* where the worker is
    phase,       \* where the GUI thread is in its loop
    held,        \* the entry the GUI thread holds a pointer to
    asks, changes,
    lost,        \* history: the games whose latest operation was lost
    askedHdd     \* history: a refresh was asked for when no update was under way, and the
                 \* HDD was not scanned since

flags == <<ps5MergedHddUpdatePending, ps5MergedForceRebuildPending>>
menu == <<ops, sorting, severed, subMenu, current>>
world == <<disk, games, asks, changes, lost, askedHdd>>
vars == <<world, usbDirty, queue, menu, flags, ps5MergedSourceUpdateMask, pc, phase, held>>

TypeOK ==
    /\ disk \in [Sources -> SUBSET Games] /\ games \in [Sources -> SUBSET Games]
    /\ queue \in Seq({"merged", "hdd"})
    /\ ops \in Seq(Games) /\ subMenu \in Seq(Games) /\ lost \subseteq Games
    /\ sorting \in BOOLEAN /\ severed \in BOOLEAN
    /\ current \in Games \cup {NULL} /\ held \in Games \cup {NULL, Freed}
    /\ {usbDirty, ps5MergedHddUpdatePending, ps5MergedForceRebuildPending, askedHdd} \subseteq BOOLEAN
    /\ ps5MergedSourceUpdateMask \subseteq Sources
    /\ pc \in {"idle", "needs", "lock", "usb", "hdd"}
    /\ phase \in {"start", "show", "emptied", "drained", "input", "using"}
    /\ asks \in 0..MaxAsks /\ changes \in 0..MaxChanges

Init ==
    /\ disk = [s \in Sources |-> IF s = "usb" THEN UsbGames ELSE HddGames]
    /\ usbDirty = TRUE
    /\ games = [s \in Sources |-> {}]
    /\ queue = <<>> /\ ops = <<>> /\ sorting = FALSE /\ severed = FALSE /\ subMenu = <<>>
    /\ current = NULL /\ held = NULL
    /\ ps5MergedHddUpdatePending = FALSE /\ ps5MergedForceRebuildPending = FALSE
    /\ ps5MergedSourceUpdateMask = {}
    /\ pc = "idle" /\ phase = "start"
    /\ asks = 0 /\ changes = 0 /\ lost = {} /\ askedHdd = FALSE

----------------------------------------------------------------------------
(* ioPutRequest: an equal update that waits or is being served stands for  *)
(* the new one.                                                            *)
Put(q, r) == IF Contains(q, r) THEN q ELSE Append(q, r)

(* guiLock is held from guiStartFrame to guiEndFrame.                      *)
LockFree == phase \in {"input", "using", "start"}

(* The worker waits, and the GUI thread can run.                           *)
Waits ==
    \/ pc = "idle" /\ queue = <<>>
    \/ pc = "needs"
    \/ pc = "lock" /\ ~LockFree
    \/ pc = "usb" /\ "usb" \in ps5MergedSourceUpdateMask
    \/ pc = "hdd" /\ "hdd" \in ps5MergedSourceUpdateMask

(* The contents of a device change.                                        *)
DeviceChange(s, g) ==
    /\ changes < MaxChanges /\ changes' = changes + 1
    /\ disk' = [disk EXCEPT ![s] = IF g \in @ THEN @ \ {g} ELSE @ \cup {g}]
    /\ usbDirty' = (usbDirty \/ s = "usb")
    /\ UNCHANGED <<games, asks, lost, askedHdd, queue, menu, flags, ps5MergedSourceUpdateMask, pc, phase,
                   held>>

----------------------------------------------------------------------------
(* guiMainLoop.  The frame is shown from the pointers of the menu item.    *)
guiStartFrame ==
    /\ phase = "start" /\ Waits
    /\ held' = current
    /\ phase' = "show"
    /\ UNCHANGED <<world, usbDirty, queue, menu, flags, ps5MergedSourceUpdateMask, pc>>

(* guiHandleOp: the first entry becomes the current one, and so does the   *)
(* first of a sorted list.  The order itself is not modelled.              *)
Entries == subMenu \o ops

guiHandleDeferredOps ==
    /\ phase = "show" /\ Waits
    /\ subMenu' = Entries /\ ops' = <<>> /\ sorting' = FALSE /\ severed' = FALSE
    /\ current' = IF Entries = <<>> THEN NULL
                  ELSE IF current = NULL \/ sorting THEN Head(Entries) ELSE current
    /\ held' = NULL
    /\ phase' = "emptied"
    /\ UNCHANGED <<world, usbDirty, queue, flags, ps5MergedSourceUpdateMask, pc>>

(* The semaphore was signalled, and the worker that waited for it may have *)
(* linked operations into the empty list: gUpdateEnd is cleared all the    *)
(* same.                                                                   *)
ClearUpdateEnd ==
    /\ phase = "emptied" /\ Waits
    /\ severed' = (ops # <<>> \/ sorting)
    /\ phase' = "drained"
    /\ UNCHANGED <<world, usbDirty, queue, ops, sorting, subMenu, current, flags,
                   ps5MergedSourceUpdateMask, pc, held>>

guiEndFrame ==
    /\ phase = "drained" /\ Waits
    /\ phase' = "input"
    /\ UNCHANGED <<world, usbDirty, queue, menu, flags, ps5MergedSourceUpdateMask, pc, held>>

(* screenHandler->handleInput: a button acts on the current entry.         *)
InputUse ==
    /\ phase = "input" /\ Waits
    /\ current # NULL
    /\ held' = current
    /\ phase' = "using"
    /\ UNCHANGED <<world, usbDirty, queue, menu, flags, ps5MergedSourceUpdateMask, pc>>

(* Mutant: only the block devices are told.                                *)
oplRefreshBlockDevices ==
    /\ phase = "input" /\ Waits
    /\ asks < MaxAsks /\ asks' = asks + 1
    /\ askedHdd' = (askedHdd \/ ~Contains(queue, "merged"))
    /\ ps5MergedForceRebuildPending' = TRUE
    /\ usbDirty' = TRUE
    /\ queue' = Put(queue, "merged")
    /\ UNCHANGED <<disk, games, changes, lost, menu, ps5MergedHddUpdatePending, ps5MergedSourceUpdateMask, pc,
                   phase, held>>

oplRefreshMergedGameList ==
    /\ phase = "input" /\ Waits
    /\ asks < MaxAsks /\ asks' = asks + 1
    /\ askedHdd' = (askedHdd \/ ~Contains(queue, "merged"))
    /\ ps5MergedHddUpdatePending' = TRUE /\ ps5MergedForceRebuildPending' = TRUE
    /\ usbDirty' = TRUE
    /\ queue' = Put(queue, "merged")
    /\ UNCHANGED <<disk, games, changes, lost, menu, ps5MergedSourceUpdateMask, pc, phase, held>>

(* initSupport for the HDD.                                                *)
InitHdd ==
    /\ phase = "input" /\ Waits
    /\ asks < MaxAsks /\ asks' = asks + 1
    /\ queue' = Put(queue, "hdd")
    /\ UNCHANGED <<disk, games, changes, lost, askedHdd, usbDirty, menu, flags, ps5MergedSourceUpdateMask,
                   pc, phase, held>>

(* The frame hook, menuUpdateHook, puts a request every 60 frames.         *)
InputDone ==
    /\ phase \in {"input", "using"} /\ Waits
    /\ held' = NULL
    /\ queue' \in {queue, Put(queue, "merged")}
    /\ phase' = "start"
    /\ UNCHANGED <<world, usbDirty, menu, flags, ps5MergedSourceUpdateMask, pc>>

----------------------------------------------------------------------------
(* menuDeferredUpdate for a source that is merged into another module.     *)
Forward ==
    /\ pc = "idle" /\ queue # <<>> /\ Head(queue) = "hdd"
    /\ ps5MergedHddUpdatePending' = TRUE
    /\ queue' = Tail(Put(queue, "merged"))
    /\ UNCHANGED <<world, usbDirty, menu, ps5MergedForceRebuildPending, ps5MergedSourceUpdateMask, pc,
                   phase, held>>

(* menuDeferredUpdate for the merged module: the block devices are asked   *)
(* first, which may wait for them; then the HDD, if it is due.             *)
Start ==
    /\ pc = "idle" /\ queue # <<>> /\ Head(queue) = "merged"
    /\ ps5MergedSourceUpdateMask' = {}
    /\ pc' = "needs"
    /\ UNCHANGED <<world, usbDirty, queue, menu, flags, phase, held>>

Due == {s \in Sources : IF s = "usb" THEN usbDirty ELSE ps5MergedHddUpdatePending}

NeedsUpdate ==
    /\ pc = "needs"
    /\ Due # {} \/ ps5MergedForceRebuildPending
    /\ ps5MergedSourceUpdateMask' = Due
    /\ usbDirty' = FALSE
    /\ pc' = IF subMenu = <<>> THEN "usb" ELSE "lock"
    /\ UNCHANGED <<world, queue, menu, flags, phase, held>>

NeedsNothing ==
    /\ pc = "needs"
    /\ Due = {} /\ ~ps5MergedForceRebuildPending
    /\ queue' = Tail(queue)
    /\ pc' = "idle"
    /\ UNCHANGED <<world, usbDirty, menu, flags, ps5MergedSourceUpdateMask, phase, held>>

(* Mutant: the GUI lock is not taken.                                      *)
clearMenuGameListUnlocked ==
    /\ pc = "lock"
    /\ subMenu' = <<>> /\ current' = NULL
    /\ held' = IF held = NULL THEN NULL ELSE Freed
    /\ pc' = "usb"
    /\ UNCHANGED <<world, usbDirty, queue, ops, sorting, severed, flags, ps5MergedSourceUpdateMask, phase>>

clearMenuGameList ==
    /\ pc = "lock" /\ LockFree
    /\ subMenu' = <<>> /\ current' = NULL
    /\ held' = IF held = NULL THEN NULL ELSE Freed
    /\ pc' = "usb"
    /\ UNCHANGED <<world, usbDirty, queue, ops, sorting, severed, flags, ps5MergedSourceUpdateMask, phase>>

(* updateMenuFromGameList: itemUpdate of a source that is due, itemGetCount*)
(* of another; one operation for each of its games.                        *)
List(s) == IF s \in ps5MergedSourceUpdateMask THEN disk[s] ELSE games[s]

(* guiDeferUpdate for the games gs: behind a gUpdateEnd that was cleared   *)
(* the operations are linked to address 0, and no drain reaches them.      *)
guiDeferUpdate(gs) ==
    IF severed THEN lost' = lost \cup gs /\ UNCHANGED ops
               ELSE lost' = lost \ gs /\ ops' = ops \o SetToSeq(gs)

(* The operation that sorts, at the end of a rebuild with games.           *)
DeferSort(gs) == sorting' = (sorting \/ (gs # {} /\ ~severed))

UpdateUsb ==
    /\ pc = "usb"
    /\ games' = [games EXCEPT !["usb"] = List("usb")]
    /\ guiDeferUpdate(List("usb"))
    /\ pc' = "hdd"
    /\ UNCHANGED <<disk, asks, changes, askedHdd, usbDirty, queue, sorting, severed, subMenu,
                   current, flags, ps5MergedSourceUpdateMask, phase, held>>

(* Mutant: only the sources that are due are listed.                       *)
UpdateHddDueOnly ==
    /\ pc = "hdd"
    /\ games' = [games EXCEPT !["hdd"] = List("hdd")]
    /\ IF "hdd" \in ps5MergedSourceUpdateMask THEN guiDeferUpdate(List("hdd"))
       ELSE UNCHANGED <<ops, lost>>
    /\ DeferSort(games'["usb"] \cup games'["hdd"])
    /\ askedHdd' = (askedHdd /\ "hdd" \notin ps5MergedSourceUpdateMask)
    /\ ps5MergedSourceUpdateMask' = {}
    /\ ps5MergedHddUpdatePending' = FALSE /\ ps5MergedForceRebuildPending' = FALSE
    /\ queue' = Tail(queue)
    /\ pc' = "idle"
    /\ UNCHANGED <<disk, asks, changes, usbDirty, severed, subMenu, current, phase, held>>

(* The last source, the sorting, the end of menuDeferredUpdate and of the  *)
(* request, none of which waits.                                           *)
UpdateHdd ==
    /\ pc = "hdd"
    /\ games' = [games EXCEPT !["hdd"] = List("hdd")]
    /\ guiDeferUpdate(List("hdd"))
    /\ DeferSort(games'["usb"] \cup games'["hdd"])
    /\ askedHdd' = (askedHdd /\ "hdd" \notin ps5MergedSourceUpdateMask)
    /\ ps5MergedSourceUpdateMask' = {}
    /\ ps5MergedHddUpdatePending' = FALSE /\ ps5MergedForceRebuildPending' = FALSE
    /\ queue' = Tail(queue)
    /\ pc' = "idle"
    /\ UNCHANGED <<disk, asks, changes, usbDirty, severed, subMenu, current, phase, held>>

----------------------------------------------------------------------------
Device == \E g \in Games : DeviceChange(IF g \in UsbGames THEN "usb" ELSE "hdd", g)
Gui == guiStartFrame \/ guiHandleDeferredOps \/ ClearUpdateEnd \/ guiEndFrame \/ InputUse
       \/ oplRefreshMergedGameList \/ InitHdd \/ InputDone
Worker == Forward \/ Start \/ NeedsUpdate \/ NeedsNothing \/ clearMenuGameList \/ UpdateUsb \/ UpdateHdd
Next == Device \/ Gui \/ Worker
Spec == Init /\ [][Next]_vars

(* The frame loop goes round, its hook puts a request now and then, the    *)
(* lock passes to the worker that waits for it, devices answer.            *)
FairSpec ==
    /\ Spec
    /\ WF_vars(Gui) /\ WF_vars(Worker)
    /\ SF_vars(InputDone /\ queue' = Put(queue, "merged"))

----------------------------------------------------------------------------
(* What a frame shows is not freed under it: clearMenuGameList takes       *)
(* guiLock, which the GUI thread holds while it shows the frame.           *)
RenderIsSafe == phase = "show" => held # Freed

(* Every game of a list that has settled is in the menu in the end,        *)
(* whichever source the last rebuild was for and whatever operations were  *)
(* pending when it cleared the submenu, unless its own operation is among  *)
(* those guiHandleDeferredOps loses by clearing gUpdateEnd too late        *)
(* (NoOpIsLost of module GuiOps is refuted).                               *)
ListedIsShown ==
    \A g \in Games :
        <>[](g \notin lost /\ \E s \in Sources : g \in games[s]) => <>[](Contains(Entries, g))

(* A change of a block device is picked up in the end.                     *)
UsbIsFollowed == <>[](games["usb"] = disk["usb"])

(* A refresh that is asked for while no update is queued or served leads   *)
(* to a scan of the HDD, which is not looked at otherwise ("an explicit    *)
(* request to re-scan the HDD", hddsupport.c).                             *)
RefreshScansHdd == []<>~askedHdd

(* The lists follow the devices: the block device by itself, the hard disk *)
(* when it is asked for.                                                   *)
ListsFollowDevices == UsbIsFollowed /\ RefreshScansHdd
=============================================================================
