----------------------------- MODULE AppsScan ------------------------------
(***************************************************************************)
(* The list of applications: ps5AppsScanTask, ps5QueueAppsScan, the        *)
(* catalogue ps5_game_catalog.json and the input of the Apps tab           *)
(* (src/src/menusys.c 1716-2250, 4126-4160), with what the tab draws       *)
(* (src/src/themes.c 3424-3475).                                           *)
(*                                                                         *)
(* The worker of the I/O manager scans one device after the other, or      *)
(* loads the catalogue that an earlier scan left on the first USB device;  *)
(* the GUI thread draws the list and moves the selection meanwhile, and    *)
(* the worker, which has the higher priority, runs between any two steps   *)
(* of a key.  The console may be switched off at any time; the devices     *)
(* keep their files.                                                       *)
(***************************************************************************)
EXTENDS Integers, Sequences, SequencesExt, FiniteSetsExt

CONSTANTS
    Apps,         \* the applications there may be
    MaxItems,     \* PS5_APPS_MAX_ITEMS
    NoFile,       \* the catalogue does not exist
    MaxUses       \* bound on the changes of the devices and of the power

(* The devices, in the order they are scanned; mass0 holds the catalogue.  *)
Roots == <<"mc0", "mass0">>

ASSUME AppsScanAssumption ==
    /\ IsFiniteSet(Apps) /\ MaxItems \in Nat \ {0} /\ MaxUses \in Nat
    /\ NoFile \notin Seq(Apps \X Nat)

VARIABLES
    onDevice,     \* the applications on each device
    catalogue,    \* ps5_game_catalog.json: the entries of its lines, or NoFile
    tmpFile,      \* ps5_game_catalog.json.tmp
    items,        \* gPS5Apps up to gPS5AppsItemCount: pairs of an application and its group
    groups,       \* the titles of gPS5AppGroups up to gPS5AppsGroupCount
    savedHash,    \* gPS5SavedCatalogHash: what is hashed, the list
    selected,     \* gPS5AppsSelected
    key,          \* where the handling of Up or Down is: "none", "up" or "down" from the
                  \* test of the count to the return of sfxPlay, "store" before the store
    target,       \* what is to be stored
    flags,        \* [loading, scanned, queued]: gPS5AppsLoading, Scanned, ScanQueued
    step,         \* where the scan is: "idle", "load", a device, "write", "remove", "rename"
    launched,     \* the application that was started
    completed,    \* history: the lists of the scans that came to their end
    full,         \* history: a write failed because the device was full
    crossed,      \* history: the list was last emptied while a key was being handled
    uses

appsVars == <<onDevice, catalogue, tmpFile, items, groups, savedHash, selected, flags, step, launched,
              key, target, crossed, completed, full, uses>>
appsFiles == <<catalogue, tmpFile, completed, full>>
appsKey == <<key, target, crossed>>

Item == Apps \X (0..Len(Roots) - 1)
Quiet == [loading |-> FALSE, scanned |-> FALSE, queued |-> FALSE]

AppsTypeOK ==
    /\ onDevice \in [ToSet(Roots) -> SUBSET Apps]
    /\ {catalogue, tmpFile} \subseteq Seq(Item) \cup {NoFile}
    /\ items \in Seq(Item) /\ Len(items) <= MaxItems
    /\ groups \in Seq(ToSet(Roots)) /\ savedHash \in Seq(Item)
    /\ {selected, target} \subseteq -1 .. MaxItems - 1
    /\ key \in {"none", "up", "down", "store"} /\ crossed \in BOOLEAN
    /\ flags \in [loading: BOOLEAN, scanned: BOOLEAN, queued: BOOLEAN]
    /\ step \in {"idle", "off", "load", "write", "remove", "rename"} \cup ToSet(Roots)
    /\ launched \in Apps \cup {NoFile}
    /\ completed \subseteq Seq(Item) /\ full \in BOOLEAN /\ uses \in 0..MaxUses

AppsInit ==
    /\ onDevice \in [ToSet(Roots) -> {{}, Apps}]
    /\ catalogue = NoFile /\ tmpFile = NoFile
    /\ items = <<>> /\ groups = <<>> /\ savedHash = <<>> /\ selected = 0
    /\ flags = Quiet /\ step = "idle" /\ launched = NoFile
    /\ key = "none" /\ target = 0 /\ crossed = FALSE /\ completed = {} /\ full = FALSE /\ uses = 0

----------------------------------------------------------------------------
(* ps5QueueAppsScan, from the tab (force is FALSE) or by Square.           *)
QueueAppsScan(force) ==
    /\ step = "idle" /\ key = "none" /\ ~flags.loading /\ ~flags.queued
    /\ force \/ ~flags.scanned
    /\ flags' = [flags EXCEPT !.loading = TRUE, !.queued = TRUE]
    /\ UNCHANGED <<onDevice, appsFiles, items, groups, savedHash, selected, step, launched, appsKey,
                   uses>>

(* A mutant of ScanBegin: the selection stays.                           *)
ScanBeginKeepsSelected ==
    /\ step = "idle" /\ flags.queued
    /\ flags' = [flags EXCEPT !.loading = TRUE, !.scanned = TRUE]
    /\ items' = <<>> /\ groups' = <<>> /\ crossed' = (key # "none")
    /\ step' = "load"
    /\ UNCHANGED <<onDevice, appsFiles, savedHash, selected, launched, key, target, uses>>

(* ps5AppsScanTask up to the call of ps5LoadGameCatalogJson.               *)
ScanBegin ==
    /\ step = "idle" /\ flags.queued
    /\ flags' = [flags EXCEPT !.loading = TRUE, !.scanned = TRUE]
    /\ items' = <<>> /\ groups' = <<>> /\ selected' = 0 /\ crossed' = (key # "none")
    /\ step' = "load"
    /\ UNCHANGED <<onDevice, appsFiles, savedHash, launched, key, target, uses>>

(* What fits of a list, and a mutant without a limit.                      *)
TakeAll(s, n) == s
Take(s, n) == SubSeq(s, 1, IF Len(s) < n THEN Len(s) ELSE n)

(* The end of ps5AppsScanTask.                                             *)
ScanEnds ==
    /\ selected' = IF selected < Len(items') THEN selected
                   ELSE IF items' # <<>> THEN Len(items') - 1 ELSE 0
    /\ flags' = [flags EXCEPT !.loading = FALSE, !.queued = FALSE]
    /\ step' = "idle"

(* ps5LoadGameCatalogJson: the groups of the entries are counted, and get  *)
(* no title; gPS5AppsGroupCount stays 0.                                   *)
LoadCatalogue ==
    /\ step = "load" /\ catalogue \notin {NoFile, <<>>}
    /\ items' = Take(catalogue, MaxItems) /\ savedHash' = items'
    /\ ScanEnds
    /\ UNCHANGED <<onDevice, appsFiles, groups, launched, appsKey, uses>>

LoadNoCatalogue ==
    /\ step = "load" /\ catalogue \in {NoFile, <<>>}
    /\ savedHash' = IF catalogue = NoFile THEN savedHash ELSE <<>>
    /\ step' = Head(Roots)
    /\ UNCHANGED <<onDevice, appsFiles, items, groups, selected, flags, launched, appsKey, uses>>

(* ps5AppsScanRoot.                                                        *)
ScanRoot ==
    /\ step \in ToSet(Roots)
    /\ groups' = Append(groups, step)
    /\ LET found == SetToSeq(onDevice[step])
       IN items' = Take(items \o [i \in 1..Len(found) |-> <<found[i], Len(groups)>>], MaxItems)
    /\ IF step # Last(Roots)
         THEN step' = Roots[Len(groups) + 2] /\ UNCHANGED completed
         ELSE step' = "write" /\ completed' = completed \cup {items'}
    /\ UNCHANGED <<onDevice, catalogue, tmpFile, savedHash, selected, flags, launched, full,
                   appsKey, uses>>

(* A mutant of WriteTmp: the catalogue itself is written.                *)
WriteInPlace ==
    /\ step = "write"
    /\ \E n \in 1..Len(items) : catalogue' = Take(items, n)
    /\ step' = "remove"
    /\ UNCHANGED <<onDevice, tmpFile, completed, full, items, groups, savedHash, selected, flags,
                   launched, appsKey, uses>>

(* ps5SaveGameCatalogJson.  The results of write are not looked at: when   *)
(* the device is full, the file ends early.                                *)
WriteTmp ==
    /\ step = "write" /\ items # <<>> /\ items # savedHash
    /\ \E n \in 0..Len(items) : tmpFile' = Take(items, n)
    /\ full' = (full \/ tmpFile' # items)
    /\ step' = "remove"
    /\ UNCHANGED <<onDevice, catalogue, completed, items, groups, savedHash, selected, flags,
                   launched, appsKey, uses>>

WriteNothing ==
    /\ step = "write"
    /\ UNCHANGED items /\ ScanEnds
    /\ UNCHANGED <<onDevice, appsFiles, groups, savedHash, launched, appsKey, uses>>

RemoveOld ==
    /\ step = "remove"
    /\ catalogue' = NoFile /\ step' = "rename"
    /\ UNCHANGED <<onDevice, tmpFile, completed, full, items, groups, savedHash, selected, flags,
                   launched, appsKey, uses>>

(* rename may fail; its result is not looked at.                           *)
RenameTmp ==
    /\ step = "rename"
    /\ \/ catalogue' = tmpFile /\ tmpFile' = NoFile
       \/ UNCHANGED <<catalogue, tmpFile>>
    /\ savedHash' = items
    /\ UNCHANGED items /\ ScanEnds
    /\ UNCHANGED <<onDevice, completed, full, groups, launched, appsKey, uses>>

AppsWorker ==
    ScanBegin \/ LoadCatalogue \/ LoadNoCatalogue \/ ScanRoot \/ WriteTmp \/ WriteNothing
      \/ RemoveOld \/ RenameTmp

----------------------------------------------------------------------------
(* Up and Down, also while the list grows: the list is not empty, and      *)
(* sfxPlay calls the IOP and waits.                                        *)
KeyPress(k) ==
    /\ step # "off" /\ key = "none" /\ items # <<>>
    /\ key' = k
    /\ UNCHANGED <<onDevice, appsFiles, items, groups, savedHash, selected, flags, step, launched,
                   target, crossed, uses>>

(* The entry above or below, with the count as it is now: of a list that   *)
(* was emptied meanwhile, the last entry is -1.                            *)
KeyLoad ==
    /\ step # "off" /\ key \in {"up", "down"} /\ key' = "store"
    /\ target' = IF key = "up" THEN IF selected > 0 THEN selected - 1 ELSE Len(items) - 1
                 ELSE IF selected + 1 < Len(items) THEN selected + 1 ELSE 0
    /\ UNCHANGED <<onDevice, appsFiles, items, groups, savedHash, selected, flags, step, launched,
                   crossed, uses>>

KeyStore ==
    /\ step # "off" /\ key = "store" /\ key' = "none"
    /\ selected' = target /\ target' = 0
    /\ UNCHANGED <<onDevice, appsFiles, items, groups, savedHash, flags, step, launched, crossed,
                   uses>>

AppsKey == (\E k \in {"up", "down"} : KeyPress(k)) \/ KeyLoad \/ KeyStore

(* ps5LaunchSelectedApp; sysExecElf replaces the launcher.                 *)
Launch ==
    /\ step = "idle" /\ key = "none" /\ ~flags.loading
    /\ selected >= 0 /\ selected < Len(items)
    /\ launched' = items[selected + 1][1]
    /\ step' = "off"
    /\ UNCHANGED <<onDevice, appsFiles, items, groups, savedHash, selected, flags, appsKey, uses>>

(* The console is switched off or on; applications are put on a device or  *)
(* taken from it meanwhile.                                                *)
PowerOff ==
    /\ step # "off" /\ uses < MaxUses
    /\ step' = "off" /\ uses' = uses + 1
    /\ UNCHANGED <<onDevice, appsFiles, items, groups, savedHash, selected, flags, launched,
                   appsKey>>

PowerOn ==
    /\ step = "off" /\ uses < MaxUses
    /\ onDevice' \in [ToSet(Roots) -> {{}, Apps}]
    /\ items' = <<>> /\ groups' = <<>> /\ savedHash' = <<>> /\ selected' = 0 /\ launched' = NoFile
    /\ key' = "none" /\ target' = 0 /\ crossed' = FALSE
    /\ flags' = Quiet /\ step' = "idle" /\ uses' = uses + 1
    /\ UNCHANGED appsFiles

AppsNext ==
    \/ AppsWorker \/ AppsKey \/ Launch \/ PowerOff \/ PowerOn
    \/ \E force \in BOOLEAN : QueueAppsScan(force)

(* The worker is scheduled, and the file system answers.                   *)
AppsFair == WF_appsVars(AppsWorker)
AppsSpec == AppsInit /\ [][AppsNext]_appsVars /\ AppsFair

----------------------------------------------------------------------------
(* The selection is an entry of the list at every moment of a scan: the    *)
(* GUI thread moves it while the worker empties and fills the list, and    *)
(* Cross starts what it points to (menusys.c:2244).  The exception is a    *)
(* list that was emptied under a key (crossed): the key may store -1, or   *)
(* an entry of the old list, and the end of the scan only brings back what *)
(* is too large (menusys.c:2221).                                          *)
SelectedInList == crossed \/ selected = 0 \/ selected \in 0 .. Len(items) - 1

(* A catalogue is the list of a scan that came to its end, wherever the    *)
(* power failed, unless the device was full (menusys.c:2004-2006).         *)
CatalogueIsOfScan == catalogue = NoFile \/ full \/ catalogue \in completed

(* The list of applications is sound, on the screen and on the device.     *)
AppsAreSound == SelectedInList /\ CatalogueIsOfScan

(* A scan ends unless the power is cut, and Square works again.            *)
AppsScanEnds == flags.loading ~> ~flags.loading \/ step = "off"

(* What can be started is on the screen: the Apps tab "helps to launch ELF *)
(* files" (README.md:10-11), and draws the entries of the groups below     *)
(* gPS5AppsGroupCount (themes.c:3444).                                     *)
EntriesAreDrawn ==
    flags.scanned /\ ~flags.loading => \A i \in 1..Len(items) : items[i][2] < Len(groups)
=============================================================================
