# TLA+ specifications of PS2 Launcher

PS2 Launcher is a fork of Open PS2 Loader.  It finds PS2 games on USB and other
block devices, on the hard disk and on a network share, shows them in a
carousel with their artwork, and starts one with a replacement for the disc
drive that reads the game from the device.  This directory specifies the parts
of it in which threads, interrupts and devices meet, in which files survive a
power cut, and in which data is cut up and put together again; it checks them
with TLC, and proves most of the safety properties for instances of every size
with TLAPS.

Contents

1. [The system](#1-the-system)
2. [What the modules model](#2-what-the-modules-model)
3. [The runs](#3-the-runs)
4. [Bounds](#4-bounds)
5. [Fairness](#5-fairness)
6. [What is proved](#6-what-is-proved)
7. [Where the program departs from what it says](#7-where-the-program-departs-from-what-it-says)
8. [What is abstracted, and what is not modelled](#8-what-is-abstracted-and-what-is-not-modelled)
9. [Plan](#9-plan)

To run them: `tlc -config MCIoMan.cfg MCIoMan`, and likewise for the other
configurations; `tlapm IoManProofs.tla`, and likewise for the other `...Proofs`
modules, checks the proofs (from nothing, seconds for the shortest and several
minutes for the longest).

## 1. The system

### Threads

The launcher runs on the main processor (EE), whose threads have strict
priorities and no time slices: a thread runs until it waits or a thread of a
higher priority is ready.  The I/O processor (IOP) runs the device drivers and,
while a game runs, the emulated drive; its scheduler is of the same kind.

| thread | priority (lower runs first) | code |
|---|---|---|
| I/O worker | 30 | `ioman.c`, `ioWorkerThread` |
| GUI (main) | 31 | `gui.c`, `guiMainLoop` |
| artwork loader | 31, one per file | `themes.c`, `ps5LoadTextureThread` |
| download of covers | 32 | `opl.c` |
| player, reader of the music | 64, 65 | `sound.c` |
| reading thread of the drive (IOP) | 0x0f | `cdvdman.c`, `cdvdman_cdread_Thread` |
| RPC threads of the drive (IOP) | 0x51 | `cdvdfsv.c` |
| creation of a memory card (IOP) | above the thread that serves its calls | `genvmc.c` |

So the worker preempts the GUI thread wherever it becomes ready, and the GUI
thread runs only while the worker sleeps, waits for a semaphore, or waits for a
device.  Several pieces of code are right only because of this order (section
6), and several are wrong because of it (section 7).

### Components

The components the project models; section 8 lists the others.

**I/O manager** (`src/ioman.c`).  State: a linked list of requests (`gReqList`,
`gReqEnd`), two semaphores (`gProcSemaId` around the handlers, `gEndSemaId` around
the list), the wake-ups of the worker, the table of handlers, the flags
`isIOBlocked` and `gIOTerminate`.  Operations: `ioInit`, `ioRegisterHandler`,
`ioPutRequest` (also called by handlers), `ioRemoveRequests`, `ioBlockOps`, `ioEnd`, and
the loop of the worker.  Hard: the list is shared between two threads and two
semaphores, the worker reads its head without the semaphore that protects it,
and a request becomes reachable before its fields are set.  Correct means: the
list is intact, only complete requests are served, no wake-up is lost, requests
are served in order, a blocked manager is quiet, every request leaves the list
and blocking returns.

**Deferred operations of the GUI** (`src/gui.c`).  State: a linked list
(`gUpdateList`, `gUpdateEnd`), the semaphore `gSemaId`, the counters `gScheduledOps`
and `gCompletedOps`.  Operations: `guiDeferUpdate` by any thread,
`guiHandleDeferredOps` once per frame.  Hard: parts of both are outside the
semaphore.  Correct means: operations run once, in order, and all of them.

**Detection of block devices** (`src/bdmsupport.c`).  State: a generation that an
interrupt increments with every event of the IOP, the generation that has been
seen to settle, and per slot: whether it is shown, what was last seen of it,
the generation it was last looked at in, a deferred scan with its delay and
retries, a forced refresh, the list of games.  Operations: `bdmEventHandler`,
`bdmNeedsUpdate` and `bdmUpdateGameList` in the worker every 60 frames and on
demand, refreshes by the user.  Hard: events arrive between any two steps;
devices appear, vanish and fail in the middle; scans are put off and retried.
Correct means: what is removed is released, what stays is listed, refreshes
lead to scans, the busy indicator goes out.

**The merged list of games** (`src/opl.c`, `src/gui.c`).  State: the submenu and its
current entry, the lists of the sources, three flags of pending updates, the
requests and operations of the two components above.  Operations:
`menuDeferredUpdate` with `clearMenuGameList` and `updateMenuFromGameList` in the
worker, the frame loop, the refresh button.  Hard: the worker rebuilds the
submenu the GUI thread draws and follows pointers into.  Correct means: no
frame shows a freed entry, every listed game is shown, changes are followed.

**Artwork of the carousel** (`src/themes.c`, `src/opl.c`).  State: a cache of entries
with the path, state and texture of a cover and a logo, a generation, the job
and the result of the one loader thread.  Operations: look-up and queueing
while a frame is drawn, the loader, completion and time-out, clearing by the
frame, by a change of theme and by the download thread.  Hard: a result arrives
after the cache was cleared, a load times out and ends later, three threads
write the cache.  Correct means: one loader at a time, a cover is shown for its
own game, no texture is lost, no entry loads for ever.

**The emulated drive** (`modules/iopcore/cdvdman`: `cdvdman.c`, `ncmd.c`,
`streaming.c`, `scmd.c`).  State: `sync_flag` (the lock and the busy state in one), the
event flag, the request and the read under way, the streaming callback, the
callback of the game, two alarms, and the ring of the stream.  Operations: the
reading thread, the alarms, `sceCdRead`, `sceCdSync`, the commands, and the streaming
calls.  Hard: interrupts, three threads and callbacks share a flag that is
cleared by whoever finishes.  Correct means: the drive looks ready only when it
is, whoever waits is woken, the stream delivers the sectors of the disc in
order, a stopped stream leaves its buffer alone, a running one keeps being
filled.

**Settings of a game** (`src/menusys.c`, `src/gui.c`).  State: `itemConfig` with the ids
that say whose it is, `actionStatus`, `menuSemaId`, the options on the screen.
Operations: `_menuRequestConfig` in every frame, `_menuLoadConfig` and `_menuSaveConfig`
in the worker, the loops of the GUI thread that wait for them, the screen of
options.  Hard: two loads may be under way, the list may be emptied between a
request and its service, the ids are reset outside the semaphore.  Correct
means: settings are never stored for another game, and every wait ends.

**Apps tab** (`src/menusys.c`).  State: the list of applications and its groups, the
selection, the catalogue on the first USB device with its temporary file.
Operations: the scan in the worker, or the load of the catalogue, the keys of the
tab, starting an application.  Hard: the list is filled while it is drawn, it has
a limit, and the power may be cut while the catalogue is replaced.  Correct means:
the selection is in the list, and a catalogue that is used is that of a whole scan.

**Network support and the SMB load** (`src/menusys.c`, `src/ethsupport.c`).  State:
`gNetworkStartup`, the session and the settings it was opened with, the games of the
share, five flags of the load and the state of the check.  Operations: starting the
network, loading the list and checking the connection as requests to the worker,
the flags the GUI thread polls, changes of the settings.  Hard: the answer is
inferred from the worker being idle and from an error code that others write too.
Correct means: a load and a check end, the check tells its own result, the share
gets into the menu once the network answers.

**Carousel: filters, favourites and recent games** (`src/menusys.c`, `src/themes.c`).
State: the filter, the cursor, the two lists with their files.  Operations: the
four directions, Cross, Select, the start of a game, the start of the launcher.
Hard: the wrap-around at both ends, two copies of one game, lists at their limit.
Correct means: the directions lead to neighbours that are shown, and the recent games
are the last ones played, each once.

**Settings of the launcher** (`src/opl.c`, `src/config.c`).  State: the configuration
sets, their files on the memory card, USB and the hard disk, the path in use.
Operations: the load at start with its search of other devices, changes, a save
with its search.  Hard: the path is decided at start from what happens to be
connected, saves are partial, devices come and go.  Correct means: what is on the
memory card is loaded, a save says whether it was one.

**Lists of games on a device** (`src/supportbase.c`, `src/ethsupport.c`).  State: the
list in memory, `games.bin` per directory, the times and the size that tell whether a
scan is due.  Operations: the scan, the test.  Hard: a cache that outlives the files
it is about, changes made during a scan, failing reads.  Correct means: the list has
the files of its directory, the name of a game comes from a file of its name, a
change is noticed.

**Background music** (`src/sound.c`).  State: a ring of buffers, two semaphores, the
flags by which three threads tell each other to stop, the wake-ups of the player.
Operations: the reader, the player, start and stop by dialogs and at the end.  Hard:
two threads stop by waiting for each other, with a callback in between.  Correct
means: no buffer is played before the reader handed it over or written before it was
heard, nothing is used after `bgmStop`, nobody waits for ever.

**Reads of a game by remote procedure** (`cdvdfsv/ncmd.c`, `cdvdman.c`).  State: what is
left of the request, the edges that travel beside the data, the sector buffer, the
memory of the EE.  Operations: one pass after another, `sceCdBreak`, failures.  Hard:
DMA moves aligned blocks only, so an unaligned read is shifted, overreads and is
patched.  Correct means: every byte is in place and no other byte is touched.

**Compressed images** (`isofs/zso.c`, `cdvdman.c`).  State: a window of the index, a
window of sectors, the caller's buffer.  Operations: a read, which refreshes both
windows and unpacks in place.  Hard: two caches at their edges, data unpacked over the
data it is made of.  Correct means: a read returns the blocks of the image.

**Virtual memory cards** (`modules/mcemu`).  State: positions inside a page per card, one
page buffer for both.  Operations: the commands of a packet.  Hard: a page is spread
over commands and packets, and devices fail in between.  Correct means: pages keep
what was written, reads return them.

**Creation of virtual memory cards** (`modules/genvmc`, `src/system.c`, `src/menusys.c`).
State: the file, the thread and its place in the format, three semaphores, the
status that is polled.  Operations: create, poll, abort, delete, the writes of the
format.  Hard: an abort races the end of the thread, each write may fail, the power
may be cut.  Correct means: a file the emulation accepts is formatted, the screen
tells the truth.

**Wireless controllers** (`modules/ds34bt`).  State: two slots with handle, status and
channels.  Operations: events of the adapter, packets of the controllers, the reset
before a game starts.  Hard: two streams of events in any order, two controllers at
once, links that are lost in the middle of the handshake.  Correct means: a slot has
the link it says, no two slots share one, the reset ends.

### How they interact

The GUI thread puts requests to the I/O manager (menu updates every 60 frames
and on demand).  The worker serves them with `menuDeferredUpdate`, which asks each
source whether it needs an update (`bdmNeedsUpdate`), clears the submenu under the
GUI lock, reads the lists (`bdmUpdateGameList`) and defers one operation per game
to the GUI (`guiDeferUpdate`), which runs them in its next frames.  MenuUpdate is
the composition of the other modules at this level: its queue of requests is the
abstract queue of IoQueue with duplicates dropped, which IoMan is shown to
implement; its list of operations is that of GuiOps; the flag `usbDirty` stands
for BdmScan.  The artwork cache belongs to the GUI thread, except that device
events and refreshes clear it and the download thread clears it too.

GameConfig, AppsScan and SmbLoad are the other users of the I/O manager.  Each has
its own queue of requests, a sequence with the request being served at its head,
which is the abstraction IoQueue justifies.  GameList is what `bdmUpdateGameList` of
BdmScan calls when it scans.  Settings is where the lists of Carousel and the
settings the other parts use come from.

When a game runs the launcher is gone.  CdReadEE is the thread `cl` of CdStream with a
read in place of streaming calls, and sees the drive as something that answers
or fails; ZsoRead is below both, in place of the device.  McEmu uses the files
GenVmc makes, and only if they have a superblock.  Ds34Bt has to let go of every
controller before the game starts.

Modules that share no state are checked together in one run.  MCThreads, MCScreens,
MCInGame and MCParts are such sums: a variable chooses the part that runs, the others stay in one
initial state, so the states of a run are the sum and not the product of the
parts', and each property is about the part that its variables belong to.

## 2. What the modules model

| module | models | state and actions |
|---|---|---|
| `IoMan` | `ioman.c` | the pointers as they are (`gReqList`, `gReqEnd`, the `next` of each node), with allocated nodes and garbage in new ones.  Each stretch of code between two points at which the other thread can run is an action: `PutCheck`, `PutLock`, `PutLink`, `PutFill`, `PutWake` are `ioPutRequest`.  The guards hold the priorities: the GUI thread moves only while the worker cannot. |
| `IoQueue` | what the manager promises | a first-in first-out queue of (type, data) with a gate.  `IoMan` implements it (property `ImplementsQueue`). |
| `GuiOps` | deferred operations of `gui.c` | the list, the semaphore and the counters; one action per stretch between semaphore calls. |
| `BdmScan` | `bdmsupport.c` | one slot; other slots send events.  Interrupts between any two steps of the worker.  Time in polling intervals. |
| `MenuUpdate` | `opl.c`, frame loop of `gui.c` | a block device and the hard disk merged in one menu. |
| `ArtCache` | `themes.c`, `opl.c` | two games, covers and logos, the loader, the download thread. |
| `CdStream` | `cdvdman.c`, `ncmd.c`, `streaming.c`, `scmd.c` | the reading thread `rd`, a thread `cl` of streaming calls, a thread `gm` of the game's other calls, two alarms. |
| `GameConfig` | `menusys.c`, `gui.c` | the configuration in memory, the semaphore, the screen and the files of the games; the GUI thread and the worker, which preempts it. |
| `AppsScan` | `menusys.c` | the list, the catalogue and its temporary file, two of the nine places that are scanned; power cuts at every step. |
| `SmbLoad` | `menusys.c`, `ethsupport.c` | the network, the session, the queue of requests, the dialogs; a cable and a server that come and go. |
| `Bgm` | `sound.c` | three threads with their priorities, the ring, the two semaphores and the wake-ups. |
| `CdReadEE` | `cdvdfsv/ncmd.c`, `cdvdman.c` | memory as a function from addresses to bytes of the disc; one action per pass and per piece of a pass. |
| `ZsoRead` | `isofs/zso.c`, `cdvdman.c` | what a buffer holds says where it came from; one action per call of the device and per block unpacked. |
| `McEmu` | `mcemu.c` | per card the positions in a page; one action per command of a packet. |
| `Ds34Bt` | `ds34bt.c` | the slots, the adapter's events and the controllers' packets in two queues, the call of the launcher. |
| `Carousel` | `menusys.c`, `themes.c` | filter, cursor, lists, file; one action per key. |
| `Settings` | `opl.c`, `config.c` | the sets, the files on three devices; a step per file that is read or written. |
| `GameList` | `supportbase.c`, `ethsupport.c` | the files, the caches, the list; a step per directory phase; a computer changes files in between. |
| `GenVmc` | `genvmc.c`, `system.c`, `menusys.c` | the file as a sequence of clusters, the thread with one action per write, the screen. |
| `IoManProofs`, `CdStreamProofs`, `ArtCacheProofs`, `BdmScanProofs` | | theorems and proofs about the modules they are named after; `IoManProofs` also has the refinement of IoQueue. |
| `ThreadsProofs` | | theorems and proofs about GuiOps, MenuUpdate and Bgm. |
| `ScreensProofs` | | theorems and proofs about GameConfig, AppsScan, SmbLoad and their sum. |
| `PartsProofs` | | theorems and proofs about Settings, GenVmc, GameList, Carousel, Ds34Bt and their sum. |
| `IopProofs` | | theorems and proofs about McEmu, CdReadEE and ZsoRead. |
| `MCThreads` | | the sum of GuiOps, MenuUpdate and Bgm, with its instance. |
| `MCScreens` | | the sum of GameConfig, AppsScan and SmbLoad, with its instance. |
| `MCInGame` | | the sum of CdStream, CdReadEE, ZsoRead and McEmu, with its instance. |
| `MCParts` | | the sum of Ds34Bt, Carousel, Settings, GameList and GenVmc, with its instance; it extends `MCSettings`. |
| `MCIoMan`, `MCBdmScan`, `MCArtCache`, `MCSettings` | | the instances of single modules. |

Names are those of the source where TLA+ allows it.  `PROJECT.json` maps each
definition to the lines it stands for.  Definitions whose comment begins with
"Mutant", "A mutant" or "The mutant" are plausible mistakes in the code next to them; each property is seen
to fail when one of them takes the place of the original.

History variables record what the code does not: `fifo` (the requests in the list, in
order, with which `QueueShape` compares the pointers and walks are written) and `owed` (requests accepted
and not started since) in IoMan, `handled` in GuiOps, `asked` in BdmScan, `askedHdd` in
MenuUpdate, `allocated` and `disturbed` in ArtCache, `next` and `seen` in CdStream,
`misread` in BdmScan, `touched`, `disturbed` and `chosen` in GameConfig, `completed` and
`full` and `crossed` in AppsScan, `lost` in MenuUpdate, `fresh` and `skipped` in Bgm, `failedAt` in CdReadEE, `zClean` in ZsoRead,
`written` and `unsure` in McEmu, `crossed` and `torn` in Ds34Bt, `played` in Carousel, `told`,
`loaded`, `steady` and `stored` in Settings, `changed`, `uncached` and `ever` in GameList,
`vmcTold` and `vmcRefused` in GenVmc.  Only `fifo` stands for something the program walks; none of the others
decides what a step does.

`seen` and `disturbed` need a word.  The code has known holes (section 7) after
which little can be said.  Rather than leave the steps out, the models take them
and record that they did, and the affected properties are conditional on it:

* `"foreign" \in seen`: `StmCallback` counted as a bank of the stream a read the game
  had asked for;
* `"stale" \in seen`: a command of the game ended (`cdvdman_cb_event`) with a callback
  registered, so that an alarm will clear `sync_flag` later, or while a read was
  under way;
* `"unheard" \in seen`: a read of the stream ended while the stream was paused;
* `disturbed` in ArtCache: a theme was freed during a load, a load was asked for while
  the download thread cleared the cache, or that thread was terminated;
* `disturbed` in GameConfig: the list of games was rebuilt while the screen of options
  was open or a save was pending, or was about to be rebuilt when it was opened;
* `failedAt`, `zClean`, `unsure`: the device failed, of which the code keeps no or
  not enough account;
* `lost` in MenuUpdate: the games whose latest operation `guiHandleDeferredOps` lost
  (finding 1), until an update defers them again;
* `crossed` in AppsScan: the list was last emptied between the test of its length by a
  key and the store of the new selection;
* `crossed` in Ds34Bt: a packet was handled for a slot that has another link than the
  packet's, or none any more (the two endpoints do not order packets and events, and a
  packet names its link by a handle that is used again); or a packet or a disconnection of
  the driver was overwritten in its buffer before it had left; or a status was written back
  over a newer one;
* `torn` in Ds34Bt: the slots whose status was written back so;
* `vmcRefused`: the thread that creates a card could not be started, which the code does
  not look at.

## 3. The runs

Distinct states in parentheses.

**`ioman`** (128 218).  Two threads, three nodes, requests of a type that is merged
with an equal one and of a type that is not, handlers that put requests.  `IInv`,
the inductive invariant of the proofs; `ServedIsIntact`, the worker serves only
nodes that are filled in and allocated; `BlockedIsQuiet`, after `ioBlockOps(1)` nothing
is queued or served; `ImplementsQueue`, refinement of IoQueue; `RequestsAreServed`,
every request leaves the list, what was accepted is started unless it was merged,
and `ioBlockOps` returns.

**`threads`** (39 715).  Deferred operations, the merged list of games, the background
music.
* Up to five operations deferred by the worker and the GUI thread.
  `OpsAreOrderly`: they run in the order of the calls, none twice, none after its node
  was freed, and the counters agree; `DeferringWorks`: `guiDeferUpdate` returns and
  what is in the list is run.
* One game on each source, two refreshes, one change.  `RenderIsSafe`: no frame shows a
  freed entry; `ListedIsShown`: games of settled lists are shown in the end, unless the
  operation that shows a game was lost as in finding 1, which this model takes too;
  `MenuFollowsDevices`: changes are followed.
* A ring of four buffers.  `MusicIsSafe`: a buffer is played only after the reader handed
  it over, is not written again before it was heard, and nothing is used after `bgmStop`
  (it does not say that the buffer was decoded: at a start most are not, section 7);
  `MusicFlows`: a stop ends and the music goes on.

**`guiops_lost`** (violation).  `NoOpIsLost`: finding 1.

**`bdm_hotplug`** (236 765).  Two media, three events of this or another slot, one
failing access, one request of the user.  `ListNeedsDevice`, `RemovedIsReleased`,
`DetectionSettles` (a device that is left alone is listed, however driver and scan
fail before, and the indicator goes out), `RefreshLeadsToScan`.

**`bdm_scan_lost`** (violation).  `ConnectedIsScanned`: finding 2.

**`artwork`** (343 984).  Two games, one of which has a device path, both a built-in
cover, two events.  `OneLoader`, `CoverIsForGame`, `NoTextureIsLost`, `LoadingEnds`.

**`in_game`** (1 083 911).  What runs on the I/O processor beside a game.  The drive: a
ring of two banks of two sectors, three streaming calls,
one call of the game, one failing read.  `RingHoldsStream`, what the ring counts as
streamed are the next sectors of the disc, also during a transfer to the EE;
`ReadyMeansReadUndisturbed`; `StoppedIsQuiet`; `StreamIsFilledUndisturbed`, between two
calls of a running stream with room in the ring a read or the alarm for one is
on its way, unless a step of `"unheard"` or `"stale"` came before; `WaitEnds`, a thread asleep in `sceCdSync` will be woken.
The data below it:
`ReadIsRight`, a read of any alignment, size and place puts every byte where it
belongs and touches no other, and a read past the end of the disc is signalled;
`ZsoReadsRight`, through both caches a read of a compressed image returns its blocks,
and unpacking in place destroys nothing that is still needed;
`CardsKeepPages`, a page holds what was written last and a read returns it, although
both cards share the page buffer.

**`screens`** (338 033).  The settings of a game, the Apps tab, the SMB load.
`ScreensTypeOK`; `SettingsAreOfGame`, settings in memory and in the files belong to
the game they are kept for; `AppsAreSound`, the selection is in the list unless
the list was emptied under a key, and a catalogue that can be loaded is that of a complete scan, whenever the power was cut;
`CheckTellsItsResult`, "Connection successful!" is about the settings in use and a
session this check opened; `WaitsEnd`, no screen waits for the worker for ever;
`ShareIsReached`, the share gets into the menu however often the network failed.

**`settings_overwritten`** (violation).  `StoredIsChosen`: finding 3.

**`apps_not_drawn`** (violation).  `EntriesAreDrawn`: finding 4.

**`parts`** (1 659 361).  Five parts of the launcher of which only safety is asked.
`PartsTypeOK`;
`SlotsFollowLinks`, a connected slot has a link, no two slots have the same one, and
the slot that `ds34bt_reset` waits for is about to stop, but for the three holes that
`torn` and `crossed` record;
`CarouselIsRight`, the directions go round the games that are shown and stop at no
empty filter, the recent games are the last ones played, each once;
`SettingsAreKept`, a start with settings on the memory card loads them and a save that
reports success has written what was changed there;
`ListFollowsDevice`, the list has the files of the directories or a scan is due, a
game's startup was that of a file of its name, what is listed is cached;
`CardsAreWhole`, a card the emulation accepts is formatted wherever its creation
stopped, and what the screen says of a creation is so.

**`settings_lost`** (violation).  `SavedIsRestored`: finding 5.

Deadlock is not checked where behaviours end because bounded calls are used up:
`in_game`, `screens` with its two violation runs, `parts` and `settings_lost`.  In
`parts` one hang of the program is among these ends: aborting the creation of a card that has
just failed (section 7).

The type invariants of the single modules, and `QueueShape`, `NoLostWakeup` and
`RemoveFindsNothing` of IoMan, are not properties of a run: the last three are
proved (section 6), and the type invariants of the parts of a sum are conjuncts
of the sum's or, in `in_game`, of the property of the part.

## 4. Bounds

Every bound is a constant of its module.

* IoMan: three nodes (`Reqs`), so the list has a head, a middle and a tail at once; a
  call begins only while a block is left for it; `MaxWakeups` 2, since a
  pending count of two already differs from none and one, and a GUI thread that
  puts a third request finds the worker running; `MaxNested` 1, one request put by
  each handler.  The theorems hold for any nodes, types and data.
* GuiOps: `MaxOps` 5 operations in all; the list empties and refills, and losing an
  operation takes three.
* BdmScan: the delays of the code in polling intervals of 60 frames (`QuietFrames` 3, `FirstScanDelay` 5, `RetryFrames` 3,
  `MaxRetryFrames` 15).  Three events are a device that appears, vanishes and comes back,
  or two with one of another slot in between.
* MenuUpdate: one game per source; two refreshes overlap one rebuild.
* ArtCache: two games give a cover that could be shown for another game; two loads
  per frame as in the code; two events clear the cache during a load and once more.
* CdStream: two banks make the ring wrap, be empty and be full; reads of three
  sectors are neither a bank nor the ring, so they end inside a bank; three calls
  reach start, pause and resume, or a read, a pause and a seek after the start, and one
  call of the game meets each of their steps.  All five invariants are proved for any ring and any number of calls
  (section 6).
* GameConfig: two games, two values, `MaxRequests` 3 (a frame's load, the screen's load
  and a rebuild of the list at once), `MaxScans` 1 (the list is emptied once; the
  theorem is for any number).
* AppsScan: `MaxItems` 3 with as many applications and two places, so the list fills up
  in the middle of one; `MaxUses` 3 changes of the power and with it of
  the devices: a cut in a scan, a start and another cut.
* SmbLoad: two settings of which one works, `MaxFaults` 2: the network fails and comes
  back, or fails in two phases.
* CdReadEE: sizes scaled with their divisibility kept (`EeAlign` 4 for 64 bytes, `EeSector` 8
  for 2048, `EeWord` 2 for 4, `FsSectors` 3, `BufSectors` 2); a disc of five sectors
  and reads of up to five make up to three passes, with every alignment and every
  place relative to the end; `MaxEeReads` 2, so a buffer holds data of an earlier read;
  `MaxEeFaults` 1.
* ZsoRead: four blocks of every compressed size, an index window of four entries (so it
  has to move), reads of up to three blocks, a window of three sectors, `MaxZReads` 3,
  `MaxZFaults` 1.  `ZConstants` asks for a window of the index that is longer than any read
  (`ZCount`), which the code relies on and does not check (section 7).
* McEmu: two cards of two pages of two chunks, blocks of two pages, `MaxMcOps` 2, since two
  operations on the two cards meet in the buffer; `MaxMcFaults` 1.
* Ds34Bt: two slots, two controllers of different kinds, two handles, two connections, one
  call, one fault: a link is lost and its handle is used again, or the driver's own packet is
  lost in its buffer.  Overwritten disconnections and a callback inside `pad_status_set` are not
  counted: they may happen at every command and in every call.
* Carousel: four entries, of which two are copies of a game, one has an article in its
  title and one begins with a digit; filters up to 5, two favourites, two recent
  games, `MaxCarousel` 3, so both lists overflow once.
* Settings: two values, three machines (what is connected and started from), two
  starts, a change and its save, one device that comes, goes or fails.
* Bgm: a ring of four buffers and `MaxWakeups` 2.  The number of stops and starts is not
  bounded.
* GameList: three files that may be in CD (two of one name in the two forms), one in DVD, an
  image that can be read or not, `MaxGlEdits` 3, `MaxGlFaults` 1; number of scans not bounded.
* GenVmc: a card of 12 clusters, erased four at a time, with both kinds of tables and
  two blocks of backups; `MaxVmcUses` 6 operations of the screen, `MaxVmcFaults` 2 failed
  calls or power cuts.  `VmcFits` says of a card what holds of the four sizes the screen
  offers (8, 16, 32 and 64 MB): it is a whole number of megabytes and of erased runs,
  its tables leave room for a block of data, and the FAT has room for the clusters it
  describes.

No symmetry is used: the liveness properties would not allow it, and the runs do
not need it.

## 5. Fairness

Only the liveness properties use it; every specification also exists without it.

* IoMan: weak fairness of the worker, and of the GUI thread inside a call.  Ready
  threads run, because the worker sleeps when it has nothing to do, and handlers
  return, because they are bounded operations on devices.  What the GUI thread
  calls next, if anything, is left to the user, and so is what a handler puts.
* GuiOps: weak fairness of the drain, which `guiMainLoop` runs every frame, and of a
  thread inside `guiDeferUpdate`.
* BdmScan: weak fairness of the interrupt and of the worker; strong fairness of the
  passing of frames, since `menuUpdateHook` puts one request per 60 frames and
  between two requests frames pass, but not while the worker runs.
* MenuUpdate: weak fairness of both threads; strong fairness of the hook's
  putting a request, which the code does every 60 frames and the model at any end
  of a frame.
* ArtCache: weak fairness of the GUI thread; strong fairness of the loader and the
  download thread, which get the CPU again and again because the GUI thread waits
  for the vertical blank in every frame; strong fairness of the settling of a
  selection and of device events, which are counted in frames.
* Bgm: weak fairness of the player and the reader, which get the processor whenever the
  threads above wait, and of the GUI thread inside a stop or a start.
* GameConfig: weak fairness of the worker, of the GUI thread inside a loop or a frame, and
  of the frames' own requests.
* AppsScan: weak fairness of the worker.
* SmbLoad: weak fairness of the worker and of the menu hook; strong fairness of the
  two functions that every frame calls for the dialogs, since a frame is drawn
  whenever the worker waits, again and again.
* The parts of MCParts, CdReadEE, ZsoRead and McEmu: none, only safety is asked of them.
* CdStream: none.  Its runs check invariants only; `WaitEnds` says as an invariant
  what a waiting thread needs.

## 6. What is proved

Every theorem is about the specification without fairness and holds for every value
of the constants that satisfies the assumption of its module; the bounds on calls,
events and faults are constants too, so it holds for any number of them.  The table
lists the properties of the runs that are proved.

| property | theorem | inductive invariant |
|---|---|---|
| `IInv`, `ServedIsIntact`, `BlockedIsQuiet` | `Invariance`, `ServesIntactRequests`, `BlockingIsEffective` | `IInv` |
| `ImplementsQueue` | `ManagerIsQueue` | `IInv`, `QInv` |
| `OpsAreOrderly`, `RenderIsSafe`, `MusicIsSafe` | `OpsStayOrderly`, `RenderStaysSafe`, `MusicStaysSafe` | `OpsInv`, `MenuInv`, `BgmInv` |
| `ListNeedsDevice` | `ListIsBacked` | itself and one fact |
| `OneLoader`, `CoverIsForGame`, `NoTextureIsLost` | `LoaderIsAlone`, `CoverStaysOfGame`, `TexturesAreKept` | `LoaderInv`, `ArtInv` |
| `ReadyMeansReadUndisturbed`, `WaitEnds`, `StoppedIsQuiet` | `DriveIsLocked`, `SyncIsWoken`, `StopIsFinal` | `DriveInv` |
| `StreamIsFilledUndisturbed`, `RingHoldsStream` | `StreamStaysFilled`, `StreamIsRight` | `FillInv`, `RingInv` |
| `SettingsAreOfGame`, `AppsAreSound`, `CheckTellsItsResult`, `ScreensTypeOK` | `SettingsStayOfGame`, `AppsStaySound`, `CheckStaysTrue`, `ScreensKeepTypes` | `GcInv`, `AppsInv`, `SmbInv` |
| `SettingsAreKept`, `CardsAreWhole` | `SettingsStayKept`, `CardsStayWhole` | `StInv`, `VmcInv` |
| `ListFollowsDevice`, `CarouselIsRight`, `SlotsFollowLinks` | `GamesFollowDevice`, `CarouselTheorem`, `SlotsFollow` | `GlInv`, `CaInv`, `BtInv` |
| `PartsTypeOK` | `PartsTheorem` | those of the five parts |
| `CardsKeepPages`, `ReadIsRight`, `ZsoReadsRight` | `CardsStayReadable`, `ReadsAreRight`, `ZsoReads` | `McInv`, `EeInv`, `ZInv` |

**IoMan** (`IoManProofs`), for every set of nodes, types and data, from
`IoManAssumption` (the constants are distinct, types to be merged are types,
bounds are natural numbers).

The theorem `Invariance`, `Spec => []IInv`, is the base.  `IInv` is the conjunction of

* `TypeOK` and `QueueShape`;
* `SemaInv`: at which points which thread holds which semaphore;
* `PutInv`: what a thread inside `ioPutRequest` works with, and that the node it
  fills in is the last of the list;
* `FieldsInv`: every other node in the list has a type with a handler;
* `WorkInv`: where the list may be non-empty; in particular the worker is asleep
  while the GUI thread fills in the only node of the list;
* `BlockInv`: the GUI thread is in no call that adds a request while the manager is
  blocked.

`WorkInv` is why the strengthening is needed: that no half-filled request is served
follows neither from the semaphores nor from the list, but from the GUI thread
being unable to reach `PutLink` unless the worker waits, and from the wake-up
being signalled after the fields are set.  The lemmas `LinkLast` and `UnlinkFirst` say
what linking and unlinking do to a list of pointers.  The corollaries are
`TypeCorrect`, `QueueIsIntact` (`QueueShape`), `ServesIntactRequests` (`ServedIsIntact`),
`WakeupsAreNotLost` (`NoLostWakeup`), `BlockingIsEffective` (`BlockedIsQuiet`) and
`RemovalIsVacuous` (`RemoveFindsNothing`: `ioRemoveRequests` always walks an empty
list, since the semaphore it takes first is held until the list is worked off; it
is right only by being useless).

`ManagerIsQueue` is the refinement: the manager does, step by step, what the queue of
`IoQueue` may do.  A request enters the abstract queue when its fields are set, not
when it is linked, which takes two more facts (`QInv`).  `NewInv`: the list has no equal
of a request that is being filled in, because it has not grown since the scan for one,
`gEndSemaId` being held.  `OpenInv`: a handler that puts a request found the gate open
and it stays open until the request is in, because the GUI thread, which closes it,
does not run meanwhile unless it holds `gEndSemaId` in a call of its own.  The removal of
requests is a stutter, because of `RemoveFindsNothing`.

**GuiOps, MenuUpdate, Bgm** (`ThreadsProofs`), from `GuiOpsAssumption`,
`MenuUpdateAssumption` (no game stands for a null or freed entry, no game is on both
sources, and the games are finitely many) and `BgmAssumption` (the ring has a buffer, a
pending wake-up is possible).

* `OpsInv`: the links of the list ascend (`ListAscends`), whatever was run or freed came
  before the head (`HandledBefore`), and `gScheduledOps` lags behind the nodes by the
  threads between linking and counting (`CountsAgree`).  This holds in spite of
  finding 1: the list may lose a node, but what it has is in order.
* `MenuInv`: `RenderIsSafe` with "an update is in the queue until it is served"; the
  proof is about when the entries are freed and `current` set, and uses that the worker
  takes the GUI lock, which a frame holds, before it clears the submenu.
* `BgmInv`: each buffer is in exactly one of the counts of the two semaphores, the part
  being decoded and the one being played (`BuffersAreCounted`), the used ones are those
  from `rdPtr` up to `wrPtr` (`RingIsInOrder`), and the flags `bgmStop` polls say where the
  threads are (`ThreadsAreTold`).  The used ones are those the reader decoded and those it
  handed over with them (`fresh` and `skipped`), which gives `PlayedWasHandedOver`.  The sum alone is not enough: the player resets both
  pointers at its end, and nothing may be left to be played by then.

**BdmScan** (`BdmScanProofs`), for any media, delays and number of events, failures and
refreshes: `ListIsBacked` (`ListNeedsDevice`).  The property is inductive together with
"a scan that has begun has found the slot connected".

**ArtCache** (`ArtCacheProofs`), for every list of games with at least one card and any
number of events (`ArtCacheAssumption`).  `LoaderInv`: there is a loader thread exactly
while `gPS5AsyncTexRunning` is set and a result not yet taken over excludes one; so
`ps5CompleteAsyncTextureLoad`, which clears both flags, never covers up a thread
that is at work, and the time-out, which clears neither, does not either.  `ArtInv` adds,
for undisturbed behaviours, that a load of the present generation is for the entry
that asked for it, which still has the same game and no texture (`LoadFits`), that the
result is that of the load (`ResultIsOfLoad`), that the download thread leaves no texture
behind it (`ClearedBehind`) and that an entry found before a device was asked for a file
is the same one afterwards (`FillFits`).  `CoverStaysOfGame` and `TexturesAreKept` follow:
the generation number is what makes a late result harmless, and the lemmas about
the set of textures that are in use show that each one allocated is in the cache, a
result, or freed.

**CdStream** (`CdStreamProofs`), for every ring, every set of sectors and sizes and any
number of calls, game calls and failures (`CdStreamAssumption`: a bank has a sector and
the ring a bank).  The inductive invariant `DriveInv` is the conjunction of

* `DriveTypes`;
* `LockInv`: without a misplaced command, `sync_flag` is set while a read is
  requested or under way, there is only one such read, and while the alarm of the
  game's callback is pending `sync_flag` is set and nothing is being read;
* `WaitEnds`, which is inductive as it stands;
* `StopInv`: between the `CancelAlarm` of `sceCdStStop` and its locked section no alarm
  can be set again.  The reading thread may still be between the end of a read and
  its next request, but then the drive is free, so its request does not fail, and
  only a failed request sets the alarm; and no thread below it runs until it
  waits.  After the reset nothing of the stream is left but the read under way,
  and that ends before `sceCdSync` returns.

`FillInv` says that while `StIsReading` is set a read of the stream is on its way and that
a thread that gives up has found the ring full.  `RingInv` says of a running stream that
there is one read of it at a time (`OneRead`), that the bank it goes to is free and is
the one at `StWritePtr` (`BankIsFree`), and that the sectors from `StReadPtr` on are the
stream from where the caller stands, also during a transfer (`RingFits`).  The pointers
go round, so the lemmas before it are about positions in a ring that is a whole number
of banks; the reads may begin and end inside a bank, the writes may not.

**GameConfig, AppsScan, SmbLoad** (`ScreensProofs`), from `GameConfigAssumption`,
`AppsScanAssumption` (finitely many applications, room for one entry) and
`SmbLoadAssumption`.

* `GcInv`: which request the worker is in and who holds `menuSemaId` (`GcBase`); the
  configuration in memory is of the game its id names (`ConfigIsOfId`); and, unless the
  list was rebuilt meanwhile, the screen is on the selected game, its settings are there
  or a load of them is queued, and a save is queued only while the GUI thread waits for
  it.  `ValueIsChosen`, what a save writes was stored or chosen on the screen of that
  game, is what the property needs at the write.
* `AppsInv`: the list that is written is that of a complete scan (`WriteInv`), and the
  temporary file is that list or the device was full, before it is renamed.  A power cut
  leaves any of these states and the next start begins from it.  What a key is about to store
  is an entry of a list that was not emptied under it (`KeyInv`), since the list only grows until
  the next scan.
* `SmbInv`: a load or a check is alone in the queue with the start of the network it
  puts (`OneOperation`), so a start that succeeds after the check was served is its own
  (`SessionIsOfCheck`).

`ScreensKeepTypes` puts the three type invariants together for the sum.

**Settings, GenVmc** (`PartsProofs`), from `SettingsAssumption` and `VmcFits` (section 4).

* `StInv`: with the card in its slot its settings are read first, and what the search for
  those of the network does to the sets comes after they were put in the variables
  (`LoadInv`); a changed set stays marked until it is written, and a save of one set
  counts it only when it was (`SaveInv`).
* `VmcInv`: the file is always what the first `k` writes of a creation leave, for the `k`
  the thread has reached (`FileInv`, with `Partial`); the superblock is the last write, so
  no proper prefix is accepted.  `OwnerInv`: the thread is past its start only for an
  operation of the screen, and a semaphore left taken by an error is left so.  `ToldInv`: what the
  screen is about to say follows from both.  The lemmas are about the layout: the
  erased runs cover the card, the tables lie before the data and the backups behind it,
  and each write stays inside what is erased.

**GameList** (`PartsProofs`), for any directories and files, from `GlConstants` (the
directories are finitely many, each is named once and holds finitely many files, and
"ul" is none of them).  `GlInv` is the type invariant with

* `GlWorldInv` and `GlKeptInv`: what is kept anywhere (`games.bin`, the cache of the scan,
  the new list, the list in use) says of a name only what a file of that name said in that
  directory, or on a share its own name;
* `GlScanInv`: what a scan has read so far (`GlReadSoFar`) it shows file by file, or the
  directory has changed since and is marked as unseen; what it has cached so far
  (`GlCachedSoFar`) is in `games.bin`, or the writing failed;
* `GlIdleInv`: the same of the list in use between two scans;
* `GlFrontInv`: the first `count` entries of the new list are those of the directory read
  last, which is what the comparison with the cache rests on.

The step that takes most of the proof is `ReadDir`: the entries of a directory are a
sequence without repetition of the files that can be played (`Playable`), so that each
file has one entry, although an entry may come from the cache.

**Carousel** (`PartsProofs`), for any library, letters and lengths of the lists, from
`CarouselAssumption`.  `CaInv` types the lists in memory and in the file and says of both
that the recent games are those of the history (`RecentOf`): without repetition, in the
order of the last start, all of them or as many as fit, and none left out is later than
one kept.  Recording a start moves the game to the front and drops the last, which
preserves it (`CaRecord`); `RecentIsHistory` counts the games that were started later, so
it follows with a lemma on the cardinality of the front of a sequence.  The moves are
proved from the code's own search for the neighbour, without an invariant beyond
types: `MoveIsNext` says with `NextInRing` that no game of the filter lies between the one
left and the one reached, for both directions and both ends.

**Ds34Bt** (`PartsProofs`), for any number of slots, controllers, handles, events, calls and
faults, from `BtAssumption`.  Two queues that are not ordered with each other, and a
slot that learns of its link only from them, make this the longest proof.  `BtInv` is

* `BtTypes`, and nothing is under way without a configured adapter (`BtOut`);
* `BtCtlInv`: a controller has one link or asks for one, once, and without a link its
  channels are closed;
* `BtEventInv`: between two events that announce a link of one handle, or of one
  controller, the end of the first is announced, and an announced link is there or its
  end is announced behind it;
* `BtSlotInv`: a slot hears of the end of its link before it hears of the next one of its
  handle or its controller.  `ConnectedIsLinked` and `OneSlotPerHandle` follow from these;
* `BtLinkInv`: for a link that stays, the slot that holds it, the channels of the controller
  and the kinds of packets to come fit each other (`HeldOk`), and a link no slot has heard
  of yet carries only the opening of its control channel (`FreshOk`);
* `BtResetInv`: the slot a reset waits for has its request set, or its end is under way, or
  it has stopped and no link of its controller will be announced.

A status that is written back over a callback's leaves a slot that says what is not so; the
facts about its status are stated of the other slots (`torn`), those about its handle of all,
so `OneSlotPerHandle` has no exception.

`BtLinkInv` and `BtResetInv`, and with them `ResetIsHeard`, need `~crossed`.  The first attempt
failed with an earlier, narrower meaning of `crossed`, and rightly so: `ResetIsHeard` was
then true only within the bounds of the run, and a simulation of a larger instance had
a packet of an old link handled for the slot of a new one that got the same handle.

`PartsTheorem` puts the five parts together.  Every behaviour of the sum is one of each
part's specification, the other parts' steps being stutters (`PartsAreParts`), so each
theorem about a part holds in the sum, and the types with them.

**McEmu** (`IopProofs`), from `McConstants` (a page has a chunk, a block a page, and a card
is a whole number of blocks), for any cards, sizes, data, operations and failures.  `McInv`
is `CardHoldsWrites` and `ReadReturnsPage` with

* `OperationFits`: of an operation under way the first `k` commands are done, for some `k`
  (`Stage`: the others are in the packet and the packets behind it, however they were
  cut).  Then the positions of the card, the chunks in the page buffer, what the manager
  got and, behind the last chunk of a write, the page in the image are those of `k`
  commands (`ReadFits`, `WriteFits`, `EraseFits`), or the device has failed.  A command that
  moves the last chunk and the ECC is at the ECC once it was started again (`Again`), which
  is the only state inside a command;
* `Quiet`: nothing is under way between two packets, and an operation that ended with an
  error has left its pages in `unsure`.

The shared page buffer is harmless for one reason, which the proof uses at each pass: the
first pass of a read fills it and the following ones belong to the same operation, and a
write fills all its chunks before the page goes to the image.  The lemmas are about the
commands of an operation as a list (`CommandsAre`, `StageHead`), about what the end of a
command leaves (`AnswerIs`) and about the arithmetic of a pass (`PassIs`): it moves one
chunk, and ends the page only at the last.

**CdReadEE** (`IopProofs`), for any sizes, alignment, disc, requests and failures, from
`EeConstants` (a sector is a whole number of DMA blocks and a block of words, and the buffer
of `cdvdfsv` has room for two sectors).  `EeInv` is `OnlyBufferIsWritten` with

* `EeReqInv`: where the passes are follows from the sectors sent so far (`EeDone`): the next
  sector, and the aligned address it goes to;
* `EeDataInv`: until a failure, the buffer holds the sectors of the piece so far (`FsvOk`),
  the caller's memory has every byte from the end of the first edge up to what was sent
  (`SentOk`), the first edge is in `buf1` after the first pass and the last one in `buf2`
  after the last (`Buf1Ok`, `Buf2Ok`);
* `EeErrInv`: a piece that reached behind the end of the disc has left its error, and
  nothing resets it within the call.

With an unaligned buffer a pass sends its sectors from `b1len` bytes into the buffer of
`cdvdfsv` on, and so needs the first bytes of one sector more.  The lemma `EeByte` says that
byte `i` of what is sent is byte `i + b1len` of the sectors, whichever pass it is in;
`EeOffsets` and `EeParts` are the arithmetic of the edges.  Division and remainder by a
constant are not linear for the prover, so `DivIs` and `DivOf` state what is used of them.

**ZsoRead** (`IopProofs`), for any image, sizes of the two windows, reads and failures, from
`ZConstants` (a read is shorter than the window of the index).  `Holds(s, o, limit)` says
that `s` is the image from position `o` on, but for what lies behind `limit`, which is the
end of the file, or 0 once the device has failed (`ZLimit`): so the same invariant covers
behaviours with and without failures.  `ZInv` is

* `ZCacheInv` and `ZIndexInv`: the two windows hold the image from where they say;
* `ZRawInv`: what `read_raw_data` has got so far holds the image from the offset it was
  called with, and the sector and position it goes on with are the next ones.  Its three
  kinds of accesses (first sector, whole sectors, last sector) are one lemma, `ZRawAccess`;
* `ZCallInv`: the window of the index covers the read, its entries are the offsets of the
  blocks, and what is not yet unpacked ends with the buffer
  (`c_buff + Offset(lsn + count) - Offset(lsn + block)` is its size);
* `ZBufInv`: before `block` the buffer has unpacked blocks, from `c_buff` on the compressed
  units of the others.

Unpacking in place is safe because no block is longer than it is unpacked, so the blocks
left take at most their unpacked room at the end of the buffer (`ZSpan`, by the smallest
counterexample): the block written ends before `c_buff` after the step.

**Only model-checked.**

* Liveness, under fairness, which the prover does not handle: `RequestsAreServed`,
  `DeferringWorks`, `ListedIsShown`, `MenuFollowsDevices`, `MusicFlows`, `RemovedIsReleased`,
  `DetectionSettles`, `RefreshLeadsToScan`, `LoadingEnds`, `WaitsEnd`, `ShareIsReached`.

Every invariant and every action property that a passing run checks is stated by a
theorem.

## 7. Where the program departs from what it says

Each of the first five is a run that TLC refutes.

1. **A deferred operation is lost** (`gui.c:1126`).  `gUpdateEnd` is cleared after the
   semaphore was given back, so a worker that waited for it has already linked a
   node; the next operation is not linked to it.  In the menu the game of that operation is
   missing until the next rebuild (`lost` of MenuUpdate).
2. **A connected device is not scanned** (`bdmsupport.c:332`).  `bdmDeviceTick` takes the
   generation before the device was looked at; an event that makes
   `bdmUpdateGameList` give up, or a quick swap of the media, is then forgotten.
3. **The settings of a game are overwritten** (`menusys.c:680`).  The ids of the
   configuration in memory are reset without the semaphore while a frame's load is
   under way; its end is taken for the end of the screen's own load, the screen
   shows the defaults, and storing them replaces what was there.
4. **Applications are not drawn** (`menusys.c:2085`).  The load of the catalogue does not set
   the number of groups, and the tab draws groups.
5. **Saved settings are emptied** (`opl.c:1372`).  The search for settings on USB devices
   opens each candidate with `O_TRUNC`, before the settings are read.

Others were met while modelling.  No run claims them; the modules that contain the step
take it, and their properties except it by a history variable or say less.

I/O manager and deferred operations:

* The scan for an equal update also meets the request being served (`ioman.c:219`): the
  new one is accepted and nothing runs for it.  `ethsupport.c:610` puts an update, a
  connection and the same update again, and relies on the third.
* `guiHandleDeferedIO` ignores that `ioPutRequest` may refuse, and waits.
* Clearing the submenu does not clear the operations an earlier update deferred
  (`opl.c:717`): games appear twice until the next rebuild.

Block devices and lists of games:

* The retries of a failed scan are dead code (`bdmsupport.c:432`): `sbReadList` does not fail.
* `games.bin` is keyed by name and extension: a replaced image keeps the old startup.
  Images of the old form are cached although the comments at `supportbase.c:267` and
  321 say they are not, and a new image of that name takes their startup.
* The branch for the last game deleted (`supportbase.c:260`) cannot be reached, so `games.bin`
  stays.  A directory that cannot be opened is an empty one.
* `ulSize` is not set while there is no `ul.cfg`, which makes every test ask for a scan;
  `UL/ul.cfg` is read but only that of the root is compared.  A `ul.cfg` with a partial
  last entry is read one entry past the list (`supportbase.c:418`).

Artwork:

* As long as the cover of the settled selection is not loaded its entry is reset in
  every frame and the logo, which is queued first, takes the loader again
  (`themes.c:1925`): the cover may never be loaded.
* `thmFree` empties the cache without a new generation, and the download thread frees a
  texture before it marks it unloaded, with the GUI thread above it; aborting a
  download terminates the thread wherever it is (`opl.c:2860`).

Screens:

* The list may be rebuilt while the screen of options is open: a wait for the settings
  then ends with none, and a save may find none in memory, or those of the game the
  cursor is on after the rebuild (`disturbed`; the proof needed more than the wait
  excepted).
* A key of the Apps tab tests the number of entries, waits in `sfxPlay` and then uses the
  number again (`menusys.c:4135`); if a scan empties the list in between (2193), it stores
  -1 or an entry of the old list, and the end of the scan (2221) brings back only what is too large.  Nothing is
  focused then and Cross does nothing, until the next key.
* The error for a list of a share that cannot be read (`ethsupport.c:515`) is dead code:
  `sbReadList` does not fail.
* A scan of applications on a full device leaves a shortened catalogue.
* The letter of a title is its first one for one filter (`menusys.c:1118`) and the first one
  behind an article for the other (`themes.c:2744`), so "The ..." is shown under one and reached under another.

Settings of the launcher:

* Settings on the hard disk are never loaded at start.  `IPCONFIG.DAT` alone makes the
  memory card count as the one with settings; a missing `conf_network.cfg` moves all
  sets to the device the launcher was started from.
* A save of several sets reports success when one of them was unmodified
  (`opl.c:1693`, `config.c:567`), and `closeFileBuffer` ignores write errors
  (`config.c:560`).  A cut of the power in a save leaves an empty or torn file.
* `configSetMove` leaves the old files behind, `configInit(NULL)` keeps the old
  `legacyNetConfigPath`, and `loadConfig` has no callers.

Music:

* The reader decodes one buffer and hands over `partsToRead` of them: of the first 16
  buffers 15 were never decoded.
* Music switched off and on while the threads drain stays off; `audioEnd` does not stop
  draining threads when the music is disabled; a start after the threads ended by
  themselves may reuse their stacks.  Semaphores and the file are then leaked.  An
  empty file is read for ever.

The emulated drive:

* `StFillStreamBuffer` sets `StIsReading` under the lock and requests the read after
  it: a read of the game that ends in between is counted as a bank of the stream
  (`"foreign"`).
* The alarm that ends a command clears `sync_flag` when it rings, although a read may
  have been requested since; `sceCdStandby` does not look at `sync_flag` (`"stale"`).
  Another read may then overwrite the request of the stream's, after which nobody
  continues the stream.
* A read of a paused stream starts filling, nobody hears the end, and `StIsReading`
  stays set through the resume (`streaming.c:58`, `"unheard"`): the stream stays empty.
* A blocking `sceCdStRead` waits for a read that nobody starts when the ring held
  fewer sectors than asked for and less than a bank was free (`streaming.c:391`).
* `cdvdman_read` returns success whether or not the device could read: the stream
  counts the bank (`cdvdman.c:428`).  `DeviceReadSectorsCached` keeps the sectors of a
  failed read (`cdvdman.c:177`).  A failed pass is forgotten when the next one succeeds
  (`cdvdman.c:289`).
* `cdvdman_SyncRead` clears `sync_flag` a second time (`cdvdman.c:503`).
* An unaligned read of the last sectors of a disc reads one sector too many and leaves an
  end-of-media error for data that is all there.
* A piece of a read that begins in the logo (below sector 13) is unscrambled to its end,
  also behind the logo (`cdvdman.c:328`).
* A read of more blocks than the window of the index runs past it (`zso.c:64`); the
  callers keep below.

Virtual memory cards:

* A status command resets the result of a failed page access (`mcemu.c:490`), and
  `device-bdm.c` does not report failures at all.
* Creation: a failed write leaves `genvmc_abort_sema` taken, after which every creation
  fails and an abort hangs (`genvmc.c:210`); an abort waits for ever if the thread has
  just ended; the semaphore it waits for is made after the flag is set, so the
  signal can be missed; the result of the create call is ignored, so a refused
  creation shows the state of an earlier one.
* The screen reports a deletion as failed (`menusys.c:4965`), and takes a card that does
  not exist for a fragmented one (`menusys.c:473`).  A creation that failed after
  erasing leaves a file that is shown as existing and rejected at launch.

Wireless controllers:

* The result of `PollSema` is ignored (`ds34bt.c:826`, 1133), so the callbacks run inside the
  sections of `ds34bt_reset`, and `pad_status_set` is a plain `|=` (`ds34bt.h:75`,
  `ds34bt.c:1543`): a slot that a callback clears between its load and its store is written back
  as connected and running with no link, and the launcher waits for it for ever.
* All commands are built in one buffer and all packets in another (`ds34bt.c:354`), and nobody
  waits for their transfers: a disconnection (715, 1105, 1147) or a packet that is overwritten
  by the next one is not sent again.

Downloads of compatibility settings (not modelled): the status is "done" after the first
device while others still run, and the test for a connection error is true for every
small negative result.

## 8. What is abstracted, and what is not modelled

Abstracted:

* IoMan: handlers are steps that may put requests; logging is left out, and so is
  `ioGetPendingRequestCount`, which changes nothing and is not called.
* BdmScan: one slot.  `gBdmDeviceLoading` is never read, and the comparison of
  directory stamps is reached only when the scan is already decided; both are left
  out.  The loading of optional drivers, the hiding of a slot by the settings and
  the launch of a game are not modelled.
* BdmScan, MenuUpdate: `RefreshLeadsToScan` and `MenuFollowsDevices` speak of refreshes that
  are not consumed by a call that returns early (`bdmsupport.c:240`) or cleared with an
  update under way (`opl.c:1198`): `asked` and `askedHdd` leave those out.
* MenuUpdate: the order of the entries, the focus and the network source are left
  out; an entry is its game.  The list is sorted (`gAutosort`), as by
  default.  `RenderIsSafe` is about frames; a button that acts on an entry holds it without the lock, and may find it freed
  (`opl.c:719`).
* ArtCache: whether a file can be loaded is a choice; matching a title to a file
  and drawing are left out.  Threads of equal priority switch only where one waits.
* CdStream: a read has an owner, a sector and a place in the ring.  `sceCdStInit` is
  the initial state.  The reading thread is strictly above the callers; the callers
  interleave freely, as the priority of the game's threads is unknown.  The locked
  section of `cdvdman_AsyncRead` and the `SignalSema` after it are one step, since
  nothing can take the drive in between.  An alarm is pending or not, as the
  scheduler allows one per handler and argument.  Calls of the EE never wait
  (`cdvdfsv` passes mode 0), those of the IOP always do.  Error codes, the status
  of the drive and the body of the game's callback are left out.

* GameConfig: all options of a game are one value; all files of a device are readable.
* AppsScan: two of nine places; an application is its name; icons and titles are left
  out.
* SmbLoad: one error code per phase; name resolution, DHCP and the list of shares are
  left out, as is `ethInitSemaID`, which only the worker takes here.
* Bgm: sound effects, volumes and muting are left out, and an audio library that fails to
  start.
* CdReadEE: sectors of 2048 bytes, of which the model has a scaled size; DMA is atomic per
  block.  The library of the EE that puts the edges in place is external.
* ZsoRead: LZ4 is an operation on the whole units of one block; the alignment shift is 0.
* McEmu: an ECC stands for the data it is computed from; commands that only answer are one.
  The memory card manager of the console is external.
* Ds34Bt: adapter, radio and controllers are external; reports, rumble, LEDs and the
  charging cable are left out, and so is the reply with a link key.  A lost command goes out as
  a repetition of the one that overwrote it, which the adapter refuses or answers alike.
* Carousel: a game is its startup and two letters; titles and play times are left out.
* Settings: a set is one value and its syntax is left out; one memory card slot.
* GameList: an image is the startup inside it or unreadable; `ul.cfg` is there or not; sorting
  and sizes are left out.
* GenVmc: a cluster is the kind of writing it comes from; the contents of tables are left
  out, and so is the copy of a memory card, which no caller asks for.

Not modelled, with the reason (`PROJECT.json` has the sources):

| part | reason |
|---|---|
| image cache of the themes (`texcache.c`) | not used: its callers draw only when `gPS5Mode` is 0, and it is constant 1 (`opl.c:428`) |
| settings pages, cheats, screens of memory cards | one thread changes values it then saves; what the menus share with the worker is in MenuUpdate, GameConfig, AppsScan, SmbLoad, Carousel and GenVmc |
| the classic main menu with renaming, deleting and the download of compatibility settings | not reached with `gPS5Mode` 1 |
| dialogs (`dia.c`, `dialogs.c`) | modal loops without lasting state |
| theme engine, drawing, fonts, atlas | parsing and drawing; the atlas is a candidate as an algorithm |
| hard disk support | sequential; the harder protocol of block devices is modelled |
| name resolution and downloads (`nbns.c`, `httpclient.c`) | stubs of remote procedures |
| syntax of configuration files | parsing by one thread |
| launching a game | a sequence of loads that ends in the game |
| pads, sound effects, languages | polling and tables |
| file system and device layers of the drive | CdStream, CdReadEE and ZsoRead see a device that answers or fails |
| other remote procedures of the drive | pass their arguments on, one after another |
| installation of the memory card emulation | hooks of the console's libraries |
| emulated pads and wired controllers (`pademu`, `ds34usb`, `xboxusb`) | the pad protocol and handlers of stacks outside the repository; `pademu/ds34bt.c` is a variant of what Ds34Bt models |
| USB mass storage (`usbhdfsd`) | FAT driver of ps2sdk |
| ISO file system | reading of an image by one thread; lz4 is third-party |
| `xhdd`, `bdmevent`, network modules | patches of a driver, a forwarder, vendored stacks |
| `ee_core` | hooks and patches, much of it assembly; the in-game reset is a candidate |
| PC tools and labs | not part of the launcher |

## 9. Plan

Done, in this order: IoMan with IoQueue and its proofs (every other part of the
launcher runs on it), GuiOps, BdmScan, MenuUpdate (which composes them), ArtCache,
CdStream, and the proofs about CdStream, ArtCache and BdmScan; then the other users
of the worker (GameConfig, AppsScan, SmbLoad), what runs beside a game (CdReadEE,
ZsoRead, McEmu, Ds34Bt), and what outlives a session (Carousel, Settings,
GameList, GenVmc), with Bgm for the remaining threads.

Next, to model:

1. The options of a game as separate keys, loaded and stored (`menusys.c` 218-269,
   385-441): that a round trip changes nothing.
2. CdStream: synchronous reads, and `cdvdman`'s file operations (`ioops.c`) as one more
   caller.
3. The in-game reset of `ee_core/src/padhook.c`.
4. The atlas as an algorithm against a reference definition.
5. The sector cache of `usbhdfsd` (`scache.c`), if the driver comes to differ from ps2sdk's.

Proved: what section 6 lists, first IoMan, then the drive and the artwork, then the
threads, the screens, the settings and the creation of cards, the refinement of IoQueue,
the emulated cards, and last the lists of games, the carousel, the wireless controllers,
the reads by remote procedure and the compressed images.

The proofs changed the models where they were wrong or said less than they meant:

* Ds34Bt: `crossed` covers every packet handled for a slot of another link (section 6); and
  what a controller does with a packet is told by cases that exclude each other, since
  overlapping arms of a CASE have no order.
* Ds34Bt, AppsScan, MenuUpdate: steps that are not atomic in the code were split
  (`pad_status_set`, a key of the Apps tab, the drain of the operations); the properties then
  needed `torn`, `crossed` and `lost`, and the exceptions they stand for are real.
* Carousel: `MoveIsNext` names its action and is stated with `NextInRing`; the earlier form
  spoke of every step that moves the cursor and held only on the instance of the run.
* GameList: which files make an entry is a definition of its own (`Playable`), and the order
  of a directory is any sequence of them.
* ZsoRead: the image is the offsets of its blocks (`zIndex`), as in the file, instead of their
  sizes.
* GameList, Carousel, CdReadEE: the assumptions on the constants say what the proofs use.

Next, to prove: what new models bring.  Liveness stays with TLC.
