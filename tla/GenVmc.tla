------------------------------- MODULE GenVmc -------------------------------
(***************************************************************************)
(* The creation of virtual memory cards: the module genvmc of the IOP,     *)
(* whose thread formats the file while the screen of a game polls its      *)
(* state or aborts it, and sysCheckVMC, which looks for the file, deletes  *)
(* it or asks for a new one.                                               *)
(*                                                                         *)
(* A file is a sequence of clusters.  What a cluster holds is the writing  *)
(* it comes from: "erased", "ifc", "fat", "root" (the root directory) or   *)
(* "super" (the superblock, without which the emulation does not take the  *)
(* file).  The contents of the tables are left out, where they are put is  *)
(* not.                                                                    *)
(*                                                                         *)
(* The thread has a higher priority than the one that serves the screen's  *)
(* calls: a call that starts it returns when it waits for the first time.  *)
(***************************************************************************)
EXTENDS Sequences, Integers

CONSTANTS
    VmcClusters,   \* clusters_per_card
    VmcBlock,      \* clusters_per_block: blocksize / pages_per_cluster
    VmcEntries,    \* FATentries_per_cluster: cluster_size / 4
    VmcErase,      \* BLOCKKB: clusters that are erased by one write
    VmcMega,       \* clusters of a megabyte
    VmcMaxIfc,     \* entries of ifc_list
    NoVmc,
    MaxVmcUses,    \* bound: operations of the screen
    MaxVmcFaults   \* bound: failed calls and power cuts

VARIABLES
    vmcFile,      \* the file, or NoVmc
    vmcThread,    \* VMC_create_thread: "none", "start", "open", "write", "writing", "close"
    vmcAt,        \* the write it is at
    vmcResult,    \* the result of vmc_mcformat: "ok", "abort", "error"
    abortSema,    \* genvmc_abort_sema: "free", "thread", "lost" after an error
    vmcAbort,     \* genvmc_abort
    finishedSema, \* genvmc_abort_finished_sema: "none", "locked", "signalled"
    vmcStats,     \* genvmc_stats: [busy, error]
    vmcGui,       \* the GUI thread: "idle", or its place in vmc_abort
    vmcOperation, \* ps5VMCOperation
    vmcStatus,    \* ps5VMCStatus: 0 invalid, 1 exists, 2 "fragmented", -1 not loaded
    vmcUses, vmcFaults,
    \* History, which no action reads:
    vmcTold,      \* what the screen said last
    vmcRefused    \* the last creation could not be started
vmcIop == <<vmcFile, vmcThread, vmcAt, vmcResult, abortSema, vmcAbort, finishedSema, vmcStats>>
vmcScreen == <<vmcGui, vmcOperation, vmcStatus, vmcTold, vmcRefused>>
vmcVars == <<vmcIop, vmcScreen, vmcUses, vmcFaults>>

-----------------------------------------------------------------------------
\* The layout of vmc_mcformat, in clusters.
Ceil(n, d) == ((n - 1) \div d) + 1
FatNeeded == Ceil(4 * VmcClusters, 4 * VmcEntries)
IfcLength == IF Ceil(4 * FatNeeded, 4 * VmcEntries) <= VmcMaxIfc
             THEN Ceil(4 * FatNeeded, 4 * VmcEntries) ELSE VmcMaxIfc
FatLength == IF Ceil(4 * FatNeeded, 4 * VmcEntries) <= VmcMaxIfc
             THEN FatNeeded ELSE VmcEntries * VmcMaxIfc
IfcIndex == VmcBlock
FatIndex == IfcIndex + IfcLength
AllocOffset == FatIndex + FatLength
AllocEnd == ((VmcClusters \div VmcBlock) - 2) * VmcBlock   \* the last two blocks are backups

\* The card is large enough for its tables, so that the two checks of
\* vmc_mcformat for it (genvmc.c:371, 451) never fail, and the FAT has room for
\* the clusters it describes.  The sizes the screen offers are 8, 16, 32 and 64
\* megabytes: whole megabytes, and a whole number of the blocks of 16 clusters
\* that are erased at once.
ASSUME VmcFits ==
    /\ {VmcClusters, VmcBlock, VmcEntries, VmcErase, VmcMega, VmcMaxIfc} \subseteq Nat \ {0}
    /\ AllocOffset < VmcClusters /\ AllocEnd - AllocOffset >= VmcBlock
    /\ Ceil(AllocEnd - AllocOffset, VmcEntries) <= FatLength
    /\ VmcClusters % VmcErase = 0 /\ VmcClusters % VmcMega = 0
    /\ {MaxVmcUses, MaxVmcFaults} \subseteq Nat

\* A write: mc_writecluster(fd, cluster, buf, dup).
At(cluster, dup, what) == [cluster |-> cluster, dup |-> dup, what |-> what]

Erases == [k \in 1 .. Ceil(VmcClusters, VmcErase) |-> At((k - 1) * VmcErase, VmcErase, "erased")]
IfcWrites == [k \in 1 .. IfcLength |-> At(IfcIndex + k - 1, 1, "ifc")]
FatWrites == [k \in 1 .. Ceil(AllocEnd - AllocOffset, VmcEntries) |-> At(FatIndex + k - 1, 1, "fat")]

\* A mutant: the superblock is written when the card has been erased.
FormatSuperFirst ==
    Erases \o <<At(0, 1, "super")>> \o IfcWrites \o FatWrites \o <<At(AllocOffset, 1, "root")>>

Format == Erases \o IfcWrites \o FatWrites \o <<At(AllocOffset, 1, "root")>> \o <<At(0, 1, "super")>>

\* The file after a write that may lie behind its end.
Written(file, w) ==
    [c \in 1 .. (IF Len(file) < w.cluster + w.dup THEN w.cluster + w.dup ELSE Len(file)) |->
       IF c > w.cluster /\ c <= w.cluster + w.dup THEN w.what ELSE file[c]]

-----------------------------------------------------------------------------
VmcTypeOK ==
    /\ vmcFile = NoVmc \/ vmcFile \in Seq({"erased", "ifc", "fat", "root", "super"})
    /\ vmcThread \in {"none", "start", "open", "write", "writing", "close"}
    /\ vmcAt \in 1 .. Len(Format) + 1 /\ vmcResult \in {"ok", "abort", "error"}
    /\ abortSema \in {"free", "thread", "lost"} /\ vmcAbort \in BOOLEAN
    /\ finishedSema \in {"none", "locked", "signalled"}
    /\ vmcStats \in [busy : BOOLEAN, error : BOOLEAN]
    /\ vmcGui \in {"idle", "abort", "aborted", "waits"}
    /\ vmcOperation \in BOOLEAN /\ vmcStatus \in -1 .. 2
    /\ vmcUses \in 0 .. MaxVmcUses /\ vmcFaults \in 0 .. MaxVmcFaults
    /\ vmcTold \in {"nothing", "successful", "failed", "aborted"} /\ vmcRefused \in BOOLEAN

\* A file that another program made.
Whole == [c \in 1 .. VmcClusters |->
    CASE c = 1 -> "super"
      [] c > IfcIndex /\ c <= FatIndex -> "ifc"
      [] c > FatIndex /\ c <= FatIndex + Len(FatWrites) -> "fat"
      [] c = AllocOffset + 1 -> "root"
      [] OTHER -> "erased"]

VmcInit ==
    /\ vmcFile \in {NoVmc, Whole}
    /\ vmcThread = "none" /\ vmcAt = 1 /\ vmcResult = "ok" /\ abortSema = "free" /\ vmcAbort = FALSE
    /\ finishedSema = "none" /\ vmcStats = [busy |-> FALSE, error |-> FALSE]
    /\ vmcGui = "idle" /\ vmcOperation = FALSE /\ vmcStatus = -1 /\ vmcUses = 0 /\ vmcFaults = 0
    /\ vmcTold = "nothing" /\ vmcRefused = FALSE

VmcUse == vmcUses < MaxVmcUses /\ vmcUses' = vmcUses + 1
VmcFault == vmcFaults < MaxVmcFaults /\ vmcFaults' = vmcFaults + 1

-----------------------------------------------------------------------------
\* sysCheckVMC without a superblock: -1 without a file, 0 unless its length is
\* one of whole megabytes.
SizeOf(file) ==
    IF file = NoVmc THEN -1
    ELSE IF Len(file) % VmcMega # 0 THEN 0 ELSE Len(file) \div VmcMega

\* ps5VMCLoadConfig: the screen is opened.
LoadVmcScreen ==
    /\ vmcGui = "idle" /\ ~vmcOperation
    /\ VmcUse
    /\ vmcStatus' = CASE SizeOf(vmcFile) > 0 -> 1 [] SizeOf(vmcFile) = -1 -> 2 [] OTHER -> 0
    /\ UNCHANGED <<vmcIop, vmcGui, vmcOperation, vmcTold, vmcRefused, vmcFaults>>

\* VMC_create_thread up to its first wait: both semaphores are free, or it
\* waits for them.
CanStart == vmcThread = "none" /\ abortSema = "free"
Begin ==
    /\ vmcThread' = "open" /\ vmcAt' = 1 /\ vmcAbort' = FALSE
    /\ vmcStats' = [busy |-> TRUE, error |-> FALSE]

\* Cross on a slot whose status is 0: sysCheckVMC removes a file of another
\* size and has a new one made, if there is none of this size.
CreateVmc ==
    /\ vmcGui = "idle" /\ ~vmcOperation /\ vmcStatus = 0
    /\ VmcUse
    /\ vmcOperation' = TRUE
    /\ IF SizeOf(vmcFile) = VmcClusters \div VmcMega
       THEN UNCHANGED <<vmcFile, vmcThread, vmcAt, vmcAbort, vmcStats, vmcRefused, vmcFaults>>
       ELSE /\ vmcFile' = NoVmc
            /\ \/ /\ vmcRefused' = FALSE /\ UNCHANGED vmcFaults
                  /\ IF CanStart THEN Begin
                     ELSE /\ vmcThread' = IF vmcThread = "none" THEN "start" ELSE vmcThread
                          /\ UNCHANGED <<vmcAt, vmcAbort, vmcStats>>
               \* CreateThread fails, and nobody looks at the result.
               \/ /\ vmcRefused' = TRUE /\ VmcFault
                  /\ UNCHANGED <<vmcThread, vmcAt, vmcAbort, vmcStats>>
    /\ UNCHANGED <<vmcResult, abortSema, finishedSema, vmcGui, vmcStatus, vmcTold>>

\* The screen polls the state in every frame (vmc_status).
PollVmc ==
    /\ vmcGui = "idle" /\ vmcOperation /\ ~vmcStats.busy
    /\ vmcOperation' = FALSE
    /\ vmcTold' = IF vmcStats.error THEN "failed" ELSE "successful"
    /\ vmcStatus' = IF ~vmcStats.error /\ SizeOf(vmcFile) > 0 THEN 1 ELSE vmcStatus
    /\ UNCHANGED <<vmcIop, vmcGui, vmcRefused, vmcUses, vmcFaults>>

\* The file is deleted.
DeleteVmc ==
    /\ vmcGui = "idle" /\ ~vmcOperation /\ vmcStatus = 1
    /\ VmcUse
    /\ vmcFile' = NoVmc /\ vmcStatus' = 0 /\ vmcTold' = "failed"
    /\ UNCHANGED <<vmcThread, vmcAt, vmcResult, abortSema, vmcAbort, finishedSema, vmcStats,
                   vmcGui, vmcOperation, vmcRefused, vmcFaults>>

\* Circle while the thread works: vmc_abort, which the GUI thread waits for.
AbortVmc ==
    /\ vmcGui = "idle" /\ vmcOperation
    /\ VmcUse
    /\ vmcGui' = "abort"
    /\ UNCHANGED <<vmcIop, vmcOperation, vmcStatus, vmcTold, vmcRefused, vmcFaults>>

AbortSet ==
    /\ vmcGui = "abort" /\ abortSema = "free"
    /\ vmcAbort' = TRUE /\ vmcGui' = "aborted"
    /\ UNCHANGED <<vmcFile, vmcThread, vmcAt, vmcResult, abortSema, finishedSema, vmcStats,
                   vmcOperation, vmcStatus, vmcTold, vmcRefused, vmcUses, vmcFaults>>

AbortWaits ==
    /\ vmcGui = "aborted"
    /\ finishedSema' = "locked" /\ vmcGui' = "waits"
    /\ UNCHANGED <<vmcFile, vmcThread, vmcAt, vmcResult, abortSema, vmcAbort, vmcStats,
                   vmcOperation, vmcStatus, vmcTold, vmcRefused, vmcUses, vmcFaults>>

AbortDone ==
    /\ vmcGui = "waits" /\ finishedSema = "signalled"
    /\ finishedSema' = "none" /\ vmcGui' = "idle" /\ vmcOperation' = FALSE /\ vmcTold' = "aborted"
    /\ UNCHANGED <<vmcFile, vmcThread, vmcAt, vmcResult, abortSema, vmcAbort, vmcStats,
                   vmcStatus, vmcRefused, vmcUses, vmcFaults>>

-----------------------------------------------------------------------------
StartVmc ==
    /\ vmcThread = "start" /\ abortSema = "free"
    /\ Begin
    /\ UNCHANGED <<vmcFile, vmcResult, abortSema, finishedSema, vmcScreen, vmcUses, vmcFaults>>

\* vmc_mcformat: the file is made or emptied, or cannot be opened.
OpenVmc ==
    /\ vmcThread = "open"
    /\ \/ vmcFile' = <<>> /\ vmcThread' = "write" /\ UNCHANGED <<vmcResult, vmcFaults>>
       \/ VmcFault /\ vmcResult' = "error" /\ vmcThread' = "close" /\ UNCHANGED vmcFile
    /\ UNCHANGED <<vmcAt, abortSema, vmcAbort, finishedSema, vmcStats, vmcScreen, vmcUses>>

\* mc_writecluster, up to the write.
WriteBegin ==
    /\ vmcThread = "write" /\ vmcAt <= Len(Format) /\ abortSema = "free"
    /\ IF vmcAbort
       THEN vmcResult' = "abort" /\ vmcThread' = "close" /\ UNCHANGED abortSema
       ELSE abortSema' = "thread" /\ vmcThread' = "writing" /\ UNCHANGED vmcResult
    /\ UNCHANGED <<vmcFile, vmcAt, vmcAbort, finishedSema, vmcStats, vmcScreen, vmcUses, vmcFaults>>

\* A write that fails returns with the semaphore taken.
WriteEnd ==
    /\ vmcThread = "writing"
    /\ \/ /\ vmcFile' = Written(vmcFile, Format[vmcAt])
          /\ vmcAt' = vmcAt + 1 /\ abortSema' = "free" /\ vmcThread' = "write"
          /\ UNCHANGED <<vmcResult, vmcFaults>>
       \/ /\ VmcFault
          /\ vmcResult' = "error" /\ abortSema' = "lost" /\ vmcThread' = "close"
          /\ UNCHANGED <<vmcFile, vmcAt>>
    /\ UNCHANGED <<vmcAbort, finishedSema, vmcStats, vmcScreen, vmcUses>>

\* There is no memory for the ifc clusters.
NoIfcMemory ==
    /\ vmcThread = "write" /\ vmcAt = Len(Erases) + 1
    /\ VmcFault /\ vmcResult' = "error" /\ vmcThread' = "close"
    /\ UNCHANGED <<vmcFile, vmcAt, abortSema, vmcAbort, finishedSema, vmcStats, vmcScreen, vmcUses>>

FormatDone ==
    /\ vmcThread = "write" /\ vmcAt > Len(Format)
    /\ vmcResult' = "ok" /\ vmcThread' = "close"
    /\ UNCHANGED <<vmcFile, vmcAt, abortSema, vmcAbort, finishedSema, vmcStats, vmcScreen, vmcUses,
                   vmcFaults>>

\* The end of VMC_create_thread.  A signal to a semaphore that is not there yet
\* is lost.
ExitVmc ==
    /\ vmcThread = "close" /\ vmcThread' = "none" /\ vmcAt' = 1
    /\ vmcStats' = [busy |-> FALSE, error |-> vmcResult # "ok"]
    /\ vmcFile' = IF vmcResult = "abort" THEN NoVmc ELSE vmcFile
    /\ finishedSema' = IF vmcResult = "abort" /\ finishedSema = "locked" THEN "signalled" ELSE finishedSema
    /\ UNCHANGED <<vmcResult, abortSema, vmcAbort, vmcScreen, vmcUses, vmcFaults>>

\* The power is cut: all but the file begins anew.
VmcPowerCut ==
    /\ VmcFault
    /\ vmcThread' = "none" /\ vmcAt' = 1 /\ vmcResult' = "ok" /\ abortSema' = "free" /\ vmcAbort' = FALSE
    /\ finishedSema' = "none" /\ vmcStats' = [busy |-> FALSE, error |-> FALSE]
    /\ vmcGui' = "idle" /\ vmcOperation' = FALSE /\ vmcStatus' = -1
    /\ vmcTold' = "nothing" /\ vmcRefused' = FALSE
    /\ UNCHANGED <<vmcFile, vmcUses>>

VmcGuiStep ==
    \/ LoadVmcScreen \/ CreateVmc \/ PollVmc \/ DeleteVmc
    \/ AbortVmc \/ AbortSet \/ AbortWaits \/ AbortDone
VmcThreadStep == StartVmc \/ OpenVmc \/ WriteBegin \/ WriteEnd \/ NoIfcMemory \/ FormatDone \/ ExitVmc
VmcNext == VmcGuiStep \/ VmcThreadStep \/ VmcPowerCut
VmcSpec == VmcInit /\ [][VmcNext]_vmcVars

-----------------------------------------------------------------------------
\* A file the emulation takes (its superblock is there and its length is the
\* card's, system.c:1094) is formatted, wherever a creation was aborted, failed
\* or lost its power: each table and the root directory are in their clusters.
AcceptedIsFormatted ==
    (vmcFile # NoVmc /\ Len(vmcFile) = VmcClusters /\ vmcFile[1] = "super") => vmcFile = Whole

\* What the screen says of an operation is so: a card that was created is
\* formatted, one that was aborted is gone.
ToldIsTrue ==
    /\ vmcTold = "aborted" => (vmcFile = NoVmc \/ vmcOperation)
    /\ (vmcTold = "successful" /\ ~vmcOperation /\ ~vmcRefused) => vmcFile = Whole

\* A virtual memory card that is used or announced is whole.
CardsAreWhole == AcceptedIsFormatted /\ ToldIsTrue
=============================================================================
