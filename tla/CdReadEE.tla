------------------------------ MODULE CdReadEE ------------------------------
(***************************************************************************)
(* A read of the disc into the memory of the main processor: the remote    *)
(* procedure cdvd_readee (cdvdfsv/ncmd.c) over sceCdRead, cdvdman_read and *)
(* cdvdman_read_sectors (cdvdman/ncmd.c, cdvdman.c).                       *)
(*                                                                         *)
(* DMA reaches only blocks of EeAlign bytes.  For an address that is not   *)
(* aligned the data is sent from the first aligned address on, shifted by  *)
(* b1len bytes, so each pass reads one sector more than it counts; the     *)
(* b1len bytes in front and the b2len bytes behind travel in the structure *)
(* readee and the library of the main processor puts them in their places  *)
(* (external, EeFinish).                                                   *)
(*                                                                         *)
(* The sizes of the code are scaled down and keep their divisibility: a    *)
(* block of 64 bytes is EeAlign, a sector of 2048 is EeSector, a word of 4 *)
(* is EeWord, CDVDMAN_FS_SECTORS is FsSectors, CDVDMAN_BUF_SECTORS is      *)
(* BufSectors.  A byte of the disc is the pair of its sector and offset.   *)
(***************************************************************************)
EXTENDS Integers, Sequences

CONSTANTS
    EeAlign, EeSector, EeWord, FsSectors, BufSectors,
    mediaLsnCount,   \* sectors of the disc
    MaxSectors,      \* bound: sectors of a request
    MaxEeReads,      \* bound: requests
    MaxEeFaults      \* bound: failures of the device

ASSUME EeConstants ==
    /\ {EeAlign, EeSector, EeWord, FsSectors, BufSectors, mediaLsnCount} \subseteq Nat \ {0}
    /\ {MaxSectors, MaxEeReads, MaxEeFaults} \subseteq Nat
    /\ EeSector % EeAlign = 0 /\ EeAlign % EeWord = 0
    /\ FsSectors > 1

VARIABLES
    req,        \* the arguments of the call, and the driver serving it
    readee,     \* b1len, b2len, buf1, buf2; pdst1 and pdst2 follow from req
    loop,       \* locals: sectors_to_read, lsn, eeaddr_64b
    rd,         \* the read of the drive under way: first sector, count, done
    fsv,        \* the sectors that cdvdfsv_buf holds
    cdErr,      \* cdvdman_stat.err
    ee,         \* memory of the main processor around the caller's buffer
    eeStep,     \* where the call is
    failedAt,   \* history: passes of this call in which the device failed, the
                \* drive was busy or a thread called sceCdBreak
    eeReads, eeFaults

eeVars == <<req, readee, loop, rd, fsv, cdErr, ee, eeStep, failedAt,
            eeReads, eeFaults>>

Untouched == <<-1, 0>>
JunkSector == -1
\* Room for a block before and behind the longest request.
EeMemory == 0..(MaxSectors * EeSector + 3 * EeAlign)

Up(a) == ((a + EeAlign - 1) \div EeAlign) * EeAlign
Down(a) == (a \div EeAlign) * EeAlign

nbytes == req.sectors * EeSector
b1len(r) == Up(r.buf) - r.buf
b2len(r) == (r.buf + r.sectors * EeSector) % EeAlign
flag_64b(r) == b1len(r) = 0 /\ b2len(r) = 0

EeInit ==
    /\ req = [lsn |-> 0, sectors |-> 0, buf |-> EeAlign, ata |-> FALSE]
    /\ readee = [buf1 |-> << >>, buf2 |-> << >>]
    /\ loop = [left |-> 0, lsn |-> 0, to |-> EeAlign, n |-> 0]
    /\ rd = [lsn |-> 0, count |-> 0, done |-> 0]
    /\ fsv = [i \in 0..FsSectors - 1 |-> JunkSector]
    /\ cdErr = "NO"
    /\ ee = [a \in EeMemory |-> Untouched]
    /\ eeStep = "idle"
    /\ failedAt = {}
    /\ eeReads = 0
    /\ eeFaults = 0

\* The game calls: cdvd_readee up to its loop.  sceCdDiskReady(0) waits for
\* the drive and clears the error.
EeRequest ==
    /\ eeStep = "idle"
    /\ eeReads < MaxEeReads
    /\ \E lsn \in 0..mediaLsnCount, n \in 1..MaxSectors,
          off \in 0..EeAlign - 1, ata \in BOOLEAN :
         /\ req' = [lsn |-> lsn, sectors |-> n, buf |-> EeAlign + off, ata |-> ata]
         /\ loop' = [left |-> n, lsn |-> lsn, to |-> Up(EeAlign + off), n |-> 0]
    /\ readee' = [buf1 |-> << >>, buf2 |-> << >>]
    /\ ee' = [a \in EeMemory |-> Untouched]
    /\ eeStep' = "pass"
    /\ failedAt' = {}
    /\ cdErr' = "NO"
    /\ eeReads' = eeReads + 1
    /\ UNCHANGED <<rd, fsv, eeFaults>>

(***************************************************************************)
(* One pass: sceCdRead of at most FsSectors sectors                        *)
(***************************************************************************)

\* The last sector of the buffer is for the shift.
PassSectors ==
    LET most == IF flag_64b(req) THEN FsSectors ELSE FsSectors - 1
    IN IF loop.left < most THEN loop.left ELSE most

EePass ==
    /\ eeStep = "pass"
    /\ loop.left > 0
    /\ cdErr # "ABRT"
    /\ loop' = [loop EXCEPT !.n = PassSectors]
    /\ rd' = [lsn |-> loop.lsn, done |-> 0,
              count |-> IF flag_64b(req) THEN PassSectors ELSE PassSectors + 1]
    /\ eeStep' = "read"
    /\ UNCHANGED <<req, readee, fsv, cdErr, ee, failedAt, eeReads, eeFaults>>

\* sceCdRead finds the drive busy with another thread's read: the call ends
\* with what it has sent, and without readee.
EeRefused ==
    /\ eeStep = "pass"
    /\ loop.left > 0
    /\ cdErr # "ABRT"
    /\ eeFaults < MaxEeFaults
    /\ eeFaults' = eeFaults + 1
    /\ cdErr' = IF cdErr = "NO" THEN "READCF" ELSE cdErr
    /\ failedAt' = failedAt \cup {loop.left}
    /\ eeStep' = "done"
    /\ UNCHANGED <<req, readee, loop, rd, fsv, ee, eeReads>>

\* sceCdBreak by another thread, which finds the drive idle between two passes.
EeBreak ==
    /\ eeStep = "pass"
    /\ eeFaults < MaxEeFaults
    /\ eeFaults' = eeFaults + 1
    /\ cdErr' = "ABRT"
    /\ failedAt' = failedAt \cup {loop.left}
    /\ UNCHANGED <<req, readee, loop, rd, fsv, ee, eeStep, eeReads>>

\* cdvdman_read: for the ATA drivers a buffer that is not aligned to words
\* (fsvRbuf is cdvdfsv_buf + b2len) is filled by way of cdvdman_buf, in
\* several calls of cdvdman_read_sectors.
Through == req.ata /\ b2len(req) % EeWord # 0
PieceSectors == IF Through /\ rd.count - rd.done > BufSectors THEN BufSectors
                ELSE rd.count - rd.done

\* cdvdman_read_sectors(lsn, sectors): what is left of the read at the end of
\* the disc.
Clipped(lsn, sectors) ==
    IF lsn >= mediaLsnCount THEN 0
    ELSE IF lsn + sectors > mediaLsnCount THEN mediaLsnCount - lsn
    ELSE sectors

\* A piece beyond the end leaves an error of its own and keeps the buffer.
ReadPiece ==
    /\ eeStep = "read"
    /\ rd.done < rd.count
    /\ LET lsn == rd.lsn + rd.done
           n == Clipped(lsn, PieceSectors)
           end == IF n = 0 THEN "IPI" ELSE IF n < PieceSectors THEN "EOM" ELSE "NO"
           Deliver(got) ==
               fsv' = [i \in 0..FsSectors - 1 |->
                          IF i \in rd.done..rd.done + got - 1 THEN rd.lsn + i
                          ELSE IF Through /\ i \in rd.done..rd.done + PieceSectors - 1
                          THEN JunkSector   \* what cdvdman_buf held before
                          ELSE fsv[i]]
       IN \/ /\ Deliver(n)
             /\ cdErr' = end
             /\ UNCHANGED <<failedAt, eeFaults>>
          \/ /\ n > 0
             /\ eeFaults < MaxEeFaults
             /\ eeFaults' = eeFaults + 1
             /\ \E got \in 0..n - 1 : Deliver(got)
             /\ cdErr' = IF end = "EOM" THEN "EOM" ELSE "READ"
             /\ failedAt' = failedAt \cup {loop.left}
    /\ rd' = [rd EXCEPT !.done = @ + PieceSectors]
    /\ UNCHANGED <<req, readee, loop, ee, eeStep, eeReads>>

\* The byte at offset i of fsvRbuf.
Byte(i) == <<fsv[i \div EeSector], i % EeSector>>
Bytes(from, len) == [i \in 1..len |-> Byte(from + i - 1)]

\* The mutant sends the last block although buf2 will bring part of it.
SendSizeFull == loop.n * EeSector

SendSize ==
    IF loop.left = loop.n /\ b1len(req) # 0 THEN loop.n * EeSector - EeAlign
    ELSE loop.n * EeSector

\* After sceCdSync: buf1 of the first pass, the DMA, and buf2 of the last.
EeSend ==
    /\ eeStep = "read"
    /\ rd.done = rd.count
    /\ ee' = [a \in EeMemory |->
                 IF a \in loop.to..loop.to + SendSize - 1
                 THEN Byte(a - loop.to + b1len(req)) ELSE ee[a]]
    /\ readee' = [buf1 |-> IF loop.left = req.sectors
                           THEN Bytes(0, b1len(req)) ELSE readee.buf1,
                  buf2 |-> IF loop.left = loop.n
                           THEN Bytes(loop.n * EeSector - b2len(req), b2len(req))
                           ELSE readee.buf2]
    /\ loop' = [left |-> loop.left - loop.n, lsn |-> loop.lsn + loop.n,
                to |-> loop.to + loop.n * EeSector, n |-> 0]
    /\ eeStep' = "pass"
    /\ UNCHANGED <<req, rd, fsv, cdErr, failedAt, eeReads, eeFaults>>

\* readee is sent, the call returns nbytes, and the main processor copies
\* buf1 to pdst1 and buf2 to pdst2.
EeFinish ==
    /\ eeStep = "pass"
    /\ loop.left = 0 \/ cdErr = "ABRT"
    /\ LET pdst1 == req.buf
           pdst2 == Down(req.buf + nbytes)
           Got(s, i) == IF i <= Len(s) THEN s[i] ELSE <<JunkSector, 0>>
       IN ee' = [a \in EeMemory |->
                   IF a \in pdst1..pdst1 + b1len(req) - 1
                   THEN Got(readee.buf1, a - pdst1 + 1)
                   ELSE IF a \in pdst2..pdst2 + b2len(req) - 1
                   THEN Got(readee.buf2, a - pdst2 + 1)
                   ELSE ee[a]]
    /\ eeStep' = "done"
    /\ UNCHANGED <<req, readee, loop, rd, fsv, cdErr, failedAt, eeReads, eeFaults>>

EeReturn ==
    /\ eeStep = "done"
    /\ eeStep' = "idle"
    /\ UNCHANGED <<req, readee, loop, rd, fsv, cdErr, ee, failedAt, eeReads,
                   eeFaults>>

EeNext == \/ EeRequest \/ EePass \/ EeRefused \/ EeBreak \/ ReadPiece
          \/ EeSend \/ EeFinish \/ EeReturn

EeSpec == EeInit /\ [][EeNext]_eeVars

(***************************************************************************)
(* Properties                                                              *)
(***************************************************************************)

\* The passes stay inside cdvdfsv_buf and inside the caller's memory.
EeTypeOK ==
    /\ eeStep \in {"idle", "pass", "read", "done"}
    /\ rd.done \in 0..rd.count /\ rd.count \in 0..FsSectors
    /\ loop.left \in 0..req.sectors
    /\ loop.to \in EeMemory
    /\ cdErr \in {"NO", "READ", "READCF", "ABRT", "EOM", "IPI"}

Wanted == req.buf..req.buf + nbytes - 1

\* The DMA of a read overwrites nothing outside the caller's buffer, at any
\* moment of the call, although it moves whole blocks and one sector too many.
OnlyBufferIsWritten == \A a \in EeMemory \ Wanted : ee[a] = Untouched

\* When the call returns, every byte of the request that is on the disc is in
\* its place, for every alignment and every cut into passes and pieces, unless
\* the device failed.
ReadLandsInPlace ==
    (eeStep = "done" /\ failedAt = {}) =>
        \A i \in 0..nbytes - 1 :
            req.lsn + i \div EeSector < mediaLsnCount
                => ee[req.buf + i] = <<req.lsn + i \div EeSector, i % EeSector>>

\* "continue to read what you can and then signal end of media error": a call
\* that asks for sectors behind the end leaves an error for sceCdGetError,
\* whatever the cut into passes.
PastEndIsSignalled ==
    (eeStep = "done" /\ req.lsn + req.sectors > mediaLsnCount) => cdErr # "NO"

\* What cdvdfsv_cdReadEE does for the caller: the buffer and nothing else is
\* filled with the sectors it asked for, or the error says that it is not; the
\* passes count the sectors down within the call.
ReadIsRight == EeTypeOK /\ OnlyBufferIsWritten /\ ReadLandsInPlace /\ PastEndIsSignalled
=============================================================================
