------------------------------- MODULE ZsoRead -------------------------------
(***************************************************************************)
(* Reads of a compressed disc image by a running game: ziso_read_sector    *)
(* (modules/isofs/zso.c), read_raw_data and DeviceReadSectorsCached        *)
(* (modules/iopcore/cdvdman/cdvdman.c).                                    *)
(*                                                                         *)
(* The image is a header, an index with the offset of every block, and the *)
(* blocks one behind the other.  A read fetches the compressed bytes of    *)
(* all its blocks to the END of the caller's buffer and unpacks them one   *)
(* by one towards its beginning, in place.  Two caches stand before the    *)
(* device: part of the index, and the sectors read last.                   *)
(*                                                                         *)
(* The size of an index entry is the unit.  What a buffer holds says where *)
(* it came from: <<"unit", position in the image>>, or <<"block", number>> *)
(* for unpacked data.  LZ4 is third-party code: it turns the units of      *)
(* one block, all of them and in order, into that block.                   *)
(***************************************************************************)
EXTENDS Integers, Sequences

CONSTANTS
    ZSector,        \* units of a sector, and of an unpacked block (2048 bytes)
    ZHeader,        \* units of the header
    ZBlocks,        \* ziso_total_block
    ZEntries,       \* ZISO_IDX_MAX_ENTRIES
    ZCount,         \* the longest read the game makes
    ZCache,         \* MAX_SECTOR_CACHE
    MaxZReads,      \* bound: reads
    MaxZFaults      \* bound: failures of the device

ASSUME ZConstants ==
    /\ {ZSector, ZHeader, ZBlocks} \subseteq Nat \ {0}
    /\ ZEntries \in Nat /\ ZEntries > 2
    /\ ZCount \in 1..ZEntries - 1   \* the code relies on it and does not check
    /\ ZCache \in Nat

VARIABLES
    zIndex,         \* the image: the offset of every block, and of its end
    cur_sector, sector_cache,
    idx_start, idx_cache,   \* ziso_idx_start_block, ziso_idx_cache
    zcall,          \* the call: lsn, count, the block to unpack, c_buff
    raw,            \* the call of read_raw_data under way
    zbuf,           \* the caller's buffer
    zStep,
    zClean,         \* history: the device has not failed yet
    zReads, zFaults

zVars == <<zIndex, cur_sector, sector_cache, idx_start, idx_cache, zcall, raw,
           zbuf, zStep, zClean, zReads, zFaults>>

ZJunk == -1
Unit(u) == <<"unit", u>>
ZGarbage == <<"garbage", 0>>
NoRaw == [size |-> 0, lba |-> 0, pos |-> 0, got |-> << >>, cached |-> FALSE]

\* The image: the offset of block b is what entry b of the index says.
Offset(b) == zIndex[b]
ZSectors == (Offset(ZBlocks) + ZSector - 1) \div ZSector
Entry(x) == IF x \in {Unit(ZHeader + b) : b \in 0..ZBlocks}
            THEN Offset(x[2] - ZHeader) ELSE ZJunk

\* The blocks follow the index and each other, and none is longer than it is
\* unpacked.
ZImages ==
    LET first == ZHeader + ZBlocks + 1
    IN {x \in [0..ZBlocks -> first..first + ZBlocks * ZSector] :
           /\ x[0] = first
           /\ \A b \in 1..ZBlocks : x[b] - x[b - 1] \in 1..ZSector}

ZInit ==
    /\ zIndex \in ZImages
    /\ cur_sector = ZJunk
    /\ sector_cache = << >>
    /\ idx_start = -1
    /\ idx_cache = << >>
    /\ zcall = [lsn |-> 0, count |-> 0, asked |-> 0, block |-> 0, c_buff |-> 0]
    /\ raw = NoRaw
    /\ zbuf = << >>
    /\ zStep = "idle"
    /\ zClean = TRUE
    /\ zReads = 0
    /\ zFaults = 0

(***************************************************************************)
(* DeviceReadSectors and the cache of sectors                              *)
(***************************************************************************)
\* The device delivers the sectors of the file; behind its end, or when it
\* fails, the buffer keeps what it held.  Nobody looks at the result.
Device(lba, n, ok) ==
    [i \in 1..n * ZSector |->
        LET u == lba * ZSector + i - 1
        IN IF ok /\ u < ZSectors * ZSector THEN Unit(u)
           ELSE ZGarbage]

\* The mutant compares the first sector only with the end of the cache.
MissesFirst(lba, n) ==
    cur_sector = ZJunk \/ lba < cur_sector \/ lba - cur_sector > ZCache

\* The cache has to be filled for a read of n sectors at lba.
Misses(lba, n) ==
    cur_sector = ZJunk \/ lba < cur_sector \/ lba + n - cur_sector > ZCache

\* DeviceReadSectorsCached, or DeviceReadSectors for the index: the units of
\* n sectors at lba, and what becomes of the cache.
DeviceReadSectorsCached(lba, n, ok) ==
    IF raw.cached /\ n < ZCache
    THEN /\ cur_sector' = IF Misses(lba, n) THEN lba ELSE cur_sector
         /\ sector_cache' = IF Misses(lba, n) THEN Device(lba, ZCache, ok)
                            ELSE sector_cache
    ELSE UNCHANGED <<cur_sector, sector_cache>>

Delivered(lba, n, ok) ==
    IF raw.cached /\ n < ZCache
    THEN LET pos == (lba - cur_sector') * ZSector
         IN [i \in 1..n * ZSector |-> IF pos + i <= Len(sector_cache')
                                       THEN sector_cache'[pos + i] ELSE ZGarbage]
    ELSE Device(lba, n, ok)

(***************************************************************************)
(* read_raw_data: a first sector from pos on, the sectors between, the last*)
(***************************************************************************)
RawRead(size, offset, cached) ==
    [size |-> size, lba |-> offset \div ZSector, pos |-> offset % ZSector,
     got |-> << >>, cached |-> cached]

RawBlocks == (raw.size + ZSector - 1) \div ZSector

\* One access of the device: n sectors, of which `take` units count.
RawAccess(n, take, ok) ==
    /\ DeviceReadSectorsCached(raw.lba, n, ok)
    /\ raw' = [raw EXCEPT
                 !.got = @ \o SubSeq(Delivered(raw.lba, n, ok),
                                     raw.pos + 1, raw.pos + take),
                 !.size = @ - take,
                 !.lba = @ + n,
                 !.pos = 0]

RawPart(ok) ==
    IF raw.pos # 0
    THEN RawAccess(1, IF raw.size < ZSector - raw.pos THEN raw.size
                      ELSE ZSector - raw.pos, ok)
    ELSE IF RawBlocks > 1
    THEN RawAccess(RawBlocks - 1, (RawBlocks - 1) * ZSector, ok)
    ELSE RawAccess(1, raw.size, ok)

ReadRawData ==
    /\ zStep \in {"index", "data"}
    /\ raw.size > 0
    /\ \/ RawPart(TRUE) /\ UNCHANGED <<zFaults, zClean>>
       \/ /\ zFaults < MaxZFaults
          /\ zFaults' = zFaults + 1
          /\ zClean' = FALSE
          /\ RawPart(FALSE)
    /\ UNCHANGED <<zIndex, idx_start, idx_cache, zcall, zbuf, zStep, zReads>>

(***************************************************************************)
(* ziso_read_sector                                                        *)
(***************************************************************************)

\* The end of the last block is an entry too.
IndexMisses(lsn, count) ==
    idx_start < 0 \/ lsn < idx_start \/ lsn + count >= idx_start + ZEntries - 1

\* The call, up to the refresh of the index.
ZRead ==
    /\ zStep = "idle"
    /\ zReads < MaxZReads
    /\ \E lsn \in 0..ZBlocks, asked \in 1..ZCount :
         LET count == IF lsn >= ZBlocks THEN 0
                      ELSE IF lsn + asked > ZBlocks THEN ZBlocks - lsn
                      ELSE asked
         IN /\ zcall' = [lsn |-> lsn, count |-> count, asked |-> asked,
                         block |-> 0, c_buff |-> 0]
            /\ zbuf' = [i \in 1..count * ZSector |-> ZGarbage]
            /\ zStep' = IF count = 0 THEN "done" ELSE "index"
            /\ raw' = IF count > 0 /\ IndexMisses(lsn, count)
                      THEN RawRead(ZEntries, lsn + ZHeader, FALSE) ELSE NoRaw
    /\ zReads' = zReads + 1
    /\ UNCHANGED <<zIndex, cur_sector, sector_cache, idx_start, idx_cache,
                   zClean, zFaults>>

\* The offset that the cached index gives for a block.
Cached(cache, start, b) ==
    IF b - start + 1 \in DOMAIN cache THEN Entry(cache[b - start + 1]) ELSE ZJunk

\* The index is there: the compressed data goes to the end of the buffer.
\* An entry that could not be read gives an address nobody can predict.
IndexReady ==
    /\ zStep = "index"
    /\ raw.size = 0
    /\ idx_start' = IF raw = NoRaw THEN idx_start ELSE zcall.lsn
    /\ idx_cache' = IF raw = NoRaw THEN idx_cache ELSE raw.got
    /\ LET o_start == Cached(idx_cache', idx_start', zcall.lsn)
           o_end == Cached(idx_cache', idx_start', zcall.lsn + zcall.count)
       IN IF \E b \in zcall.lsn..zcall.lsn + zcall.count :
                   Cached(idx_cache', idx_start', b) = ZJunk
          THEN zStep' = "undefined" /\ UNCHANGED <<raw, zcall>>
          ELSE /\ raw' = RawRead(o_end - o_start, o_start, TRUE)
               /\ zcall' = [zcall EXCEPT
                              !.c_buff = @ + zcall.count * ZSector
                                           - (o_end - o_start)]
               /\ zStep' = "data"
    /\ UNCHANGED <<zIndex, cur_sector, sector_cache, zbuf, zClean, zReads, zFaults>>

DataReady ==
    /\ zStep = "data"
    /\ raw.size = 0
    /\ zbuf' = [i \in DOMAIN zbuf |->
                   IF i > zcall.c_buff THEN raw.got[i - zcall.c_buff] ELSE zbuf[i]]
    /\ raw' = NoRaw
    /\ zStep' = "unpack"
    /\ UNCHANGED <<zIndex, cur_sector, sector_cache, idx_start, idx_cache,
                   zcall, zClean, zReads, zFaults>>

\* What LZ4_decompress_fast makes of the units src of block b (external).
Unpacked(src, b) ==
    IF src = [i \in 1..Offset(b + 1) - Offset(b) |-> Unit(Offset(b) + i - 1)]
    THEN <<"block", b>> ELSE ZGarbage

\* The loop: one block from c_buff to its place.
Unpack ==
    /\ zStep = "unpack"
    /\ zcall.block < zcall.count
    /\ LET b == zcall.lsn + zcall.block
           b_size == Cached(idx_cache, idx_start, b + 1)
                         - Cached(idx_cache, idx_start, b)
           src == SubSeq(zbuf, zcall.c_buff + 1, zcall.c_buff + b_size)
           addr == zcall.block * ZSector
       IN /\ zbuf' = [i \in DOMAIN zbuf |->
                         IF i \in addr + 1..addr + ZSector
                         THEN Unpacked(src, b) ELSE zbuf[i]]
          /\ zcall' = [zcall EXCEPT !.block = @ + 1, !.c_buff = @ + b_size]
    /\ UNCHANGED <<zIndex, cur_sector, sector_cache, idx_start, idx_cache,
                   raw, zStep, zClean, zReads, zFaults>>

ZReturn ==
    /\ zStep = "unpack" /\ zcall.block = zcall.count
    /\ zStep' = "done"
    /\ UNCHANGED <<zIndex, cur_sector, sector_cache, idx_start, idx_cache,
                   zcall, raw, zbuf, zClean, zReads, zFaults>>

ZIdle ==
    /\ zStep = "done"
    /\ zStep' = "idle"
    /\ UNCHANGED <<zIndex, cur_sector, sector_cache, idx_start, idx_cache,
                   zcall, raw, zbuf, zClean, zReads, zFaults>>

ZNext == \/ ZRead \/ ReadRawData \/ IndexReady \/ DataReady \/ Unpack
         \/ ZReturn \/ ZIdle

ZSpec == ZInit /\ [][ZNext]_zVars

(***************************************************************************)
(* Properties                                                              *)
(***************************************************************************)

\* Positions stay inside the caches, the buffer and the image.
ZTypeOK ==
    /\ zStep \in {"idle", "index", "data", "unpack", "done", "undefined"}
    /\ Len(sector_cache) \in {0, ZCache * ZSector}
    /\ Len(idx_cache) \in {0, ZEntries}
    /\ zcall.count \in 0..zcall.asked
    /\ zcall.c_buff \in 0..zcall.count * ZSector

\* As long as the device has not failed, a read gives the caller the blocks it
\* asked for, in order and whole: the caches never answer with another part of
\* the image, the index always covers the read, and unpacking in place never
\* overwrites compressed data that is still needed.  Failing or not, it fills no
\* more than the buffer.
ZsoReadsRight ==
    /\ ZTypeOK
    /\ zClean =>
         /\ zStep # "undefined"
         /\ zStep = "done" =>
               zbuf = [i \in 1..zcall.count * ZSector |->
                          <<"block", zcall.lsn + (i - 1) \div ZSector>>]
=============================================================================
