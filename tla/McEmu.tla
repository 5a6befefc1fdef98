------------------------------- MODULE McEmu -------------------------------
(***************************************************************************)
(* The virtual memory cards of a running game (modules/mcemu).  The game's *)
(* memory card manager sends SIO2 packets, each a list of commands; the    *)
(* hook runs Sio2McEmu on the packets of a card that is emulated, which    *)
(* keeps per card a read and a write position inside a page, one ECC       *)
(* buffer per card, and ONE page buffer for both cards (mcdatabuf).        *)
(*                                                                         *)
(* Offsets and sizes are in bytes, as in the code.  A page is a sequence   *)
(* of 128 byte chunks, the unit in which its data travels and in which its *)
(* ECC is computed; the 3 byte ECC of a chunk stands for the chunk itself. *)
(* The manager is external (HostBegin, HostResult): it transfers a page in *)
(* one go, in one packet or in several, with the 16 bytes of ECC in a      *)
(* command of their own or behind the last chunk.                          *)
(***************************************************************************)
EXTENDS Integers, Sequences

CONSTANTS
    McCards,        \* the ports with a virtual card: those with mcnum # -1
    McPages,        \* number of pages of a card (CardSize)
    McChunks,       \* chunks of a page: cspec.PageSize \div 128
    McBlock,        \* pages of a block: cspec.BlockSize
    McData,         \* what a chunk can hold
    McErased,       \* the chunk that MceEraseBlock writes
    McFilled,       \* the 0xFF bytes of a read that failed
    MaxMcOps,       \* bound: operations of the manager
    MaxMcFaults     \* bound: failures of the device

ASSUME McConstants ==
    /\ McChunks \in Nat \ {0}
    /\ McBlock \in Nat \ {0}
    /\ McPages \in Nat \ {0}
    /\ McPages % McBlock = 0
    /\ McErased \in McData

VARIABLES
    memcards,       \* per card: rpage, rdoff, rcoff, wpage, wroff, wcoff
    mcdatabuf,      \* the page buffer
    mceccbuf,       \* per card: the ECC of the page read last
    vmc,            \* per card: the pages in the image file
    sio,            \* the packet Sio2McEmu is working on
    host,           \* the manager: its operation, the packets left of it, what
                    \* it got, and whether the device failed
    written,        \* history: what acknowledged operations left in the pages
    unsure,         \* history: pages of which an access of the device failed
    mcOps, mcFaults \* counters of the bounds

mcVars == <<memcards, mcdatabuf, mceccbuf, vmc, sio, host, written, unsure,
            mcOps, mcFaults>>

PageSize == 128 * McChunks
Page == [1..McChunks -> McData]
PageNumbers == 0..McPages - 1
Repeat(n, x) == [i \in 1..n |-> x]
NoPacket == [cmds |-> << >>, result |-> TRUE, busy |-> FALSE, left |-> 0,
             tot |-> 0, buf |-> << >>, rdma |-> << >>]
NoOperation == [op |-> "none", card |-> CHOOSE c \in McCards : TRUE, page |-> 0,
                data |-> Repeat(McChunks, McErased), rest |-> << >>,
                got |-> << >>, state |-> "idle", fault |-> FALSE]

(***************************************************************************)
(* The packets of the manager (external)                                   *)
(***************************************************************************)
McCommand(op, size, data) == [op |-> op, size |-> size, data |-> data]

\* The commands that move the chunks of a page and, for a card whose flags
\* say so, the ECC behind them: in a command of its own or with the last chunk.
Moves(op, data, ecc) ==
    LET size(i) == IF i = McChunks /\ ecc = "joined" THEN 144 ELSE 128
    IN [i \in 1..McChunks |-> McCommand(op, size(i), <<data[i]>>)]
           \o IF ecc = "own" THEN <<McCommand(op, 16, << >>)>> ELSE << >>

\* The commands of an operation on page p; the size of the first is the page.
Commands(op, p, data, ecc) ==
    (CASE op = "read"  -> <<McCommand("start_read", p, << >>)>>
                              \o Moves("read", data, ecc)
       [] op = "write" -> <<McCommand("start_write", p, << >>)>>
                              \o Moves("write", data, ecc)
       [] op = "erase" -> <<McCommand("erase", p, << >>)>>)
    \o <<McCommand("status", 0, << >>)>>

\* The packets of an operation: all commands in one, or one command in each.
Packets(cmds, split) ==
    IF split THEN [i \in 1..Len(cmds) |-> <<cmds[i]>>] ELSE <<cmds>>

(***************************************************************************)
(* Initial state: mc_configure, after which every position is zero         *)
(***************************************************************************)
McInit ==
    /\ memcards = [c \in McCards |-> [rpage |-> 0, rdoff |-> 0, rcoff |-> 0,
                                      wpage |-> 0, wroff |-> 0, wcoff |-> 0]]
    /\ mcdatabuf = Repeat(McChunks, McErased)
    /\ mceccbuf = [c \in McCards |-> Repeat(McChunks, McErased)]
    /\ vmc = [c \in McCards |-> [p \in PageNumbers |->
                                     Repeat(McChunks, McErased)]]
    /\ sio = NoPacket
    /\ host = NoOperation
    /\ written = vmc
    /\ unsure = {}
    /\ mcOps = 0
    /\ mcFaults = 0

\* The manager begins an operation on a page or on a block of a card.
HostBegin ==
    /\ host.state # "busy"
    /\ mcOps < MaxMcOps
    /\ mcOps' = mcOps + 1
    /\ \E c \in McCards, p \in PageNumbers, d \in Page,
          op \in {"read", "write", "erase"}, split \in BOOLEAN,
          ecc \in {"own", "joined", "none"} :
         /\ op # "write" => d = Repeat(McChunks, McErased)
         /\ op = "erase" => p % McBlock = 0 /\ ecc = "none"
         /\ host' = [op |-> op, card |-> c, page |-> p, data |-> d,
                     rest |-> Packets(Commands(op, p, d, ecc), split),
                     got |-> << >>, state |-> "busy", fault |-> FALSE]
    /\ UNCHANGED <<memcards, mcdatabuf, mceccbuf, vmc, sio, written, unsure,
                   mcFaults>>

\* hookSio2man hands the next packet of the operation to Sio2McEmu.
HookSio2man ==
    /\ sio.cmds = << >>
    /\ host.rest # << >>
    /\ sio' = [NoPacket EXCEPT !.cmds = Head(host.rest)]
    /\ host' = [host EXCEPT !.rest = Tail(@)]
    /\ UNCHANGED <<memcards, mcdatabuf, mceccbuf, vmc, written, unsure,
                   mcOps, mcFaults>>

(***************************************************************************)
(* Sio2McEmu, one command at a time                                        *)
(***************************************************************************)
Executing(op) == sio.cmds # << >> /\ Head(sio.cmds).op = op

Mc == host.card
Positions == memcards[Mc]

\* The pages an operation changes.
Changed(h) == CASE h.op = "write" -> {h.page}
                [] h.op = "erase" -> h.page..h.page + McBlock - 1
                [] OTHER -> {}

\* The command ends with its result, which the next command of the packet
\* finds and the last one leaves in iostatus.  The manager then goes on with
\* its next packet or gives up; written is what a complete operation left.
Answer(result, rdma, fault) ==
    LET last == Len(sio.cmds) = 1
        now == [host EXCEPT
                  !.got = @ \o rdma,
                  !.fault = @ \/ fault,
                  !.rest = IF last /\ ~result THEN << >> ELSE @,
                  !.state = IF ~last THEN @
                            ELSE IF ~result THEN "error"
                            ELSE IF host.rest = << >> THEN "ok" ELSE @]
        over == now.state # "busy"
    IN /\ sio' = [NoPacket EXCEPT !.cmds = Tail(sio.cmds),
                                  !.result = last \/ result]
       /\ host' = now
       /\ unsure' = IF over /\ now.fault
                    THEN unsure \cup ({Mc} \X Changed(now))
                    ELSE IF over THEN unsure \ ({Mc} \X Changed(now))
                    ELSE unsure
       /\ written' = IF over /\ now.state = "ok"
                     THEN [written EXCEPT ![Mc] =
                             [p \in PageNumbers |-> IF p \in Changed(now)
                                                    THEN now.data ELSE @[p]]]
                     ELSE written

\* A failing access of the device: the hard disk and SMB drivers report it,
\* the driver of block devices answers 1 whatever bdm_readSector did.
Fault == mcFaults < MaxMcFaults /\ mcFaults' = mcFaults + 1
NoFault == mcFaults' = mcFaults

\* 0x81 and 0x82 (and 0x12, 0x27, 0x28, ...): an answer, and result = 1.
McStatus ==
    /\ Executing("status")
    /\ Answer(TRUE, << >>, FALSE)
    /\ UNCHANGED <<memcards, mcdatabuf, mceccbuf, vmc, mcOps, mcFaults>>

\* 0x23: MceStartRead.
MceStartRead ==
    /\ Executing("start_read")
    /\ memcards' = [memcards EXCEPT ![Mc].rpage = Head(sio.cmds).size,
                                    ![Mc].rdoff = 0,
                                    ![Mc].rcoff = 0]
    /\ Answer(TRUE, << >>, FALSE)
    /\ UNCHANGED <<mcdatabuf, mceccbuf, vmc, mcOps, mcFaults>>

\* 0x22: MceStartWrite.
MceStartWrite ==
    /\ Executing("start_write")
    /\ memcards' = [memcards EXCEPT ![Mc].wpage = Head(sio.cmds).size,
                                    ![Mc].wroff = 0,
                                    ![Mc].wcoff = 0]
    /\ Answer(TRUE, << >>, FALSE)
    /\ UNCHANGED <<mcdatabuf, mceccbuf, vmc, mcOps, mcFaults>>

\* The pages of the loop of MceEraseBlock, and a mutant that stops one short.
BlockPagesShort(first) == first..first + McBlock - 2
BlockPages(first) == first..first + McBlock - 1

\* 0x21: MceEraseBlock fills the page buffer and writes it to every page of
\* the block; a driver that reports a failure ends the loop.
MceEraseBlock ==
    /\ Executing("erase")
    /\ mcdatabuf' = Repeat(McChunks, McErased)
    /\ LET first == Head(sio.cmds).size
           block == BlockPages(first)
           Erase(pages) ==
               vmc' = [vmc EXCEPT ![Mc] =
                         [p \in PageNumbers |-> IF p \in pages THEN mcdatabuf'
                                                ELSE @[p]]]
       IN \/ NoFault /\ Erase(block) /\ Answer(TRUE, << >>, FALSE)
          \/ /\ Fault
             /\ \E bad \in block :
                  \/ Erase(first..bad - 1) /\ Answer(FALSE, << >>, TRUE)
                  \/ Erase(block \ {bad}) /\ Answer(TRUE, << >>, TRUE)
    /\ UNCHANGED <<memcards, mceccbuf, mcOps>>

\* What the host gets of a read that failed.
McFill(size) == Repeat((size + 127) \div 128, McFilled)

\* 0x42 and 0x43 enter MceWrite or MceRead, or are skipped when an earlier
\* command of the packet failed.
McMove ==
    /\ \E op \in {"read", "write"} : Executing(op)
    /\ ~sio.busy
    /\ LET cmd == Head(sio.cmds) IN
         IF sio.result
         THEN /\ sio' = [sio EXCEPT !.busy = TRUE, !.left = cmd.size,
                                    !.tot = cmd.size, !.buf = cmd.data]
              /\ UNCHANGED <<host, written, unsure>>
         ELSE Answer(FALSE, IF cmd.op = "read" THEN McFill(cmd.size) ELSE << >>,
                     FALSE)
    /\ UNCHANGED <<memcards, mcdatabuf, mceccbuf, vmc, mcOps, mcFaults>>

\* What a transfer of csize bytes of ECC leaves of the counter.
EccLeft(off, csize) == IF csize > 12 THEN 0 ELSE off - csize
EccSize == IF sio.left < 16 THEN sio.left ELSE 16

\* The bytes of data of this pass: never past the end of the page.
PassSize(off) == IF sio.left + off > PageSize THEN PageSize - off ELSE sio.left
Chunk(off) == off \div 128

\* MceRead behind the data of a page: its ECC.
MceReadEcc ==
    /\ Executing("read") /\ sio.busy
    /\ Positions.rcoff # 0 /\ Positions.rdoff = 0
    /\ memcards' = [memcards EXCEPT ![Mc].rcoff = EccLeft(@, EccSize)]
    /\ LET rdma == Append(sio.rdma, mceccbuf[Mc]) IN
         IF sio.left - EccSize > 0
         THEN /\ sio' = [sio EXCEPT !.left = @ - EccSize, !.rdma = rdma]
              /\ UNCHANGED <<host, written, unsure>>
         ELSE Answer(TRUE, rdma, FALSE)
    /\ UNCHANGED <<mcdatabuf, mceccbuf, vmc, mcOps, mcFaults>>

\* Behind the last byte of a page the next one begins.
NextOffset(off) == IF off = PageSize THEN 0 ELSE off

\* MceRead inside a page, after do_read has read it or if it was read before.
MceReadPass(dbuf, fault) ==
    LET size == PassSize(Positions.rdoff)
        off == Positions.rdoff + size
        rdma == sio.rdma \o SubSeq(dbuf, Chunk(Positions.rdoff) + 1, Chunk(off))
        restart == off = PageSize /\ sio.tot - size > 0
    IN /\ memcards' = [memcards EXCEPT
                         ![Mc].rcoff = @ + 3,
                         ![Mc].rdoff = NextOffset(off),
                         ![Mc].rpage = IF off = PageSize THEN @ + 1 ELSE @]
       /\ IF restart
          THEN /\ sio' = [sio EXCEPT !.left = sio.tot - size, !.rdma = rdma]
               /\ host' = [host EXCEPT !.fault = @ \/ fault]
               /\ UNCHANGED <<written, unsure>>
          ELSE Answer(TRUE, rdma, fault)

MceRead ==
    /\ Executing("read") /\ sio.busy
    /\ ~(Positions.rcoff # 0 /\ Positions.rdoff = 0)
    /\ IF Positions.rdoff # 0
       THEN /\ MceReadPass(mcdatabuf, FALSE)
            /\ NoFault
            /\ UNCHANGED <<mcdatabuf, mceccbuf>>
       ELSE \/ /\ NoFault
               /\ mcdatabuf' = vmc[Mc][Positions.rpage]
               /\ mceccbuf' = [mceccbuf EXCEPT ![Mc] = mcdatabuf']
               /\ MceReadPass(mcdatabuf', FALSE)
            \/ /\ Fault         \* not reported: the buffer keeps what it held
               /\ mceccbuf' = [mceccbuf EXCEPT ![Mc] = mcdatabuf]
               /\ MceReadPass(mcdatabuf, TRUE)
               /\ UNCHANGED mcdatabuf
            \/ /\ Fault
               /\ mceccbuf' = [mceccbuf EXCEPT ![Mc] =
                                 Repeat(McChunks, McFilled)]
               /\ Answer(FALSE, McFill(sio.tot), TRUE)
               /\ UNCHANGED <<memcards, mcdatabuf>>
    /\ UNCHANGED <<vmc, mcOps>>

\* MceWrite behind the data of a page: the ECC the manager sends is dropped.
MceWriteEcc ==
    /\ Executing("write") /\ sio.busy
    /\ Positions.wcoff # 0 /\ Positions.wroff = 0
    /\ memcards' = [memcards EXCEPT ![Mc].wcoff = EccLeft(@, EccSize)]
    /\ IF sio.left - EccSize > 0
       THEN /\ sio' = [sio EXCEPT !.left = @ - EccSize]
            /\ UNCHANGED <<host, written, unsure>>
       ELSE Answer(TRUE, << >>, FALSE)
    /\ UNCHANGED <<mcdatabuf, mceccbuf, vmc, mcOps, mcFaults>>

\* MceWrite inside a page; a full page buffer is written to the image.
MceWrite ==
    /\ Executing("write") /\ sio.busy
    /\ ~(Positions.wcoff # 0 /\ Positions.wroff = 0)
    /\ LET size == PassSize(Positions.wroff)
           off == Positions.wroff + size
           full == off = PageSize
           Moved == [memcards EXCEPT ![Mc].wcoff = @ + 3,
                                     ![Mc].wroff = IF full THEN 0 ELSE off]
           Next == [Moved EXCEPT ![Mc].wpage = @ + 1]
           dbuf == [i \in 1..McChunks |->
                       IF i \in Chunk(Positions.wroff) + 1..Chunk(off)
                       THEN sio.buf[i - Chunk(Positions.wroff)]
                       ELSE mcdatabuf[i]]
           Restart(fault) ==
               IF sio.tot - size > 0
               THEN /\ sio' = [sio EXCEPT !.left = sio.tot - size,
                                          !.buf = SubSeq(@, Chunk(size) + 1, Len(@))]
                    /\ host' = [host EXCEPT !.fault = @ \/ fault]
                    /\ UNCHANGED <<written, unsure>>
               ELSE Answer(TRUE, << >>, fault)
       IN /\ mcdatabuf' = dbuf
          /\ IF ~full
             THEN /\ memcards' = Moved /\ NoFault /\ UNCHANGED vmc
                  /\ Answer(TRUE, << >>, FALSE)
             ELSE \/ /\ memcards' = Next /\ NoFault /\ Restart(FALSE)
                     /\ vmc' = [vmc EXCEPT ![Mc][Positions.wpage] = dbuf]
                  \/ /\ memcards' = Next /\ Fault /\ Restart(TRUE)
                     /\ UNCHANGED vmc       \* not reported
                  \/ /\ memcards' = Moved /\ Fault /\ UNCHANGED vmc
                     /\ Answer(FALSE, << >>, TRUE)
    /\ UNCHANGED <<mceccbuf, mcOps>>

Sio2McEmu ==
    \/ McStatus \/ MceStartRead \/ MceStartWrite \/ MceEraseBlock
    \/ McMove \/ MceReadEcc \/ MceRead \/ MceWriteEcc \/ MceWrite

McNext == HostBegin \/ HookSio2man \/ Sio2McEmu

McSpec == McInit /\ [][McNext]_mcVars

(***************************************************************************)
(* Properties                                                              *)
(***************************************************************************)

\* Positions stay inside a page and pages inside the card or just behind it.
McTypeOK ==
    /\ \A c \in McCards :
         /\ memcards[c].rpage \in 0..McPages /\ memcards[c].wpage \in 0..McPages
         /\ memcards[c].rdoff \in 0..PageSize - 1
         /\ memcards[c].wroff \in 0..PageSize - 1
         /\ memcards[c].rcoff \in 0..3 * McChunks
         /\ memcards[c].wcoff \in 0..3 * McChunks
         /\ vmc[c] \in [PageNumbers -> Page]
    /\ host.state \in {"idle", "busy", "ok", "error"}
    /\ unsure \subseteq McCards \X PageNumbers

\* A page of the image holds what the last complete write or erase of it was
\* told to leave there, whatever was read, written, erased or failed on this
\* and on the other card since, through the page buffer both cards share.
CardHoldsWrites ==
    \A c \in McCards, p \in PageNumbers :
        \/ vmc[c][p] = written[c][p]
        \/ <<c, p>> \in unsure
        \/ host.state \in {"busy", "error"} /\ c = Mc /\ p \in Changed(host)

\* A page read that no failure of the device disturbed gives the host all
\* chunks of the page in order, and then the ECC of these chunks if it asks,
\* however the page was cut into packets and commands.
ReadReturnsPage ==
    (host.state = "ok" /\ host.op = "read" /\ ~host.fault)
        => LET page == vmc[Mc][host.page]
           IN host.got \in {page, Append(page, page)}

\* A card returns what was written to it and loses nothing, although mcemu.c
\* passes the pages of all cards through one buffer; its offsets stay within it.
CardsKeepPages == McTypeOK /\ CardHoldsWrites /\ ReadReturnsPage
=============================================================================
