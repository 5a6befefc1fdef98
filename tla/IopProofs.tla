---------------------------- MODULE IopProofs ----------------------------
(***************************************************************************)
(* What runs beside a game on the I/O processor: the virtual memory cards  *)
(* (McEmu) keep and return the pages of the game, reads by remote          *)
(* procedure (CdReadEE) put the sectors asked for into the caller's        *)
(* memory, and reads of a compressed image (ZsoRead) give the blocks asked *)
(* for: for any cards, memory, image, sizes and number of operations, and  *)
(* any failures.                                                           *)
(***************************************************************************)
EXTENDS McEmu, CdReadEE, ZsoRead, SequenceTheorems, WellFoundedInduction, TLAPS

----------------------------------------------------------------------------
(* The commands of the operation under way.                                *)
All(ecc) == Commands(host.op, host.page, host.data, ecc)
Eccs == {"own", "joined", "none"}

(* The first k commands are done.  What is left is in the packet and in    *)
(* the packets behind it.                                                  *)
Stage(ecc, split, k) ==
    LET n == Len(All(ecc))
    IN  /\ k \in 0 .. n - 1
        /\ split =>
             IF sio.cmds = << >>
             THEN host.rest = [i \in 1 .. n - k |-> <<All(ecc)[k + i]>>]
             ELSE /\ sio.cmds = <<All(ecc)[k + 1]>>
                  /\ host.rest = [i \in 1 .. n - k - 1 |-> <<All(ecc)[k + 1 + i]>>]
        /\ ~split =>
             IF sio.cmds = << >>
             THEN k = 0 /\ host.rest = <<All(ecc)>>
             ELSE sio.cmds = [i \in 1 .. n - k |-> All(ecc)[k + i]] /\ host.rest = << >>

(* The command that moves the last chunk and the ECC is at the ECC.        *)
Again == sio.busy /\ sio.left # sio.tot

(* The chunks moved, and whether the ECC was, when k commands are done.    *)
MovedChunks(k) == IF Again \/ k > McChunks THEN McChunks ELSE k - 1
EccMoved(ecc, k) ==
    /\ ~Again
    /\ \/ ecc = "own" /\ k = McChunks + 2
       \/ ecc = "joined" /\ k = McChunks + 1

(* The move that is under way.                                             *)
MoveFits(ecc, k) ==
    sio.busy =>
        /\ Head(sio.cmds).op \in {"read", "write"}
        /\ sio.tot = Head(sio.cmds).size
        /\ Again => ecc = "joined" /\ k = McChunks /\ sio.left = 16
        /\ ~Again => sio.rdma = << >> /\ sio.buf = Head(sio.cmds).data

(* A page is read in one go: the buffer is that of the page, and what the  *)
(* manager got are its chunks so far.                                      *)
ReadFits(ecc, k) ==
    LET m == MovedChunks(k)
        at == memcards[host.card]
    IN  host.op = "read" /\ k > 0 =>
          /\ at.rdoff = (IF m = McChunks THEN 0 ELSE 128 * m)
          /\ at.rcoff = (IF EccMoved(ecc, k) THEN 0 ELSE 3 * m)
          /\ at.rpage = (IF m = McChunks THEN host.page + 1 ELSE host.page)
          /\ ~host.fault =>
               /\ m > 0 => /\ mcdatabuf = vmc[host.card][host.page]
                           /\ mceccbuf[host.card] = mcdatabuf
               /\ host.got = IF EccMoved(ecc, k) THEN Append(mcdatabuf, mcdatabuf)
                             ELSE SubSeq(mcdatabuf, 1, IF Again THEN m - 1 ELSE m)
               /\ Again => sio.rdma = SubSeq(mcdatabuf, McChunks, McChunks)

(* A page is written in one go: the buffer holds the chunks so far, and    *)
(* the image the page once it was full.                                    *)
WriteFits(ecc, k) ==
    LET m == MovedChunks(k)
        at == memcards[host.card]
    IN  host.op = "write" /\ k > 0 =>
          /\ at.wroff = (IF m = McChunks THEN 0 ELSE 128 * m)
          /\ at.wcoff = (IF EccMoved(ecc, k) THEN 0 ELSE 3 * m)
          /\ at.wpage = (IF m = McChunks THEN host.page + 1 ELSE host.page)
          /\ \A i \in 1 .. m : mcdatabuf[i] = host.data[i]
          /\ m = McChunks /\ ~host.fault => vmc[host.card][host.page] = host.data

EraseFits(k) ==
    host.op = "erase" =>
        /\ host.page % McBlock = 0
        /\ host.data = Repeat(McChunks, McErased)
        /\ k > 0 /\ ~host.fault =>
              \A p \in Changed(host) : vmc[host.card][p] = host.data

(* The first k commands of the operation did what they should, until one   *)
(* of them failed.                                                         *)
Fits(ecc, split, k) ==
    /\ host.op = "erase" => ecc = "none"
    /\ Stage(ecc, split, k) /\ EraseFits(k)
    /\ k = 0 => host.got = << >>
    /\ sio.result => MoveFits(ecc, k) /\ ReadFits(ecc, k) /\ WriteFits(ecc, k)
    /\ ~sio.result => host.fault /\ ~sio.busy

OperationFits ==
    host.state = "busy" =>
        \E ecc \in Eccs, split \in BOOLEAN, k \in 0 .. McChunks + 3 : Fits(ecc, split, k)

Place == [rpage : 0 .. McPages, rdoff : 0 .. PageSize - 1, rcoff : 0 .. 3 * McChunks,
          wpage : 0 .. McPages, wroff : 0 .. PageSize - 1, wcoff : 0 .. 3 * McChunks]

CardTypes ==
    /\ memcards \in [McCards -> Place]
    /\ mcdatabuf \in Page /\ DOMAIN mceccbuf = McCards
    /\ vmc \in [McCards -> [PageNumbers -> Page]]

HostTypes ==
    /\ written \in [McCards -> [PageNumbers -> Page]] /\ unsure \subseteq McCards \X PageNumbers
    /\ DOMAIN sio = {"cmds", "result", "busy", "left", "tot", "buf", "rdma"}
    /\ sio.result \in BOOLEAN /\ sio.busy \in BOOLEAN
    /\ DOMAIN host = {"op", "card", "page", "data", "rest", "got", "state", "fault"}
    /\ host.state \in {"idle", "busy", "ok", "error"} /\ host.fault \in BOOLEAN
    /\ host.state # "idle" =>
          /\ host.op \in {"read", "write", "erase"} /\ host.card \in McCards
          /\ host.page \in PageNumbers /\ host.data \in Page

McTypes == CardTypes /\ HostTypes

(* Between two packets nothing is under way, and an operation that ended   *)
(* has no packets left; one that failed leaves its pages unsure.           *)
Quiet ==
    /\ sio.cmds = << >> => sio.result /\ ~sio.busy /\ sio.rdma = << >>
    /\ ~sio.busy => sio.rdma = << >>
    /\ host.state # "busy" => sio.cmds = << >> /\ host.rest = << >>
    /\ host.state = "error" => {host.card} \X Changed(host) \subseteq unsure

McInv == McTypes /\ Quiet /\ OperationFits /\ CardHoldsWrites /\ ReadReturnsPage

----------------------------------------------------------------------------
CmdOps == {"start_read", "start_write", "erase", "read", "write", "status"}
CmdRecords == [op : CmdOps, size : Int, data : Seq(McData)]

(* Lists of one element, and lists given element by element.               *)
LEMMA OneIsSeq ==
    ASSUME NEW S, NEW x \in S
    PROVE  <<x>> \in Seq(S) /\ Len(<<x>>) = 1 /\ <<x>>[1] = x
OBVIOUS

(* A function on 1 .. n is a list of n elements.                           *)
LEMMA FunIsSeq ==
    ASSUME NEW S, NEW n \in Nat, NEW f \in [1 .. n -> S]
    PROVE  f \in Seq(S) /\ Len(f) = n /\ (f = << >> <=> n = 0)
<1>1. f \in Seq(S) /\ Len(f) = n
  OBVIOUS
<1> QED
  BY <1>1, EmptySeq

(* A command is a record, and a list of one command a list of commands.    *)
LEMMA CommandIs ==
    ASSUME NEW op \in CmdOps, NEW size \in Int, NEW data \in Seq(McData)
    PROVE  /\ McCommand(op, size, data) \in CmdRecords
           /\ <<McCommand(op, size, data)>> \in Seq(CmdRecords)
           /\ Len(<<McCommand(op, size, data)>>) = 1
<1>1. McCommand(op, size, data) \in CmdRecords
  BY DEF McCommand, CmdRecords
<1> DEFINE x == McCommand(op, size, data)
<1> HIDE DEF x
<1>2. <<x>> \in Seq(CmdRecords) /\ Len(<<x>>) = 1
  BY <1>1, OneIsSeq DEF x
<1> QED
  BY <1>1, <1>2 DEF x

(* Where the elements of a concatenation are.                              *)
LEMMA ConcatAt ==
    ASSUME NEW S, NEW s \in Seq(S), NEW t \in Seq(S)
    PROVE  /\ s \o t \in Seq(S) /\ Len(s \o t) = Len(s) + Len(t)
           /\ \A i \in 1 .. Len(s) : (s \o t)[i] = s[i]
           /\ \A i \in 1 .. Len(t) : (s \o t)[Len(s) + i] = t[i]
<1>1. Len(s) \in Nat /\ Len(t) \in Nat
  OBVIOUS
<1>2. \A i \in 1 .. Len(s) + Len(t) : (s \o t)[i] = IF i <= Len(s) THEN s[i] ELSE t[i - Len(s)]
  BY ConcatProperties
<1>3. ASSUME NEW i \in 1 .. Len(t) PROVE (s \o t)[Len(s) + i] = t[i]
  <2>1. Len(s) + i \in 1 .. Len(s) + Len(t) /\ ~(Len(s) + i <= Len(s)) /\ (Len(s) + i) - Len(s) = i
    BY <1>1
  <2> QED
    BY <1>2, <2>1
<1> QED
  BY <1>1, <1>2, <1>3, ConcatProperties

(* The same for lists of commands.                                         *)
LEMMA ConcatCommands ==
    \A s, t \in Seq(CmdRecords) :
        /\ s \o t \in Seq(CmdRecords) /\ Len(s \o t) = Len(s) + Len(t)
        /\ \A i \in 1 .. Len(s) : (s \o t)[i] = s[i]
        /\ \A i \in 1 .. Len(t) : (s \o t)[Len(s) + i] = t[i]
BY ConcatAt

(* The commands c of an operation.                                         *)
AreCommands(op, p, d, ecc, c) ==
    /\ c \in Seq(CmdRecords) /\ Len(c) >= 2
    /\ c[Len(c)] = McCommand("status", 0, << >>)
    /\ op = "erase" => Len(c) = 2 /\ c[1] = McCommand("erase", p, << >>)
    /\ op # "erase" =>
          /\ Len(c) = McChunks + (IF ecc = "own" THEN 3 ELSE 2)
          /\ c[1] = McCommand(IF op = "read" THEN "start_read" ELSE "start_write", p, << >>)
          /\ \A i \in 1 .. McChunks :
                c[i + 1] = McCommand(op, IF i = McChunks /\ ecc = "joined" THEN 144 ELSE 128,
                                     <<d[i]>>)
          /\ ecc = "own" => c[McChunks + 2] = McCommand(op, 16, << >>)

(* What the manager sends for an operation, command by command.            *)
LEMMA CommandsAre ==
    ASSUME NEW op \in {"read", "write", "erase"}, NEW p \in PageNumbers, NEW d \in Page, NEW ecc \in Eccs
    PROVE  AreCommands(op, p, d, ecc, Commands(op, p, d, ecc))
<1> USE McConstants
<1> DEFINE size(i) == IF i = McChunks /\ ecc = "joined" THEN 144 ELSE 128
           chunks == [i \in 1 .. McChunks |-> McCommand(op, size(i), <<d[i]>>)]
           own == IF ecc = "own" THEN <<McCommand(op, 16, << >>)>> ELSE << >>
           first == <<McCommand(IF op = "read" THEN "start_read" ELSE "start_write", p, << >>)>>
           status == <<McCommand("status", 0, << >>)>>
<1>1. p \in Int /\ \A i \in 1 .. McChunks : d[i] \in McData
  BY DEF PageNumbers, Page
<1>2. /\ status \in Seq(CmdRecords) /\ Len(status) = 1 /\ status[1] = McCommand("status", 0, << >>)
      /\ first \in Seq(CmdRecords) /\ Len(first) = 1
      /\ own \in Seq(CmdRecords) /\ Len(own) = (IF ecc = "own" THEN 1 ELSE 0)
      /\ <<McCommand("erase", p, << >>)>> \in Seq(CmdRecords)
      /\ Len(<<McCommand("erase", p, << >>)>>) = 1
  <2>1. << >> \in Seq(McData) /\ p \in Int /\ 16 \in Int /\ 0 \in Int
    BY <1>1
  <2>2. {"status", "erase", "start_read", "start_write"} \subseteq CmdOps /\ op \in CmdOps
    BY DEF CmdOps
  <2>3. status \in Seq(CmdRecords) /\ Len(status) = 1
    BY <2>1, <2>2, CommandIs
  <2>4. first \in Seq(CmdRecords) /\ Len(first) = 1
    BY <2>1, <2>2, CommandIs
  <2>5. own \in Seq(CmdRecords) /\ Len(own) = (IF ecc = "own" THEN 1 ELSE 0)
    <3>1. <<McCommand(op, 16, << >>)>> \in Seq(CmdRecords) /\ Len(<<McCommand(op, 16, << >>)>>) = 1
      BY <2>1, <2>2, CommandIs
    <3> QED
      BY <3>1
  <2>6. <<McCommand("erase", p, << >>)>> \in Seq(CmdRecords) /\ Len(<<McCommand("erase", p, << >>)>>) = 1
    BY <2>1, <2>2, CommandIs
  <2> QED
    BY <2>3, <2>4, <2>5, <2>6
<1>3. chunks \in Seq(CmdRecords) /\ Len(chunks) = McChunks
  <2>1. \A i \in 1 .. McChunks : McCommand(op, size(i), <<d[i]>>) \in CmdRecords
    <3> TAKE i \in 1 .. McChunks
    <3>1. size(i) \in Int /\ op \in CmdOps
      BY DEF CmdOps
    <3>2. <<d[i]>> \in Seq(McData)
      BY <1>1, OneIsSeq
    <3> HIDE DEF size
    <3> QED
      BY <3>1, <3>2, CommandIs
  <2>2. chunks \in [1 .. McChunks -> CmdRecords]
    BY <2>1
  <2> HIDE DEF chunks
  <2> QED
    BY <2>2, FunIsSeq
<1>4. CASE op = "erase"
  <2>1. Commands(op, p, d, ecc) = <<McCommand("erase", p, << >>)>> \o status
    BY <1>4 DEF Commands
  <2> QED
    BY <1>2, <1>4, <2>1 DEF AreCommands
<1>5. CASE op # "erase"
  <2>1. Commands(op, p, d, ecc) = (first \o (chunks \o own)) \o status
    BY <1>5 DEF Commands, Moves
  <2>2. /\ chunks \o own \in Seq(CmdRecords)
        /\ Len(chunks \o own) = McChunks + (IF ecc = "own" THEN 1 ELSE 0)
        /\ \A i \in 1 .. McChunks : (chunks \o own)[i] = chunks[i]
        /\ ecc = "own" => (chunks \o own)[McChunks + 1] = own[1]
    <3> HIDE DEF chunks, own
    <3>1. chunks \in Seq(CmdRecords) /\ own \in Seq(CmdRecords) /\ Len(chunks) = McChunks
          /\ Len(own) = (IF ecc = "own" THEN 1 ELSE 0)
      BY <1>2, <1>3
    <3> QED BY <3>1, ConcatAt
  <2>3. /\ first \o (chunks \o own) \in Seq(CmdRecords)
        /\ Len(first \o (chunks \o own)) = McChunks + (IF ecc = "own" THEN 2 ELSE 1)
        /\ (first \o (chunks \o own))[1] = first[1]
        /\ \A i \in 1 .. McChunks : (first \o (chunks \o own))[i + 1] = chunks[i]
        /\ ecc = "own" => (first \o (chunks \o own))[McChunks + 2] = own[1]
    <3> DEFINE moves == chunks \o own
    <3> HIDE DEF chunks, own, first, moves
    <3>1. moves \in Seq(CmdRecords) /\ first \in Seq(CmdRecords) /\ Len(first) = 1
          /\ Len(moves) = McChunks + (IF ecc = "own" THEN 1 ELSE 0)
      BY <1>2, <2>2 DEF moves
    <3>2. /\ first \o moves \in Seq(CmdRecords) /\ Len(first \o moves) = 1 + Len(moves)
          /\ \A i \in 1 .. 1 : (first \o moves)[i] = first[i]
          /\ \A i \in 1 .. Len(moves) : (first \o moves)[1 + i] = moves[i]
      <4>0. first \in Seq(CmdRecords) /\ moves \in Seq(CmdRecords)
        BY <3>1
      <4>1. /\ first \o moves \in Seq(CmdRecords) /\ Len(first \o moves) = Len(first) + Len(moves)
            /\ \A i \in 1 .. Len(first) : (first \o moves)[i] = first[i]
            /\ \A i \in 1 .. Len(moves) : (first \o moves)[Len(first) + i] = moves[i]
        BY <4>0, ConcatCommands, Zenon
      <4>2. Len(first) = 1
        BY <3>1
      <4> QED
        BY <4>1, <4>2, Zenon
    <3>3. \A i \in 1 .. McChunks : i \in 1 .. Len(moves) /\ 1 + i = i + 1
      BY <3>1
    <3>4. ecc = "own" => McChunks + 1 \in 1 .. Len(moves) /\ 1 + (McChunks + 1) = McChunks + 2
      BY <3>1
    <3>5. /\ \A i \in 1 .. McChunks : moves[i] = chunks[i]
          /\ ecc = "own" => moves[McChunks + 1] = own[1]
      BY <2>2 DEF moves
    <3>6. \A i \in 1 .. McChunks : (first \o moves)[i + 1] = chunks[i]
      BY <3>2, <3>3, <3>5
    <3>7. ecc = "own" => (first \o moves)[McChunks + 2] = own[1]
      BY <3>2, <3>4, <3>5
    <3>8. Len(first \o moves) = McChunks + (IF ecc = "own" THEN 2 ELSE 1) /\ (first \o moves)[1] = first[1]
      BY <3>1, <3>2
    <3> QED BY <3>2, <3>6, <3>7, <3>8 DEF moves
  <2>4. LET c == Commands(op, p, d, ecc)
        IN  /\ c \in Seq(CmdRecords) /\ Len(c) = McChunks + (IF ecc = "own" THEN 3 ELSE 2)
            /\ c[Len(c)] = status[1] /\ c[1] = first[1]
            /\ \A i \in 1 .. McChunks : c[i + 1] = chunks[i]
            /\ ecc = "own" => c[McChunks + 2] = own[1]
    <3> DEFINE front == first \o (chunks \o own)
    <3> HIDE DEF chunks, own, first, status, front
    <3>1. front \in Seq(CmdRecords) /\ status \in Seq(CmdRecords) /\ Len(status) = 1
          /\ Len(front) = McChunks + (IF ecc = "own" THEN 2 ELSE 1)
      BY <1>2, <2>3 DEF front
    <3>2. /\ front \o status \in Seq(CmdRecords) /\ Len(front \o status) = Len(front) + 1
          /\ \A i \in 1 .. Len(front) : (front \o status)[i] = front[i]
          /\ \A i \in 1 .. 1 : (front \o status)[Len(front) + i] = status[i]
      <4>0. front \in Seq(CmdRecords) /\ status \in Seq(CmdRecords)
        BY <3>1
      <4>1. /\ front \o status \in Seq(CmdRecords) /\ Len(front \o status) = Len(front) + Len(status)
            /\ \A i \in 1 .. Len(front) : (front \o status)[i] = front[i]
            /\ \A i \in 1 .. Len(status) : (front \o status)[Len(front) + i] = status[i]
        BY <4>0, ConcatCommands, Zenon
      <4>2. Len(status) = 1
        BY <3>1
      <4> QED
        BY <4>1, <4>2, Zenon
    <3>3. \A i \in 1 .. McChunks : i + 1 \in 1 .. Len(front) /\ front[i + 1] = chunks[i]
      BY <2>3, <3>1 DEF front
    <3>4. ecc = "own" => McChunks + 2 \in 1 .. Len(front) /\ front[McChunks + 2] = own[1]
      BY <2>3, <3>1 DEF front
    <3>5. 1 \in 1 .. Len(front) /\ front[1] = first[1]
      BY <2>3, <3>1 DEF front
    <3>6. Commands(op, p, d, ecc) = front \o status
      BY <2>1 DEF front
    <3>7. Len(front \o status) = McChunks + (IF ecc = "own" THEN 3 ELSE 2)
      BY <3>1, <3>2
    <3> QED BY <3>1, <3>2, <3>3, <3>4, <3>5, <3>6, <3>7
  <2> QED
    BY <1>2, <1>5, <2>4 DEF AreCommands
<1> QED
  BY <1>4, <1>5

(* Where the packet and those behind it are.                               *)
LEMMA StageHead ==
    ASSUME NEW ecc \in Eccs, NEW split \in BOOLEAN, NEW k, Stage(ecc, split, k),
           All(ecc) \in Seq(CmdRecords), sio.cmds # << >>
    PROVE  /\ Head(sio.cmds) = All(ecc)[k + 1] /\ Len(sio.cmds) \in Nat /\ k \in Nat
           /\ k + 1 = Len(All(ecc)) <=> Len(sio.cmds) = 1 /\ host.rest = << >>
           /\ Len(sio.cmds) # 1 => ~split /\ Tail(sio.cmds) # << >>
           /\ Len(sio.cmds) = 1 => Tail(sio.cmds) = << >>
           /\ Len(sio.cmds) # 1 => Tail(sio.cmds) = [i \in 1 .. Len(All(ecc)) - (k + 1) |-> All(ecc)[(k + 1) + i]]
           /\ split => host.rest = [i \in 1 .. Len(All(ecc)) - (k + 1) |-> <<All(ecc)[(k + 1) + i]>>]
           /\ ~split => host.rest = << >>
           /\ Len(sio.cmds) = 1 /\ k + 1 # Len(All(ecc)) => split
<1> DEFINE n == Len(All(ecc))
<1>1. n \in Nat /\ k \in 0 .. n - 1
  BY DEF Stage
<1>2. CASE split
  <2>1. sio.cmds = <<All(ecc)[k + 1]>> /\ host.rest = [i \in 1 .. n - k - 1 |-> <<All(ecc)[k + 1 + i]>>]
    BY <1>2 DEF Stage
  <2>2. Len(sio.cmds) = 1 /\ Head(sio.cmds) = All(ecc)[k + 1] /\ Tail(sio.cmds) = << >>
    BY <2>1
  <2>3. host.rest = << >> <=> n - k - 1 = 0
    <3>1. n - k - 1 \in Nat /\ \A i \in 1 .. n - k - 1 : <<All(ecc)[k + 1 + i]>> \in Seq(CmdRecords)
      BY <1>1
    <3> DEFINE r == [i \in 1 .. n - k - 1 |-> <<All(ecc)[k + 1 + i]>>]
    <3>2. r \in [1 .. n - k - 1 -> Seq(CmdRecords)]
      BY <3>1
    <3> HIDE DEF r
    <3>3. r = << >> <=> n - k - 1 = 0
      BY <3>1, <3>2, FunIsSeq
    <3> QED
      BY <2>1, <3>3 DEF r
  <2> QED
    BY <1>1, <1>2, <2>1, <2>2, <2>3
<1>3. CASE ~split
  <2>1. sio.cmds = [i \in 1 .. n - k |-> All(ecc)[k + i]] /\ host.rest = << >>
    BY <1>3 DEF Stage
  <2>2. sio.cmds \in Seq(CmdRecords) /\ Len(sio.cmds) = n - k /\ n - k >= 1
    BY <1>1, <2>1
  <2>3. Head(sio.cmds) = All(ecc)[k + 1]
    BY <1>1, <2>1, <2>2
  <2>4. /\ Tail(sio.cmds) \in Seq(CmdRecords) /\ Len(Tail(sio.cmds)) = n - k - 1
        /\ \A i \in 1 .. n - k - 1 : Tail(sio.cmds)[i] = All(ecc)[(k + 1) + i]
    BY <1>1, <2>1, <2>2
  <2>5. n - k - 1 = 0 => Tail(sio.cmds) = << >>
    BY <2>4
  <2>6. n - k - 1 # 0 => Tail(sio.cmds) # << >>
    BY <2>4
  <2>7. Tail(sio.cmds) = [i \in 1 .. n - (k + 1) |-> All(ecc)[(k + 1) + i]]
    <3> DEFINE t == [i \in 1 .. n - (k + 1) |-> All(ecc)[(k + 1) + i]]
    <3>1. n - (k + 1) \in Nat /\ n - (k + 1) = n - k - 1
          /\ \A i \in 1 .. n - (k + 1) : All(ecc)[(k + 1) + i] \in CmdRecords
      BY <1>1
    <3>2. t \in Seq(CmdRecords) /\ Len(t) = n - (k + 1)
      BY <3>1
    <3>3. \A i \in 1 .. n - (k + 1) : t[i] = All(ecc)[(k + 1) + i]
      OBVIOUS
    <3>4. Tail(sio.cmds) = t
      <4> HIDE DEF t
      <4>1. \A i \in 1 .. Len(t) : Tail(sio.cmds)[i] = t[i]
        BY <2>4, <3>1, <3>2, <3>3
      <4> QED
        BY <2>4, <3>1, <3>2, <4>1, SeqEqual
    <3> QED
      BY <3>4
  <2> QED
    BY <1>1, <1>3, <2>1, <2>2, <2>3, <2>5, <2>6, <2>7
<1> QED
  BY <1>2, <1>3

(* The pages of a block are pages of the card.                             *)
LEMMA BlockInCard ==
    ASSUME NEW p \in PageNumbers, p % McBlock = 0
    PROVE  p .. p + McBlock - 1 \subseteq PageNumbers
<1> USE McConstants
<1>1. PICK q \in Int : p = McBlock * q
  BY DEF PageNumbers
<1>2. PICK r \in Int : McPages = McBlock * r
  OBVIOUS
<1>3. q < r
  <2>1. McBlock * q < McBlock * r
    BY <1>1, <1>2 DEF PageNumbers
  <2> QED
    BY <2>1
<1>4. McBlock * (q + 1) <= McBlock * r
  BY <1>3
<1>5. p + McBlock <= McPages
  BY <1>1, <1>2, <1>4
<1> QED
  BY <1>5 DEF PageNumbers

(* The command that is executed.                                           *)
LEMMA CommandAt ==
    ASSUME McTypes, host.state = "busy", NEW ecc \in Eccs, NEW split \in BOOLEAN, NEW k,
           Fits(ecc, split, k), sio.cmds # << >>
    PROVE  LET n == Len(All(ecc))
               x == Head(sio.cmds)
           IN  /\ All(ecc) \in Seq(CmdRecords) /\ n \in Nat /\ k \in 0 .. n - 1 /\ n <= McChunks + 3
               /\ host.op = "erase" => n = 2
               /\ host.op # "erase" => n = McChunks + (IF ecc = "own" THEN 3 ELSE 2)
               /\ x.op \in CmdOps /\ (x.op = "status" <=> k + 1 = n)
               /\ x.op = "start_read" => k = 0 /\ host.op = "read" /\ x.size = host.page
               /\ x.op = "start_write" => k = 0 /\ host.op = "write" /\ x.size = host.page
               /\ x.op = "erase" => k = 0 /\ host.op = "erase" /\ x.size = host.page
               /\ x.op \in {"read", "write"} =>
                     /\ host.op = x.op /\ k \in 1 .. n - 2
                     /\ \/ /\ k \in 1 .. McChunks /\ x.data = <<host.data[k]>>
                           /\ x.size = (IF k = McChunks /\ ecc = "joined" THEN 144 ELSE 128)
                        \/ k = McChunks + 1 /\ ecc = "own" /\ x.size = 16 /\ x.data = << >>
<1> DEFINE n == Len(All(ecc))
           x == Head(sio.cmds)
<1> USE McConstants
<1>1. host.op \in {"read", "write", "erase"} /\ host.page \in PageNumbers /\ host.data \in Page
  BY DEF McTypes, HostTypes
<1>2. AreCommands(host.op, host.page, host.data, ecc, All(ecc))
  BY <1>1, CommandsAre DEF All
<1> USE DEF AreCommands
<1>3. Stage(ecc, split, k)
  BY DEF Fits
<1>4. n \in Nat /\ k \in 0 .. n - 1
  BY <1>2, <1>3 DEF Stage
<1>5. x = All(ecc)[k + 1]
  <2>1. All(ecc) \in Seq(CmdRecords)
    BY <1>2
  <2> QED
    BY <1>3, <2>1, StageHead
<1>6. n <= McChunks + 3 /\ (host.op = "erase" => n = 2)
      /\ (host.op # "erase" => n = McChunks + (IF ecc = "own" THEN 3 ELSE 2))
  BY <1>1, <1>2 DEF Eccs
<1>7. CASE k + 1 = n
  <2>1. x = McCommand("status", 0, << >>)
    BY <1>2, <1>5, <1>7
  <2>2. x.op = "status"
    BY <2>1 DEF McCommand
  <2> HIDE DEF x, n
  <2> QED
    BY <1>2, <1>4, <1>6, <1>7, <2>2 DEF CmdOps, x, n
<1>8. CASE k + 1 # n /\ k = 0
  <2>1. x = McCommand(IF host.op = "erase" THEN "erase" ELSE IF host.op = "read" THEN "start_read" ELSE "start_write",
                      host.page, << >>)
    BY <1>1, <1>2, <1>5, <1>8
  <2>2. /\ x.op = (IF host.op = "erase" THEN "erase" ELSE IF host.op = "read" THEN "start_read" ELSE "start_write")
        /\ x.size = host.page
    BY <2>1 DEF McCommand
  <2> HIDE DEF x, n
  <2> QED
    BY <1>1, <1>2, <1>4, <1>6, <1>8, <2>2 DEF CmdOps, x, n
<1>9. CASE k + 1 # n /\ k # 0
  <2>1. host.op \in {"read", "write"} /\ k \in 1 .. n - 2
    <3> HIDE DEF n
    <3> QED
      BY <1>1, <1>4, <1>6, <1>9
  <2>2. CASE k \in 1 .. McChunks
    <3>1. x = McCommand(host.op, IF k = McChunks /\ ecc = "joined" THEN 144 ELSE 128, <<host.data[k]>>)
      BY <1>2, <1>5, <2>1, <2>2
    <3>2. /\ x.op = host.op /\ x.data = <<host.data[k]>>
          /\ x.size = (IF k = McChunks /\ ecc = "joined" THEN 144 ELSE 128)
      BY <3>1 DEF McCommand
    <3> HIDE DEF x, n
    <3> QED
      BY <1>2, <1>4, <1>6, <1>9, <2>1, <2>2, <3>2 DEF CmdOps, x, n
  <2>3. CASE k \notin 1 .. McChunks
    <3>1. k = McChunks + 1 /\ ecc = "own"
      BY <1>4, <1>6, <2>1, <2>3
    <3>2. x = McCommand(host.op, 16, << >>)
      BY <1>2, <1>5, <2>1, <3>1
    <3>3. x.op = host.op /\ x.data = << >> /\ x.size = 16
      BY <3>2 DEF McCommand
    <3> HIDE DEF x, n
    <3> QED
      BY <1>2, <1>4, <1>6, <1>9, <2>1, <3>1, <3>3 DEF CmdOps, x, n
  <2> QED
    BY <2>2, <2>3
<1> QED
  BY <1>7, <1>8, <1>9

(* What the end of a command leaves: the operation goes on with the next   *)
(* one, is complete, or was given up.                                      *)
AnswerLeaves(rdma, fault) ==
    /\ sio'.cmds = Tail(sio.cmds) /\ sio'.busy = FALSE /\ sio'.rdma = << >> /\ sio'.result \in BOOLEAN
    /\ DOMAIN sio' = {"cmds", "result", "busy", "left", "tot", "buf", "rdma"}
    /\ host'.op = host.op /\ host'.card = host.card
    /\ host'.page = host.page /\ host'.data = host.data
    /\ host'.got = host.got \o rdma /\ host'.fault = (host.fault \/ fault)
    /\ DOMAIN host' = {"op", "card", "page", "data", "rest", "got", "state", "fault"}
    /\ sio'.cmds = << >> => sio'.result

GoesOn(result, ecc, split, k) ==
    /\ host'.state = "busy" /\ k + 1 < Len(All(ecc)) /\ Stage(ecc, split, k + 1)'
    /\ sio'.result = result /\ unsure' = unsure /\ written' = written

Pages == {host.card} \X Changed(host)
Leaves(state) ==
    /\ host'.state = state /\ sio'.cmds = << >> /\ host'.rest = << >>
    /\ unsure' = (IF host'.fault THEN unsure \cup Pages ELSE unsure \ Pages)

Completes(ecc, k) ==
    /\ k + 1 = Len(All(ecc)) /\ Leaves("ok")
    /\ written' = [written EXCEPT ![host.card] =
                     [p \in PageNumbers |-> IF p \in Changed(host) THEN host.data ELSE @[p]]]

GivesUp == Leaves("error") /\ written' = written

(* A command that ends leaves its operation at the next command, completes *)
(* it, or ends it with an error.                                           *)
LEMMA AnswerIs ==
    ASSUME McTypes, host.state = "busy", NEW ecc \in Eccs, NEW split \in BOOLEAN, NEW k,
           Fits(ecc, split, k), sio.cmds # << >>,
           NEW result \in BOOLEAN, NEW rdma, NEW fault \in BOOLEAN, Answer(result, rdma, fault)
    PROVE  /\ AnswerLeaves(rdma, fault)
           /\ \/ GoesOn(result, ecc, split, k)
              \/ result /\ Completes(ecc, k)
              \/ ~result /\ GivesUp
<1> DEFINE n == Len(All(ecc))
           last == Len(sio.cmds) = 1
<1>1. All(ecc) \in Seq(CmdRecords) /\ n \in Nat /\ k \in 0 .. n - 1
  BY CommandAt
<1>2. /\ Head(sio.cmds) = All(ecc)[k + 1] /\ Len(sio.cmds) \in Nat /\ k \in Nat
      /\ k + 1 = n <=> last /\ host.rest = << >>
      /\ ~last => ~split /\ Tail(sio.cmds) # << >>
      /\ last => Tail(sio.cmds) = << >>
      /\ ~last => Tail(sio.cmds) = [i \in 1 .. n - (k + 1) |-> All(ecc)[(k + 1) + i]]
      /\ split => host.rest = [i \in 1 .. n - (k + 1) |-> <<All(ecc)[(k + 1) + i]>>]
      /\ ~split => host.rest = << >>
      /\ last /\ k + 1 # n => split
  <2>1. Stage(ecc, split, k)
    BY DEF Fits
  <2> QED
    BY <1>1, <2>1, StageHead
<1>3. sio' = [NoPacket EXCEPT !.cmds = Tail(sio.cmds), !.result = last \/ result]
  BY DEF Answer
<1>4. /\ host' = [host EXCEPT
                  !.got = @ \o rdma,
                  !.fault = @ \/ fault,
                  !.rest = IF last /\ ~result THEN << >> ELSE @,
                  !.state = IF ~last THEN @
                            ELSE IF ~result THEN "error"
                            ELSE IF host.rest = << >> THEN "ok" ELSE @]
  BY DEF Answer
<1>5. /\ sio'.cmds = Tail(sio.cmds) /\ sio'.busy = FALSE /\ sio'.rdma = << >> /\ sio'.result = (last \/ result)
      /\ DOMAIN sio' = {"cmds", "result", "busy", "left", "tot", "buf", "rdma"}
  BY <1>3 DEF NoPacket
<1>6. /\ host'.op = host.op /\ host'.card = host.card
      /\ host'.page = host.page /\ host'.data = host.data
      /\ host'.got = host.got \o rdma /\ host'.fault = (host.fault \/ fault)
      /\ host'.rest = (IF last /\ ~result THEN << >> ELSE host.rest)
      /\ host'.state = (IF ~last THEN "busy"
                        ELSE IF ~result THEN "error"
                        ELSE IF host.rest = << >> THEN "ok" ELSE "busy")
      /\ DOMAIN host' = {"op", "card", "page", "data", "rest", "got", "state", "fault"}
  BY <1>4 DEF McTypes, HostTypes
<1>7. Changed(host') = Changed(host) /\ All(ecc)' = All(ecc)
  BY <1>6 DEF Changed, All
<1>8. /\ unsure' = (IF host'.state # "busy" /\ host'.fault THEN unsure \cup Pages
                    ELSE IF host'.state # "busy" THEN unsure \ Pages ELSE unsure)
      /\ written' = (IF host'.state = "ok"
                     THEN [written EXCEPT ![host.card] =
                             [p \in PageNumbers |-> IF p \in Changed(host) THEN host.data ELSE @[p]]]
                     ELSE written)
  <2>1. /\ unsure' = (IF host'.state # "busy" /\ host'.fault THEN unsure \cup ({host.card} \X Changed(host'))
                      ELSE IF host'.state # "busy" THEN unsure \ ({host.card} \X Changed(host')) ELSE unsure)
        /\ written' = (IF host'.state # "busy" /\ host'.state = "ok"
                       THEN [written EXCEPT ![host.card] =
                               [p \in PageNumbers |-> IF p \in Changed(host') THEN host'.data ELSE @[p]]]
                       ELSE written)
    <3> DEFINE now == [host EXCEPT
                  !.got = @ \o rdma,
                  !.fault = @ \/ fault,
                  !.rest = IF last /\ ~result THEN << >> ELSE @,
                  !.state = IF ~last THEN @
                            ELSE IF ~result THEN "error"
                            ELSE IF host.rest = << >> THEN "ok" ELSE @]
    <3>1. /\ unsure' = (IF now.state # "busy" /\ now.fault THEN unsure \cup ({host.card} \X Changed(now))
                        ELSE IF now.state # "busy" THEN unsure \ ({host.card} \X Changed(now)) ELSE unsure)
          /\ written' = (IF now.state # "busy" /\ now.state = "ok"
                         THEN [written EXCEPT ![host.card] =
                                 [p \in PageNumbers |-> IF p \in Changed(now) THEN now.data ELSE @[p]]]
                         ELSE written)
      BY Zenon DEF Answer, Mc
    <3>2. now = host'
      BY <1>4
    <3> HIDE DEF now
    <3> QED
      BY <3>1, <3>2, Zenon
  <2> QED
    BY <1>6, <1>7, <2>1 DEF Pages
<1>9. AnswerLeaves(rdma, fault)
  BY <1>2, <1>5, <1>6 DEF AnswerLeaves
<1>10. CASE ~last
  <2>1. k + 1 < n /\ k + 1 \in 0 .. n - 1
    BY <1>1, <1>2, <1>10
  <2>2. Stage(ecc, split, k + 1)'
    <3>1. sio'.cmds # << >> /\ host'.rest = << >> /\ ~split
      BY <1>2, <1>5, <1>6, <1>10
    <3>2. sio'.cmds = [i \in 1 .. n - (k + 1) |-> All(ecc)[(k + 1) + i]]
      BY <1>2, <1>5, <1>10
    <3> QED
      BY <1>7, <2>1, <3>1, <3>2 DEF Stage
  <2> QED
    BY <1>5, <1>6, <1>8, <1>9, <1>10, <2>1, <2>2 DEF GoesOn
<1>11. CASE last /\ ~result
  BY <1>2, <1>5, <1>6, <1>8, <1>9, <1>11 DEF GivesUp, Leaves
<1>12. CASE last /\ result /\ host.rest = << >>
  BY <1>2, <1>5, <1>6, <1>8, <1>9, <1>12 DEF Completes, Leaves
<1>13. CASE last /\ result /\ host.rest # << >>
  <2>1. k + 1 < n /\ k + 1 \in 0 .. n - 1 /\ split
    BY <1>1, <1>2, <1>13
  <2>2. Stage(ecc, split, k + 1)'
    <3>1. sio'.cmds = << >> /\ host'.rest = [i \in 1 .. n - (k + 1) |-> <<All(ecc)[(k + 1) + i]>>]
      BY <1>2, <1>5, <1>6, <1>13, <2>1
    <3> QED
      BY <1>7, <2>1, <3>1 DEF Stage
  <2> QED
    BY <1>5, <1>6, <1>8, <1>9, <1>13, <2>1, <2>2 DEF GoesOn
<1> QED
  BY <1>10, <1>11, <1>12, <1>13

(* Before an operation is complete, every page but those it changes holds  *)
(* what it should, and the other parts of the invariant.                   *)
LEMMA AnswerKeeps ==
    ASSUME McInv, host.state = "busy", NEW ecc \in Eccs, NEW split \in BOOLEAN, NEW k,
           Fits(ecc, split, k), sio.cmds # << >>,
           NEW result \in BOOLEAN, NEW rdma, NEW fault \in BOOLEAN, Answer(result, rdma, fault),
           CardTypes', result \/ host.fault \/ fault,
           \A c \in McCards, p \in PageNumbers : <<c, p>> \notin Pages => vmc'[c][p] = vmc[c][p]
    PROVE  McTypes' /\ Quiet' /\ (host'.state # "ok" => CardHoldsWrites' /\ ReadReturnsPage')
<1> USE McConstants
<1>1. /\ AnswerLeaves(rdma, fault)
      /\ \/ GoesOn(result, ecc, split, k)
         \/ result /\ Completes(ecc, k)
         \/ ~result /\ GivesUp
  BY AnswerIs DEF McInv
<1>2. /\ host.op \in {"read", "write", "erase"} /\ host.card \in McCards
      /\ host.page \in PageNumbers /\ host.data \in Page /\ host.fault \in BOOLEAN
      /\ written \in [McCards -> [PageNumbers -> Page]] /\ unsure \subseteq McCards \X PageNumbers
  BY DEF McInv, McTypes, HostTypes
<1>3. Changed(host) \subseteq PageNumbers
  <2>1. host.op = "erase" => host.page % McBlock = 0
    BY DEF Fits, EraseFits
  <2> QED
    BY <1>2, <2>1, BlockInCard DEF Changed
<1>4. Pages \subseteq McCards \X PageNumbers
  BY <1>2, <1>3 DEF Pages
<1>5. unsure' \subseteq McCards \X PageNumbers
  BY <1>1, <1>2, <1>4 DEF GoesOn, Completes, GivesUp, Leaves
<1>6. written' \in [McCards -> [PageNumbers -> Page]]
  BY <1>1, <1>2 DEF GoesOn, Completes, GivesUp
<1>7. host'.state \in {"busy", "ok", "error"}
  BY <1>1 DEF GoesOn, Completes, GivesUp, Leaves
<1>8. McTypes'
  <2>1. sio'.busy \in BOOLEAN /\ host'.fault \in BOOLEAN /\ sio'.result \in BOOLEAN
    BY <1>1, <1>2 DEF AnswerLeaves
  <2> QED
    BY <1>1, <1>2, <1>5, <1>6, <1>7, <2>1 DEF McTypes, HostTypes, AnswerLeaves
<1>9. Changed(host)' = Changed(host)
  BY <1>1 DEF AnswerLeaves, Changed
<1>10. Quiet'
  <2>1. host'.state # "busy" => sio'.cmds = << >> /\ host'.rest = << >>
    BY <1>1 DEF GoesOn, Completes, GivesUp, Leaves
  <2>2. host'.state = "error" => Pages \subseteq unsure'
    BY <1>1, <1>2 DEF GoesOn, Completes, GivesUp, Leaves, AnswerLeaves
  <2> QED
    BY <1>1, <1>9, <2>1, <2>2 DEF Quiet, AnswerLeaves, Pages
<1>11. ASSUME host'.state # "ok" PROVE CardHoldsWrites' /\ ReadReturnsPage'
  <2>1. written' = written /\ unsure \subseteq unsure' \cup Pages /\ host'.state \in {"busy", "error"}
    BY <1>1, <1>11 DEF GoesOn, Completes, GivesUp, Leaves
  <2>2. ASSUME NEW c \in McCards, NEW p \in PageNumbers, <<c, p>> \notin Pages
        PROVE  vmc'[c][p] = written'[c][p] \/ <<c, p>> \in unsure'
    <3>1. vmc[c][p] = written[c][p] \/ <<c, p>> \in unsure
      BY <2>2 DEF McInv, CardHoldsWrites, Mc, Pages
    <3> QED
      BY <2>1, <2>2, <3>1
  <2>3. ASSUME NEW c \in McCards, NEW p \in PageNumbers, <<c, p>> \in Pages
        PROVE  c = Mc' /\ p \in Changed(host)'
    BY <1>1, <1>9, <2>3 DEF Mc, Pages, AnswerLeaves
  <2>4. CardHoldsWrites'
    BY <2>1, <2>2, <2>3 DEF CardHoldsWrites
  <2> QED
    BY <1>11, <2>4 DEF ReadReturnsPage
<1> QED
  BY <1>8, <1>10, <1>11

(* A command that is not the last one of its operation.                    *)
LEMMA StepKeeps ==
    ASSUME McInv, host.state = "busy", NEW ecc \in Eccs, NEW split \in BOOLEAN, NEW k,
           Fits(ecc, split, k), sio.cmds # << >>, Head(sio.cmds).op # "status",
           NEW result \in BOOLEAN, NEW rdma, NEW fault \in BOOLEAN, Answer(result, rdma, fault),
           CardTypes', result \/ host.fault \/ fault,
           \A c \in McCards, p \in PageNumbers : <<c, p>> \notin Pages => vmc'[c][p] = vmc[c][p],
           host.op = "erase" /\ ~(host.fault \/ fault) =>
               \A p \in Changed(host) : vmc'[host.card][p] = host.data,
           AnswerLeaves(rdma, fault) /\ result => ReadFits(ecc, k + 1)' /\ WriteFits(ecc, k + 1)'
    PROVE  McInv'
<1> USE McConstants
<1>1. /\ AnswerLeaves(rdma, fault)
      /\ \/ GoesOn(result, ecc, split, k)
         \/ result /\ Completes(ecc, k)
         \/ ~result /\ GivesUp
  BY AnswerIs DEF McInv
<1>2. k \in Nat /\ k + 1 # Len(All(ecc)) /\ Len(All(ecc)) \in Nat /\ Len(All(ecc)) <= McChunks + 3
  BY CommandAt DEF McInv
<1>3. host'.state # "ok"
  BY <1>1, <1>2 DEF GoesOn, Completes, GivesUp, Leaves
<1>4. McTypes' /\ Quiet' /\ CardHoldsWrites' /\ ReadReturnsPage'
  BY <1>3, AnswerKeeps
<1>5. ASSUME host'.state = "busy" PROVE Fits(ecc, split, k + 1)'
  <2>1. GoesOn(result, ecc, split, k)
    BY <1>1, <1>5 DEF Completes, GivesUp, Leaves
  <2>2. Changed(host)' = Changed(host)
    BY <1>1 DEF AnswerLeaves, Changed
  <2>3. EraseFits(k + 1)'
    BY <1>1, <2>2 DEF Fits, EraseFits, AnswerLeaves
  <2>4. MoveFits(ecc, k + 1)'
    BY <1>1 DEF MoveFits, AnswerLeaves
  <2>5. k + 1 # 0
    BY <1>2
  <2>6. sio'.result => ReadFits(ecc, k + 1)' /\ WriteFits(ecc, k + 1)'
    BY <1>1, <2>1 DEF GoesOn
  <2>7. ~sio'.result => host'.fault /\ ~sio'.busy
    BY <1>1, <2>1 DEF GoesOn, AnswerLeaves
  <2>8. host'.op = "erase" => ecc = "none"
    BY <1>1 DEF Fits, AnswerLeaves
  <2>9. Stage(ecc, split, k + 1)'
    BY <2>1 DEF GoesOn
  <2> QED
    BY <2>3, <2>4, <2>5, <2>6, <2>7, <2>8, <2>9 DEF Fits
<1>6. OperationFits'
  <2>1. host'.state = "busy" => k + 1 \in 0 .. McChunks + 3
    BY <1>1, <1>2 DEF GoesOn, Completes, GivesUp, Leaves
  <2> QED
    BY <1>5, <2>1 DEF OperationFits
<1> QED
  BY <1>4, <1>6 DEF McInv

(* What is known where a command is executed.                              *)
LEMMA Under ==
    ASSUME McInv, NEW op, Executing(op)
    PROVE  /\ host.state = "busy" /\ sio.cmds # << >> /\ Head(sio.cmds).op = op /\ CardTypes
           /\ host.op \in {"read", "write", "erase"} /\ host.card \in McCards
           /\ host.page \in PageNumbers /\ host.data \in Page /\ Mc = host.card
           /\ host.page \in Int /\ host.page + 1 \in 0 .. McPages /\ host.page \in 0 .. McPages
           /\ \E ecc \in Eccs, split \in BOOLEAN, k \in 0 .. McChunks + 3 : Fits(ecc, split, k)
<1>1. sio.cmds # << >> /\ Head(sio.cmds).op = op
  BY DEF Executing
<1>2. host.state = "busy"
  BY <1>1 DEF McInv, Quiet
<1>3. /\ host.op \in {"read", "write", "erase"} /\ host.card \in McCards
      /\ host.page \in PageNumbers /\ host.data \in Page /\ CardTypes
  BY <1>2 DEF McInv, McTypes, HostTypes
<1>4. host.page \in Int /\ host.page + 1 \in 0 .. McPages /\ host.page \in 0 .. McPages
  BY <1>3, McConstants DEF PageNumbers
<1>5. \E ecc \in Eccs, split \in BOOLEAN, k \in 0 .. McChunks + 3 : Fits(ecc, split, k)
  BY <1>2 DEF McInv, OperationFits
<1> QED
  BY <1>1, <1>2, <1>3, <1>4, <1>5 DEF Mc

(* The last command completes an operation: its pages now hold what it was *)
(* told to leave there, and a read has returned its page.                  *)
LEMMA StatusKeeps == ASSUME McInv, McStatus PROVE McInv'
<1> USE McConstants
<1>1. Executing("status")
  BY DEF McStatus
<1>2. /\ host.state = "busy" /\ sio.cmds # << >> /\ Head(sio.cmds).op = "status" /\ CardTypes
      /\ host.op \in {"read", "write", "erase"} /\ host.card \in McCards
      /\ host.page \in PageNumbers /\ host.data \in Page /\ Mc = host.card
  BY <1>1, Under
<1>3. PICK ecc \in Eccs, split \in BOOLEAN, k \in 0 .. McChunks + 3 : Fits(ecc, split, k)
  BY <1>1, Under
<1>4. /\ Answer(TRUE, << >>, FALSE)
      /\ UNCHANGED <<memcards, mcdatabuf, mceccbuf, vmc>>
  BY DEF McStatus
<1> DEFINE n == Len(All(ecc))
<1>5. /\ k + 1 = n
      /\ host.op = "erase" => k = 1
      /\ host.op # "erase" => k = McChunks + (IF ecc = "own" THEN 2 ELSE 1)
  <2>1. /\ k + 1 = n /\ k \in Nat
        /\ host.op = "erase" => n = 2
        /\ host.op # "erase" => n = McChunks + (IF ecc = "own" THEN 3 ELSE 2)
    BY <1>2, <1>3, CommandAt DEF McInv
  <2> HIDE DEF n
  <2> QED
    BY <2>1
<1>6. AnswerLeaves(<< >>, FALSE) /\ Completes(ecc, k)
  <2>1. /\ AnswerLeaves(<< >>, FALSE)
        /\ GoesOn(TRUE, ecc, split, k) \/ Completes(ecc, k)
    BY <1>2, <1>3, <1>4, AnswerIs DEF McInv
  <2>2. GoesOn(TRUE, ecc, split, k) => k + 1 < n
    BY DEF GoesOn
  <2> HIDE DEF n
  <2>3. ~(k + 1 < n)
    BY <1>3, <1>5
  <2> QED
    BY <2>1, <2>2, <2>3
<1>7. CardTypes'
  BY <1>2, <1>4 DEF CardTypes
<1>8. McTypes' /\ Quiet'
  <2>1. \A c \in McCards, p \in PageNumbers : <<c, p>> \notin Pages => vmc'[c][p] = vmc[c][p]
    BY <1>4
  <2> QED
    BY <1>2, <1>3, <1>4, <1>7, <2>1, AnswerKeeps
<1>9. host'.state = "ok" /\ host'.fault = host.fault /\ host'.op = host.op /\ host'.card = host.card
      /\ host'.page = host.page /\ Mc' = Mc /\ host.fault \in BOOLEAN
  BY <1>6 DEF AnswerLeaves, Completes, Leaves, Mc, McInv, McTypes, HostTypes
<1>10. ~host.fault => sio.result /\ ~Again
  <2>1. ~host.fault => sio.result
    BY <1>3 DEF Fits
  <2>2. ASSUME sio.result PROVE ~sio.busy
    <3>1. MoveFits(ecc, k)
      BY <1>3, <2>2 DEF Fits
    <3> QED
      BY <1>2, <3>1 DEF MoveFits
  <2> QED
    BY <2>1, <2>2 DEF Again
<1>11. CardHoldsWrites'
  <2>1. ASSUME ~host.fault PROVE \A p \in Changed(host) : vmc[host.card][p] = host.data
    <3>1. CASE host.op = "erase"
      BY <1>3, <1>5, <2>1, <3>1 DEF Fits, EraseFits
    <3>2. CASE host.op = "write"
      <4>1. WriteFits(ecc, k)
        BY <1>3, <1>10, <2>1 DEF Fits
      <4>2. MovedChunks(k) = McChunks /\ k > 0
        BY <1>5, <3>2 DEF MovedChunks
      <4>3. vmc[host.card][host.page] = host.data
        BY <2>1, <3>2, <4>1, <4>2 DEF WriteFits
      <4> QED
        BY <3>2, <4>3 DEF Changed
    <3>3. CASE host.op = "read"
      BY <3>3 DEF Changed
    <3> QED
      BY <1>2, <3>1, <3>2, <3>3
  <2>2. written \in [McCards -> [PageNumbers -> Page]]
    BY DEF McInv, McTypes, HostTypes
  <2>3. ASSUME NEW c \in McCards, NEW p \in PageNumbers
        PROVE  vmc'[c][p] = written'[c][p] \/ <<c, p>> \in unsure'
    <3>1. CASE <<c, p>> \in Pages
      <4>1. c = host.card /\ p \in Changed(host)
        BY <3>1 DEF Pages
      <4>2. written'[c][p] = host.data
        BY <1>2, <1>6, <2>2, <4>1 DEF Completes
      <4>3. host.fault => <<c, p>> \in unsure'
        BY <1>6, <1>9, <3>1 DEF Completes, Leaves
      <4> QED
        BY <1>4, <1>9, <2>1, <4>1, <4>2, <4>3
    <3>2. CASE <<c, p>> \notin Pages
      <4>1. c = host.card => p \notin Changed(host)
        BY <3>2 DEF Pages
      <4>2. written'[c][p] = written[c][p]
        BY <1>2, <1>6, <2>2, <4>1 DEF Completes
      <4>3. <<c, p>> \in unsure => <<c, p>> \in unsure'
        BY <1>6, <3>2 DEF Completes, Leaves
      <4>4. vmc[c][p] = written[c][p] \/ <<c, p>> \in unsure
        BY <1>2, <4>1 DEF McInv, CardHoldsWrites
      <4> QED
        BY <1>4, <4>2, <4>3, <4>4
    <3> QED
      BY <3>1, <3>2
  <2> QED
    BY <2>3 DEF CardHoldsWrites
<1>12. ReadReturnsPage'
  <2>1. SUFFICES ASSUME host.op = "read", ~host.fault
                 PROVE  host'.got \in {vmc[host.card][host.page],
                                       Append(vmc[host.card][host.page], vmc[host.card][host.page])}
    BY <1>2, <1>4, <1>9 DEF ReadReturnsPage
  <2> DEFINE page == vmc[host.card][host.page]
  <2>2. page \in Page
    BY <1>2 DEF CardTypes
  <2>3. page \in Seq(McData \cup Page) /\ Len(page) = McChunks
    <3>1. page \in [1 .. McChunks -> McData \cup Page]
      BY <2>2 DEF Page
    <3> HIDE DEF page
    <3> QED
      BY <3>1, FunIsSeq
  <2>4. Append(page, page) \in Seq(McData \cup Page)
    BY <2>2, <2>3
  <2>5. host.got \in {page, Append(page, page)}
    <3>1. ReadFits(ecc, k)
      BY <1>3, <1>10, <2>1 DEF Fits
    <3>2. MovedChunks(k) = McChunks /\ k > 0 /\ McChunks > 0 /\ ~Again
      BY <1>5, <1>10, <2>1 DEF MovedChunks
    <3>3. /\ mcdatabuf = page
          /\ host.got = IF EccMoved(ecc, k) THEN Append(mcdatabuf, mcdatabuf)
                        ELSE SubSeq(mcdatabuf, 1, McChunks)
      BY <2>1, <3>1, <3>2 DEF ReadFits
    <3>4. SubSeq(page, 1, McChunks) = page
      <4> HIDE DEF page
      <4> QED
        BY <2>3
    <3> QED
      BY <3>3, <3>4
  <2>6. host'.got = host.got \o << >>
    BY <1>6 DEF AnswerLeaves
  <2>7. host.got \in Seq(McData \cup Page)
    BY <2>3, <2>4, <2>5
  <2>8. host'.got = host.got
    BY <2>6, <2>7
  <2> QED
    BY <2>5, <2>8
<1> QED
  BY <1>8, <1>9, <1>11, <1>12 DEF McInv, OperationFits

(* After a command no move is under way.                                   *)
LEMMA AfterCommand ==
    ASSUME NEW ecc, NEW k \in Nat, sio'.busy = FALSE
    PROVE  /\ ~Again'
           /\ MovedChunks(k + 1)' = IF k + 1 > McChunks THEN McChunks ELSE k
           /\ EccMoved(ecc, k + 1)' <=> \/ ecc = "own" /\ k + 1 = McChunks + 2
                                        \/ ecc = "joined" /\ k + 1 = McChunks + 1
<1>1. ~Again'
  BY DEF Again
<1>2. (k + 1) - 1 = k
  OBVIOUS
<1> QED
  BY <1>1, <1>2 DEF MovedChunks, EccMoved

(* A function changed at one point.                                        *)
LEMMA Update ==
    ASSUME NEW S, NEW T, NEW f \in [S -> T], NEW c \in S, NEW v \in T
    PROVE  [f EXCEPT ![c] = v] \in [S -> T] /\ [f EXCEPT ![c] = v][c] = v
OBVIOUS

(* The position for reading, or that for writing, of a card moves.         *)
ReadTo(c, page, off, coff) ==
    memcards' = [memcards EXCEPT ![c].rpage = page, ![c].rdoff = off, ![c].rcoff = coff]
WriteTo(c, page, off, coff) ==
    memcards' = [memcards EXCEPT ![c].wpage = page, ![c].wroff = off, ![c].wcoff = coff]

(* Setting the read position of a card leaves positions inside a page.     *)
LEMMA ReadPlace ==
    ASSUME memcards \in [McCards -> Place], NEW c \in McCards,
           NEW page \in 0 .. McPages, NEW off \in 0 .. PageSize - 1, NEW coff \in 0 .. 3 * McChunks,
           ReadTo(c, page, off, coff)
    PROVE  /\ memcards' \in [McCards -> Place]
           /\ memcards'[c].rpage = page /\ memcards'[c].rdoff = off /\ memcards'[c].rcoff = coff
<1> DEFINE at == [memcards[c] EXCEPT !.rpage = page, !.rdoff = off, !.rcoff = coff]
<1>1. memcards[c] \in Place
  OBVIOUS
<1>2. at \in Place /\ at.rpage = page /\ at.rdoff = off /\ at.rcoff = coff
  BY <1>1 DEF Place
<1>3. memcards' = [memcards EXCEPT ![c] = at]
  BY <1>1 DEF Place, ReadTo
<1> HIDE DEF at
<1>4. memcards' \in [McCards -> Place] /\ memcards'[c] = at
  BY <1>2, <1>3, Update
<1> QED
  BY <1>2, <1>4, Zenon

(* The same for the write position.                                        *)
LEMMA WritePlace ==
    ASSUME memcards \in [McCards -> Place], NEW c \in McCards,
           NEW page \in 0 .. McPages, NEW off \in 0 .. PageSize - 1, NEW coff \in 0 .. 3 * McChunks,
           WriteTo(c, page, off, coff)
    PROVE  /\ memcards' \in [McCards -> Place]
           /\ memcards'[c].wpage = page /\ memcards'[c].wroff = off /\ memcards'[c].wcoff = coff
<1> DEFINE at == [memcards[c] EXCEPT !.wpage = page, !.wroff = off, !.wcoff = coff]
<1>1. memcards[c] \in Place
  OBVIOUS
<1>2. at \in Place /\ at.wpage = page /\ at.wroff = off /\ at.wcoff = coff
  BY <1>1 DEF Place
<1>3. memcards' = [memcards EXCEPT ![c] = at]
  BY <1>1 DEF Place, WriteTo
<1> HIDE DEF at
<1>4. memcards' \in [McCards -> Place] /\ memcards'[c] = at
  BY <1>2, <1>3, Update
<1> QED
  BY <1>2, <1>4, Zenon

(* MceStartRead puts the card at the first chunk of the page.              *)
LEMMA StartReadKeeps == ASSUME McInv, MceStartRead PROVE McInv'
<1> USE McConstants
<1>1. Executing("start_read")
  BY DEF MceStartRead
<1>2. /\ host.state = "busy" /\ sio.cmds # << >> /\ Head(sio.cmds).op = "start_read" /\ CardTypes
      /\ host.card \in McCards /\ Mc = host.card /\ host.page \in 0 .. McPages
  BY <1>1, Under
<1>3. PICK ecc \in Eccs, split \in BOOLEAN, k \in 0 .. McChunks + 3 : Fits(ecc, split, k)
  BY <1>1, Under
<1>4. k = 0 /\ host.op = "read" /\ Head(sio.cmds).size = host.page
  BY <1>2, <1>3, CommandAt DEF McInv
<1>5. /\ Answer(TRUE, << >>, FALSE)
      /\ UNCHANGED <<mcdatabuf, mceccbuf, vmc>>
      /\ ReadTo(host.card, host.page, 0, 0)
  BY <1>2, <1>4 DEF MceStartRead, ReadTo
<1>6. /\ memcards' \in [McCards -> Place]
      /\ memcards'[host.card].rpage = host.page
      /\ memcards'[host.card].rdoff = 0 /\ memcards'[host.card].rcoff = 0
  <2>1. 0 \in 0 .. PageSize - 1 /\ 0 \in 0 .. 3 * McChunks
    BY DEF PageSize
  <2>2. memcards \in [McCards -> Place]
    BY <1>2 DEF CardTypes
  <2>3. host.card \in McCards /\ host.page \in 0 .. McPages /\ ReadTo(host.card, host.page, 0, 0)
    BY <1>2, <1>5
  <2> QED
    BY <2>1, <2>2, <2>3, ReadPlace
<1>6a. CardTypes'
  BY <1>2, <1>5, <1>6 DEF CardTypes
<1>7. ASSUME AnswerLeaves(<< >>, FALSE)
      PROVE  ReadFits(ecc, k + 1)' /\ WriteFits(ecc, k + 1)'
  <2>1. host'.op = "read" /\ host'.card = host.card /\ host'.page = host.page /\ sio'.busy = FALSE
        /\ host'.got = host.got \o << >>
    BY <1>4, <1>7 DEF AnswerLeaves
  <2>2. host'.got = << >>
    BY <1>3, <1>4, <2>1 DEF Fits
  <2>3. ~Again' /\ MovedChunks(k + 1)' = 0 /\ ~EccMoved(ecc, k + 1)' /\ 0 # McChunks
    <3>1. k \in Nat
      BY <1>4
    <3>2. /\ ~Again'
          /\ MovedChunks(k + 1)' = IF k + 1 > McChunks THEN McChunks ELSE k
          /\ EccMoved(ecc, k + 1)' <=> \/ ecc = "own" /\ k + 1 = McChunks + 2
                                       \/ ecc = "joined" /\ k + 1 = McChunks + 1
      BY <2>1, <3>1, AfterCommand
    <3>3. ~(k + 1 > McChunks) /\ k + 1 # McChunks + 2 /\ k + 1 # McChunks + 1
      BY <1>4
    <3> QED
      BY <1>4, <3>2, <3>3
  <2>4. /\ memcards'[host.card].rpage = host.page
        /\ memcards'[host.card].rdoff = 0 /\ memcards'[host.card].rcoff = 0
    BY <1>6
  <2>5. SubSeq(mcdatabuf', 1, 0) = << >>
    OBVIOUS
  <2> QED
    <3>1. WriteFits(ecc, k + 1)'
      BY <2>1 DEF WriteFits
    <3>2. /\ host'.card = host.card
          /\ memcards'[host.card].rdoff = (IF 0 = McChunks THEN 0 ELSE 128 * 0)
          /\ memcards'[host.card].rcoff = 3 * 0
          /\ memcards'[host.card].rpage = (IF 0 = McChunks THEN host'.page + 1 ELSE host'.page)
          /\ host'.got = SubSeq(mcdatabuf', 1, 0) /\ ~(0 > 0)
      <4>1. 128 * 0 = 0 /\ 3 * 0 = 0 /\ ~(0 > 0)
        OBVIOUS
      <4> QED
        BY <2>1, <2>2, <2>3, <2>4, <2>5, <4>1, Zenon
    <3>3. ReadFits(ecc, k + 1)'
      BY <2>3, <3>2, Zenon DEF ReadFits
    <3> QED
      BY <3>1, <3>3
<1>8. \A c \in McCards, p \in PageNumbers : <<c, p>> \notin Pages => vmc'[c][p] = vmc[c][p]
  BY <1>5
<1> QED
  BY <1>2, <1>3, <1>4, <1>5, <1>6a, <1>7, <1>8, StepKeeps

(* MceStartWrite puts the card at the first chunk of the page.             *)
LEMMA StartWriteKeeps == ASSUME McInv, MceStartWrite PROVE McInv'
<1> USE McConstants
<1>1. Executing("start_write")
  BY DEF MceStartWrite
<1>2. /\ host.state = "busy" /\ sio.cmds # << >> /\ Head(sio.cmds).op = "start_write" /\ CardTypes
      /\ host.card \in McCards /\ Mc = host.card /\ host.page \in 0 .. McPages
  BY <1>1, Under
<1>3. PICK ecc \in Eccs, split \in BOOLEAN, k \in 0 .. McChunks + 3 : Fits(ecc, split, k)
  BY <1>1, Under
<1>4. k = 0 /\ host.op = "write" /\ Head(sio.cmds).size = host.page
  BY <1>2, <1>3, CommandAt DEF McInv
<1>5. /\ Answer(TRUE, << >>, FALSE)
      /\ UNCHANGED <<mcdatabuf, mceccbuf, vmc>>
      /\ WriteTo(host.card, host.page, 0, 0)
  BY <1>2, <1>4 DEF MceStartWrite, WriteTo
<1>6. /\ memcards' \in [McCards -> Place]
      /\ memcards'[host.card].wpage = host.page
      /\ memcards'[host.card].wroff = 0 /\ memcards'[host.card].wcoff = 0
  <2>1. 0 \in 0 .. PageSize - 1 /\ 0 \in 0 .. 3 * McChunks
    BY DEF PageSize
  <2>2. memcards \in [McCards -> Place]
    BY <1>2 DEF CardTypes
  <2>3. host.card \in McCards /\ host.page \in 0 .. McPages /\ WriteTo(host.card, host.page, 0, 0)
    BY <1>2, <1>5
  <2> QED
    BY <2>1, <2>2, <2>3, WritePlace
<1>6a. CardTypes'
  BY <1>2, <1>5, <1>6 DEF CardTypes
<1>7. ASSUME AnswerLeaves(<< >>, FALSE)
      PROVE  ReadFits(ecc, k + 1)' /\ WriteFits(ecc, k + 1)'
  <2>1. host'.op = "write" /\ host'.card = host.card /\ host'.page = host.page /\ sio'.busy = FALSE
    BY <1>4, <1>7 DEF AnswerLeaves
  <2>2. ~Again' /\ MovedChunks(k + 1)' = 0 /\ ~EccMoved(ecc, k + 1)' /\ 0 # McChunks
    <3>1. k \in Nat
      BY <1>4
    <3>2. /\ ~Again'
          /\ MovedChunks(k + 1)' = IF k + 1 > McChunks THEN McChunks ELSE k
          /\ EccMoved(ecc, k + 1)' <=> \/ ecc = "own" /\ k + 1 = McChunks + 2
                                       \/ ecc = "joined" /\ k + 1 = McChunks + 1
      BY <2>1, <3>1, AfterCommand
    <3>3. ~(k + 1 > McChunks) /\ k + 1 # McChunks + 2 /\ k + 1 # McChunks + 1
      BY <1>4
    <3> QED
      BY <1>4, <3>2, <3>3
  <2>3. /\ memcards'[host.card].wpage = host.page
        /\ memcards'[host.card].wroff = 0 /\ memcards'[host.card].wcoff = 0
    BY <1>6
  <2> QED
    BY <2>1, <2>2, <2>3 DEF ReadFits, WriteFits
<1>8. \A c \in McCards, p \in PageNumbers : <<c, p>> \notin Pages => vmc'[c][p] = vmc[c][p]
  BY <1>5
<1> QED
  BY <1>2, <1>3, <1>4, <1>5, <1>6a, <1>7, <1>8, StepKeeps

(* MceEraseBlock touches no page outside the block of its operation, and   *)
(* all pages of it unless the device fails.                                *)
LEMMA EraseKeeps == ASSUME McInv, MceEraseBlock PROVE McInv'
<1> USE McConstants
<1>1. Executing("erase")
  BY DEF MceEraseBlock
<1>2. /\ host.state = "busy" /\ sio.cmds # << >> /\ Head(sio.cmds).op = "erase" /\ CardTypes
      /\ host.card \in McCards /\ Mc = host.card /\ host.page \in PageNumbers
  BY <1>1, Under
<1>3. PICK ecc \in Eccs, split \in BOOLEAN, k \in 0 .. McChunks + 3 : Fits(ecc, split, k)
  BY <1>1, Under
<1>4. k = 0 /\ host.op = "erase" /\ Head(sio.cmds).size = host.page
  BY <1>2, <1>3, CommandAt DEF McInv
<1>5. /\ Changed(host) = host.page .. host.page + McBlock - 1
      /\ Changed(host) = BlockPages(Head(sio.cmds).size)
  BY <1>4 DEF Changed, BlockPages
<1> DEFINE blank == Repeat(McChunks, McErased)
<1>6. blank \in Page /\ host.data = blank /\ host.page % McBlock = 0
  BY <1>3, <1>4 DEF Fits, EraseFits, Repeat, Page
<1>7. PICK pages \in SUBSET Changed(host), result \in BOOLEAN, fault \in BOOLEAN :
        /\ mcdatabuf' = blank /\ UNCHANGED <<memcards, mceccbuf>>
        /\ vmc' = [vmc EXCEPT ![host.card] =
                     [p \in PageNumbers |-> IF p \in pages THEN mcdatabuf' ELSE @[p]]]
        /\ Answer(result, << >>, fault)
        /\ result \/ fault
        /\ fault \/ pages = Changed(host)
  <2> DEFINE first == Head(sio.cmds).size
             block == BlockPages(first)
             Erased(pages) == vmc' = [vmc EXCEPT ![host.card] =
                         [p \in PageNumbers |-> IF p \in pages THEN mcdatabuf' ELSE @[p]]]
  <2>1. /\ mcdatabuf' = blank /\ UNCHANGED <<memcards, mceccbuf>>
        /\ \/ Erased(block) /\ Answer(TRUE, << >>, FALSE)
           \/ \E bad \in block :
                  \/ Erased(first .. bad - 1) /\ Answer(FALSE, << >>, TRUE)
                  \/ Erased(block \ {bad}) /\ Answer(TRUE, << >>, TRUE)
    BY <1>2 DEF MceEraseBlock, Mc
  <2>2. block = Changed(host) /\ \A bad \in block : first .. bad - 1 \subseteq block
    BY <1>2, <1>4, <1>5 DEF PageNumbers
  <2> HIDE DEF Erased, blank, block, first
  <2>3. CASE Erased(block) /\ Answer(TRUE, << >>, FALSE)
    BY <2>1, <2>2, <2>3 DEF Erased
  <2>4. CASE \E bad \in block : Erased(first .. bad - 1) /\ Answer(FALSE, << >>, TRUE)
    BY <2>1, <2>2, <2>4 DEF Erased
  <2>5. CASE \E bad \in block : Erased(block \ {bad}) /\ Answer(TRUE, << >>, TRUE)
    <3>1. PICK bad \in block : Erased(block \ {bad}) /\ Answer(TRUE, << >>, TRUE)
      BY <2>5
    <3>2. block \ {bad} \subseteq Changed(host)
      BY <2>2
    <3> QED
      BY <2>1, <3>1, <3>2 DEF Erased
  <2> QED
    BY <2>1, <2>3, <2>4, <2>5
<1> HIDE DEF blank
<1>8. CardTypes'
  BY <1>2, <1>6, <1>7 DEF CardTypes
<1>9. Changed(host) \subseteq PageNumbers
  BY <1>2, <1>5, <1>6, BlockInCard
<1>10. \A p \in Changed(host) : ~fault => vmc'[host.card][p] = host.data
  BY <1>2, <1>6, <1>7, <1>9 DEF CardTypes
<1>11. \A c \in McCards, p \in PageNumbers : <<c, p>> \notin Pages => vmc'[c][p] = vmc[c][p]
  BY <1>2, <1>7 DEF CardTypes, Pages
<1>12. ASSUME AnswerLeaves(<< >>, fault)
       PROVE  ReadFits(ecc, k + 1)' /\ WriteFits(ecc, k + 1)'
  <2>1. host'.op = "erase"
    BY <1>4, <1>12 DEF AnswerLeaves
  <2> QED
    BY <2>1 DEF ReadFits, WriteFits
<1>13. host.op = "erase" /\ ~(host.fault \/ fault) =>
         \A p \in Changed(host) : vmc'[host.card][p] = host.data
  BY <1>10
<1>14. AnswerLeaves(<< >>, fault) /\ result => ReadFits(ecc, k + 1)' /\ WriteFits(ecc, k + 1)'
  BY <1>12
<1>15. Head(sio.cmds).op # "status"
  BY <1>2
<1>16. Answer(result, << >>, fault) /\ (result \/ host.fault \/ fault)
  BY <1>7
<1> QED
  BY <1>2, <1>3, <1>8, <1>11, <1>13, <1>14, <1>15, <1>16, StepKeeps

(* A step inside the command that moves data.                              *)
SameOperation(fault) ==
    /\ host'.op = host.op /\ host'.card = host.card /\ host'.page = host.page
    /\ host'.data = host.data /\ host'.rest = host.rest /\ host'.got = host.got
    /\ host'.state = host.state /\ host'.fault = (host.fault \/ fault)
    /\ DOMAIN host' = {"op", "card", "page", "data", "rest", "got", "state", "fault"}

(* A step inside a command: the commands done stay the same.               *)
LEMMA InsideKeeps ==
    ASSUME McInv, host.state = "busy", NEW ecc \in Eccs, NEW split \in BOOLEAN, NEW k \in 0 .. McChunks + 3,
           Fits(ecc, split, k), sio.cmds # << >>, sio.result, host.op # "erase", k # 0,
           sio'.cmds = sio.cmds, sio'.result = sio.result, sio'.busy = TRUE,
           DOMAIN sio' = {"cmds", "result", "busy", "left", "tot", "buf", "rdma"},
           NEW fault \in BOOLEAN, SameOperation(fault),
           written' = written, unsure' = unsure, CardTypes',
           \A c \in McCards, p \in PageNumbers : <<c, p>> \notin Pages => vmc'[c][p] = vmc[c][p],
           MoveFits(ecc, k)', ReadFits(ecc, k)', WriteFits(ecc, k)'
    PROVE  McInv'
<1>1. /\ host'.op = host.op /\ host'.card = host.card /\ host'.state = "busy"
      /\ host'.page = host.page /\ host'.data = host.data /\ host'.rest = host.rest
      /\ host'.fault \in BOOLEAN
      /\ DOMAIN host' = {"op", "card", "page", "data", "rest", "got", "state", "fault"}
  BY DEF McInv, McTypes, HostTypes, SameOperation
<1>2. McTypes'
  BY <1>1 DEF McInv, McTypes, HostTypes
<1>3. Quiet'
  BY <1>1 DEF Quiet
<1>4. All(ecc)' = All(ecc) /\ Changed(host)' = Changed(host)
  BY <1>1 DEF All, Changed
<1>5. Fits(ecc, split, k)'
  <2>1. Stage(ecc, split, k)
    BY DEF Fits
  <2>2. Stage(ecc, split, k)'
    BY <1>1, <1>4, <2>1 DEF Stage
  <2>3. EraseFits(k)'
    BY <1>1 DEF EraseFits
  <2>4. sio'.result
    OBVIOUS
  <2> QED
    BY <1>1, <2>2, <2>3, <2>4 DEF Fits
<1>6. OperationFits'
  BY <1>5 DEF OperationFits
<1>7. CardHoldsWrites' /\ ReadReturnsPage'
  <2>1. Mc' = Mc
    BY <1>1 DEF Mc
  <2>2. ASSUME NEW c \in McCards, NEW p \in PageNumbers
        PROVE  \/ vmc'[c][p] = written'[c][p]
               \/ <<c, p>> \in unsure'
               \/ c = Mc' /\ p \in Changed(host)'
    <3>1. CASE <<c, p>> \in Pages
      BY <1>4, <2>1, <3>1 DEF Pages, Mc
    <3>2. CASE <<c, p>> \notin Pages
      <4>1. vmc[c][p] = written[c][p] \/ <<c, p>> \in unsure
        BY <3>2 DEF McInv, CardHoldsWrites, Pages, Mc
      <4> QED
        BY <3>2, <4>1
    <3> QED
      BY <3>1, <3>2
  <2> QED
    BY <1>1, <2>2 DEF CardHoldsWrites, ReadReturnsPage
<1> QED
  BY <1>2, <1>3, <1>6, <1>7 DEF McInv

(* 0x42 and 0x43 enter a move, or are skipped after a failure.             *)
LEMMA MoveKeeps == ASSUME McInv, McMove PROVE McInv'
<1> USE McConstants
<1>1. PICK op \in {"read", "write"} : Executing(op)
  BY DEF McMove
<1>2. /\ host.state = "busy" /\ sio.cmds # << >> /\ Head(sio.cmds).op = op /\ CardTypes
      /\ host.card \in McCards
  BY <1>1, Under
<1>3. PICK ecc \in Eccs, split \in BOOLEAN, k \in 0 .. McChunks + 3 : Fits(ecc, split, k)
  BY <1>1, Under
<1>4. host.op = op /\ k # 0 /\ k \in Nat
  BY <1>2, <1>3, CommandAt DEF McInv
<1>5. /\ ~sio.busy /\ UNCHANGED <<memcards, mcdatabuf, mceccbuf, vmc>>
      /\ IF sio.result
         THEN /\ sio' = [sio EXCEPT !.busy = TRUE, !.left = Head(sio.cmds).size,
                                    !.tot = Head(sio.cmds).size, !.buf = Head(sio.cmds).data]
              /\ UNCHANGED <<host, written, unsure>>
         ELSE \E rdma : Answer(FALSE, rdma, FALSE)
  BY DEF McMove
<1>6. CardTypes' /\ \A c \in McCards, p \in PageNumbers : <<c, p>> \notin Pages => vmc'[c][p] = vmc[c][p]
  BY <1>2, <1>5 DEF CardTypes
<1>7. CASE sio.result
  <2>1. /\ sio'.cmds = sio.cmds /\ sio'.result = sio.result /\ sio'.busy = TRUE
        /\ sio'.left = Head(sio.cmds).size /\ sio'.tot = Head(sio.cmds).size
        /\ sio'.buf = Head(sio.cmds).data /\ sio'.rdma = sio.rdma
        /\ DOMAIN sio' = {"cmds", "result", "busy", "left", "tot", "buf", "rdma"}
    BY <1>5, <1>7 DEF McInv, McTypes, HostTypes
  <2>2. ~Again /\ ~Again' /\ sio'.rdma = << >>
    BY <1>5, <2>1 DEF Again, McInv, Quiet
  <2>3. MoveFits(ecc, k)'
    BY <1>1, <1>2, <2>1, <2>2 DEF MoveFits
  <2>4. MovedChunks(k)' = MovedChunks(k) /\ (EccMoved(ecc, k)' <=> EccMoved(ecc, k))
    BY <2>2 DEF MovedChunks, EccMoved
  <2>5. ReadFits(ecc, k) /\ WriteFits(ecc, k)
    BY <1>3, <1>7 DEF Fits
  <2>6. host' = host /\ written' = written /\ unsure' = unsure
    BY <1>5, <1>7
  <2>7. ReadFits(ecc, k)'
    BY <1>5, <2>2, <2>4, <2>5, <2>6 DEF ReadFits
  <2>8. WriteFits(ecc, k)'
    BY <1>5, <2>2, <2>4, <2>5, <2>6 DEF WriteFits
  <2>9. SameOperation(FALSE)
    <3>1. host.fault = (host.fault \/ FALSE)
      BY Zenon DEF McInv, McTypes, HostTypes
    <3> QED
      BY <2>6, <3>1 DEF McInv, McTypes, HostTypes, SameOperation
  <2> QED
    BY <1>1, <1>2, <1>3, <1>4, <1>6, <1>7, <2>1, <2>3, <2>6, <2>7, <2>8, <2>9,
       InsideKeeps
<1>8. CASE ~sio.result
  <2>1. PICK rdma : Answer(FALSE, rdma, FALSE)
    BY <1>5, <1>8
  <2>2. host.fault
    BY <1>3, <1>8 DEF Fits
  <2>3. host.op # "erase" /\ Head(sio.cmds).op # "status"
    BY <1>1, <1>2, <1>4
  <2> QED
    BY <1>2, <1>3, <1>6, <2>1, <2>2, <2>3, StepKeeps
<1> QED
  BY <1>7, <1>8

(* A move is at the ECC if and only if the position says so, and otherwise *)
(* moves one chunk.                                                        *)
LEMMA Phase ==
    ASSUME McInv, NEW op \in {"read", "write"}, Executing(op), sio.busy,
           NEW ecc \in Eccs, NEW split \in BOOLEAN, NEW k, Fits(ecc, split, k), NEW off, NEW coff,
           off = (IF MovedChunks(k) = McChunks THEN 0 ELSE 128 * MovedChunks(k)),
           coff = (IF EccMoved(ecc, k) THEN 0 ELSE 3 * MovedChunks(k))
    PROVE  /\ coff # 0 /\ off = 0 =>
                /\ MovedChunks(k) = McChunks /\ sio.left = 16
                /\ \/ Again /\ ecc = "joined" /\ k = McChunks
                   \/ ~Again /\ ecc = "own" /\ k = McChunks + 1 /\ sio.rdma = << >>
           /\ ~(coff # 0 /\ off = 0) =>
                /\ ~Again /\ k \in 1 .. McChunks /\ MovedChunks(k) = k - 1
                /\ off = 128 * (k - 1) /\ coff = 3 * (k - 1)
                /\ sio.buf = <<host.data[k]>> /\ sio.rdma = << >>
                /\ sio.left = sio.tot
                /\ sio.tot = (IF k = McChunks /\ ecc = "joined" THEN 144 ELSE 128)
<1> USE McConstants
<1>1. host.state = "busy" /\ sio.cmds # << >> /\ Head(sio.cmds).op = op
  BY Under
<1>2. sio.result /\ MoveFits(ecc, k)
  BY DEF Fits, McInv, McTypes, HostTypes
<1>3. /\ k \in Nat /\ k >= 1
      /\ \/ /\ k \in 1 .. McChunks /\ Head(sio.cmds).data = <<host.data[k]>>
            /\ Head(sio.cmds).size = (IF k = McChunks /\ ecc = "joined" THEN 144 ELSE 128)
         \/ k = McChunks + 1 /\ ecc = "own" /\ Head(sio.cmds).size = 16 /\ Head(sio.cmds).data = << >>
  BY <1>1, CommandAt DEF McInv
<1>4. CASE Again
  <2>1. ecc = "joined" /\ k = McChunks /\ sio.left = 16
    BY <1>2, <1>4 DEF MoveFits
  <2>2. MovedChunks(k) = McChunks /\ ~EccMoved(ecc, k)
    BY <1>4 DEF MovedChunks, EccMoved
  <2>3. off = 0 /\ coff # 0
    BY <2>2
  <2> QED
    BY <1>4, <2>1, <2>2, <2>3
<1>5. CASE ~Again /\ k \in 1 .. McChunks
  <2>1. MovedChunks(k) = k - 1 /\ ~EccMoved(ecc, k)
    BY <1>5 DEF MovedChunks, EccMoved
  <2>2. k - 1 # McChunks /\ k - 1 \in Nat
    BY <1>5
  <2>3. off = 128 * (k - 1) /\ coff = 3 * (k - 1)
    BY <2>1, <2>2
  <2>4. ~(coff # 0 /\ off = 0)
    BY <2>2, <2>3
  <2>5. sio.left = sio.tot
    BY <1>5 DEF Again
  <2>6. sio.tot = Head(sio.cmds).size /\ sio.rdma = << >> /\ sio.buf = Head(sio.cmds).data
    BY <1>2, <1>5 DEF MoveFits
  <2>7. k # McChunks + 1
    BY <1>5
  <2> QED
    BY <1>3, <1>5, <2>1, <2>3, <2>4, <2>5, <2>6, <2>7
<1>6. CASE ~Again /\ k \notin 1 .. McChunks
  <2>1. k = McChunks + 1 /\ ecc = "own" /\ Head(sio.cmds).size = 16
    BY <1>3, <1>6
  <2>2. MovedChunks(k) = McChunks /\ ~EccMoved(ecc, k)
    BY <1>6, <2>1 DEF MovedChunks, EccMoved
  <2>3. off = 0 /\ coff # 0
    BY <2>2
  <2>4. sio.left = sio.tot
    BY <1>6 DEF Again
  <2>5. sio.tot = Head(sio.cmds).size /\ sio.rdma = << >>
    BY <1>2, <1>6 DEF MoveFits
  <2> QED
    BY <1>6, <2>1, <2>2, <2>3, <2>4, <2>5
<1> QED
  BY <1>4, <1>5, <1>6

(* MceWrite drops the ECC and resets its counter.                          *)
LEMMA WriteEccKeeps == ASSUME McInv, MceWriteEcc PROVE McInv'
<1> USE McConstants
<1>1. Executing("write") /\ sio.busy
  BY DEF MceWriteEcc
<1>2. /\ host.state = "busy" /\ sio.cmds # << >> /\ Head(sio.cmds).op = "write" /\ CardTypes
      /\ host.card \in McCards /\ Mc = host.card
  BY <1>1, Under
<1>3. PICK ecc \in Eccs, split \in BOOLEAN, k \in 0 .. McChunks + 3 : Fits(ecc, split, k)
  BY <1>1, Under
<1> DEFINE at == memcards[host.card]
<1>4. k \in Nat /\ k > 0 /\ host.op = "write"
  BY <1>2, <1>3, CommandAt DEF McInv
<1>5. WriteFits(ecc, k)
  BY <1>1, <1>3 DEF Fits, McInv, McTypes, HostTypes
<1>6. /\ at.wroff = (IF MovedChunks(k) = McChunks THEN 0 ELSE 128 * MovedChunks(k))
      /\ at.wcoff = (IF EccMoved(ecc, k) THEN 0 ELSE 3 * MovedChunks(k))
      /\ at.wpage = (IF MovedChunks(k) = McChunks THEN host.page + 1 ELSE host.page)
      /\ \A i \in 1 .. MovedChunks(k) : mcdatabuf[i] = host.data[i]
      /\ MovedChunks(k) = McChunks /\ ~host.fault => vmc[host.card][host.page] = host.data
  BY <1>4, <1>5 DEF WriteFits
<1>7. at.wcoff # 0 /\ at.wroff = 0
  BY <1>2 DEF MceWriteEcc, Positions
<1>8. /\ MovedChunks(k) = McChunks /\ sio.left = 16
      /\ (ecc = "joined" /\ k = McChunks) \/ (ecc = "own" /\ k = McChunks + 1)
  BY <1>1, <1>3, <1>6, <1>7, Phase
<1>9. /\ memcards' = [memcards EXCEPT ![host.card].wcoff = 0]
      /\ Answer(TRUE, << >>, FALSE) /\ UNCHANGED <<mcdatabuf, mceccbuf, vmc>>
  <2>1. EccSize = 16
    BY <1>8 DEF EccSize
  <2>2. EccLeft(at.wcoff, EccSize) = 0 /\ ~(sio.left - EccSize > 0)
    BY <1>8, <2>1 DEF EccLeft
  <2> QED
    BY <1>2, <2>2 DEF MceWriteEcc
<1>10. WriteTo(host.card, at.wpage, at.wroff, 0) /\ at \in Place
  BY <1>2, <1>9 DEF WriteTo, CardTypes, Place
<1>11. /\ memcards' \in [McCards -> Place] /\ memcards'[host.card].wpage = at.wpage
       /\ memcards'[host.card].wroff = at.wroff /\ memcards'[host.card].wcoff = 0
  <2>1. at.wpage \in 0 .. McPages /\ at.wroff \in 0 .. PageSize - 1 /\ 0 \in 0 .. 3 * McChunks
    BY <1>10 DEF Place
  <2> HIDE DEF at
  <2> QED
    BY <1>2, <1>10, <2>1, WritePlace DEF CardTypes
<1>12. CardTypes' /\ \A c \in McCards, p \in PageNumbers : <<c, p>> \notin Pages => vmc'[c][p] = vmc[c][p]
  BY <1>2, <1>9, <1>11 DEF CardTypes
<1>13. ASSUME AnswerLeaves(<< >>, FALSE)
       PROVE  ReadFits(ecc, k + 1)' /\ WriteFits(ecc, k + 1)'
  <2>1. host'.op = "write" /\ host'.card = host.card /\ host'.page = host.page /\ sio'.busy = FALSE
        /\ host'.data = host.data /\ host'.fault = (host.fault \/ FALSE)
    BY <1>4, <1>13 DEF AnswerLeaves
  <2>2. MovedChunks(k + 1)' = McChunks /\ EccMoved(ecc, k + 1)'
    <3>1. /\ MovedChunks(k + 1)' = IF k + 1 > McChunks THEN McChunks ELSE k
          /\ EccMoved(ecc, k + 1)' <=> \/ ecc = "own" /\ k + 1 = McChunks + 2
                                       \/ ecc = "joined" /\ k + 1 = McChunks + 1
      BY <1>4, <2>1, AfterCommand
    <3>2. k + 1 > McChunks /\ (\/ ecc = "own" /\ k + 1 = McChunks + 2
                               \/ ecc = "joined" /\ k + 1 = McChunks + 1)
      BY <1>8
    <3> QED
      BY <3>1, <3>2
  <2>3. ReadFits(ecc, k + 1)'
    BY <2>1 DEF ReadFits
  <2>4. /\ memcards'[host.card].wroff = 0 /\ memcards'[host.card].wcoff = 0
        /\ memcards'[host.card].wpage = host.page + 1
        /\ \A i \in 1 .. McChunks : mcdatabuf'[i] = host.data[i]
        /\ ~host'.fault => vmc'[host.card][host.page] = host.data
    BY <1>6, <1>7, <1>8, <1>9, <1>11, <2>1
  <2>5. WriteFits(ecc, k + 1)'
    BY <2>1, <2>2, <2>4, Zenon DEF WriteFits
  <2> QED
    BY <2>3, <2>5
<1> QED
  BY <1>2, <1>3, <1>4, <1>9, <1>12, <1>13, StepKeeps

(* The chunks of a page put together again.                                *)
LEMMA Parts ==
    ASSUME NEW S, NEW s \in Seq(S), NEW x \in S, NEW k \in 1 .. Len(s)
    PROVE  /\ SubSeq(s, 1, k - 1) \o SubSeq(s, k, k) = SubSeq(s, 1, k)
           /\ SubSeq(s, 1, Len(s)) = s
           /\ s \o Append(<< >>, x) = Append(s, x)
           /\ k = Len(s) => SubSeq(s, 1, k - 1) \o Append(SubSeq(s, k, k), x) = Append(s, x)
<1>1. k \in Nat /\ k - 1 \in Nat /\ Len(s) \in Nat /\ k <= Len(s) /\ k >= 1
  OBVIOUS
<1>0. \A u, v \in Seq(S) :
        /\ u \o v \in Seq(S) /\ Len(u \o v) = Len(u) + Len(v)
        /\ \A i \in 1 .. Len(u) : (u \o v)[i] = u[i]
        /\ \A i \in 1 .. Len(v) : (u \o v)[Len(u) + i] = v[i]
  BY ConcatAt
<1> DEFINE a == SubSeq(s, 1, k - 1)
           b == SubSeq(s, k, k)
           c == SubSeq(s, 1, k)
<1>2. a \in Seq(S) /\ Len(a) = k - 1 /\ \A i \in 1 .. k - 1 : a[i] = s[i]
  <2>1. \A i \in 1 .. Len(s) : s[i] \in S
    OBVIOUS
  <2> QED
    BY <1>1, <2>1, SubSeqProperties
<1>3. b \in Seq(S) /\ Len(b) = 1 /\ b[1] = s[k]
  BY <1>1, SubSeqProperties
<1>4. c \in Seq(S) /\ Len(c) = k /\ \A i \in 1 .. k : c[i] = s[i]
  BY <1>1, SubSeqProperties
<1>5. SubSeq(s, 1, Len(s)) = s
  OBVIOUS
<1> HIDE DEF a, b, c
<1>6. a \o b = c
  <2>1. /\ a \o b \in Seq(S) /\ Len(a \o b) = Len(a) + Len(b)
        /\ \A i \in 1 .. Len(a) : (a \o b)[i] = a[i]
        /\ \A i \in 1 .. Len(b) : (a \o b)[Len(a) + i] = b[i]
    BY <1>0, <1>2, <1>3, Zenon
  <2>2. Len(a \o b) = k /\ (a \o b)[(k - 1) + 1] = b[1] /\ (k - 1) + 1 = k
    <3>1. Len(a) + Len(b) = k /\ 1 \in 1 .. Len(b) /\ (k - 1) + 1 = k
      BY <1>1, <1>2, <1>3
    <3> QED
      BY <1>2, <2>1, <3>1
  <2>3. \A i \in 1 .. k : i \in 1 .. k - 1 \/ i = k
    BY <1>1
  <2>4. ASSUME NEW i \in 1 .. k PROVE (a \o b)[i] = c[i]
    <3>1. CASE i \in 1 .. k - 1
      BY <1>2, <1>4, <2>1, <3>1
    <3>2. CASE i = k
      BY <1>3, <1>4, <2>2, <3>2
    <3> QED
      BY <2>3, <3>1, <3>2
  <2>5. Len(c) = Len(a \o b) /\ \A i \in 1 .. Len(c) : c[i] = (a \o b)[i]
    BY <1>4, <2>2, <2>4
  <2> QED
    BY <1>4, <2>1, <2>5, SeqEqual
<1>7. s \o Append(<< >>, x) = Append(s, x)
  OBVIOUS
<1>8. ASSUME k = Len(s) PROVE a \o Append(b, x) = Append(s, x)
  <2> DEFINE d == Append(b, x)
             e == Append(s, x)
  <2>1. d \in Seq(S) /\ Len(d) = Len(b) + 1 /\ d[1] = b[1] /\ d[Len(b) + 1] = x
    <3>1. 1 \in 1 .. Len(b)
      BY <1>3
    <3>2. \A u \in Seq(S) : /\ Append(u, x) \in Seq(S) /\ Len(Append(u, x)) = Len(u) + 1
                            /\ Append(u, x)[Len(u) + 1] = x
                            /\ \A i \in 1 .. Len(u) : Append(u, x)[i] = u[i]
      BY AppendProperties
    <3> QED
      BY <1>3, <3>1, <3>2, Zenon
  <2>2. e \in Seq(S) /\ Len(e) = k + 1 /\ e[k + 1] = x /\ \A i \in 1 .. k : e[i] = s[i]
    BY <1>1, <1>8
  <2> HIDE DEF d, e
  <2>3. d \in Seq(S) /\ Len(d) = 2 /\ d[1] = s[k] /\ d[2] = x
    BY <1>3, <2>1
  <2>4. /\ a \o d \in Seq(S) /\ Len(a \o d) = Len(a) + Len(d)
        /\ \A i \in 1 .. Len(a) : (a \o d)[i] = a[i]
        /\ \A i \in 1 .. Len(d) : (a \o d)[Len(a) + i] = d[i]
    BY <1>0, <1>2, <2>3, Zenon
  <2>5. /\ Len(a \o d) = k + 1 /\ (a \o d)[(k - 1) + 1] = d[1] /\ (k - 1) + 1 = k
        /\ (a \o d)[(k - 1) + 2] = d[2] /\ (k - 1) + 2 = k + 1
    <3>1. Len(a) + Len(d) = k + 1 /\ 1 \in 1 .. Len(d) /\ 2 \in 1 .. Len(d)
          /\ (k - 1) + 1 = k /\ (k - 1) + 2 = k + 1
      BY <1>1, <1>2, <2>3
    <3> QED
      BY <1>2, <2>4, <3>1
  <2>6. \A i \in 1 .. k + 1 : i \in 1 .. k - 1 \/ i = k \/ i = k + 1
    BY <1>1
  <2>8. k \in 1 .. k /\ \A i \in 1 .. k - 1 : i \in 1 .. k
    BY <1>1
  <2>9. ASSUME NEW i \in 1 .. k + 1 PROVE (a \o d)[i] = e[i]
    <3>1. CASE i \in 1 .. k - 1
      BY <1>2, <2>2, <2>4, <2>8, <3>1
    <3>2. CASE i = k
      BY <2>2, <2>3, <2>5, <2>8, <3>2
    <3>3. CASE i = k + 1
      BY <2>2, <2>3, <2>5, <3>3
    <3> QED
      BY <2>6, <3>1, <3>2, <3>3
  <2>10. Len(e) = Len(a \o d) /\ \A i \in 1 .. Len(e) : e[i] = (a \o d)[i]
    BY <2>2, <2>5, <2>9
  <2>7. a \o d = e
    BY <2>2, <2>4, <2>10, SeqEqual
  <2> QED
    BY <2>7 DEF d, e
<1> QED
  BY <1>5, <1>6, <1>7, <1>8 DEF a, b, c

(* A page as the list of its chunks, and of what was moved of it.          *)
LEMMA PageParts ==
    ASSUME NEW b \in Page
    PROVE  /\ b \in Seq(McData \cup Page) /\ Len(b) = McChunks
           /\ SubSeq(b, 1, McChunks) = b
           /\ SubSeq(b, 1, McChunks) \o Append(<< >>, b) = Append(b, b)
           /\ SubSeq(b, 1, McChunks - 1) \o Append(SubSeq(b, McChunks, McChunks), b) = Append(b, b)
           /\ \A k \in 1 .. McChunks : SubSeq(b, 1, k - 1) \o SubSeq(b, k, k) = SubSeq(b, 1, k)
<1> USE McConstants
<1>1. b \in Seq(McData \cup Page) /\ Len(b) = McChunks
  <2>1. b \in [1 .. McChunks -> McData \cup Page]
    BY DEF Page
  <2> QED
    BY <2>1, FunIsSeq
<1>2. b \in McData \cup Page /\ McChunks \in 1 .. Len(b)
  BY <1>1
<1> DEFINE S == McData \cup Page
<1> HIDE DEF S
<1>3. b \in Seq(S) /\ b \in S
  BY <1>1, <1>2 DEF S
<1>4. /\ SubSeq(b, 1, Len(b)) = b
      /\ b \o Append(<< >>, b) = Append(b, b)
      /\ SubSeq(b, 1, McChunks - 1) \o Append(SubSeq(b, McChunks, McChunks), b) = Append(b, b)
  BY <1>1, <1>2, <1>3, Parts
<1>5. ASSUME NEW k \in 1 .. McChunks PROVE SubSeq(b, 1, k - 1) \o SubSeq(b, k, k) = SubSeq(b, 1, k)
  <2>1. k \in 1 .. Len(b)
    BY <1>1
  <2> QED
    BY <1>3, <2>1, Parts
<1> QED
  BY <1>1, <1>4, <1>5

(* MceRead returns the ECC of the page it read, behind its chunks.         *)
LEMMA ReadEccKeeps == ASSUME McInv, MceReadEcc PROVE McInv'
<1> USE McConstants
<1>1. Executing("read") /\ sio.busy
  BY DEF MceReadEcc
<1>2. /\ host.state = "busy" /\ sio.cmds # << >> /\ Head(sio.cmds).op = "read" /\ CardTypes
      /\ host.card \in McCards /\ Mc = host.card
  BY <1>1, Under
<1>3. PICK ecc \in Eccs, split \in BOOLEAN, k \in 0 .. McChunks + 3 : Fits(ecc, split, k)
  BY <1>1, Under
<1> DEFINE at == memcards[host.card]
<1>4. k \in Nat /\ k > 0 /\ host.op = "read"
  BY <1>2, <1>3, CommandAt DEF McInv
<1>5. ReadFits(ecc, k)
  BY <1>1, <1>3 DEF Fits, McInv, McTypes, HostTypes
<1>6. /\ at.rdoff = (IF MovedChunks(k) = McChunks THEN 0 ELSE 128 * MovedChunks(k))
      /\ at.rcoff = (IF EccMoved(ecc, k) THEN 0 ELSE 3 * MovedChunks(k))
      /\ at.rpage = (IF MovedChunks(k) = McChunks THEN host.page + 1 ELSE host.page)
  BY <1>4, <1>5 DEF ReadFits
<1>7. at.rcoff # 0 /\ at.rdoff = 0
  BY <1>2 DEF MceReadEcc, Positions
<1>8. /\ MovedChunks(k) = McChunks /\ sio.left = 16
      /\ \/ Again /\ ecc = "joined" /\ k = McChunks
         \/ ~Again /\ ecc = "own" /\ k = McChunks + 1 /\ sio.rdma = << >>
  BY <1>1, <1>3, <1>6, <1>7, Phase
<1> DEFINE rdma == Append(sio.rdma, mceccbuf[host.card])
<1>9. /\ memcards' = [memcards EXCEPT ![host.card].rcoff = 0]
      /\ Answer(TRUE, rdma, FALSE) /\ UNCHANGED <<mcdatabuf, mceccbuf, vmc>>
  <2>1. EccSize = 16
    BY <1>8 DEF EccSize
  <2>2. EccLeft(at.rcoff, EccSize) = 0 /\ ~(sio.left - EccSize > 0)
    BY <1>8, <2>1 DEF EccLeft
  <2> QED
    BY <1>2, <2>2 DEF MceReadEcc
<1>10. ReadTo(host.card, at.rpage, at.rdoff, 0) /\ at \in Place
  BY <1>2, <1>9 DEF ReadTo, CardTypes, Place
<1>11. /\ memcards' \in [McCards -> Place] /\ memcards'[host.card].rpage = at.rpage
       /\ memcards'[host.card].rdoff = at.rdoff /\ memcards'[host.card].rcoff = 0
  <2>1. at.rpage \in 0 .. McPages /\ at.rdoff \in 0 .. PageSize - 1 /\ 0 \in 0 .. 3 * McChunks
    BY <1>10 DEF Place
  <2> HIDE DEF at
  <2> QED
    BY <1>2, <1>10, <2>1, ReadPlace DEF CardTypes
<1>12. CardTypes' /\ \A c \in McCards, p \in PageNumbers : <<c, p>> \notin Pages => vmc'[c][p] = vmc[c][p]
  BY <1>2, <1>9, <1>11 DEF CardTypes
<1>13. ASSUME ~host.fault
       PROVE  /\ mcdatabuf = vmc[host.card][host.page] /\ mceccbuf[host.card] = mcdatabuf
              /\ host.got \o rdma = Append(mcdatabuf, mcdatabuf)
  <2>1. /\ mcdatabuf = vmc[host.card][host.page] /\ mceccbuf[host.card] = mcdatabuf
        /\ host.got = IF EccMoved(ecc, k) THEN Append(mcdatabuf, mcdatabuf)
                      ELSE SubSeq(mcdatabuf, 1, IF Again THEN McChunks - 1 ELSE McChunks)
        /\ Again => sio.rdma = SubSeq(mcdatabuf, McChunks, McChunks)
    BY <1>4, <1>5, <1>8, <1>13 DEF ReadFits
  <2>2. ~EccMoved(ecc, k)
    BY <1>8 DEF EccMoved
  <2>3. mcdatabuf \in Page
    BY <1>2 DEF CardTypes
  <2>4. CASE Again
    <3>1. host.got = SubSeq(mcdatabuf, 1, McChunks - 1) /\ rdma = Append(SubSeq(mcdatabuf, McChunks, McChunks), mcdatabuf)
      BY <2>1, <2>2, <2>4
    <3> HIDE DEF rdma
    <3> QED
      BY <2>1, <2>3, <3>1, PageParts
  <2>5. CASE ~Again
    <3>1. host.got = SubSeq(mcdatabuf, 1, McChunks) /\ rdma = Append(<< >>, mcdatabuf)
      BY <1>8, <2>1, <2>2, <2>5
    <3> HIDE DEF rdma
    <3> QED
      BY <2>1, <2>3, <3>1, PageParts
  <2> QED
    BY <2>4, <2>5
<1> HIDE DEF rdma
<1>14. ASSUME AnswerLeaves(rdma, FALSE)
       PROVE  ReadFits(ecc, k + 1)' /\ WriteFits(ecc, k + 1)'
  <2>1. host'.op = "read" /\ host'.card = host.card /\ host'.page = host.page /\ sio'.busy = FALSE
        /\ host'.got = host.got \o rdma /\ host'.fault = (host.fault \/ FALSE)
    BY <1>4, <1>14 DEF AnswerLeaves
  <2>2. MovedChunks(k + 1)' = McChunks /\ EccMoved(ecc, k + 1)' /\ ~Again'
    <3>1. /\ MovedChunks(k + 1)' = IF k + 1 > McChunks THEN McChunks ELSE k
          /\ EccMoved(ecc, k + 1)' <=> \/ ecc = "own" /\ k + 1 = McChunks + 2
                                       \/ ecc = "joined" /\ k + 1 = McChunks + 1
          /\ ~Again'
      BY <1>4, <2>1, AfterCommand
    <3>2. k + 1 > McChunks /\ (\/ ecc = "own" /\ k + 1 = McChunks + 2
                               \/ ecc = "joined" /\ k + 1 = McChunks + 1)
      BY <1>8
    <3> QED
      BY <3>1, <3>2
  <2>3. WriteFits(ecc, k + 1)'
    BY <2>1 DEF WriteFits
  <2>4. /\ memcards'[host.card].rdoff = 0 /\ memcards'[host.card].rcoff = 0
        /\ memcards'[host.card].rpage = host.page + 1
        /\ ~host'.fault => /\ mcdatabuf' = vmc'[host.card][host.page] /\ mceccbuf'[host.card] = mcdatabuf'
                           /\ host'.got = Append(mcdatabuf', mcdatabuf')
    BY <1>6, <1>7, <1>8, <1>9, <1>11, <1>13, <2>1
  <2>5. ReadFits(ecc, k + 1)'
    BY <2>1, <2>2, <2>4, Zenon DEF ReadFits
  <2> QED
    BY <2>3, <2>5
<1> QED
  BY <1>2, <1>3, <1>4, <1>9, <1>12, <1>14, StepKeeps

(* A pass moves one chunk, the last one also when the ECC follows it.      *)
(* Where a pass over chunk k leaves a page, and whether its command goes   *)
(* on with the ECC.                                                        *)
EndPage(k) == IF k = McChunks THEN host.page + 1 ELSE host.page
EndOffset(k) == IF k = McChunks THEN 0 ELSE 128 * k
Joined(ecc, k) == k = McChunks /\ ecc = "joined"
PassSizes(ecc, k) ==
    /\ sio.rdma = << >> /\ sio.left = sio.tot
    /\ sio.tot = (IF k = McChunks /\ ecc = "joined" THEN 144 ELSE 128)
ReadAt(k) ==
    /\ memcards[host.card].rdoff = 128 * (k - 1) /\ memcards[host.card].rcoff = 3 * (k - 1)
    /\ memcards[host.card].rpage = host.page

PassEnds(k) ==
    LET off == 128 * (k - 1)
    IN  /\ PassSize(off) = 128 /\ off + 128 = 128 * k
        /\ Chunk(off) = k - 1 /\ Chunk(128 * k) = k
        /\ 128 * k = PageSize <=> k = McChunks

(* A pass moves 128 bytes, which end the page only at its last chunk.      *)
LEMMA PassIs ==
    ASSUME NEW ecc, NEW k \in 1 .. McChunks, PassSizes(ecc, k)
    PROVE  PassEnds(k)
<1> USE McConstants
<1> DEFINE off == 128 * (k - 1)
<1>0. sio.left = (IF k = McChunks /\ ecc = "joined" THEN 144 ELSE 128)
  BY DEF PassSizes
<1>1. off + 128 = 128 * k /\ (128 * k = PageSize <=> k = McChunks)
  BY DEF PageSize
<1>2. PassSize(off) = 128
  <2>1. CASE k = McChunks /\ ecc = "joined"
    <3>1. sio.left + off > PageSize /\ PageSize - off = 128
      BY <1>0, <2>1 DEF PageSize
    <3> QED
      BY <3>1 DEF PassSize
  <2>2. CASE ~(k = McChunks /\ ecc = "joined")
    <3>1. ~(sio.left + off > PageSize) /\ sio.left = 128
      BY <1>0, <2>2 DEF PageSize
    <3> QED
      BY <3>1 DEF PassSize
  <2> QED
    BY <2>1, <2>2
<1>3. Chunk(off) = k - 1 /\ Chunk(128 * k) = k
  BY DEF Chunk
<1> QED
  BY <1>1, <1>2, <1>3 DEF PassEnds

(* Where a pass ends is a position of the card.                            *)
LEMMA EndIs ==
    ASSUME NEW k \in 1 .. McChunks, host.page \in 0 .. McPages, host.page + 1 \in 0 .. McPages
    PROVE  /\ EndPage(k) \in 0 .. McPages /\ EndOffset(k) \in 0 .. PageSize - 1
           /\ 3 * k \in 0 .. 3 * McChunks
BY McConstants DEF EndPage, EndOffset, PageSize

(* A pass changes the three fields of the read position.                   *)
LEMMA ReadToIs ==
    ASSUME memcards \in [McCards -> Place], NEW c \in McCards, NEW page, NEW off, NEW coff,
           memcards' = [memcards EXCEPT ![c].rcoff = coff, ![c].rdoff = off, ![c].rpage = page]
    PROVE  ReadTo(c, page, off, coff)
BY DEF ReadTo, Place

ReadPassEnds(ecc, k, dbuf, fault) ==
    /\ ReadTo(host.card, EndPage(k), EndOffset(k), 3 * k)
    /\ IF Joined(ecc, k)
       THEN /\ sio' = [sio EXCEPT !.left = 16, !.rdma = SubSeq(dbuf, k, k)]
            /\ host' = [host EXCEPT !.fault = @ \/ fault]
            /\ UNCHANGED <<written, unsure>>
       ELSE Answer(TRUE, SubSeq(dbuf, k, k), fault)

(* What a pass of MceRead moves, and where it leaves the card.             *)
LEMMA ReadPassIs ==
    ASSUME memcards \in [McCards -> Place], host.card \in McCards, NEW ecc, NEW k \in 1 .. McChunks,
           PassSizes(ecc, k), ReadAt(k), NEW dbuf \in Page, NEW fault \in BOOLEAN,
           MceReadPass(dbuf, fault)
    PROVE  ReadPassEnds(ecc, k, dbuf, fault)
<1> DEFINE at == memcards[host.card]
<1>1. at.rdoff = 128 * (k - 1) /\ at.rcoff = 3 * (k - 1) /\ at.rpage = host.page
  BY DEF ReadAt
<1>2. sio.left = (IF k = McChunks /\ ecc = "joined" THEN 144 ELSE 128) /\ sio.tot = sio.left
  BY DEF PassSizes
<1>3. /\ PassSize(at.rdoff) = 128 /\ at.rdoff + 128 = 128 * k
      /\ Chunk(at.rdoff) = k - 1 /\ Chunk(128 * k) = k
      /\ 128 * k = PageSize <=> k = McChunks
  <2>1. PassEnds(k)
    BY PassIs
  <2> QED
    BY <1>1, <2>1 DEF PassEnds
<1>4. sio.rdma \o SubSeq(dbuf, (k - 1) + 1, k) = SubSeq(dbuf, k, k)
  <2>1. (k - 1) + 1 = k
    OBVIOUS
  <2>2. dbuf \in Seq(McData \cup Page) /\ Len(dbuf) = McChunks
    BY PageParts
  <2>3. SubSeq(dbuf, k, k) \in Seq(McData \cup Page)
    BY <2>2
  <2>4. << >> \o SubSeq(dbuf, k, k) = SubSeq(dbuf, k, k)
    BY <2>3
  <2>5. sio.rdma = << >>
    BY DEF PassSizes
  <2> QED
    BY <2>1, <2>4, <2>5
<1>5. /\ NextOffset(128 * k) = EndOffset(k)
      /\ (IF 128 * k = PageSize THEN at.rpage + 1 ELSE at.rpage) = EndPage(k)
      /\ at.rcoff + 3 = 3 * k
  BY <1>1, <1>3 DEF NextOffset, EndOffset, EndPage
<1>6. Joined(ecc, k) <=> 128 * k = PageSize /\ sio.tot - 128 > 0
  BY <1>2, <1>3 DEF Joined
<1>7. Joined(ecc, k) => sio.tot - 128 = 16
  BY <1>2 DEF Joined
<1> DEFINE size == PassSize(at.rdoff)
           off == at.rdoff + size
           rdma == sio.rdma \o SubSeq(dbuf, Chunk(at.rdoff) + 1, Chunk(off))
<1>8. off = 128 * k /\ rdma = SubSeq(dbuf, k, k) /\ size = 128
  BY <1>3, <1>4
<1>9. /\ memcards' = [memcards EXCEPT ![host.card].rcoff = @ + 3, ![host.card].rdoff = NextOffset(off),
                                      ![host.card].rpage = IF off = PageSize THEN @ + 1 ELSE @]
      /\ IF off = PageSize /\ sio.tot - size > 0
         THEN /\ sio' = [sio EXCEPT !.left = sio.tot - size, !.rdma = rdma]
              /\ host' = [host EXCEPT !.fault = @ \/ fault]
              /\ UNCHANGED <<written, unsure>>
         ELSE Answer(TRUE, rdma, fault)
  BY Zenon DEF MceReadPass, Positions, Mc
<1> HIDE DEF size, off, rdma
<1>10. memcards' = [memcards EXCEPT ![host.card].rcoff = at.rcoff + 3, ![host.card].rdoff = NextOffset(off),
                                    ![host.card].rpage = IF off = PageSize THEN at.rpage + 1 ELSE at.rpage]
  BY <1>9 DEF Place
<1>11. memcards' = [memcards EXCEPT ![host.card].rcoff = 3 * k, ![host.card].rdoff = EndOffset(k),
                                    ![host.card].rpage = EndPage(k)]
  BY <1>5, <1>8, <1>10
<1>12. ReadTo(host.card, EndPage(k), EndOffset(k), 3 * k)
  BY <1>11, ReadToIs, Zenon
<1>13. IF Joined(ecc, k)
       THEN /\ sio' = [sio EXCEPT !.left = 16, !.rdma = SubSeq(dbuf, k, k)]
            /\ host' = [host EXCEPT !.fault = @ \/ fault]
            /\ UNCHANGED <<written, unsure>>
       ELSE Answer(TRUE, SubSeq(dbuf, k, k), fault)
  BY <1>6, <1>7, <1>8, <1>9
<1> QED
  BY <1>12, <1>13 DEF ReadPassEnds

(* The buffers after a pass: those of the page, unless the device failed.  *)
PassLeaves(dbuf, k, fault) ==
    /\ mcdatabuf' = dbuf /\ DOMAIN mceccbuf' = McCards /\ vmc' = vmc
    /\ ~(host.fault \/ fault) =>
          /\ dbuf = vmc[host.card][host.page] /\ mceccbuf'[host.card] = dbuf
          /\ host.got = SubSeq(dbuf, 1, k - 1)
ReadEnds(k) ==
    /\ memcards'[host.card].rdoff = EndOffset(k) /\ memcards'[host.card].rcoff = 3 * k
    /\ memcards'[host.card].rpage = EndPage(k)
Elsewhere == \A c \in McCards, p \in PageNumbers : <<c, p>> \notin Pages => vmc'[c][p] = vmc[c][p]

(* A pass of a read changes no page.                                       *)
LEMMA ReadPassCards ==
    ASSUME McInv, Executing("read"), NEW k \in 1 .. McChunks,
           ReadTo(host.card, EndPage(k), EndOffset(k), 3 * k),
           NEW dbuf \in Page, NEW fault, PassLeaves(dbuf, k, fault)
    PROVE  CardTypes' /\ ReadEnds(k) /\ Elsewhere
<1>1. CardTypes /\ host.card \in McCards /\ host.page + 1 \in 0 .. McPages /\ host.page \in 0 .. McPages
  BY Under
<1>2. /\ EndPage(k) \in 0 .. McPages /\ EndOffset(k) \in 0 .. PageSize - 1
      /\ 3 * k \in 0 .. 3 * McChunks
  BY <1>1, EndIs
<1>3. memcards \in [McCards -> Place]
  BY <1>1 DEF CardTypes
<1> DEFINE coff == 3 * k
<1> HIDE DEF coff
<1>4. /\ memcards' \in [McCards -> Place] /\ memcards'[host.card].rpage = EndPage(k)
      /\ memcards'[host.card].rdoff = EndOffset(k) /\ memcards'[host.card].rcoff = coff
  <2>1. coff \in 0 .. 3 * McChunks /\ ReadTo(host.card, EndPage(k), EndOffset(k), coff)
    BY <1>2 DEF coff
  <2> QED
    BY <1>1, <1>2, <1>3, <2>1, ReadPlace, Zenon
<1>5. vmc' = vmc /\ mcdatabuf' = dbuf /\ DOMAIN mceccbuf' = McCards
  BY DEF PassLeaves
<1> QED
  BY <1>1, <1>4, <1>5 DEF CardTypes, ReadEnds, Elsewhere, coff

(* The command at its ECC has all chunks of the page.                      *)
LEMMA AgainReads ==
    ASSUME NEW ecc, NEW k, Again', MovedChunks(k)' = McChunks, ~EccMoved(ecc, k)',
           host'.card = host.card, host'.page = host.page,
           memcards'[host.card].rdoff = 0, memcards'[host.card].rcoff = 3 * McChunks,
           memcards'[host.card].rpage = host.page + 1,
           ~host'.fault => /\ mcdatabuf' = vmc'[host.card][host.page] /\ mceccbuf'[host.card] = mcdatabuf'
                           /\ host'.got = SubSeq(mcdatabuf', 1, McChunks - 1)
                           /\ sio'.rdma = SubSeq(mcdatabuf', McChunks, McChunks)
    PROVE  ReadFits(ecc, k)'
<1> DEFINE at == memcards'[host.card]
           m == MovedChunks(k)'
<1>1. at.rdoff = (IF m = McChunks THEN 0 ELSE 128 * m)
  OBVIOUS
<1>2. at.rcoff = (IF EccMoved(ecc, k)' THEN 0 ELSE 3 * m)
  OBVIOUS
<1>3. at.rpage = (IF m = McChunks THEN host.page + 1 ELSE host.page)
  OBVIOUS
<1>4. ASSUME ~host'.fault
      PROVE  /\ mcdatabuf' = vmc'[host.card][host.page] /\ mceccbuf'[host.card] = mcdatabuf'
             /\ host'.got = IF EccMoved(ecc, k)' THEN Append(mcdatabuf, mcdatabuf)'
                            ELSE SubSeq(mcdatabuf', 1, IF Again' THEN m - 1 ELSE m)
             /\ sio'.rdma = SubSeq(mcdatabuf', McChunks, McChunks)
  BY <1>4
<1> QED
  BY <1>1, <1>2, <1>3, <1>4, Zenon DEF ReadFits

(* The command that also moves the ECC goes on with it.                    *)
LEMMA ReadRestartKeeps ==
    ASSUME McInv, Executing("read"), sio.busy,
           NEW ecc \in Eccs, NEW split \in BOOLEAN, NEW k \in 1 .. McChunks, Fits(ecc, split, k),
           PassSizes(ecc, k), Joined(ecc, k), CardTypes', ReadEnds(k), Elsewhere,
           NEW dbuf, NEW fault \in BOOLEAN, PassLeaves(dbuf, k, fault),
           sio' = [sio EXCEPT !.left = 16, !.rdma = SubSeq(dbuf, k, k)],
           host' = [host EXCEPT !.fault = @ \/ fault], UNCHANGED <<written, unsure>>
    PROVE  McInv'
<1>1. host.state = "busy" /\ sio.cmds # << >> /\ Head(sio.cmds).op = "read" /\ host.card \in McCards
  BY Under
<1>2. McTypes /\ HostTypes
  BY DEF McInv, McTypes
<1>3. host.op = "read" /\ sio.result
  <2>1. host.op = "read"
    BY <1>1, <1>2, CommandAt
  <2> QED
    BY <2>1 DEF Fits
<1>4. k = McChunks /\ ecc = "joined" /\ sio.tot = 144
  BY DEF Joined, PassSizes
<1>5. /\ sio'.cmds = sio.cmds /\ sio'.result = sio.result /\ sio'.busy = TRUE
      /\ sio'.left = 16 /\ sio'.tot = sio.tot /\ sio'.rdma = SubSeq(dbuf, k, k)
      /\ DOMAIN sio' = {"cmds", "result", "busy", "left", "tot", "buf", "rdma"}
  BY <1>2, Zenon DEF HostTypes
<1>6. SameOperation(fault)
  BY <1>2, Zenon DEF HostTypes, SameOperation
<1>7. Again'
  BY <1>4, <1>5 DEF Again
<1>8. MovedChunks(k)' = McChunks /\ ~EccMoved(ecc, k)'
  BY <1>7 DEF MovedChunks, EccMoved
<1>9. MoveFits(ecc, k)'
  <2>1. sio.tot = Head(sio.cmds).size
    BY <1>3 DEF Fits, MoveFits
  <2> QED
    BY <1>1, <1>4, <1>5, <1>7, <2>1 DEF MoveFits
<1>10. host'.op = "read" /\ host'.card = host.card /\ host'.page = host.page /\ host'.got = host.got
       /\ host'.fault = (host.fault \/ fault)
  BY <1>3, <1>6 DEF SameOperation
<1>11. WriteFits(ecc, k)'
  BY <1>10 DEF WriteFits
<1>12. /\ memcards'[host.card].rdoff = 0 /\ memcards'[host.card].rcoff = 3 * McChunks
       /\ memcards'[host.card].rpage = host.page + 1
  BY <1>4 DEF ReadEnds, EndOffset, EndPage
<1>13. ~host'.fault => /\ mcdatabuf' = vmc'[host.card][host.page] /\ mceccbuf'[host.card] = mcdatabuf'
                       /\ host'.got = SubSeq(mcdatabuf', 1, McChunks - 1)
                       /\ sio'.rdma = SubSeq(mcdatabuf', McChunks, McChunks)
  BY <1>4, <1>5, <1>10 DEF PassLeaves
<1>14. ReadFits(ecc, k)'
  BY <1>7, <1>8, <1>10, <1>12, <1>13, AgainReads, Zenon
<1>15. k # 0 /\ host.op # "erase" /\ k \in 0 .. McChunks + 3
  BY <1>3, McConstants
<1>16. written' = written /\ unsure' = unsure
  OBVIOUS
<1>17. \A c \in McCards, p \in PageNumbers : <<c, p>> \notin Pages => vmc'[c][p] = vmc[c][p]
  BY DEF Elsewhere
<1> QED
  BY <1>1, <1>3, <1>5, <1>6, <1>9, <1>11, <1>14, <1>15, <1>16, <1>17,
     InsideKeeps, Zenon

(* Any other pass ends its command.                                        *)
LEMMA ReadAnswerKeeps ==
    ASSUME McInv, Executing("read"),
           NEW ecc \in Eccs, NEW split \in BOOLEAN, NEW k \in 1 .. McChunks, Fits(ecc, split, k),
           ~Joined(ecc, k), CardTypes', ReadEnds(k), Elsewhere,
           NEW dbuf \in Page, NEW fault \in BOOLEAN, PassLeaves(dbuf, k, fault),
           Answer(TRUE, SubSeq(dbuf, k, k), fault)
    PROVE  McInv'
<1>1. host.state = "busy" /\ sio.cmds # << >> /\ Head(sio.cmds).op = "read" /\ host.card \in McCards
  BY Under
<1>2. host.op = "read"
  BY <1>1, CommandAt DEF McInv
<1> DEFINE rdma == SubSeq(dbuf, k, k)
<1>3. ASSUME ~(host.fault \/ fault) PROVE host.got \o rdma = SubSeq(dbuf, 1, k)
  <2>1. host.got = SubSeq(dbuf, 1, k - 1)
    BY <1>3 DEF PassLeaves
  <2>2. SubSeq(dbuf, 1, k - 1) \o SubSeq(dbuf, k, k) = SubSeq(dbuf, 1, k)
    BY PageParts
  <2> QED
    BY <2>1, <2>2
<1>4. Answer(TRUE, rdma, fault)
  OBVIOUS
<1> HIDE DEF rdma
<1>5. ASSUME AnswerLeaves(rdma, fault)
      PROVE  ReadFits(ecc, k + 1)' /\ WriteFits(ecc, k + 1)'
  <2>1. host'.op = "read" /\ host'.card = host.card /\ host'.page = host.page /\ sio'.busy = FALSE
        /\ host'.got = host.got \o rdma /\ host'.fault = (host.fault \/ fault)
    BY <1>2, <1>5 DEF AnswerLeaves
  <2>2. MovedChunks(k + 1)' = k /\ ~EccMoved(ecc, k + 1)' /\ ~Again'
    <3>1. k \in Nat
      BY McConstants
    <3>2. /\ MovedChunks(k + 1)' = IF k + 1 > McChunks THEN McChunks ELSE k
          /\ EccMoved(ecc, k + 1)' <=> \/ ecc = "own" /\ k + 1 = McChunks + 2
                                       \/ ecc = "joined" /\ k + 1 = McChunks + 1
          /\ ~Again'
      BY <2>1, <3>1, AfterCommand, Zenon
    <3>3. k + 1 > McChunks => k = McChunks
      BY McConstants
    <3>4. k + 1 # McChunks + 2 /\ (k + 1 = McChunks + 1 => k = McChunks)
      BY McConstants
    <3> QED
      BY <3>2, <3>3, <3>4, Zenon DEF Joined
  <2>3. WriteFits(ecc, k + 1)'
    BY <2>1 DEF WriteFits
  <2>4. ~host'.fault => /\ mcdatabuf' = vmc'[host.card][host.page] /\ mceccbuf'[host.card] = mcdatabuf'
                        /\ host'.got = SubSeq(mcdatabuf', 1, k)
    BY <1>3, <2>1 DEF PassLeaves
  <2>5. /\ memcards'[host.card].rdoff = (IF k = McChunks THEN 0 ELSE 128 * k)
        /\ memcards'[host.card].rcoff = 3 * k
        /\ memcards'[host.card].rpage = (IF k = McChunks THEN host.page + 1 ELSE host.page)
    BY DEF ReadEnds, EndOffset, EndPage
  <2>6. ReadFits(ecc, k + 1)'
    BY <2>1, <2>2, <2>4, <2>5, Zenon DEF ReadFits
  <2> QED
    BY <2>3, <2>6
<1>6. host.op # "erase" /\ Head(sio.cmds).op # "status"
  BY <1>1, <1>2
<1>7. \A c \in McCards, p \in PageNumbers : <<c, p>> \notin Pages => vmc'[c][p] = vmc[c][p]
  BY DEF Elsewhere
<1> QED
  BY <1>1, <1>4, <1>5, <1>6, <1>7, StepKeeps, Zenon

(* A pass of MceRead adds the next chunk of the page.                      *)
LEMMA ReadPassKeeps ==
    ASSUME McInv, Executing("read"), sio.busy,
           NEW ecc \in Eccs, NEW split \in BOOLEAN, NEW k \in 1 .. McChunks, Fits(ecc, split, k),
           PassSizes(ecc, k), ReadAt(k), NEW dbuf \in Page, NEW fault \in BOOLEAN,
           PassLeaves(dbuf, k, fault), MceReadPass(dbuf, fault)
    PROVE  McInv'
<1>1. memcards \in [McCards -> Place] /\ host.card \in McCards
  BY Under DEF CardTypes
<1>2. ReadPassEnds(ecc, k, dbuf, fault)
  BY <1>1, ReadPassIs, Zenon
<1>3. CardTypes' /\ ReadEnds(k) /\ Elsewhere
  BY <1>2, ReadPassCards, Zenon DEF ReadPassEnds
<1>4. CASE Joined(ecc, k)
  BY <1>2, <1>3, <1>4, ReadRestartKeeps, Zenon DEF ReadPassEnds
<1>5. CASE ~Joined(ecc, k)
  BY <1>2, <1>3, <1>5, ReadAnswerKeeps, Zenon DEF ReadPassEnds
<1> QED
  BY <1>4, <1>5

(* Inside a page a read is at the chunk of its command.                    *)
LEMMA ReadPhase ==
    ASSUME McInv, Executing("read"), sio.busy, ~(Positions.rcoff # 0 /\ Positions.rdoff = 0),
           NEW ecc \in Eccs, NEW split \in BOOLEAN, NEW k, Fits(ecc, split, k)
    PROVE  /\ k \in 1 .. McChunks /\ PassSizes(ecc, k) /\ ReadAt(k)
           /\ ~host.fault => /\ host.got = SubSeq(mcdatabuf, 1, k - 1)
                             /\ k - 1 > 0 => /\ mcdatabuf = vmc[host.card][host.page]
                                             /\ mceccbuf[host.card] = mcdatabuf
<1>1. host.state = "busy" /\ sio.cmds # << >> /\ Head(sio.cmds).op = "read" /\ Mc = host.card
  BY Under
<1>2. host.op = "read" /\ k \in 1 .. Len(All(ecc)) - 2 /\ Len(All(ecc)) \in Nat
  BY <1>1, CommandAt DEF McInv
<1>3. k > 0
  BY <1>2
<1>4. ReadFits(ecc, k)
  BY DEF Fits
<1> DEFINE off == memcards[host.card].rdoff
           coff == memcards[host.card].rcoff
           m == MovedChunks(k)
<1>5. /\ off = (IF m = McChunks THEN 0 ELSE 128 * m)
      /\ coff = (IF EccMoved(ecc, k) THEN 0 ELSE 3 * m)
      /\ memcards[host.card].rpage = (IF m = McChunks THEN host.page + 1 ELSE host.page)
      /\ ~host.fault =>
            /\ m > 0 => /\ mcdatabuf = vmc[host.card][host.page]
                        /\ mceccbuf[host.card] = mcdatabuf
            /\ host.got = IF EccMoved(ecc, k) THEN Append(mcdatabuf, mcdatabuf)
                          ELSE SubSeq(mcdatabuf, 1, IF Again THEN m - 1 ELSE m)
  BY <1>2, <1>3, <1>4, Zenon DEF ReadFits
<1>6. ~(coff # 0 /\ off = 0)
  BY <1>1 DEF Positions
<1> HIDE DEF off, coff
<1>6a. off = (IF m = McChunks THEN 0 ELSE 128 * m) /\ coff = (IF EccMoved(ecc, k) THEN 0 ELSE 3 * m)
  BY <1>5
<1>7. /\ ~Again /\ k \in 1 .. McChunks /\ MovedChunks(k) = k - 1
      /\ off = 128 * (k - 1) /\ coff = 3 * (k - 1)
      /\ sio.rdma = << >> /\ sio.left = sio.tot
      /\ sio.tot = (IF k = McChunks /\ ecc = "joined" THEN 144 ELSE 128)
  BY <1>6, <1>6a, Phase
<1>8. PassSizes(ecc, k)
  BY <1>7 DEF PassSizes
<1>9. k - 1 # McChunks /\ ~EccMoved(ecc, k)
  BY <1>7, McConstants DEF EccMoved
<1>10. ReadAt(k)
  BY <1>5, <1>7, <1>9 DEF ReadAt, off, coff
<1> QED
  BY <1>5, <1>7, <1>8, <1>9, <1>10

(* MceRead inside a page: its first pass reads the page into the buffer    *)
(* the cards share, and the following ones find it there.                  *)
LEMMA ReadKeeps == ASSUME McInv, MceRead PROVE McInv'
<1>1. Executing("read") /\ sio.busy /\ ~(Positions.rcoff # 0 /\ Positions.rdoff = 0) /\ vmc' = vmc
  BY DEF MceRead
<1>2. /\ host.state = "busy" /\ sio.cmds # << >> /\ Head(sio.cmds).op = "read" /\ CardTypes
      /\ host.card \in McCards /\ host.page \in PageNumbers /\ Mc = host.card
      /\ \E ecc \in Eccs, split \in BOOLEAN, k \in 0 .. McChunks + 3 : Fits(ecc, split, k)
  BY <1>1, Under, Zenon
<1>3. PICK ecc \in Eccs, split \in BOOLEAN, k \in 0 .. McChunks + 3 : Fits(ecc, split, k)
  BY <1>2
<1>4. /\ k \in 1 .. McChunks /\ PassSizes(ecc, k) /\ ReadAt(k)
      /\ ~host.fault => /\ host.got = SubSeq(mcdatabuf, 1, k - 1)
                        /\ k - 1 > 0 => /\ mcdatabuf = vmc[host.card][host.page]
                                        /\ mceccbuf[host.card] = mcdatabuf
  BY <1>1, <1>3, ReadPhase, Zenon
<1>5. Positions.rdoff = 128 * (k - 1) /\ Positions.rpage = host.page
  BY <1>2, <1>4 DEF Positions, ReadAt
<1>6. /\ mcdatabuf \in Page /\ DOMAIN mceccbuf = McCards /\ vmc \in [McCards -> [PageNumbers -> Page]]
      /\ vmc[host.card][host.page] \in Page
  BY <1>2 DEF CardTypes
<1> DEFINE D1 == /\ MceReadPass(mcdatabuf, FALSE) /\ UNCHANGED <<mcdatabuf, mceccbuf>>
                 /\ Positions.rdoff # 0
           D2 == /\ mcdatabuf' = vmc[Mc][Positions.rpage]
                 /\ mceccbuf' = [mceccbuf EXCEPT ![Mc] = mcdatabuf']
                 /\ MceReadPass(mcdatabuf', FALSE) /\ Positions.rdoff = 0
           D3 == /\ mceccbuf' = [mceccbuf EXCEPT ![Mc] = mcdatabuf]
                 /\ MceReadPass(mcdatabuf, TRUE) /\ UNCHANGED mcdatabuf
           D4 == /\ mceccbuf' = [mceccbuf EXCEPT ![Mc] = Repeat(McChunks, McFilled)]
                 /\ Answer(FALSE, McFill(sio.tot), TRUE) /\ UNCHANGED <<memcards, mcdatabuf>>
<1>7. D1 \/ D2 \/ D3 \/ D4
  BY Zenon DEF MceRead
<1>8. CASE D1
  <2>1. k - 1 > 0
    BY <1>4, <1>5, <1>8, McConstants
  <2>2. PassLeaves(mcdatabuf, k, FALSE)
    BY <1>1, <1>4, <1>6, <1>8, <2>1, Zenon DEF PassLeaves
  <2>3. MceReadPass(mcdatabuf, FALSE)
    BY <1>8
  <2> QED
    BY <1>1, <1>3, <1>4, <1>6, <2>2, <2>3, ReadPassKeeps, Zenon
<1>9. CASE D2
  <2>1. k - 1 = 0
    BY <1>4, <1>5, <1>9, McConstants
  <2> DEFINE dbuf == vmc[host.card][host.page]
  <2>2. mcdatabuf' = dbuf /\ dbuf \in Page
    BY <1>2, <1>5, <1>6, <1>9
  <2>3. DOMAIN mceccbuf' = McCards /\ mceccbuf'[host.card] = dbuf
    BY <1>2, <1>6, <1>9, <2>2, Zenon
  <2>4. SubSeq(mcdatabuf, 1, k - 1) = SubSeq(dbuf, 1, k - 1)
    BY <2>1, <1>6, <2>2 DEF Page
  <2>5. MceReadPass(dbuf, FALSE)
    BY <1>9, <2>2, Zenon
  <2> HIDE DEF dbuf
  <2>6. PassLeaves(dbuf, k, FALSE)
    BY <1>1, <1>4, <2>2, <2>3, <2>4 DEF PassLeaves, dbuf
  <2> QED
    BY <1>1, <1>3, <1>4, <2>2, <2>5, <2>6, ReadPassKeeps, Zenon
<1>10. CASE D3
  <2>1. DOMAIN mceccbuf' = McCards /\ mcdatabuf' = mcdatabuf
    BY <1>6, <1>10, Zenon
  <2>2. PassLeaves(mcdatabuf, k, TRUE)
    BY <1>1, <2>1 DEF PassLeaves
  <2>3. MceReadPass(mcdatabuf, TRUE)
    BY <1>10
  <2> QED
    BY <1>1, <1>3, <1>4, <1>6, <2>2, <2>3, ReadPassKeeps, Zenon
<1>11. CASE D4
  <2>1. DOMAIN mceccbuf' = McCards
    BY <1>6, <1>11, Zenon
  <2>2. CardTypes'
    BY <1>1, <1>2, <1>11, <2>1 DEF CardTypes
  <2>3. \A c \in McCards, p \in PageNumbers : <<c, p>> \notin Pages => vmc'[c][p] = vmc[c][p]
    BY <1>1
  <2>4. Answer(FALSE, McFill(sio.tot), TRUE)
    BY <1>11
  <2>5. host.op # "erase" /\ Head(sio.cmds).op # "status"
    BY <1>2, <1>3, CommandAt DEF McInv
  <2> QED
    BY <1>2, <1>3, <2>2, <2>3, <2>4, <2>5, StepKeeps, Zenon
<1> QED
  BY <1>7, <1>8, <1>9, <1>10, <1>11

(* The same for a write, which fills the page buffer from the command.     *)
WriteAt(k) ==
    /\ memcards[host.card].wroff = 128 * (k - 1) /\ memcards[host.card].wcoff = 3 * (k - 1)
    /\ memcards[host.card].wpage = host.page
    /\ sio.buf = <<host.data[k]>> /\ \A i \in 1 .. k - 1 : mcdatabuf[i] = host.data[i]
HasChunks(k) == mcdatabuf' \in Page /\ \A i \in 1 .. k : mcdatabuf'[i] = host.data[i]

(* A pass that fills a page changes the three fields of the write          *)
(* position.                                                               *)
LEMMA WriteToIs ==
    ASSUME memcards \in [McCards -> Place], NEW c \in McCards, NEW page, NEW off, NEW coff,
           memcards' = [[memcards EXCEPT ![c].wcoff = coff, ![c].wroff = off] EXCEPT ![c].wpage = page]
    PROVE  WriteTo(c, page, off, coff)
BY DEF WriteTo, Place

(* Any other pass leaves the page of the write position.                   *)
LEMMA WriteToStays ==
    ASSUME memcards \in [McCards -> Place], NEW c \in McCards, NEW page, NEW off, NEW coff,
           memcards[c].wpage = page, memcards' = [memcards EXCEPT ![c].wcoff = coff, ![c].wroff = off]
    PROVE  WriteTo(c, page, off, coff)
BY DEF WriteTo, Place

(* The page buffer after a pass has one more chunk of the data.            *)
LEMMA FilledIs ==
    ASSUME mcdatabuf \in Page, host.data \in Page, NEW k \in 1 .. McChunks, WriteAt(k), NEW dbuf,
           dbuf = [i \in 1 .. McChunks |-> IF i \in (k - 1) + 1 .. k THEN sio.buf[i - (k - 1)]
                                           ELSE mcdatabuf[i]]
    PROVE  dbuf \in Page /\ \A i \in 1 .. k : dbuf[i] = host.data[i]
<1> USE McConstants
<1>1. host.data[k] \in McData
  BY DEF Page
<1>2. sio.buf[1] = host.data[k]
  BY <1>1, OneIsSeq DEF WriteAt
<1>3. ASSUME NEW i \in 1 .. McChunks
      PROVE  /\ dbuf[i] = (IF i = k THEN host.data[k] ELSE mcdatabuf[i])
             /\ dbuf[i] \in McData
  <2>1. (i \in (k - 1) + 1 .. k <=> i = k) /\ (i = k => i - (k - 1) = 1)
    OBVIOUS
  <2>2. dbuf[i] = IF i \in (k - 1) + 1 .. k THEN sio.buf[i - (k - 1)] ELSE mcdatabuf[i]
    OBVIOUS
  <2>3. dbuf[i] = (IF i = k THEN host.data[k] ELSE mcdatabuf[i])
    BY <1>2, <2>1, <2>2
  <2> QED
    BY <1>1, <2>3 DEF Page
<1>4. dbuf \in Page
  BY <1>3 DEF Page
<1>5. ASSUME NEW i \in 1 .. k PROVE dbuf[i] = host.data[i]
  <2>1. i \in 1 .. McChunks /\ (i = k \/ i \in 1 .. k - 1)
    OBVIOUS
  <2>2. dbuf[i] = (IF i = k THEN host.data[k] ELSE mcdatabuf[i])
    BY <1>3, <2>1, Zenon
  <2>3. CASE i = k
    BY <2>2, <2>3
  <2>4. CASE i \in 1 .. k - 1
    <3>1. i # k
      BY <2>4
    <3>2. mcdatabuf[i] = host.data[i]
      BY <2>4, Zenon DEF WriteAt
    <3> QED
      BY <2>2, <3>1, <3>2, Zenon
  <2> QED
    BY <2>1, <2>3, <2>4
<1> QED
  BY <1>4, <1>5

WriteGoes(ecc, k, fault) ==
    IF Joined(ecc, k)
    THEN /\ sio' = [sio EXCEPT !.left = 16, !.buf = SubSeq(@, 2, Len(@))]
         /\ host' = [host EXCEPT !.fault = @ \/ fault]
         /\ UNCHANGED <<written, unsure>>
    ELSE Answer(TRUE, << >>, fault)
WriteEnds(ecc, k) ==
    LET at == host.card
    IN  IF k # McChunks
        THEN WriteTo(at, host.page, 128 * k, 3 * k) /\ vmc' = vmc /\ Answer(TRUE, << >>, FALSE)
        ELSE \/ /\ WriteTo(at, host.page + 1, 0, 3 * k) /\ WriteGoes(ecc, k, FALSE)
                /\ vmc' = [vmc EXCEPT ![at][host.page] = mcdatabuf']
             \/ WriteTo(at, host.page + 1, 0, 3 * k) /\ WriteGoes(ecc, k, TRUE) /\ vmc' = vmc
             \/ WriteTo(at, host.page, 0, 3 * k) /\ vmc' = vmc /\ Answer(FALSE, << >>, TRUE)

(* What a pass of MceWrite moves, and where it leaves the card.            *)
LEMMA WritePassIs ==
    ASSUME memcards \in [McCards -> Place], host.card \in McCards, NEW ecc, NEW k \in 1 .. McChunks,
           PassSizes(ecc, k), WriteAt(k), mcdatabuf \in Page, host.data \in Page, MceWrite
    PROVE  HasChunks(k) /\ WriteEnds(ecc, k) /\ mceccbuf' = mceccbuf
<1> DEFINE at == memcards[host.card]
<1>1. at.wroff = 128 * (k - 1) /\ at.wcoff = 3 * (k - 1) /\ at.wpage = host.page
  BY DEF WriteAt
<1>2. sio.left = (IF k = McChunks /\ ecc = "joined" THEN 144 ELSE 128) /\ sio.tot = sio.left
  BY DEF PassSizes
<1>3. /\ PassSize(at.wroff) = 128 /\ at.wroff + 128 = 128 * k
      /\ Chunk(at.wroff) = k - 1 /\ Chunk(128 * k) = k
      /\ 128 * k = PageSize <=> k = McChunks
  <2>1. PassEnds(k)
    BY PassIs
  <2> QED
    BY <1>1, <2>1 DEF PassEnds
<1> DEFINE size == PassSize(at.wroff)
           off == at.wroff + size
           full == off = PageSize
           Moved == [memcards EXCEPT ![host.card].wcoff = @ + 3,
                                     ![host.card].wroff = IF full THEN 0 ELSE off]
           Next == [Moved EXCEPT ![host.card].wpage = @ + 1]
           dbuf == [i \in 1 .. McChunks |-> IF i \in Chunk(at.wroff) + 1 .. Chunk(off)
                                            THEN sio.buf[i - Chunk(at.wroff)] ELSE mcdatabuf[i]]
           Restart(fault) ==
               IF sio.tot - size > 0
               THEN /\ sio' = [sio EXCEPT !.left = sio.tot - size,
                                          !.buf = SubSeq(@, Chunk(size) + 1, Len(@))]
                    /\ host' = [host EXCEPT !.fault = @ \/ fault]
                    /\ UNCHANGED <<written, unsure>>
               ELSE Answer(TRUE, << >>, fault)
<1>4. /\ mcdatabuf' = dbuf /\ mceccbuf' = mceccbuf
      /\ IF ~full
         THEN memcards' = Moved /\ vmc' = vmc /\ Answer(TRUE, << >>, FALSE)
         ELSE \/ /\ memcards' = Next /\ Restart(FALSE)
                 /\ vmc' = [vmc EXCEPT ![host.card][at.wpage] = dbuf]
              \/ memcards' = Next /\ Restart(TRUE) /\ vmc' = vmc
              \/ memcards' = Moved /\ vmc' = vmc /\ Answer(FALSE, << >>, TRUE)
  BY Zenon DEF MceWrite, Positions, Mc
<1>5. size = 128 /\ off = 128 * k /\ (full <=> k = McChunks)
  BY <1>3
<1>6. HasChunks(k)
  <2>1. dbuf = [i \in 1 .. McChunks |-> IF i \in (k - 1) + 1 .. k THEN sio.buf[i - (k - 1)]
                                        ELSE mcdatabuf[i]]
    BY <1>3, <1>5
  <2>2. mcdatabuf' = dbuf
    BY <1>4
  <2> HIDE DEF dbuf
  <2>3. dbuf \in Page /\ \A i \in 1 .. k : dbuf[i] = host.data[i]
    BY <2>1, FilledIs, Zenon
  <2> QED
    BY <2>2, <2>3, Zenon DEF HasChunks
<1> HIDE DEF dbuf
<1>7. Moved = [memcards EXCEPT ![host.card].wcoff = at.wcoff + 3,
                               ![host.card].wroff = IF full THEN 0 ELSE off]
  <2> HIDE DEF full, off
  <2> QED
    BY DEF Place
<1>8. at.wcoff + 3 = 3 * k /\ (IF full THEN 0 ELSE off) = EndOffset(k)
  BY <1>1, <1>5 DEF EndOffset
<1>9. Moved = [memcards EXCEPT ![host.card].wcoff = 3 * k, ![host.card].wroff = EndOffset(k)]
  BY <1>7, <1>8
<1>10. Moved[host.card].wpage = host.page
  BY <1>1, <1>9 DEF Place
<1>11. Next = [[memcards EXCEPT ![host.card].wcoff = 3 * k, ![host.card].wroff = EndOffset(k)]
                  EXCEPT ![host.card].wpage = host.page + 1]
  <2> HIDE DEF Moved
  <2>1. Next = [Moved EXCEPT ![host.card].wpage = host.page + 1]
    BY <1>9, <1>10
  <2> QED
    BY <1>9, <2>1
<1> HIDE DEF Moved, Next
<1>12. memcards' = Moved => WriteTo(host.card, host.page, EndOffset(k), 3 * k)
  BY <1>1, <1>9, WriteToStays, Zenon
<1>13. memcards' = Next => WriteTo(host.card, host.page + 1, EndOffset(k), 3 * k)
  BY <1>11, WriteToIs, Zenon
<1>14. k = McChunks => \A fault \in BOOLEAN : Restart(fault) => WriteGoes(ecc, k, fault)
  <2>1. k = McChunks => (Joined(ecc, k) <=> sio.tot - size > 0)
    BY <1>2, <1>5 DEF Joined
  <2>2. (Joined(ecc, k) => sio.tot - size = 16) /\ Chunk(size) + 1 = 2
    BY <1>2, <1>5 DEF Joined, Chunk
  <2> HIDE DEF size
  <2> QED
    BY <2>1, <2>2 DEF WriteGoes
<1>15. EndOffset(k) = IF k = McChunks THEN 0 ELSE 128 * k
  BY DEF EndOffset
<1> HIDE DEF Restart
<1>16. CASE k # McChunks
  <2>1. memcards' = Moved /\ vmc' = vmc /\ Answer(TRUE, << >>, FALSE)
    BY <1>4, <1>5, <1>16
  <2>2. WriteTo(host.card, host.page, 128 * k, 3 * k)
    BY <1>12, <1>15, <1>16, <2>1
  <2> QED
    BY <1>4, <1>6, <1>16, <2>1, <2>2 DEF WriteEnds
<1>17. CASE k = McChunks
  <2>1. \/ /\ memcards' = Next /\ Restart(FALSE)
           /\ vmc' = [vmc EXCEPT ![host.card][at.wpage] = dbuf]
        \/ memcards' = Next /\ Restart(TRUE) /\ vmc' = vmc
        \/ memcards' = Moved /\ vmc' = vmc /\ Answer(FALSE, << >>, TRUE)
    BY <1>4, <1>5, <1>17
  <2>2. /\ memcards' = Moved => WriteTo(host.card, host.page, 0, 3 * k)
        /\ memcards' = Next => WriteTo(host.card, host.page + 1, 0, 3 * k)
    BY <1>12, <1>13, <1>15, <1>17
  <2>3. \A fault \in BOOLEAN : Restart(fault) => WriteGoes(ecc, k, fault)
    BY <1>14, <1>17
  <2>4. mcdatabuf' = dbuf /\ mceccbuf' = mceccbuf /\ at.wpage = host.page
    BY <1>1, <1>4
  <2> QED
    BY <1>6, <1>17, <2>1, <2>2, <2>3, <2>4, Zenon DEF WriteEnds
<1> QED
  BY <1>16, <1>17

(* The image after a pass: once the page is full it is in the image,       *)
(* unless the device failed.                                               *)
Stores(k, fault) ==
    /\ HasChunks(k) /\ Elsewhere
    /\ k = McChunks /\ ~(host.fault \/ fault) => vmc'[host.card][host.page] = host.data
WriteIsAt(k) ==
    /\ memcards'[host.card].wroff = EndOffset(k) /\ memcards'[host.card].wcoff = 3 * k
    /\ memcards'[host.card].wpage = EndPage(k)

(* The command at its ECC has written all chunks of the page.              *)
LEMMA AgainWrites ==
    ASSUME NEW ecc, NEW k, k = McChunks, NEW fault, Stores(k, fault),
           MovedChunks(k)' = McChunks, ~EccMoved(ecc, k)',
           host'.card = host.card, host'.page = host.page, host'.data = host.data,
           host'.fault = (host.fault \/ fault),
           memcards'[host.card].wroff = 0, memcards'[host.card].wcoff = 3 * McChunks,
           memcards'[host.card].wpage = host.page + 1
    PROVE  WriteFits(ecc, k)'
<1>1. /\ \A i \in 1 .. McChunks : mcdatabuf'[i] = host'.data[i]
      /\ ~host'.fault => vmc'[host.card][host.page] = host'.data
  BY Zenon DEF Stores, HasChunks
<1> QED
  BY <1>1, Zenon DEF WriteFits

(* A write whose command also moves the ECC goes on with it.               *)
LEMMA WriteRestartKeeps ==
    ASSUME McInv, Executing("write"), sio.busy,
           NEW ecc \in Eccs, NEW split \in BOOLEAN, NEW k \in 1 .. McChunks, Fits(ecc, split, k),
           PassSizes(ecc, k), Joined(ecc, k), CardTypes', WriteIsAt(k),
           NEW fault \in BOOLEAN, Stores(k, fault),
           sio' = [sio EXCEPT !.left = 16, !.buf = SubSeq(@, 2, Len(@))],
           host' = [host EXCEPT !.fault = @ \/ fault], UNCHANGED <<written, unsure>>
    PROVE  McInv'
<1>1. host.state = "busy" /\ sio.cmds # << >> /\ Head(sio.cmds).op = "write" /\ host.card \in McCards
  BY Under
<1>2. McTypes /\ HostTypes
  BY DEF McInv, McTypes
<1>3. host.op = "write" /\ sio.result
  <2>1. host.op = "write"
    BY <1>1, <1>2, CommandAt
  <2> QED
    BY <2>1 DEF Fits
<1>4. k = McChunks /\ ecc = "joined" /\ sio.tot = 144
  BY DEF Joined, PassSizes
<1>5. /\ sio'.cmds = sio.cmds /\ sio'.result = sio.result /\ sio'.busy = TRUE
      /\ sio'.left = 16 /\ sio'.tot = sio.tot
      /\ DOMAIN sio' = {"cmds", "result", "busy", "left", "tot", "buf", "rdma"}
  BY <1>2, Zenon DEF HostTypes
<1>6. SameOperation(fault)
  BY <1>2, Zenon DEF HostTypes, SameOperation
<1>7. Again'
  BY <1>4, <1>5 DEF Again
<1>8. MovedChunks(k)' = McChunks /\ ~EccMoved(ecc, k)'
  BY <1>7 DEF MovedChunks, EccMoved
<1>9. MoveFits(ecc, k)'
  <2>1. sio.tot = Head(sio.cmds).size
    BY <1>3 DEF Fits, MoveFits
  <2> QED
    BY <1>1, <1>4, <1>5, <1>7, <2>1 DEF MoveFits
<1>10. host'.op = "write" /\ host'.card = host.card /\ host'.page = host.page /\ host'.data = host.data
       /\ host'.fault = (host.fault \/ fault)
  BY <1>3, <1>6 DEF SameOperation
<1>11. ReadFits(ecc, k)'
  BY <1>10 DEF ReadFits
<1>12. /\ memcards'[host.card].wroff = 0 /\ memcards'[host.card].wcoff = 3 * McChunks
       /\ memcards'[host.card].wpage = host.page + 1
  BY <1>4 DEF WriteIsAt, EndOffset, EndPage
<1>13. k = McChunks
  BY <1>4
<1>14. WriteFits(ecc, k)'
  BY <1>8, <1>10, <1>12, <1>13, AgainWrites, Zenon
<1>15. k # 0 /\ host.op # "erase" /\ k \in 0 .. McChunks + 3
  BY <1>3, McConstants
<1>16. written' = written /\ unsure' = unsure
  OBVIOUS
<1>17. \A c \in McCards, p \in PageNumbers : <<c, p>> \notin Pages => vmc'[c][p] = vmc[c][p]
  BY DEF Stores, Elsewhere
<1> QED
  BY <1>1, <1>3, <1>5, <1>6, <1>9, <1>11, <1>14, <1>15, <1>16, <1>17,
     InsideKeeps, Zenon

(* Any other pass of a write ends its command.                             *)
LEMMA WriteAnswerKeeps ==
    ASSUME McInv, Executing("write"),
           NEW ecc \in Eccs, NEW split \in BOOLEAN, NEW k \in 1 .. McChunks, Fits(ecc, split, k),
           ~Joined(ecc, k), CardTypes', WriteIsAt(k), NEW fault \in BOOLEAN, Stores(k, fault),
           Answer(TRUE, << >>, fault)
    PROVE  McInv'
<1>1. host.state = "busy" /\ sio.cmds # << >> /\ Head(sio.cmds).op = "write" /\ host.card \in McCards
  BY Under
<1>2. host.op = "write"
  BY <1>1, CommandAt DEF McInv
<1>3. ASSUME AnswerLeaves(<< >>, fault)
      PROVE  ReadFits(ecc, k + 1)' /\ WriteFits(ecc, k + 1)'
  <2>1. host'.op = "write" /\ host'.card = host.card /\ host'.page = host.page /\ sio'.busy = FALSE
        /\ host'.data = host.data /\ host'.fault = (host.fault \/ fault)
    BY <1>2, <1>3 DEF AnswerLeaves
  <2>2. MovedChunks(k + 1)' = k /\ ~EccMoved(ecc, k + 1)' /\ ~Again'
    <3>1. k \in Nat
      BY McConstants
    <3>2. /\ MovedChunks(k + 1)' = IF k + 1 > McChunks THEN McChunks ELSE k
          /\ EccMoved(ecc, k + 1)' <=> \/ ecc = "own" /\ k + 1 = McChunks + 2
                                       \/ ecc = "joined" /\ k + 1 = McChunks + 1
          /\ ~Again'
      BY <2>1, <3>1, AfterCommand, Zenon
    <3>3. k + 1 > McChunks => k = McChunks
      BY McConstants
    <3>4. k + 1 # McChunks + 2 /\ (k + 1 = McChunks + 1 => k = McChunks)
      BY McConstants
    <3> QED
      BY <3>2, <3>3, <3>4, Zenon DEF Joined
  <2>3. ReadFits(ecc, k + 1)'
    BY <2>1 DEF ReadFits
  <2>4. /\ \A i \in 1 .. k : mcdatabuf'[i] = host'.data[i]
        /\ k = McChunks /\ ~host'.fault => vmc'[host.card][host.page] = host'.data
    BY <2>1, Zenon DEF Stores, HasChunks
  <2>5. /\ memcards'[host.card].wroff = (IF k = McChunks THEN 0 ELSE 128 * k)
        /\ memcards'[host.card].wcoff = 3 * k
        /\ memcards'[host.card].wpage = (IF k = McChunks THEN host.page + 1 ELSE host.page)
    BY DEF WriteIsAt, EndOffset, EndPage
  <2>6. WriteFits(ecc, k + 1)'
    BY <2>1, <2>2, <2>4, <2>5, Zenon DEF WriteFits
  <2> QED
    BY <2>3, <2>6
<1>4. host.op # "erase" /\ Head(sio.cmds).op # "status"
  BY <1>1, <1>2
<1>5. \A c \in McCards, p \in PageNumbers : <<c, p>> \notin Pages => vmc'[c][p] = vmc[c][p]
  BY DEF Stores, Elsewhere
<1> QED
  BY <1>1, <1>3, <1>4, <1>5, StepKeeps, Zenon

(* Inside a page a write is at the chunk of its command.                   *)
LEMMA WritePhase ==
    ASSUME McInv, Executing("write"), sio.busy, ~(Positions.wcoff # 0 /\ Positions.wroff = 0),
           NEW ecc \in Eccs, NEW split \in BOOLEAN, NEW k, Fits(ecc, split, k)
    PROVE  k \in 1 .. McChunks /\ PassSizes(ecc, k) /\ WriteAt(k)
<1>1. host.state = "busy" /\ sio.cmds # << >> /\ Head(sio.cmds).op = "write" /\ Mc = host.card
  BY Under
<1>2. host.op = "write" /\ k \in 1 .. Len(All(ecc)) - 2 /\ Len(All(ecc)) \in Nat
  BY <1>1, CommandAt DEF McInv
<1>3. k > 0
  BY <1>2
<1>4. WriteFits(ecc, k)
  BY DEF Fits
<1> DEFINE off == memcards[host.card].wroff
           coff == memcards[host.card].wcoff
           m == MovedChunks(k)
<1>5. /\ off = (IF m = McChunks THEN 0 ELSE 128 * m)
      /\ coff = (IF EccMoved(ecc, k) THEN 0 ELSE 3 * m)
      /\ memcards[host.card].wpage = (IF m = McChunks THEN host.page + 1 ELSE host.page)
      /\ \A i \in 1 .. m : mcdatabuf[i] = host.data[i]
  BY <1>2, <1>3, <1>4, Zenon DEF WriteFits
<1>6. ~(coff # 0 /\ off = 0)
  BY <1>1 DEF Positions
<1> HIDE DEF off, coff
<1>7. off = (IF m = McChunks THEN 0 ELSE 128 * m) /\ coff = (IF EccMoved(ecc, k) THEN 0 ELSE 3 * m)
  BY <1>5
<1>8. /\ ~Again /\ k \in 1 .. McChunks /\ MovedChunks(k) = k - 1
      /\ off = 128 * (k - 1) /\ coff = 3 * (k - 1)
      /\ sio.buf = <<host.data[k]>> /\ sio.rdma = << >> /\ sio.left = sio.tot
      /\ sio.tot = (IF k = McChunks /\ ecc = "joined" THEN 144 ELSE 128)
  BY <1>6, <1>7, Phase
<1>9. PassSizes(ecc, k)
  BY <1>8 DEF PassSizes
<1>10. k - 1 # McChunks
  BY <1>8, McConstants
<1>11. WriteAt(k)
  BY <1>5, <1>8, <1>10, Zenon DEF WriteAt, off, coff
<1> QED
  BY <1>8, <1>9, <1>11

(* A pass that went on, whether or not the device failed unnoticed.        *)
LEMMA WriteGoesKeeps ==
    ASSUME McInv, Executing("write"), sio.busy,
           NEW ecc \in Eccs, NEW split \in BOOLEAN, NEW k \in 1 .. McChunks, Fits(ecc, split, k),
           PassSizes(ecc, k), CardTypes', WriteIsAt(k), NEW fault \in BOOLEAN, Stores(k, fault),
           WriteGoes(ecc, k, fault)
    PROVE  McInv'
<1>1. CASE Joined(ecc, k)
  BY <1>1, WriteRestartKeeps, Zenon DEF WriteGoes
<1>2. CASE ~Joined(ecc, k)
  BY <1>2, WriteAnswerKeeps, Zenon DEF WriteGoes
<1> QED
  BY <1>1, <1>2

(* A pass of a write leaves the positions inside a page.                   *)
LEMMA WritePassCards ==
    ASSUME McInv, Executing("write"), NEW k \in 1 .. McChunks, HasChunks(k), mceccbuf' = mceccbuf,
           vmc' \in [McCards -> [PageNumbers -> Page]],
           NEW page \in 0 .. McPages, NEW off \in 0 .. PageSize - 1, WriteTo(host.card, page, off, 3 * k)
    PROVE  /\ CardTypes' /\ memcards'[host.card].wpage = page
           /\ memcards'[host.card].wroff = off /\ memcards'[host.card].wcoff = 3 * k
<1>1. CardTypes /\ host.card \in McCards
  BY Under
<1>2. memcards \in [McCards -> Place] /\ 3 * k \in 0 .. 3 * McChunks
  BY <1>1, McConstants DEF CardTypes
<1> DEFINE coff == 3 * k
<1> HIDE DEF coff
<1>3. /\ memcards' \in [McCards -> Place] /\ memcards'[host.card].wpage = page
      /\ memcards'[host.card].wroff = off /\ memcards'[host.card].wcoff = coff
  <2>1. coff \in 0 .. 3 * McChunks /\ WriteTo(host.card, page, off, coff)
    BY <1>2 DEF coff
  <2> QED
    BY <1>1, <1>2, <2>1, WritePlace, Zenon
<1> QED
  BY <1>1, <1>3 DEF CardTypes, HasChunks, coff

(* Pages with the same chunks are the same page.                           *)
LEMMA SamePage ==
    ASSUME NEW a \in Page, NEW b \in Page, \A i \in 1 .. McChunks : a[i] = b[i]
    PROVE  a = b
<1>1. a = [i \in 1 .. McChunks |-> a[i]] /\ b = [i \in 1 .. McChunks |-> b[i]]
  BY DEF Page
<1>2. [i \in 1 .. McChunks |-> a[i]] = [i \in 1 .. McChunks |-> b[i]]
  BY Zenon
<1> QED
  BY <1>1, <1>2, Zenon

(* MceWrite inside a page: a full buffer holds the data of the operation   *)
(* and goes to its page, and to no other.                                  *)
LEMMA WriteKeeps == ASSUME McInv, MceWrite PROVE McInv'
<1>1. Executing("write") /\ sio.busy /\ ~(Positions.wcoff # 0 /\ Positions.wroff = 0)
  BY DEF MceWrite
<1>2. /\ host.state = "busy" /\ sio.cmds # << >> /\ Head(sio.cmds).op = "write" /\ CardTypes
      /\ host.card \in McCards /\ host.page \in PageNumbers /\ host.data \in Page
      /\ host.page + 1 \in 0 .. McPages /\ host.page \in 0 .. McPages
      /\ \E ecc \in Eccs, split \in BOOLEAN, k \in 0 .. McChunks + 3 : Fits(ecc, split, k)
  BY <1>1, Under, Zenon
<1>3. PICK ecc \in Eccs, split \in BOOLEAN, k \in 0 .. McChunks + 3 : Fits(ecc, split, k)
  BY <1>2
<1>4. k \in 1 .. McChunks /\ PassSizes(ecc, k) /\ WriteAt(k)
  BY <1>1, <1>3, WritePhase, Zenon
<1>5. /\ memcards \in [McCards -> Place] /\ mcdatabuf \in Page
      /\ vmc \in [McCards -> [PageNumbers -> Page]]
  BY <1>2 DEF CardTypes
<1>6. HasChunks(k) /\ WriteEnds(ecc, k) /\ mceccbuf' = mceccbuf
  BY <1>2, <1>4, <1>5, WritePassIs, Zenon
<1>7. /\ EndPage(k) \in 0 .. McPages /\ EndOffset(k) \in 0 .. PageSize - 1
      /\ 0 \in 0 .. PageSize - 1
  BY <1>2, <1>4, EndIs, McConstants DEF PageSize
<1>8. host.op = "write" /\ Pages = {<<host.card, host.page>>}
  <2>1. host.op = "write"
    BY <1>2, <1>3, CommandAt DEF McInv
  <2> QED
    BY <2>1 DEF Pages, Changed
<1>9. vmc' = vmc => Elsewhere
  BY DEF Elsewhere
<1>10. CASE k # McChunks
  <2>1. WriteTo(host.card, host.page, 128 * k, 3 * k) /\ vmc' = vmc /\ Answer(TRUE, << >>, FALSE)
    BY <1>6, <1>10, Zenon DEF WriteEnds
  <2>2. WriteTo(host.card, EndPage(k), EndOffset(k), 3 * k)
    BY <1>10, <2>1 DEF EndPage, EndOffset
  <2>3. CardTypes' /\ WriteIsAt(k)
    BY <1>1, <1>4, <1>5, <1>6, <1>7, <2>1, <2>2, WritePassCards DEF WriteIsAt
  <2>4. Stores(k, FALSE)
    BY <1>6, <1>9, <1>10, <2>1 DEF Stores
  <2>5. WriteGoes(ecc, k, FALSE)
    BY <1>10, <2>1 DEF WriteGoes, Joined
  <2> QED
    BY <1>1, <1>3, <1>4, <2>3, <2>4, <2>5, WriteGoesKeeps, Zenon
<1>11. CASE k = McChunks
  <2>1. \/ /\ WriteTo(host.card, host.page + 1, 0, 3 * k) /\ WriteGoes(ecc, k, FALSE)
           /\ vmc' = [vmc EXCEPT ![host.card][host.page] = mcdatabuf']
        \/ WriteTo(host.card, host.page + 1, 0, 3 * k) /\ WriteGoes(ecc, k, TRUE) /\ vmc' = vmc
        \/ WriteTo(host.card, host.page, 0, 3 * k) /\ vmc' = vmc /\ Answer(FALSE, << >>, TRUE)
    BY <1>6, <1>11, Zenon DEF WriteEnds
  <2>2. EndPage(k) = host.page + 1 /\ EndOffset(k) = 0
    BY <1>11 DEF EndPage, EndOffset
  <2>3. ASSUME WriteTo(host.card, host.page + 1, 0, 3 * k), vmc' \in [McCards -> [PageNumbers -> Page]]
        PROVE  CardTypes' /\ WriteIsAt(k)
    <3>1. WriteTo(host.card, EndPage(k), EndOffset(k), 3 * k)
      BY <2>2, <2>3
    <3> QED
      BY <1>1, <1>4, <1>6, <1>7, <2>3, <3>1, WritePassCards DEF WriteIsAt
  <2>4. CASE /\ WriteTo(host.card, host.page + 1, 0, 3 * k) /\ WriteGoes(ecc, k, FALSE)
             /\ vmc' = [vmc EXCEPT ![host.card][host.page] = mcdatabuf']
    <3>1. mcdatabuf' \in Page /\ \A i \in 1 .. McChunks : mcdatabuf'[i] = host.data[i]
      BY <1>6, <1>11 DEF HasChunks
    <3>2. mcdatabuf' = host.data
      BY <1>2, <3>1, SamePage, Zenon
    <3>3. /\ vmc' \in [McCards -> [PageNumbers -> Page]] /\ vmc'[host.card][host.page] = mcdatabuf'
          /\ \A c \in McCards, p \in PageNumbers :
                <<c, p>> # <<host.card, host.page>> => vmc'[c][p] = vmc[c][p]
      BY <1>2, <1>5, <2>4, <3>1
    <3>4. Elsewhere
      BY <1>8, <3>3, Zenon DEF Elsewhere
    <3>5. Stores(k, FALSE)
      BY <1>6, <3>2, <3>3, <3>4 DEF Stores
    <3>6. CardTypes' /\ WriteIsAt(k)
      BY <2>3, <2>4, <3>3
    <3>7. WriteGoes(ecc, k, FALSE)
      BY <2>4
    <3> QED
      BY <1>1, <1>3, <1>4, <3>5, <3>6, <3>7, WriteGoesKeeps, Zenon
  <2>5. CASE WriteTo(host.card, host.page + 1, 0, 3 * k) /\ WriteGoes(ecc, k, TRUE) /\ vmc' = vmc
    <3>1. Stores(k, TRUE)
      BY <1>6, <1>9, <2>5 DEF Stores
    <3>2. CardTypes' /\ WriteIsAt(k)
      BY <1>5, <2>3, <2>5
    <3> QED
      BY <1>1, <1>3, <1>4, <2>5, <3>1, <3>2, WriteGoesKeeps, Zenon
  <2>6. CASE WriteTo(host.card, host.page, 0, 3 * k) /\ vmc' = vmc /\ Answer(FALSE, << >>, TRUE)
    <3>1. CardTypes'
      BY <1>1, <1>2, <1>4, <1>5, <1>6, <1>7, <2>6, WritePassCards
    <3>2. \A c \in McCards, p \in PageNumbers : <<c, p>> \notin Pages => vmc'[c][p] = vmc[c][p]
      BY <2>6
    <3>3. host.op # "erase" /\ Head(sio.cmds).op # "status" /\ Answer(FALSE, << >>, TRUE)
      BY <1>2, <1>8, <2>6
    <3> QED
      BY <1>2, <1>3, <3>1, <3>2, <3>3, StepKeeps, Zenon
  <2> QED
    BY <2>1, <2>4, <2>5, <2>6
<1> QED
  BY <1>10, <1>11

(* The manager begins an operation: nothing of it is done.                 *)
LEMMA BeginKeeps == ASSUME McInv, HostBegin PROVE McInv'
<1>1. host.state # "busy" /\ UNCHANGED <<memcards, mcdatabuf, mceccbuf, vmc, sio, written, unsure>>
  BY DEF HostBegin
<1>2. PICK c \in McCards, p \in PageNumbers, d \in Page, op \in {"read", "write", "erase"},
           split \in BOOLEAN, ecc \in Eccs :
         /\ op # "write" => d = Repeat(McChunks, McErased)
         /\ op = "erase" => p % McBlock = 0 /\ ecc = "none"
         /\ host' = [op |-> op, card |-> c, page |-> p, data |-> d,
                     rest |-> Packets(Commands(op, p, d, ecc), split),
                     got |-> << >>, state |-> "busy", fault |-> FALSE]
  BY Zenon DEF HostBegin, Eccs
<1> DEFINE cmds == Commands(op, p, d, ecc)
<1>3. /\ host'.op = op /\ host'.card = c /\ host'.page = p /\ host'.data = d
      /\ host'.rest = Packets(cmds, split) /\ host'.got = << >> /\ host'.state = "busy"
      /\ host'.fault = FALSE
      /\ DOMAIN host' = {"op", "card", "page", "data", "rest", "got", "state", "fault"}
  BY <1>2, Zenon
<1>4. /\ sio.cmds = << >> /\ sio.result /\ ~sio.busy /\ Quiet /\ McTypes /\ CardHoldsWrites
  BY <1>1 DEF McInv, Quiet
<1>5. McTypes'
  BY <1>1, <1>3, <1>4 DEF McTypes, CardTypes, HostTypes
<1>6. Quiet'
  <2>1. /\ sio.cmds = << >> => sio.result /\ ~sio.busy /\ sio.rdma = << >>
        /\ ~sio.busy => sio.rdma = << >>
    BY <1>4 DEF Quiet
  <2>2. host'.state # "error" /\ ~(host'.state # "busy") /\ sio' = sio
    BY <1>1, <1>3
  <2> QED
    BY <2>1, <2>2, Zenon DEF Quiet
<1>7. cmds \in Seq(CmdRecords) /\ Len(cmds) >= 2
  BY CommandsAre, Zenon DEF AreCommands
<1>8. All(ecc)' = cmds
  BY <1>3, Zenon DEF All
<1> HIDE DEF cmds
<1>9. Stage(ecc, split, 0)'
  <2>1. 0 \in 0 .. Len(cmds) - 1 /\ sio'.cmds = << >>
    BY <1>1, <1>4, <1>7
  <2>2. split => host'.rest = [i \in 1 .. Len(cmds) - 0 |-> <<cmds[0 + i]>>]
    <3>1. Len(cmds) - 0 = Len(cmds) /\ \A i \in 1 .. Len(cmds) : 0 + i = i
      BY <1>7
    <3>2. split => host'.rest = [i \in 1 .. Len(cmds) |-> <<cmds[i]>>]
      BY <1>3 DEF Packets
    <3> QED
      BY <3>1, <3>2
  <2>3. ~split => host'.rest = <<cmds>>
    BY <1>3 DEF Packets
  <2> QED
    BY <1>8, <2>1, <2>2, <2>3, Zenon DEF Stage
<1>10. Fits(ecc, split, 0)'
  <2>1. EraseFits(0)'
    BY <1>2, <1>3 DEF EraseFits
  <2>2. ReadFits(ecc, 0)' /\ WriteFits(ecc, 0)'
    BY DEF ReadFits, WriteFits
  <2>3. MoveFits(ecc, 0)' /\ sio'.result
    BY <1>1, <1>4 DEF MoveFits
  <2>4. host'.op = "erase" => ecc = "none"
    BY <1>2, <1>3
  <2> QED
    BY <1>3, <1>9, <2>1, <2>2, <2>3, <2>4, Zenon DEF Fits
<1>11. OperationFits'
  <2>1. 0 \in 0 .. McChunks + 3
    BY McConstants
  <2> QED
    BY <1>10, <2>1, Zenon DEF OperationFits
<1>12. CardHoldsWrites'
  <2> SUFFICES ASSUME NEW x \in McCards, NEW q \in PageNumbers
               PROVE  vmc[x][q] = written[x][q] \/ <<x, q>> \in unsure
    BY <1>1, Zenon DEF CardHoldsWrites
  <2>1. \/ vmc[x][q] = written[x][q] \/ <<x, q>> \in unsure
        \/ host.state \in {"busy", "error"} /\ x = Mc /\ q \in Changed(host)
    BY <1>4 DEF CardHoldsWrites
  <2>2. host.state = "error" => {host.card} \X Changed(host) \subseteq unsure
    BY <1>4 DEF Quiet
  <2> QED
    BY <1>1, <2>1, <2>2 DEF Mc
<1>13. ReadReturnsPage'
  BY <1>3, Zenon DEF ReadReturnsPage
<1> QED
  BY <1>5, <1>6, <1>11, <1>12, <1>13 DEF McInv

(* The next packet of the operation: no command is done by that.           *)
LEMMA HookKeeps == ASSUME McInv, HookSio2man PROVE McInv'
<1>1. /\ sio.cmds = << >> /\ host.rest # << >>
      /\ sio' = [NoPacket EXCEPT !.cmds = Head(host.rest)] /\ host' = [host EXCEPT !.rest = Tail(@)]
      /\ UNCHANGED <<memcards, mcdatabuf, mceccbuf, vmc, written, unsure>>
  BY DEF HookSio2man
<1>2. sio.result /\ ~sio.busy /\ host.state = "busy" /\ McTypes
  BY <1>1 DEF McInv, Quiet
<1>3. /\ sio'.cmds = Head(host.rest) /\ sio'.result = TRUE /\ sio'.busy = FALSE /\ sio'.rdma = << >>
      /\ DOMAIN sio' = {"cmds", "result", "busy", "left", "tot", "buf", "rdma"}
  BY <1>1, Zenon DEF NoPacket
<1>4. /\ host'.op = host.op /\ host'.card = host.card /\ host'.page = host.page
      /\ host'.data = host.data /\ host'.rest = Tail(host.rest) /\ host'.got = host.got
      /\ host'.state = host.state /\ host'.fault = host.fault
      /\ DOMAIN host' = {"op", "card", "page", "data", "rest", "got", "state", "fault"}
  <2>1. DOMAIN host = {"op", "card", "page", "data", "rest", "got", "state", "fault"}
    BY <1>2 DEF McTypes, HostTypes
  <2> QED
    BY <1>1, <2>1, Zenon
<1>5. /\ memcards' = memcards /\ mcdatabuf' = mcdatabuf /\ mceccbuf' = mceccbuf /\ vmc' = vmc
      /\ written' = written /\ unsure' = unsure
  BY <1>1
<1>6. PICK ecc \in Eccs, split \in BOOLEAN, k \in 0 .. McChunks + 3 : Fits(ecc, split, k)
  BY <1>2 DEF McInv, OperationFits
<1>7. Stage(ecc, split, k) /\ EraseFits(k) /\ ReadFits(ecc, k) /\ WriteFits(ecc, k)
      /\ (k = 0 => host.got = << >>) /\ (host.op = "erase" => ecc = "none")
  BY <1>2, <1>6 DEF Fits
<1>8. McTypes'
  BY <1>2, <1>3, <1>4, <1>5 DEF McTypes, CardTypes, HostTypes
<1>9. All(ecc) \in Seq(CmdRecords) /\ Len(All(ecc)) >= 2
  <2>1. /\ host.op \in {"read", "write", "erase"} /\ host.page \in PageNumbers /\ host.data \in Page
    BY <1>2 DEF McTypes, HostTypes
  <2> QED
    BY <2>1, CommandsAre, Zenon DEF AreCommands, All
<1>10. All(ecc)' = All(ecc)
  BY <1>4, Zenon DEF All
<1> DEFINE cmds == All(ecc)
           n == Len(cmds)
<1> HIDE DEF cmds
<1>11. k \in 0 .. n - 1 /\ n \in Nat /\ cmds \in Seq(CmdRecords) /\ n >= 2
  BY <1>7, <1>9 DEF Stage, cmds
<1>12. Stage(ecc, split, k)' /\ sio'.cmds # << >>
  <2>1. CASE split
    <3> DEFINE rest == [i \in 1 .. n - k |-> <<cmds[k + i]>>]
    <3>1. host.rest = rest
      BY <1>1, <1>7, <2>1 DEF Stage, cmds
    <3>2. n - k \in Nat /\ n - k >= 1 /\ \A i \in 1 .. n - k : <<cmds[k + i]>> \in Seq(CmdRecords)
      BY <1>11
    <3>3. rest \in Seq(Seq(CmdRecords)) /\ Len(rest) = n - k /\ rest[1] = <<cmds[k + 1]>>
      BY <3>2
    <3>4. /\ Tail(rest) \in Seq(Seq(CmdRecords)) /\ Len(Tail(rest)) = n - k - 1
          /\ \A i \in 1 .. n - k - 1 : Tail(rest)[i] = <<cmds[k + 1 + i]>>
      <4>1. \A i \in 1 .. n - k - 1 : i + 1 \in 1 .. n - k /\ k + (i + 1) = k + 1 + i
        BY <1>11
      <4>2. \A i \in 1 .. n - k : rest[i] = <<cmds[k + i]>>
        OBVIOUS
      <4> HIDE DEF rest
      <4>3. /\ Tail(rest) \in Seq(Seq(CmdRecords)) /\ Len(Tail(rest)) = n - k - 1
            /\ \A i \in 1 .. n - k - 1 : Tail(rest)[i] = rest[i + 1]
        BY <3>2, <3>3
      <4> QED
        BY <4>1, <4>2, <4>3
    <3>5. Tail(rest) = [i \in 1 .. n - k - 1 |-> <<cmds[k + 1 + i]>>]
      <4> DEFINE t == [i \in 1 .. n - k - 1 |-> <<cmds[k + 1 + i]>>]
      <4>1. n - k - 1 \in Nat /\ \A i \in 1 .. n - k - 1 : <<cmds[k + 1 + i]>> \in Seq(CmdRecords)
        BY <1>11
      <4>2. t \in [1 .. n - k - 1 -> Seq(CmdRecords)] /\ \A i \in 1 .. n - k - 1 : t[i] = <<cmds[k + 1 + i]>>
        BY <4>1
      <4> HIDE DEF t, rest
      <4>3. t \in Seq(Seq(CmdRecords)) /\ Len(t) = n - k - 1
        BY <4>1, <4>2, FunIsSeq
      <4>4. \A i \in 1 .. Len(t) : Tail(rest)[i] = t[i]
        BY <3>4, <4>2, <4>3
      <4>5. Tail(rest) = t
        BY <3>4, <4>3, <4>4, SeqEqual
      <4> QED
        BY <4>5 DEF t
    <3> HIDE DEF rest
    <3>6. sio'.cmds = <<cmds[k + 1]>> /\ sio'.cmds # << >>
      <4>1. Head(rest) = rest[1]
        BY <3>2, <3>3
      <4>2. sio'.cmds = <<cmds[k + 1]>>
        BY <1>3, <3>1, <3>3, <4>1, Zenon
      <4> QED
        BY <4>2
    <3>7. host'.rest = [i \in 1 .. n - k - 1 |-> <<cmds[k + 1 + i]>>]
      BY <1>4, <3>1, <3>5
    <3> QED
      BY <1>10, <1>11, <2>1, <3>6, <3>7, Zenon DEF Stage, cmds
  <2>2. CASE ~split
    <3>1. k = 0 /\ host.rest = <<cmds>>
      BY <1>1, <1>7, <2>2 DEF Stage, cmds
    <3>2. sio'.cmds = cmds /\ host'.rest = << >>
      BY <1>3, <1>4, <3>1
    <3>3. cmds # << >>
      BY <1>11
    <3>4. cmds = [i \in 1 .. n - k |-> cmds[k + i]]
      <4>1. n - k = n /\ \A i \in 1 .. n : k + i = i
        BY <1>11, <3>1
      <4>2. cmds = [i \in 1 .. n |-> cmds[i]]
        BY <1>11
      <4> QED
        BY <4>1, <4>2
    <3> QED
      BY <1>10, <1>11, <2>2, <3>2, <3>3, <3>4, Zenon DEF Stage, cmds
  <2> QED
    BY <2>1, <2>2
<1>13. Fits(ecc, split, k)'
  <2>1. EraseFits(k)'
    BY <1>4, <1>5, <1>7, Zenon DEF EraseFits, Changed
  <2>2. ~Again /\ ~Again'
    BY <1>2, <1>3 DEF Again
  <2>3. MovedChunks(k)' = MovedChunks(k) /\ (EccMoved(ecc, k)' <=> EccMoved(ecc, k))
    BY <2>2 DEF MovedChunks, EccMoved
  <2>4. ReadFits(ecc, k)'
    BY <1>4, <1>5, <1>7, <2>2, <2>3 DEF ReadFits
  <2>5. WriteFits(ecc, k)'
    BY <1>4, <1>5, <1>7, <2>3 DEF WriteFits
  <2>6. MoveFits(ecc, k)'
    BY <1>3 DEF MoveFits
  <2> QED
    BY <1>3, <1>4, <1>7, <1>12, <2>1, <2>4, <2>5, <2>6, Zenon DEF Fits
<1>14. OperationFits'
  BY <1>13, Zenon DEF OperationFits
<1>15. Quiet'
  BY <1>2, <1>3, <1>4, <1>12 DEF Quiet
<1>16. CardHoldsWrites'
  <2>1. CardHoldsWrites /\ host'.state = "busy" /\ Changed(host') = Changed(host)
    BY <1>2, <1>4 DEF McInv, Changed
  <2> QED
    BY <1>2, <1>4, <1>5, <2>1, Zenon DEF CardHoldsWrites, Mc
<1>17. ReadReturnsPage'
  BY <1>2, <1>4 DEF ReadReturnsPage
<1> QED
  BY <1>8, <1>14, <1>15, <1>16, <1>17 DEF McInv

(* Erased cards and no operation.                                          *)
LEMMA McInitHolds == McInit => McInv
<1> SUFFICES ASSUME McInit PROVE McInv
  OBVIOUS
<1> USE McConstants
<1>1. Repeat(McChunks, McErased) \in Page
  BY DEF Repeat, Page
<1>2. CardTypes
  BY <1>1 DEF McInit, CardTypes, Place, PageSize
<1>3. /\ host.state = "idle" /\ host.fault = FALSE /\ host.rest = << >>
      /\ DOMAIN host = {"op", "card", "page", "data", "rest", "got", "state", "fault"}
      /\ DOMAIN sio = {"cmds", "result", "busy", "left", "tot", "buf", "rdma"}
      /\ sio.result = TRUE /\ sio.busy = FALSE /\ sio.cmds = << >> /\ sio.rdma = << >>
  BY Zenon DEF McInit, NoOperation, NoPacket
<1>4. HostTypes
  <2>1. written \in [McCards -> [PageNumbers -> Page]] /\ unsure = {}
    BY <1>2 DEF McInit, CardTypes
  <2> QED
    BY <1>3, <2>1 DEF HostTypes
<1>5. Quiet /\ OperationFits /\ ReadReturnsPage
  BY <1>3 DEF Quiet, OperationFits, ReadReturnsPage
<1>6. CardHoldsWrites
  BY DEF McInit, CardHoldsWrites
<1> QED
  BY <1>2, <1>4, <1>5, <1>6 DEF McInv, McTypes

(* Every step keeps the invariant.                                         *)
LEMMA McNextKeeps == McInv /\ [McNext]_mcVars => McInv'
<1> SUFFICES ASSUME McInv, [McNext]_mcVars PROVE McInv'
  OBVIOUS
<1>1. CASE HostBegin
  BY <1>1, BeginKeeps
<1>2. CASE HookSio2man
  BY <1>2, HookKeeps
<1>3. CASE McStatus
  BY <1>3, StatusKeeps
<1>4. CASE MceStartRead
  BY <1>4, StartReadKeeps
<1>5. CASE MceStartWrite
  BY <1>5, StartWriteKeeps
<1>6. CASE MceEraseBlock
  BY <1>6, EraseKeeps
<1>7. CASE McMove
  BY <1>7, MoveKeeps
<1>8. CASE MceReadEcc
  BY <1>8, ReadEccKeeps
<1>9. CASE MceRead
  BY <1>9, ReadKeeps
<1>10. CASE MceWriteEcc
  BY <1>10, WriteEccKeeps
<1>11. CASE MceWrite
  BY <1>11, WriteKeeps
<1>12. CASE UNCHANGED mcVars
  <2>1. /\ memcards' = memcards /\ mcdatabuf' = mcdatabuf /\ mceccbuf' = mceccbuf /\ vmc' = vmc
        /\ sio' = sio /\ host' = host /\ written' = written /\ unsure' = unsure
    BY <1>12 DEF mcVars
  <2>2. ASSUME NEW ecc, NEW split, NEW k PROVE Fits(ecc, split, k)' <=> Fits(ecc, split, k)
    <3>1. (Again' <=> Again) /\ All(ecc)' = All(ecc)
      BY <2>1 DEF Again, All
    <3>2. MovedChunks(k)' = MovedChunks(k) /\ (EccMoved(ecc, k)' <=> EccMoved(ecc, k))
      BY <3>1 DEF MovedChunks, EccMoved
    <3>3. Stage(ecc, split, k)' <=> Stage(ecc, split, k)
      BY <2>1, <3>1, Zenon DEF Stage
    <3>4. (EraseFits(k)' <=> EraseFits(k)) /\ (MoveFits(ecc, k)' <=> MoveFits(ecc, k))
      BY <2>1, <3>1, Zenon DEF EraseFits, MoveFits, Changed
    <3>5. ReadFits(ecc, k)' <=> ReadFits(ecc, k)
      BY <2>1, <3>1, <3>2, Zenon DEF ReadFits
    <3>6. WriteFits(ecc, k)' <=> WriteFits(ecc, k)
      BY <2>1, <3>2, Zenon DEF WriteFits
    <3> QED
      BY <2>1, <3>3, <3>4, <3>5, <3>6, Zenon DEF Fits
  <2>3. OperationFits'
    BY <2>1, <2>2, Zenon DEF McInv, OperationFits
  <2>4. McTypes' /\ Quiet'
    BY <2>1, Zenon DEF McInv, McTypes, CardTypes, HostTypes, Quiet, Changed
  <2>5. CardHoldsWrites' /\ ReadReturnsPage'
    BY <2>1, Zenon DEF McInv, CardHoldsWrites, ReadReturnsPage, Mc, Changed
  <2> QED
    BY <2>3, <2>4, <2>5 DEF McInv
<1> QED
  BY <1>1, <1>2, <1>3, <1>4, <1>5, <1>6, <1>7, <1>8, <1>9, <1>10, <1>11, <1>12
     DEF McNext, Sio2McEmu

(* The invariant implies the property.                                     *)
LEMMA McInvShows == McInv => CardsKeepPages
<1> SUFFICES ASSUME McInv PROVE McTypeOK
  BY DEF McInv, CardsKeepPages
<1>1. CardTypes /\ HostTypes
  BY DEF McInv, McTypes
<1>2. ASSUME NEW c \in McCards
      PROVE  /\ memcards[c].rpage \in 0 .. McPages /\ memcards[c].wpage \in 0 .. McPages
             /\ memcards[c].rdoff \in 0 .. PageSize - 1 /\ memcards[c].wroff \in 0 .. PageSize - 1
             /\ memcards[c].rcoff \in 0 .. 3 * McChunks /\ memcards[c].wcoff \in 0 .. 3 * McChunks
             /\ vmc[c] \in [PageNumbers -> Page]
  BY <1>1 DEF CardTypes, Place
<1>3. host.state \in {"idle", "busy", "ok", "error"} /\ unsure \subseteq McCards \X PageNumbers
  BY <1>1 DEF HostTypes
<1> QED
  BY <1>2, <1>3 DEF McTypeOK

(* A virtual card returns what was written to it and loses nothing: for    *)
(* any cards, pages, chunks and blocks, any operations, cut in any way     *)
(* into packets and commands, and any failures of the device, although     *)
(* mcemu.c passes the pages of all cards through one buffer.               *)
THEOREM CardsStayReadable == McSpec => []CardsKeepPages
BY McInitHolds, McNextKeeps, McInvShows, PTL DEF McSpec

----------------------------------------------------------------------------
(* Reads of a game by remote procedure.                                    *)

(* A quotient and a remainder are what they are said to be.                *)
LEMMA DivIs ==
    ASSUME NEW d \in Nat \ {0}, NEW q \in Nat, NEW r \in 0 .. d - 1
    PROVE  (q * d + r) \div d = q /\ (q * d + r) % d = r
<1> DEFINE x == q * d + r
           p == x \div d
           m == x % d
<1>1. x \in Nat /\ p \in Int /\ m \in 0 .. d - 1 /\ x = d * p + m
  BY SMT
<1>2. ASSUME NEW u \in Int, NEW v \in 0 .. d - 1, q * d + r = d * u + v PROVE u = q /\ v = r
  <2>1. d * (q - u) = v - r BY <1>2, SMT
  <2>2. CASE q - u >= 1
    <3>1. d * (q - u) >= d BY <2>2, <1>2, SMT
    <3> QED BY <3>1, <2>1, <1>2, SMT
  <2>3. CASE q - u <= -1
    <3>1. d * (q - u) <= -d BY <2>3, <1>2, SMT
    <3> QED BY <3>1, <2>1, <1>2, SMT
  <2> QED BY <2>1, <2>2, <2>3, <1>2, SMT
<1>3. x = q * d + r OBVIOUS
<1> HIDE DEF x, p, m
<1>4. p = q /\ m = r BY <1>1, <1>2, <1>3
<1> QED BY <1>4 DEF x, p, m

(* Every number has a quotient and a remainder.                            *)
LEMMA DivOf ==
    ASSUME NEW d \in Nat \ {0}, NEW i \in Nat
    PROVE  i \div d \in Nat /\ i % d \in 0 .. d - 1 /\ i = (i \div d) * d + (i % d)
<1> DEFINE q == i \div d
           r == i % d
<1>1. q \in Nat BY SMT
<1>2. r \in 0 .. d - 1 /\ i = d * q + r BY SMT
<1>3. ASSUME NEW p \in Nat PROVE d * p = p * d BY SMT
<1> HIDE DEF q, r
<1>4. i = q * d + r BY <1>1, <1>2, <1>3
<1>5. q \in Nat /\ r \in 0 .. d - 1 /\ i = q * d + r BY <1>1, <1>2, <1>4
<1> QED BY <1>5, Zenon DEF q, r

(* The sizes are positive, and a sector is a number of blocks.             *)
LEMMA EeNumbers ==
    /\ EeAlign \in Nat \ {0} /\ EeSector \in Nat \ {0} /\ FsSectors \in Nat \ {0} /\ FsSectors > 1
    /\ BufSectors \in Nat \ {0} /\ mediaLsnCount \in Nat \ {0} /\ MaxSectors \in Nat
    /\ EeAlign <= EeSector /\ \E k \in Nat \ {0} : EeSector = k * EeAlign
<1>1. {EeAlign, EeSector, EeWord, FsSectors, BufSectors, mediaLsnCount} \subseteq Nat \ {0}
  BY EeConstants
<1>2. {MaxSectors, MaxEeReads, MaxEeFaults} \subseteq Nat BY EeConstants
<1>3. EeAlign \in Nat \ {0} /\ EeSector \in Nat \ {0} /\ FsSectors \in Nat \ {0}
      /\ BufSectors \in Nat \ {0} /\ mediaLsnCount \in Nat \ {0} /\ MaxSectors \in Nat
  BY <1>1, <1>2, Zenon
<1>4. EeSector % EeAlign = 0 /\ FsSectors > 1 BY EeConstants
<1>5. EeSector = (EeSector \div EeAlign) * EeAlign /\ EeSector \div EeAlign \in Nat
  BY <1>3, <1>4, DivOf
<1>6. EeSector \div EeAlign \in Nat \ {0} BY <1>3, <1>5
<1>7. ASSUME NEW k \in Nat \ {0}, NEW e \in Nat \ {0} PROVE e <= k * e BY SMT
<1>8. EeAlign <= EeSector BY <1>3, <1>5, <1>6, <1>7
<1> QED BY <1>3, <1>4, <1>5, <1>6, <1>8

(* The bytes of a number of sectors.                                       *)
Size(k) == k * EeSector

(* Their sums, and the sector and the offset of a byte.                    *)
LEMMA SizeOfSum ==
    ASSUME NEW a \in Nat, NEW b \in Nat
    PROVE  Size(a) \in Nat /\ Size(a + b) = Size(a) + Size(b) /\ Size(0) = 0
           /\ (a >= 1 => Size(a) >= EeSector)
BY EeNumbers, SMT DEF Size

(* The sector and the byte of it that a position lies in.                  *)
LEMMA SizeByte ==
    ASSUME NEW a \in Nat, NEW i \in Nat
    PROVE  /\ (Size(a) + i) \div EeSector = a + i \div EeSector
           /\ (Size(a) + i) % EeSector = i % EeSector
           /\ i \div EeSector \in Nat /\ i % EeSector \in Nat
           /\ (i < Size(a) <=> i \div EeSector < a)
<1> DEFINE q == i \div EeSector
           r == i % EeSector
<1>1. EeSector \in Nat \ {0} BY EeNumbers
<1>2. q \in Nat /\ r \in 0 .. EeSector - 1 /\ i = q * EeSector + r BY <1>1, DivOf
<1>3. ASSUME NEW p \in Nat, NEW s \in 0 .. EeSector - 1, i = p * EeSector + s
      PROVE  /\ Size(a) + i = (a + p) * EeSector + s
             /\ (i < Size(a) <=> p < a)
  <2>1. Size(a) + i = (a + p) * EeSector + s BY <1>1, <1>3, SMT DEF Size
  <2>2. ASSUME p < a PROVE i < Size(a)
    <3>1. PICK x \in Nat : a = p + 1 + x
      <4>1. a - p - 1 \in Nat /\ a = p + 1 + (a - p - 1) BY <2>2
      <4> QED BY <4>1
    <3>2. (p + 1 + x) * EeSector = p * EeSector + EeSector + x * EeSector BY <1>1, SMT
    <3>3. x * EeSector >= 0 /\ x * EeSector \in Int BY <1>1, SMT
    <3>4. p * EeSector \in Int BY <1>1, SMT
    <3> QED BY <3>1, <3>2, <3>3, <3>4, <1>1, <1>3 DEF Size
  <2>3. ASSUME a <= p PROVE Size(a) <= i
    <3>1. PICK x \in Nat : p = a + x
      <4>1. p - a \in Nat /\ p = a + (p - a) BY <2>3
      <4> QED BY <4>1
    <3>2. (a + x) * EeSector = a * EeSector + x * EeSector BY <1>1, SMT
    <3>3. x * EeSector >= 0 /\ x * EeSector \in Int /\ a * EeSector \in Int BY <1>1, SMT
    <3> QED BY <3>1, <3>2, <3>3, <1>1, <1>3 DEF Size
  <2>4. Size(a) \in Int BY <1>1 DEF Size
  <2> QED BY <2>1, <2>2, <2>3, <2>4
<1> HIDE DEF q, r
<1>4. Size(a) + i = (a + q) * EeSector + r /\ (i < Size(a) <=> q < a) BY <1>2, <1>3
<1>5. a + q \in Nat BY <1>2
<1>6. ((a + q) * EeSector + r) \div EeSector = a + q /\ ((a + q) * EeSector + r) % EeSector = r
  BY <1>1, <1>2, <1>5, DivIs
<1> QED BY <1>2, <1>4, <1>6 DEF q, r

(* Where the request of a call begins and ends within its blocks.          *)
LEMMA EeOffsets ==
    ASSUME NEW r, r.buf \in EeAlign .. 2 * EeAlign - 1, r.sectors \in Nat
    PROVE  /\ b1len(r) \in 0 .. EeAlign - 1 /\ b2len(r) \in 0 .. EeAlign - 1
           /\ (flag_64b(r) <=> b1len(r) = 0)
           /\ b1len(r) = (IF b2len(r) = 0 THEN 0 ELSE EeAlign - b2len(r))
           /\ Up(r.buf) = r.buf + b1len(r)
           /\ Down(r.buf + r.sectors * EeSector) = r.buf + r.sectors * EeSector - b2len(r)
<1> DEFINE off == r.buf - EeAlign
           e == EeAlign
           n == r.sectors
<1>1. e \in Nat \ {0} /\ off \in 0 .. e - 1 /\ r.buf = e + off /\ n \in Nat BY EeNumbers
<1>2. PICK k \in Nat : EeSector = k * e BY EeNumbers
<1> HIDE DEF off, e, n
<1>3. (n * k + 1) \in Nat /\ r.buf + n * EeSector = (n * k + 1) * e + off
  <2>1. n * k \in Nat BY <1>1, <1>2
  <2>2. n * (k * e) = (n * k) * e BY <1>1, <1>2, SMT
  <2>3. ASSUME NEW w \in Nat PROVE (w + 1) * e = w * e + e /\ w * e \in Nat BY <1>1, SMT
  <2>4. (n * k + 1) * e = (n * k) * e + e /\ (n * k) * e \in Nat BY <2>1, <2>3
  <2> QED BY <1>1, <1>2, <2>1, <2>2, <2>4
<1>4. (r.buf + n * EeSector) % e = off /\ (r.buf + n * EeSector) \div e = n * k + 1
  <2> DEFINE w == n * k + 1
  <2>1. w \in Nat /\ r.buf + n * EeSector = w * e + off BY <1>3
  <2> HIDE DEF w
  <2>2. (w * e + off) \div e = w /\ (w * e + off) % e = off BY <1>1, <2>1, DivIs
  <2>3. (r.buf + n * EeSector) % e = off /\ (r.buf + n * EeSector) \div e = w
    BY <2>1, <2>2, Zenon
  <2> QED BY <2>3, Zenon DEF w
<1>5. b2len(r) = off BY <1>4 DEF b2len, e, n
<1>6. Down(r.buf + n * EeSector) = r.buf + n * EeSector - off
  <2>1. Down(r.buf + n * EeSector) = (n * k + 1) * e BY <1>4 DEF Down, e
  <2>2. ASSUME NEW w \in Nat PROVE w * e \in Int BY <1>1, SMT
  <2>3. (n * k + 1) * e \in Int BY <1>3, <2>2
  <2>4. n * EeSector \in Int BY <1>1, EeNumbers
  <2> QED BY <2>1, <2>3, <2>4, <1>1, <1>3
<1>7. Up(r.buf) = IF off = 0 THEN e ELSE 2 * e
  <2>1. CASE off = 0
    <3>1. r.buf + e - 1 = 1 * e + (e - 1) /\ e - 1 \in 0 .. e - 1 BY <1>1, <2>1
    <3>2. (r.buf + e - 1) \div e = 1 BY <3>1, <1>1, DivIs
    <3> QED BY <3>2, <2>1, <1>1 DEF Up, e
  <2>2. CASE off # 0
    <3>1. r.buf + e - 1 = 2 * e + (off - 1) /\ off - 1 \in 0 .. e - 1 BY <1>1, <2>2
    <3>2. (r.buf + e - 1) \div e = 2 BY <3>1, <1>1, DivIs
    <3> QED BY <3>2, <2>2, <1>1 DEF Up, e
  <2> QED BY <2>1, <2>2
<1>8. b1len(r) = IF off = 0 THEN 0 ELSE e - off BY <1>1, <1>7 DEF b1len
<1> QED BY <1>1, <1>5, <1>6, <1>7, <1>8 DEF flag_64b, e, n

(* How many sectors of the request the passes have sent; what byte i of it *)
(* is to be; and whether it is on the disc.                                *)
EeDone == req.sectors - loop.left
Right(i) == <<req.lsn + i \div EeSector, i % EeSector>>
OnDisc(i) == req.lsn + i \div EeSector < mediaLsnCount

(* The request, and how far its passes and pieces are.                     *)
EeReqInv ==
    /\ req.lsn \in Nat /\ req.sectors \in 0 .. MaxSectors /\ req.buf \in EeAlign .. 2 * EeAlign - 1
    /\ loop \in [left : Nat, lsn : Nat, to : Nat, n : Nat] /\ loop.left <= req.sectors
    /\ loop.lsn = req.lsn + EeDone /\ loop.to = req.buf + b1len(req) + Size(EeDone)
    /\ rd \in [lsn : Nat, count : 0 .. FsSectors, done : Nat] /\ rd.done <= rd.count
    /\ eeStep \in {"idle", "pass", "read", "done"}
    /\ cdErr \in {"NO", "READ", "READCF", "ABRT", "EOM", "IPI"}
    /\ eeStep # "idle" => req.sectors > 0
    /\ eeStep = "read" => /\ loop.n \in 1 .. loop.left /\ rd.lsn = loop.lsn
                          /\ rd.count = IF flag_64b(req) THEN loop.n ELSE loop.n + 1

(* A pass or a piece behind the end of the disc has left its error, and    *)
(* only another thread's sceCdBreak ends a call early.                     *)
EeErrInv ==
    /\ cdErr = "ABRT" => failedAt # {}
    /\ eeStep = "read" /\ rd.done > 0 /\ rd.lsn + rd.done > mediaLsnCount => cdErr # "NO"
    /\ eeStep = "pass" /\ loop.left = 0 /\ req.lsn + req.sectors > mediaLsnCount => cdErr # "NO"
    /\ PastEndIsSignalled

(* The end of what the passes have sent.                                   *)
EeSent == IF loop.left = 0 THEN Size(req.sectors) - b2len(req) ELSE b1len(req) + Size(EeDone)

(* What is in cdvdfsv_buf, in readee and in the caller's memory.           *)
FsvOk == \A k \in Nat : k < rd.done /\ rd.lsn + k < mediaLsnCount => fsv[k] = rd.lsn + k
SentOk == \A i \in Nat : b1len(req) <= i /\ i < EeSent /\ OnDisc(i) => ee[req.buf + i] = Right(i)
Buf1Ok == /\ Len(readee.buf1) = b1len(req)
          /\ \A j \in 1 .. b1len(req) : OnDisc(j - 1) => readee.buf1[j] = Right(j - 1)
Buf2Ok == /\ Len(readee.buf2) = b2len(req)
          /\ \A j \in 1 .. b2len(req) :
               OnDisc(Size(req.sectors) - b2len(req) + (j - 1)) =>
                   readee.buf2[j] = Right(Size(req.sectors) - b2len(req) + (j - 1))
EeDataInv ==
    /\ eeStep = "read" /\ failedAt = {} => FsvOk
    /\ eeStep \in {"pass", "read"} /\ failedAt = {} =>
           /\ SentOk /\ (loop.left < req.sectors => Buf1Ok) /\ (loop.left = 0 => Buf2Ok)
    /\ ReadLandsInPlace

EeInv == EeReqInv /\ EeErrInv /\ OnlyBufferIsWritten /\ EeDataInv

(* The lengths of the parts of a request.                                  *)
LEMMA EeParts ==
    ASSUME EeReqInv
    PROVE  /\ EeDone \in Nat /\ EeDone + loop.left = req.sectors
           /\ b1len(req) \in 0 .. EeAlign - 1 /\ b2len(req) \in 0 .. EeAlign - 1
           /\ (flag_64b(req) <=> b1len(req) = 0)
           /\ b1len(req) = (IF b2len(req) = 0 THEN 0 ELSE EeAlign - b2len(req))
           /\ Down(req.buf + nbytes) = req.buf + Size(req.sectors) - b2len(req)
           /\ nbytes = Size(req.sectors)
           /\ Size(EeDone) \in Nat /\ Size(loop.left) \in Nat /\ Size(req.sectors) \in Nat
           /\ Size(req.sectors) = Size(EeDone) + Size(loop.left)
           /\ (req.sectors > 0 => Size(req.sectors) >= EeSector)
           /\ Size(req.sectors) <= MaxSectors * EeSector
<1>1. req.sectors \in Nat /\ loop.left \in Nat /\ EeDone \in Nat /\ EeDone + loop.left = req.sectors
      /\ MaxSectors - req.sectors \in Nat /\ req.sectors + (MaxSectors - req.sectors) = MaxSectors
  BY EeNumbers DEF EeReqInv, EeDone
<1>2. /\ b1len(req) \in 0 .. EeAlign - 1 /\ b2len(req) \in 0 .. EeAlign - 1
      /\ (flag_64b(req) <=> b1len(req) = 0)
      /\ b1len(req) = (IF b2len(req) = 0 THEN 0 ELSE EeAlign - b2len(req))
      /\ Down(req.buf + req.sectors * EeSector) = req.buf + req.sectors * EeSector - b2len(req)
  BY <1>1, EeOffsets DEF EeReqInv
<1>3. nbytes = Size(req.sectors) /\ req.sectors * EeSector = Size(req.sectors)
  BY DEF nbytes, Size
<1>4. /\ Size(EeDone) \in Nat /\ Size(loop.left) \in Nat /\ Size(req.sectors) \in Nat
      /\ Size(EeDone + loop.left) = Size(EeDone) + Size(loop.left)
      /\ (req.sectors >= 1 => Size(req.sectors) >= EeSector)
  BY <1>1, SizeOfSum
<1>5. Size(req.sectors) <= MaxSectors * EeSector
  <2>1. /\ Size(req.sectors + (MaxSectors - req.sectors)) = Size(req.sectors) + Size(MaxSectors - req.sectors)
        /\ Size(MaxSectors - req.sectors) \in Nat
    BY <1>1, SizeOfSum
  <2>2. Size(MaxSectors) = MaxSectors * EeSector BY DEF Size
  <2> QED BY <1>1, <1>4, <2>1, <2>2
<1>6. req.sectors > 0 => req.sectors >= 1 BY <1>1
<1>7. Size(req.sectors) = Size(EeDone) + Size(loop.left) BY <1>1, <1>4
<1>8. Down(req.buf + nbytes) = req.buf + Size(req.sectors) - b2len(req) BY <1>2, <1>3
<1> QED BY <1>1, <1>2, <1>3, <1>4, <1>5, <1>6, <1>7, <1>8

(* The bytes of a request are in the memory that is looked at.             *)
LEMMA EeInMemory ==
    ASSUME EeReqInv, NEW i \in Nat, i < Size(req.sectors) + EeAlign
    PROVE  req.buf + i \in EeMemory
<1>1. Size(req.sectors) <= MaxSectors * EeSector /\ Size(req.sectors) \in Nat BY EeParts
<1>2. MaxSectors * EeSector \in Nat BY EeNumbers
<1>3. req.buf \in EeAlign .. 2 * EeAlign - 1 BY DEF EeReqInv
<1> QED BY <1>1, <1>2, <1>3, EeNumbers DEF EeMemory

(* A byte of cdvdfsv_buf.                                                  *)
LEMMA EeByte ==
    ASSUME EeReqInv, FsvOk, eeStep = "read", rd.done = rd.count,
           NEW j \in Nat, j < Size(rd.count), OnDisc(Size(EeDone) + j)
    PROVE  Byte(j) = Right(Size(EeDone) + j)
<1>1. EeDone \in Nat /\ rd.count \in Nat /\ rd.lsn = req.lsn + EeDone /\ req.lsn \in Nat
  BY EeParts DEF EeReqInv
<1>2. /\ (Size(EeDone) + j) \div EeSector = EeDone + j \div EeSector
      /\ (Size(EeDone) + j) % EeSector = j % EeSector
      /\ j \div EeSector \in Nat
  BY <1>1, SizeByte
<1>3. j \div EeSector < rd.count BY <1>1, SizeByte
<1> DEFINE k == j \div EeSector
<1>4. rd.lsn + k < mediaLsnCount /\ req.lsn + (Size(EeDone) + j) \div EeSector = rd.lsn + k
  <2>1. req.lsn + (EeDone + k) = (req.lsn + EeDone) + k BY <1>1, <1>2
  <2> QED BY <1>1, <1>2, <2>1 DEF OnDisc
<1>5. fsv[k] = rd.lsn + k BY <1>2, <1>3, <1>4 DEF FsvOk
<1> QED BY <1>2, <1>4, <1>5 DEF Byte, Right

(* The invariant at the start.                                             *)
LEMMA EeStart == ASSUME EeInit PROVE EeInv
<1>1. /\ req.lsn = 0 /\ req.sectors = 0 /\ req.buf = EeAlign
      /\ loop = [left |-> 0, lsn |-> 0, to |-> EeAlign, n |-> 0]
      /\ rd = [lsn |-> 0, count |-> 0, done |-> 0] /\ eeStep = "idle" /\ cdErr = "NO"
  BY DEF EeInit
<1>2. b1len(req) = 0
  <2>1. EeAlign + EeAlign - 1 = 1 * EeAlign + (EeAlign - 1) /\ EeAlign - 1 \in 0 .. EeAlign - 1
    BY EeNumbers
  <2>2. (EeAlign + EeAlign - 1) \div EeAlign = 1 BY <2>1, EeNumbers, DivIs
  <2>3. Up(EeAlign) = EeAlign BY <2>2, EeNumbers DEF Up
  <2> QED BY <1>1, <2>3, EeNumbers DEF b1len
<1>3. EeDone = 0 /\ Size(EeDone) = 0
  <2>1. EeDone = 0 BY <1>1 DEF EeDone
  <2>2. 0 \in Nat OBVIOUS
  <2> QED BY <2>1, <2>2, SizeOfSum
<1>4. EeReqInv BY <1>1, <1>2, <1>3, EeNumbers DEF EeReqInv
<1>5. EeErrInv /\ EeDataInv
  BY <1>1 DEF EeErrInv, EeDataInv, PastEndIsSignalled, ReadLandsInPlace
<1>6. OnlyBufferIsWritten BY DEF EeInit, OnlyBufferIsWritten
<1> QED BY <1>4, <1>5, <1>6 DEF EeInv

(* The game calls.                                                         *)
LEMMA EeRequestStep == ASSUME EeInv, EeRequest PROVE EeInv'
<1>0. EeReqInv BY DEF EeInv
<1>1. PICK lsn \in 0 .. mediaLsnCount, n \in 1 .. MaxSectors, off \in 0 .. EeAlign - 1, ata \in BOOLEAN :
        /\ req' = [lsn |-> lsn, sectors |-> n, buf |-> EeAlign + off, ata |-> ata]
        /\ loop' = [left |-> n, lsn |-> lsn, to |-> Up(EeAlign + off), n |-> 0]
  BY DEF EeRequest
<1>2. req'.lsn = lsn /\ req'.sectors = n /\ req'.buf = EeAlign + off BY <1>1
<1>3. loop'.left = n /\ loop'.lsn = lsn /\ loop'.to = Up(req'.buf) /\ loop'.n = 0 BY <1>1
<1>4. req'.buf \in EeAlign .. 2 * EeAlign - 1 /\ req'.sectors \in Nat /\ n > 0 /\ lsn \in Nat
  BY <1>2, EeNumbers
<1>5. Up(req'.buf) = req'.buf + b1len(req') /\ b1len(req') \in Nat BY <1>4, EeOffsets
<1>6. EeDone' = 0 /\ Size(EeDone') = 0
  <2>1. EeDone' = 0 BY <1>2, <1>3 DEF EeDone
  <2>2. 0 \in Nat OBVIOUS
  <2> QED BY <2>1, <2>2, SizeOfSum
<1>7. /\ eeStep' = "pass" /\ failedAt' = {} /\ cdErr' = "NO" /\ rd' = rd
      /\ ee' = [a \in EeMemory |-> Untouched]
  BY DEF EeRequest
<1>8. loop' \in [left : Nat, lsn : Nat, to : Nat, n : Nat]
  <2>1. loop'.to \in Nat BY <1>3, <1>4, <1>5, EeNumbers
  <2> QED BY <2>1, <1>1, <1>3, <1>4
<1>9. EeReqInv'
  <2>1. (Size(EeDone))' = Size(EeDone') BY DEF Size
  <2> QED BY <2>1, <1>0, <1>2, <1>3, <1>4, <1>5, <1>6, <1>7, <1>8, EeNumbers DEF EeReqInv
<1>10. EeErrInv' BY <1>2, <1>3, <1>4, <1>7 DEF EeErrInv, PastEndIsSignalled
<1>11. OnlyBufferIsWritten' BY <1>7 DEF OnlyBufferIsWritten, EeMemory
<1>12. EeDataInv'
  <2>1. SentOk'
    <3>1. EeSent' = b1len(req') + Size(EeDone') BY <1>3, <1>4 DEF EeSent, Size
    <3> QED BY <3>1, <1>5, <1>6 DEF SentOk
  <2> QED BY <2>1, <1>2, <1>3, <1>4, <1>7 DEF EeDataInv, ReadLandsInPlace
<1> QED BY <1>9, <1>10, <1>11, <1>12 DEF EeInv

(* What a step that changes neither the request nor the memory leaves.     *)
LEMMA EeFrame ==
    ASSUME EeInv, req' = req, loop'.left = loop.left, ee' = ee, readee' = readee
    PROVE  /\ EeDone' = EeDone /\ OnlyBufferIsWritten' /\ EeSent' = EeSent
           /\ (SentOk => SentOk') /\ (Buf1Ok => Buf1Ok') /\ (Buf2Ok => Buf2Ok')
<1>1. EeDone' = EeDone BY DEF EeDone
<1>2. EeSent' = EeSent BY <1>1 DEF EeSent, Size
<1>3. OnlyBufferIsWritten' BY DEF EeInv, OnlyBufferIsWritten, EeMemory, Wanted, nbytes
<1>4. \A i : OnDisc(i)' = OnDisc(i) /\ Right(i)' = Right(i) BY DEF OnDisc, Right
<1>5. SentOk => SentOk' BY <1>2 DEF SentOk, OnDisc, Right
<1>6. Buf1Ok => Buf1Ok' BY DEF Buf1Ok, OnDisc, Right
<1>7. Buf2Ok => Buf2Ok' BY DEF Buf2Ok, OnDisc, Right, Size
<1> QED BY <1>1, <1>2, <1>3, <1>5, <1>6, <1>7

(* A pass begins.                                                          *)
LEMMA EePassStep == ASSUME EeInv, EePass PROVE EeInv'
<1> DEFINE m == PassSectors
<1>0. EeReqInv /\ EeErrInv /\ OnlyBufferIsWritten /\ EeDataInv BY DEF EeInv
<1>1. /\ eeStep = "pass" /\ loop.left > 0 /\ cdErr # "ABRT" /\ loop' = [loop EXCEPT !.n = m]
      /\ rd' = [lsn |-> loop.lsn, done |-> 0, count |-> IF flag_64b(req) THEN m ELSE m + 1]
      /\ eeStep' = "read" /\ req' = req /\ readee' = readee /\ cdErr' = cdErr /\ ee' = ee
      /\ failedAt' = failedAt
  BY DEF EePass
<1>2. m \in 1 .. loop.left /\ (IF flag_64b(req) THEN m ELSE m + 1) \in 0 .. FsSectors
  BY <1>0, <1>1, EeNumbers DEF PassSectors, EeReqInv
<1> HIDE DEF m
<1>3. /\ loop'.left = loop.left /\ loop'.lsn = loop.lsn /\ loop'.to = loop.to /\ loop'.n = m
      /\ loop' \in [left : Nat, lsn : Nat, to : Nat, n : Nat]
  BY <1>0, <1>1, <1>2 DEF EeReqInv
<1>4. /\ rd'.done = 0 /\ rd'.lsn = loop.lsn /\ rd'.count = (IF flag_64b(req) THEN m ELSE m + 1)
      /\ rd' \in [lsn : Nat, count : 0 .. FsSectors, done : Nat]
  BY <1>0, <1>1, <1>2 DEF EeReqInv
<1>5. /\ EeDone' = EeDone /\ OnlyBufferIsWritten' /\ (SentOk => SentOk') /\ (Buf1Ok => Buf1Ok')
      /\ (Buf2Ok => Buf2Ok')
  BY <1>1, <1>3, EeFrame
<1>6. EeReqInv'
  <2>1. (Size(EeDone))' = Size(EeDone') BY DEF Size
  <2>2. rd'.done <= rd'.count BY <1>4, <1>2, EeNumbers
  <2>3. req.sectors > 0 BY <1>0, <1>1 DEF EeReqInv
  <2>4. loop'.n \in 1 .. loop'.left BY <1>2, <1>3
  <2> QED BY <2>1, <2>2, <2>3, <2>4, <1>0, <1>1, <1>3, <1>4, <1>5 DEF EeReqInv
<1>7. EeErrInv' BY <1>0, <1>1, <1>3, <1>4 DEF EeErrInv, PastEndIsSignalled
<1>8. EeDataInv'
  <2>1. FsvOk' BY <1>4 DEF FsvOk
  <2> QED BY <2>1, <1>0, <1>1, <1>3, <1>5 DEF EeDataInv, ReadLandsInPlace
<1> QED BY <1>5, <1>6, <1>7, <1>8 DEF EeInv

(* The drive is busy, or another thread calls sceCdBreak.                  *)
LEMMA EeCutStep == ASSUME EeInv, EeRefused \/ EeBreak PROVE EeInv'
<1>0. EeReqInv /\ EeErrInv /\ OnlyBufferIsWritten /\ EeDataInv BY DEF EeInv
<1>1. /\ eeStep = "pass" /\ req' = req /\ loop' = loop /\ rd' = rd /\ ee' = ee /\ readee' = readee
      /\ failedAt' # {} /\ cdErr' \in {"READ", "READCF", "ABRT", "EOM", "IPI"}
      /\ eeStep' \in {"pass", "done"}
  <2>1. CASE EeRefused BY <2>1, <1>0 DEF EeRefused, EeReqInv
  <2>2. CASE EeBreak BY <2>2 DEF EeBreak
  <2> QED BY <2>1, <2>2
<1>2. EeDone' = EeDone /\ OnlyBufferIsWritten' BY <1>1, EeFrame
<1>3. EeReqInv'
  <2>1. (Size(EeDone))' = Size(EeDone') BY DEF Size
  <2> QED BY <2>1, <1>0, <1>1, <1>2 DEF EeReqInv
<1>4. EeErrInv' BY <1>1 DEF EeErrInv, PastEndIsSignalled
<1>5. EeDataInv' BY <1>1 DEF EeDataInv, ReadLandsInPlace
<1> QED BY <1>2, <1>3, <1>4, <1>5 DEF EeInv

(* The drive reads a piece, or fails in it.                                *)
LEMMA ReadPieceStep == ASSUME EeInv, ReadPiece PROVE EeInv'
<1> DEFINE p == PieceSectors
           lsn == rd.lsn + rd.done
           n == Clipped(lsn, p)
           end == IF n = 0 THEN "IPI" ELSE IF n < p THEN "EOM" ELSE "NO"
<1>0. EeReqInv /\ EeErrInv /\ OnlyBufferIsWritten /\ EeDataInv BY DEF EeInv
<1>1. /\ eeStep = "read" /\ rd.done < rd.count /\ rd' = [rd EXCEPT !.done = @ + p]
      /\ req' = req /\ readee' = readee /\ loop' = loop /\ ee' = ee /\ eeStep' = eeStep
  BY DEF ReadPiece
<1>2. rd.done \in Nat /\ rd.count \in Nat /\ rd.lsn \in Nat /\ rd.count <= FsSectors /\ rd.lsn = loop.lsn
      /\ rd \in [lsn : Nat, count : 0 .. FsSectors, done : Nat]
  BY <1>0, <1>1, EeNumbers DEF EeReqInv
<1>3. p \in Nat \ {0} /\ rd.done + p <= rd.count
  BY <1>1, <1>2, EeNumbers DEF PieceSectors
<1>4. \/ /\ cdErr' = end /\ failedAt' = failedAt
         /\ fsv' = [i \in 0 .. FsSectors - 1 |->
                      IF i \in rd.done .. rd.done + n - 1 THEN rd.lsn + i
                      ELSE IF Through /\ i \in rd.done .. rd.done + p - 1
                      THEN JunkSector ELSE fsv[i]]
      \/ /\ failedAt' # {} /\ cdErr' = IF end = "EOM" THEN "EOM" ELSE "READ"
  BY DEF ReadPiece
<1> HIDE DEF p
<1>5. /\ n \in Nat /\ n <= p /\ (lsn + p > mediaLsnCount => n < p)
      /\ \A i \in Nat : i >= rd.done /\ i < rd.done + p /\ rd.lsn + i < mediaLsnCount => i < rd.done + n
  BY <1>2, <1>3, EeNumbers DEF Clipped
<1>6. end \in {"IPI", "EOM", "NO"} /\ (lsn + p > mediaLsnCount => end # "NO") BY <1>5
<1> HIDE DEF n, end
<1>7. rd'.done = rd.done + p /\ rd'.lsn = rd.lsn /\ rd'.count = rd.count
      /\ rd' \in [lsn : Nat, count : 0 .. FsSectors, done : Nat]
  BY <1>1, <1>2, <1>3
<1>8. cdErr' \in {"NO", "READ", "EOM", "IPI"} /\ (lsn + p > mediaLsnCount => cdErr' # "NO")
  BY <1>4, <1>6
<1>9. /\ EeDone' = EeDone /\ OnlyBufferIsWritten' /\ (SentOk => SentOk') /\ (Buf1Ok => Buf1Ok')
      /\ (Buf2Ok => Buf2Ok')
  BY <1>1, EeFrame
<1>10. EeReqInv'
  <2>1. (Size(EeDone))' = Size(EeDone') BY DEF Size
  <2>2. rd'.done <= rd'.count BY <1>3, <1>7
  <2> QED BY <2>1, <2>2, <1>0, <1>1, <1>7, <1>8, <1>9 DEF EeReqInv
<1>11. EeErrInv'
  <2>1. rd'.lsn + rd'.done = lsn + p BY <1>2, <1>3, <1>7
  <2> QED BY <2>1, <1>1, <1>7, <1>8 DEF EeErrInv, PastEndIsSignalled
<1>12. ASSUME failedAt' = {} PROVE failedAt = {} /\ FsvOk'
  <2>1. failedAt = {} BY <1>4, <1>12
  <2>2. FsvOk BY <2>1, <1>0, <1>1 DEF EeDataInv
  <2> SUFFICES ASSUME NEW k \in Nat, k < rd'.done, rd'.lsn + k < mediaLsnCount
               PROVE  fsv'[k] = rd'.lsn + k
    BY <2>1 DEF FsvOk
  <2>3. k \in 0 .. FsSectors - 1 /\ k < rd.done + p /\ rd.lsn + k < mediaLsnCount
    BY <1>2, <1>3, <1>7, EeNumbers
  <2>4. CASE k >= rd.done
    <3>1. k \in rd.done .. rd.done + n - 1 BY <2>3, <2>4, <1>2, <1>5
    <3> QED BY <3>1, <2>3, <1>4, <1>7, <1>12
  <2>5. CASE k < rd.done
    <3>1. k \notin rd.done .. rd.done + n - 1 /\ k \notin rd.done .. rd.done + p - 1
      BY <2>5, <1>2, <1>3, <1>5
    <3>2. fsv'[k] = fsv[k] BY <3>1, <2>3, <1>4, <1>12
    <3> QED BY <3>2, <2>2, <2>3, <2>5, <1>7 DEF FsvOk
  <2> QED BY <2>4, <2>5, <1>2
<1>13. EeDataInv' BY <1>0, <1>1, <1>9, <1>12 DEF EeDataInv, ReadLandsInPlace
<1> QED BY <1>9, <1>10, <1>11, <1>13 DEF EeInv

(* What has been read goes to the caller's memory and to readee.           *)
LEMMA EeSendStep == ASSUME EeInv, EeSend PROVE EeInv'
<1> DEFINE m == loop.n
           b1 == b1len(req)
           b2 == b2len(req)
           D == EeDone
           N == req.sectors
<1>0. EeReqInv /\ EeErrInv /\ OnlyBufferIsWritten /\ EeDataInv BY DEF EeInv
<1>1. /\ eeStep = "read" /\ rd.done = rd.count
      /\ ee' = [a \in EeMemory |-> IF a \in loop.to .. loop.to + SendSize - 1
                                   THEN Byte(a - loop.to + b1) ELSE ee[a]]
      /\ readee' = [buf1 |-> IF loop.left = N THEN Bytes(0, b1) ELSE readee.buf1,
                    buf2 |-> IF loop.left = m THEN Bytes(m * EeSector - b2, b2) ELSE readee.buf2]
      /\ loop' = [left |-> loop.left - m, lsn |-> loop.lsn + m, to |-> loop.to + m * EeSector, n |-> 0]
      /\ eeStep' = "pass" /\ req' = req /\ rd' = rd /\ fsv' = fsv /\ cdErr' = cdErr
      /\ failedAt' = failedAt
  BY DEF EeSend
<1>2. /\ m \in Nat \ {0} /\ loop.left \in Nat /\ m <= loop.left /\ N \in Nat /\ N > 0
      /\ rd.lsn = loop.lsn /\ rd.count = (IF flag_64b(req) THEN m ELSE m + 1)
      /\ req.buf \in Nat /\ loop.to = req.buf + b1 + Size(D) /\ loop.lsn = req.lsn + D
      /\ req.lsn \in Nat /\ req.buf \in EeAlign .. 2 * EeAlign - 1
  BY <1>0, <1>1, EeNumbers DEF EeReqInv
<1>3. /\ D \in Nat /\ D + loop.left = N /\ b1 \in 0 .. EeAlign - 1 /\ b2 \in 0 .. EeAlign - 1
      /\ (flag_64b(req) <=> b1 = 0) /\ b1 = (IF b2 = 0 THEN 0 ELSE EeAlign - b2)
      /\ nbytes = Size(N) /\ Size(D) \in Nat /\ Size(loop.left) \in Nat /\ Size(N) \in Nat
      /\ Size(N) = Size(D) + Size(loop.left)
  BY <1>0, EeParts
<1>4. /\ EeAlign \in Nat \ {0} /\ EeSector \in Nat \ {0} /\ EeAlign <= EeSector BY EeNumbers
<1>5. /\ Size(m) \in Nat /\ Size(m) >= EeSector /\ Size(D + m) = Size(D) + Size(m)
      /\ m * EeSector = Size(m) /\ Size(m + 1) = Size(m) + EeSector
  <2>1. Size(1) = EeSector /\ 1 \in Nat BY <1>4 DEF Size
  <2>2. m * EeSector = Size(m) BY DEF Size
  <2>3. m \in Nat /\ D \in Nat /\ m >= 1 BY <1>2, <1>3
  <2> HIDE DEF m, D
  <2>4. Size(m) \in Nat /\ Size(m + 1) = Size(m) + Size(1) /\ Size(m) >= EeSector
    BY <2>1, <2>3, SizeOfSum
  <2>5. Size(D + m) = Size(D) + Size(m) BY <2>3, SizeOfSum
  <2> QED BY <2>1, <2>2, <2>4, <2>5
<1>6. loop.left > m => Size(loop.left) >= Size(m) + EeSector
  <2>1. ASSUME loop.left > m PROVE Size(loop.left) >= Size(m) + EeSector
    <3>1. loop.left - m \in Nat /\ loop.left - m >= 1 /\ m + (loop.left - m) = loop.left
      BY <1>2, <2>1
    <3>2. Size(m + (loop.left - m)) = Size(m) + Size(loop.left - m) BY <3>1, <1>2, SizeOfSum
    <3>3. Size(loop.left - m) >= EeSector /\ Size(loop.left - m) \in Nat BY <3>1, SizeOfSum
    <3> QED BY <3>1, <3>2, <3>3, <1>4, <1>5
  <2> QED BY <2>1
<1>7. SendSize = (IF loop.left = m /\ b1 # 0 THEN Size(m) - EeAlign ELSE Size(m))
  BY <1>5 DEF SendSize
<1>8. /\ loop'.left = loop.left - m /\ loop'.lsn = loop.lsn + m /\ loop'.to = loop.to + Size(m)
      /\ loop' \in [left : Nat, lsn : Nat, to : Nat, n : Nat]
  <2>1. loop' = [left |-> loop.left - m, lsn |-> loop.lsn + m, to |-> loop.to + Size(m), n |-> 0]
    BY <1>1, <1>5
  <2>2. loop.left - m \in Nat /\ loop.lsn + m \in Nat /\ loop.to + Size(m) \in Nat
    BY <1>2, <1>3, <1>5
  <2> QED BY <2>1, <2>2
<1>9. EeDone' = D + m BY <1>1, <1>2, <1>3, <1>8 DEF EeDone
<1>10. EeReqInv'
  <2>1. (Size(EeDone))' = Size(D + m) BY <1>9 DEF Size
  <2>2. loop'.left <= N /\ loop'.lsn = req.lsn + (D + m) /\ loop'.to = req.buf + b1 + Size(D + m)
    BY <1>2, <1>3, <1>5, <1>8
  <2> QED BY <2>1, <2>2, <1>0, <1>1, <1>2, <1>8, <1>9 DEF EeReqInv
<1>11. EeErrInv'
  <2>1. ASSUME loop'.left = 0, req.lsn + N > mediaLsnCount PROVE cdErr # "NO"
    <3>1. rd.count >= m /\ rd.count \in Nat BY <1>2, <1>3, <1>4
    <3>a. loop.left = m BY <2>1, <1>2, <1>8
    <3> HIDE DEF m, D, N
    <3>2. rd.done > 0 /\ rd.lsn + rd.done > mediaLsnCount
      BY <2>1, <3>1, <3>a, <1>1, <1>2, <1>3, EeNumbers
    <3> QED BY <3>2, <1>0, <1>1 DEF EeErrInv
  <2> QED BY <2>1, <1>0, <1>1 DEF EeErrInv, PastEndIsSignalled
<1>12. OnlyBufferIsWritten'
  <2> SUFFICES ASSUME NEW a \in EeMemory, a \notin Wanted PROVE ee'[a] = Untouched
    BY <1>1 DEF OnlyBufferIsWritten, EeMemory, Wanted, nbytes
  <2>1. ASSUME a \in loop.to .. loop.to + SendSize - 1 PROVE a \in Wanted
    <3>1. a \in Int /\ a >= loop.to /\ a < loop.to + SendSize /\ SendSize \in Int
      BY <2>1, <1>2, <1>3, <1>4, <1>5, <1>7
    <3> HIDE DEF m, D, N, b1, b2
    <3>2. loop.to + SendSize <= req.buf + Size(N)
      <4>1. CASE loop.left = m BY <4>1, <1>2, <1>3, <1>4, <1>5, <1>7
      <4>2. CASE loop.left # m
        <5>1. loop.left > m BY <4>2, <1>2
        <5>2. Size(loop.left) >= Size(m) + EeSector BY <5>1, <1>6
        <5>3. SendSize = Size(m) BY <4>2, <1>7
        <5> QED BY <5>2, <5>3, <1>2, <1>3, <1>4, <1>5
      <4> QED BY <4>1, <4>2
    <3> QED BY <3>1, <3>2, <1>2, <1>3 DEF Wanted
  <2>2. ee'[a] = ee[a] BY <2>1, <1>1
  <2> QED BY <2>2, <1>0 DEF OnlyBufferIsWritten
<1>13. ASSUME failedAt = {} PROVE SentOk' /\ Buf1Ok' /\ (loop'.left = 0 => Buf2Ok')
  <2>0. FsvOk /\ SentOk /\ (loop.left < N => Buf1Ok) BY <1>0, <1>1, <1>13 DEF EeDataInv
  <2>1. Size(rd.count) \in Nat /\ Size(rd.count) >= b1 + Size(m)
    <3>1. CASE b1 = 0 BY <3>1, <1>2, <1>3, <1>5
    <3>2. CASE b1 # 0 BY <3>2, <1>2, <1>3, <1>4, <1>5
    <3> QED BY <3>1, <3>2
  <2>2. \A i \in Nat : OnDisc(i)' = OnDisc(i) /\ Right(i)' = Right(i) BY <1>1 DEF OnDisc, Right
  <2>3. ASSUME NEW i \in Nat, i >= Size(D), i < Size(D) + b1 + Size(m), OnDisc(i)
        PROVE  Byte(i - Size(D)) = Right(i)
    <3>1. i - Size(D) \in Nat /\ i - Size(D) < Size(rd.count) /\ Size(D) + (i - Size(D)) = i
      BY <2>1, <2>3, <1>3, <1>5
    <3> QED BY <3>1, <2>0, <2>3, <1>0, <1>1, EeByte
  <2>4. SentOk'
    <3>1. EeSent' = IF loop.left = m THEN Size(N) - b2 ELSE b1 + Size(D + m)
      BY <1>1, <1>2, <1>8, <1>9 DEF EeSent, Size
    <3>2. EeSent = b1 + Size(D) BY <1>2 DEF EeSent
    <3>3. EeSent' = b1 + Size(D) + SendSize /\ SendSize \in Nat /\ SendSize <= Size(m)
      <4>1. CASE loop.left = m BY <4>1, <3>1, <1>3, <1>4, <1>5, <1>7
      <4>2. CASE loop.left # m BY <4>2, <3>1, <1>3, <1>4, <1>5, <1>7
      <4> QED BY <4>1, <4>2
    <3>4. ASSUME NEW i \in Nat, b1 <= i, i < EeSent', OnDisc(i) PROVE ee'[req.buf + i] = Right(i)
      <4>1. req.buf + i \in EeMemory
        <5>1. i < Size(N) + EeAlign
          <6>1. CASE loop.left = m BY <6>1, <3>1, <3>4, <1>3, <1>4
          <6>2. CASE loop.left # m BY <6>2, <3>1, <3>4, <1>2, <1>3, <1>4, <1>5, <1>6
          <6> QED BY <6>1, <6>2
        <5> QED BY <5>1, <1>0, EeInMemory
      <4>2. CASE i < b1 + Size(D)
        <5>1. req.buf + i \notin loop.to .. loop.to + SendSize - 1 BY <4>2, <1>2, <1>3, <3>3
        <5>2. ee'[req.buf + i] = ee[req.buf + i] BY <5>1, <4>1, <1>1
        <5> QED BY <5>2, <4>2, <3>2, <3>4, <2>0 DEF SentOk
      <4>3. CASE i >= b1 + Size(D)
        <5>1. req.buf + i \in loop.to .. loop.to + SendSize - 1 BY <4>3, <3>3, <3>4, <1>2, <1>3
        <5>2. (req.buf + i) - loop.to + b1 = i - Size(D) BY <1>2, <1>3
        <5>3. ee'[req.buf + i] = Byte((req.buf + i) - loop.to + b1) BY <5>1, <4>1, <1>1
        <5>4. i >= Size(D) /\ i < Size(D) + b1 + Size(m) BY <4>3, <3>3, <3>4, <1>3, <1>5
        <5>5. Byte(i - Size(D)) = Right(i) BY <5>4, <3>4, <2>3
        <5> QED BY <5>2, <5>3, <5>5
      <4> QED BY <4>2, <4>3, <1>3
    <3> QED BY <3>4, <1>1, <2>2 DEF SentOk
  <2>5. Buf1Ok'
    <3>1. CASE loop.left = N
      <4>1. D = 0 /\ Size(D) = 0
        <5>1. D = 0
          <6> HIDE DEF D, N
          <6> QED BY <3>1, <1>2, <1>3
        <5>2. 0 \in Nat OBVIOUS
        <5> QED BY <5>1, <5>2, SizeOfSum
      <4>2. readee'.buf1 = [j \in 1 .. b1 |-> Byte(0 + j - 1)] BY <3>1, <1>1 DEF Bytes
      <4>3. Len(readee'.buf1) = b1 BY <4>2, <1>3
      <4>4. ASSUME NEW j \in 1 .. b1, OnDisc(j - 1) PROVE readee'.buf1[j] = Right(j - 1)
        <5>1. j - 1 \in Nat /\ j - 1 >= Size(D) /\ j - 1 < Size(D) + b1 + Size(m)
              /\ (j - 1) - Size(D) = j - 1 /\ 0 + j - 1 = j - 1
          BY <4>1, <1>3, <1>5
        <5>2. Byte((j - 1) - Size(D)) = Right(j - 1) BY <5>1, <4>4, <2>3
        <5> QED BY <5>1, <5>2, <4>2
      <4>5. \A j \in 1 .. b1 : j - 1 \in Nat BY <1>3
      <4> QED BY <4>3, <4>4, <4>5, <2>2, <1>1 DEF Buf1Ok
    <3>2. CASE loop.left # N
      <4>1. loop.left < N /\ readee'.buf1 = readee.buf1 BY <3>2, <1>1, <1>2, <1>3
      <4>2. \A j \in 1 .. b1 : j - 1 \in Nat BY <1>3
      <4> QED BY <4>1, <4>2, <2>0, <2>2, <1>1 DEF Buf1Ok
    <3> QED BY <3>1, <3>2
  <2>6. ASSUME loop'.left = 0 PROVE Buf2Ok'
    <3>1. loop.left = m BY <2>6, <1>2, <1>8
    <3>2. readee'.buf2 = [j \in 1 .. b2 |-> Byte((Size(m) - b2) + j - 1)]
      BY <3>1, <1>1, <1>5 DEF Bytes
    <3>3. Len(readee'.buf2) = b2 BY <3>2, <1>3
    <3>4. ASSUME NEW j \in 1 .. b2 PROVE Size(N) - b2 + (j - 1) \in Nat
      BY <1>3, <1>4, <1>5, <3>1
    <3>5. ASSUME NEW j \in 1 .. b2, OnDisc(Size(N) - b2 + (j - 1))
          PROVE  readee'.buf2[j] = Right(Size(N) - b2 + (j - 1))
      <4> DEFINE i == Size(N) - b2 + (j - 1)
      <4>1. /\ i \in Nat /\ i >= Size(D) /\ i < Size(D) + b1 + Size(m)
            /\ i - Size(D) = (Size(m) - b2) + j - 1
        BY <1>3, <1>4, <1>5, <3>1
      <4>2. OnDisc(i) BY <3>5
      <4>3. readee'.buf2[j] = Byte((Size(m) - b2) + j - 1) BY <3>2
      <4> HIDE DEF i
      <4>4. Byte(i - Size(D)) = Right(i) BY <4>1, <4>2, <2>3
      <4>5. readee'.buf2[j] = Right(i) BY <4>1, <4>3, <4>4
      <4> QED BY <4>5 DEF i
    <3>6. \A j \in 1 .. b2 : /\ OnDisc(Size(N) - b2 + (j - 1))' = OnDisc(Size(N) - b2 + (j - 1))
                             /\ Right(Size(N) - b2 + (j - 1))' = Right(Size(N) - b2 + (j - 1))
      BY <1>1 DEF OnDisc, Right, Size
    <3> QED BY <3>3, <3>5, <3>6, <1>1 DEF Buf2Ok, Size, OnDisc, Right
  <2> QED BY <2>4, <2>5, <2>6
<1>14. EeDataInv' BY <1>1, <1>13 DEF EeDataInv, ReadLandsInPlace
<1> QED BY <1>10, <1>11, <1>12, <1>14 DEF EeInv

(* readee arrives, and the main processor puts its bytes in their places.  *)
LEMMA EeFinishStep == ASSUME EeInv, EeFinish PROVE EeInv'
<1> DEFINE b1 == b1len(req)
           b2 == b2len(req)
           N == req.sectors
           q == req.buf + Size(N) - b2
           Got(s, i) == IF i <= Len(s) THEN s[i] ELSE <<JunkSector, 0>>
<1>0. EeReqInv /\ EeErrInv /\ OnlyBufferIsWritten /\ EeDataInv BY DEF EeInv
<1>1. /\ b1 \in 0 .. EeAlign - 1 /\ b2 \in 0 .. EeAlign - 1 /\ nbytes = Size(N) /\ Size(N) \in Nat
      /\ Down(req.buf + nbytes) = q /\ (N > 0 => Size(N) >= EeSector)
  BY <1>0, EeParts
<1>2. /\ eeStep = "pass" /\ (loop.left = 0 \/ cdErr = "ABRT") /\ eeStep' = "done"
      /\ req' = req /\ readee' = readee /\ loop' = loop /\ rd' = rd /\ cdErr' = cdErr
      /\ failedAt' = failedAt
  BY DEF EeFinish
<1>3. ee' = [a \in EeMemory |-> IF a \in req.buf .. req.buf + b1 - 1 THEN Got(readee.buf1, a - req.buf + 1)
                                ELSE IF a \in q .. q + b2 - 1 THEN Got(readee.buf2, a - q + 1)
                                ELSE ee[a]]
  BY <1>1 DEF EeFinish
<1>4. N > 0 /\ EeAlign \in Nat \ {0} /\ EeSector \in Nat /\ EeAlign <= EeSector /\ req.buf \in Nat
  BY <1>0, <1>2, EeNumbers DEF EeReqInv
<1> HIDE DEF b1, b2, N, Got
<1>5. EeReqInv'
  <2>1. EeDone' = EeDone BY <1>2 DEF EeDone
  <2>2. (Size(EeDone))' = Size(EeDone) BY <2>1 DEF Size
  <2> QED BY <2>1, <2>2, <1>0, <1>2 DEF EeReqInv
<1>6. EeErrInv' BY <1>0, <1>2 DEF EeErrInv, PastEndIsSignalled
<1>7. OnlyBufferIsWritten'
  <2> SUFFICES ASSUME NEW a \in EeMemory, a \notin Wanted PROVE ee'[a] = Untouched
    BY <1>2 DEF OnlyBufferIsWritten, EeMemory, Wanted, nbytes
  <2>1. Wanted = req.buf .. req.buf + Size(N) - 1 BY <1>1 DEF Wanted
  <2>2. a \notin req.buf .. req.buf + b1 - 1 BY <2>1, <1>1, <1>4
  <2>3. a \notin q .. q + b2 - 1 BY <2>1, <1>1, <1>4
  <2>4. ee'[a] = ee[a] BY <2>2, <2>3, <1>3
  <2> QED BY <2>4, <1>0 DEF OnlyBufferIsWritten
<1>8. ASSUME failedAt = {}, NEW i \in 0 .. Size(N) - 1, OnDisc(i) PROVE ee'[req.buf + i] = Right(i)
  <2>1. loop.left = 0 BY <1>0, <1>2, <1>8 DEF EeErrInv
  <2>2. SentOk /\ Buf1Ok /\ Buf2Ok
    <3>1. loop.left < req.sectors BY <2>1, <1>4 DEF N
    <3> QED BY <2>1, <3>1, <1>0, <1>2, <1>8 DEF EeDataInv
  <2>3. req.buf + i \in EeMemory
    <3>1. i \in Nat /\ i < Size(req.sectors) + EeAlign BY <1>1, <1>4 DEF N
    <3> QED BY <3>1, <1>0, EeInMemory
  <2>4. CASE i < b1
    <3>1. req.buf + i \in req.buf .. req.buf + b1 - 1 /\ (req.buf + i) - req.buf + 1 = i + 1
      BY <2>4, <1>1, <1>4
    <3>2. ee'[req.buf + i] = Got(readee.buf1, i + 1) BY <3>1, <2>3, <1>3
    <3>3. i + 1 \in 1 .. b1 /\ (i + 1) - 1 = i BY <2>4, <1>1
    <3>4. Len(readee.buf1) = b1 /\ readee.buf1[i + 1] = Right(i)
      BY <3>3, <2>2, <1>8 DEF Buf1Ok, b1
    <3> QED BY <3>2, <3>3, <3>4, <1>1 DEF Got
  <2>5. CASE i >= b1 /\ i >= Size(N) - b2
    <3> DEFINE j == i - (Size(N) - b2) + 1
    <3>1. /\ req.buf + i \notin req.buf .. req.buf + b1 - 1
          /\ req.buf + i \in q .. q + b2 - 1 /\ (req.buf + i) - q + 1 = j
      BY <2>5, <1>1, <1>4
    <3>2. ee'[req.buf + i] = Got(readee.buf2, j)
      <4> HIDE DEF j, q
      <4> QED BY <3>1, <2>3, <1>3
    <3>3. j \in 1 .. b2 /\ Size(N) - b2 + (j - 1) = i BY <2>5, <1>1
    <3> HIDE DEF j
    <3>4. Len(readee.buf2) = b2 /\ readee.buf2[j] = Right(i)
      BY <3>3, <2>2, <1>8 DEF Buf2Ok, b2, N
    <3> QED BY <3>2, <3>3, <3>4, <1>1 DEF Got
  <2>6. CASE i >= b1 /\ i < Size(N) - b2
    <3>1. req.buf + i \notin req.buf .. req.buf + b1 - 1 /\ req.buf + i \notin q .. q + b2 - 1
      BY <2>6, <1>1, <1>4
    <3>2. ee'[req.buf + i] = ee[req.buf + i] BY <3>1, <2>3, <1>3
    <3>3. i \in Nat /\ b1len(req) <= i /\ i < EeSent BY <2>1, <2>6 DEF EeSent, b1, b2, N
    <3> QED BY <3>2, <3>3, <2>2, <1>8 DEF SentOk
  <2> QED BY <2>4, <2>5, <2>6, <1>1
<1>a. ReadLandsInPlace'
  <2>1. nbytes' = Size(N) BY <1>1, <1>2 DEF nbytes
  <2> QED BY <1>2, <1>8, <2>1 DEF ReadLandsInPlace, OnDisc, Right
<1>9. EeDataInv' BY <1>2, <1>a DEF EeDataInv
<1> QED BY <1>5, <1>6, <1>7, <1>9 DEF EeInv

(* The call returns.                                                       *)
LEMMA EeReturnStep == ASSUME EeInv, EeReturn PROVE EeInv'
<1>0. EeReqInv /\ EeErrInv /\ OnlyBufferIsWritten /\ EeDataInv BY DEF EeInv
<1>1. /\ eeStep' = "idle" /\ req' = req /\ readee' = readee /\ loop' = loop /\ rd' = rd
      /\ cdErr' = cdErr /\ ee' = ee /\ failedAt' = failedAt
  BY DEF EeReturn
<1>2. EeDone' = EeDone /\ OnlyBufferIsWritten' BY <1>1, EeFrame
<1>3. (Size(EeDone))' = Size(EeDone) BY <1>2 DEF Size
<1>4. EeReqInv' BY <1>0, <1>1, <1>2, <1>3 DEF EeReqInv
<1>5. EeErrInv' /\ EeDataInv'
  BY <1>0, <1>1 DEF EeErrInv, EeDataInv, PastEndIsSignalled, ReadLandsInPlace
<1> QED BY <1>2, <1>4, <1>5 DEF EeInv

(* Nothing happens to the call.                                            *)
LEMMA EeStutter == ASSUME EeInv, UNCHANGED eeVars PROVE EeInv'
BY DEF EeInv, EeReqInv, EeErrInv, EeDataInv, OnlyBufferIsWritten,
   PastEndIsSignalled,
       ReadLandsInPlace, FsvOk, SentOk, Buf1Ok, Buf2Ok, EeSent, EeDone, Size, OnDisc, Right,
       EeMemory, Wanted, nbytes, eeVars

(* Every step keeps the invariant.                                         *)
LEMMA EeInvStep == EeInv /\ [EeNext]_eeVars => EeInv'
BY EeRequestStep, EePassStep, EeCutStep, ReadPieceStep, EeSendStep,
   EeFinishStep, EeReturnStep,
   EeStutter DEF EeNext

(* What the invariant says of a call.                                      *)
LEMMA EePromise == EeInv => ReadIsRight
<1> SUFFICES ASSUME EeInv PROVE ReadIsRight
  OBVIOUS
<1>1. EeReqInv BY DEF EeInv
<1>2. loop.to \in EeMemory
  <2>1. /\ b1len(req) \in 0 .. EeAlign - 1 /\ Size(EeDone) \in Nat /\ Size(loop.left) \in Nat
        /\ Size(req.sectors) = Size(EeDone) + Size(loop.left) /\ Size(req.sectors) \in Nat
    BY <1>1, EeParts
  <2>2. b1len(req) + Size(EeDone) \in Nat /\ b1len(req) + Size(EeDone) < Size(req.sectors) + EeAlign
    BY <2>1, EeNumbers
  <2>3. req.buf + (b1len(req) + Size(EeDone)) \in EeMemory BY <1>1, <2>2, EeInMemory
  <2>4. loop.to = req.buf + (b1len(req) + Size(EeDone)) BY <1>1, <2>1, EeNumbers DEF EeReqInv
  <2> QED BY <2>3, <2>4
<1>3. EeTypeOK BY <1>1, <1>2, EeNumbers DEF EeReqInv, EeTypeOK
<1> QED BY <1>3 DEF EeInv, EeErrInv, EeDataInv, ReadIsRight

(* A read of the disc into the memory of the main processor fills the      *)
(* caller's buffer with the sectors it asked for and nothing else, or      *)
(* leaves an error, for every address, every length, every size of blocks, *)
(* sectors and buffers that divide each other as those of the code do, and *)
(* any number of reads and failures.                                       *)
THEOREM ReadsAreRight == EeSpec => []ReadIsRight
<1>1. EeInit => EeInv BY EeStart
<1> QED BY <1>1, EeInvStep, EePromise, PTL DEF EeSpec

----------------------------------------------------------------------------
(* Compressed images.                                                      *)

(* A set of numbers has a smallest one.                                    *)
LEMMA NatHasMin ==
    ASSUME NEW S \in SUBSET Nat, S # {} PROVE \E i \in S : \A j \in S : i <= j
<1> DEFINE R == {ab \in Nat \X Nat : ab[1] < ab[2]}
<1>1. IsWellFoundedOn(R, Nat) BY NatLessThanWellFounded, Zenon DEF OpToRel
<1>2. PICK i \in S : \A j \in S : ~(<<j, i>> \in R)
  <2> HIDE DEF R
  <2> QED BY <1>1, WFMin
<1>3. \A a, b \in Nat : a < b => <<a, b>> \in R OBVIOUS
<1> HIDE DEF R
<1>4. ASSUME NEW j \in S PROVE i <= j
  <2>1. i \in Nat /\ j \in Nat OBVIOUS
  <2>2. ~(j < i) BY <1>2, <1>3, <2>1
  <2> QED BY <2>1, <2>2
<1> QED BY <1>4

(* The units of a number of sectors.                                       *)
ZSize(k) == k * ZSector

(* The sizes are positive.                                                 *)
LEMMA ZNumbers ==
    /\ ZSector \in Nat \ {0} /\ ZHeader \in Nat \ {0} /\ ZBlocks \in Nat \ {0}
    /\ ZEntries \in Nat /\ ZEntries > 2 /\ ZCount \in Nat /\ ZCount >= 1 /\ ZCount <= ZEntries - 1
    /\ ZCache \in Nat
<1>1. {ZSector, ZHeader, ZBlocks} \subseteq Nat \ {0} BY ZConstants
<1>2. ZSector \in Nat \ {0} /\ ZHeader \in Nat \ {0} /\ ZBlocks \in Nat \ {0} BY <1>1, Zenon
<1>3. ZEntries \in Nat /\ ZEntries > 2 /\ ZCount \in 1 .. ZEntries - 1 /\ ZCache \in Nat
  BY ZConstants
<1> QED BY <1>2, <1>3

(* The units of sectors add up.                                            *)
LEMMA ZSizeOfSum ==
    ASSUME NEW a \in Nat, NEW b \in Nat
    PROVE  /\ ZSize(a) \in Nat /\ ZSize(a + b) = ZSize(a) + ZSize(b) /\ ZSize(0) = 0
           /\ ZSize(1) = ZSector /\ (a <= b => ZSize(a) <= ZSize(b))
<1>1. ZSector \in Nat \ {0} BY ZNumbers
<1>2. /\ ZSize(a) \in Nat /\ ZSize(a + b) = ZSize(a) + ZSize(b) /\ ZSize(0) = 0 /\ ZSize(1) = ZSector
  BY <1>1, SMT DEF ZSize
<1>3. ASSUME a <= b PROVE ZSize(a) <= ZSize(b)
  <2>1. PICK x \in Nat : b = a + x
    <3>1. b - a \in Nat /\ b = a + (b - a) BY <1>3
    <3> QED BY <3>1
  <2>2. (a + x) * ZSector = a * ZSector + x * ZSector BY <1>1, SMT
  <2>3. x * ZSector \in Nat /\ a * ZSector \in Nat BY <1>1, SMT
  <2> QED BY <2>1, <2>2, <2>3 DEF ZSize
<1> QED BY <1>2, <1>3

(* The image: its blocks follow each other.                                *)
ZImageInv ==
    /\ zIndex \in [0 .. ZBlocks -> Nat] /\ zIndex[0] = ZHeader + ZBlocks + 1
    /\ \A b \in 1 .. ZBlocks : zIndex[b] - zIndex[b - 1] \in 1 .. ZSector

(* Blocks that follow each other are not longer than they are unpacked.    *)
LEMMA ZSpan ==
    ASSUME ZImageInv, NEW a \in 0 .. ZBlocks, NEW b \in 0 .. ZBlocks, a <= b
    PROVE  /\ Offset(a) \in Nat /\ Offset(b) \in Nat /\ Offset(a) <= Offset(b)
           /\ Offset(b) - Offset(a) <= ZSize(b - a)
<1> DEFINE P(c) == zIndex[a] <= zIndex[c] /\ zIndex[c] - zIndex[a] <= ZSize(c - a)
           W == {c \in a .. ZBlocks : ~P(c)}
<1>1. ZBlocks \in Nat /\ ZSector \in Nat BY ZNumbers
<1>2. \A c \in 0 .. ZBlocks : zIndex[c] \in Nat BY DEF ZImageInv
<1>3. W = {}
  <2> SUFFICES ASSUME W # {} PROVE FALSE
    OBVIOUS
  <2>1. W \in SUBSET Nat BY <1>1
  <2> HIDE DEF W
  <2>2. PICK c \in W : \A d \in W : c <= d BY <2>1, NatHasMin
  <2>3. c \in a .. ZBlocks /\ ~P(c) BY <2>2 DEF W
  <2>4. CASE c = a
    <3>1. c - a = 0 /\ ZSize(0) = 0 BY <2>4, <1>1 DEF ZSize
    <3> QED BY <2>3, <2>4, <3>1, <1>2
  <2>5. CASE c # a
    <3> DEFINE d == c - 1
    <3>1. d \in a .. ZBlocks /\ d \in Nat /\ c \in Nat /\ d < c /\ c \in 1 .. ZBlocks /\ d \in 0 .. ZBlocks
          /\ d - a \in Nat /\ c - a = (d - a) + 1
      BY <2>3, <2>5, <1>1
    <3>2. d \notin W BY <3>1, <2>1, <2>2
    <3>3. P(d) BY <3>1, <3>2 DEF W
    <3>4. zIndex[c] - zIndex[d] \in 1 .. ZSector BY <3>1 DEF ZImageInv
    <3> HIDE DEF d
    <3>5. ZSize((d - a) + 1) = ZSize(d - a) + ZSector /\ ZSize(d - a) \in Nat
      <4>1. 1 \in Nat OBVIOUS
      <4> QED BY <3>1, <4>1, ZSizeOfSum
    <3>6. zIndex[a] \in Nat /\ zIndex[c] \in Nat /\ zIndex[d] \in Nat BY <1>2, <3>1
    <3>7. P(c)
      <4>1. ZSize(c - a) = ZSize(d - a) + ZSector BY <3>1, <3>5
      <4> QED BY <3>3, <3>4, <3>5, <3>6, <4>1, <1>1
    <3> QED BY <3>7, <2>3
  <2> QED BY <2>4, <2>5
<1>4. P(b) BY <1>1, <1>3
<1> QED BY <1>2, <1>4 DEF Offset

(* The units of the file reach behind its last block, and the index lies   *)
(* before the first one.                                                   *)
ZEnd == ZSectors * ZSector

(* Every entry of the index, and every block, lies inside the file.        *)
LEMMA ZEndOf ==
    ASSUME ZImageInv
    PROVE  /\ ZEnd \in Nat
           /\ \A b \in 0 .. ZBlocks : Offset(b) \in Nat /\ Offset(b) <= ZEnd /\ ZHeader + b < ZEnd
           /\ \A b \in 0 .. ZBlocks - 1 : Offset(b + 1) - Offset(b) \in 1 .. ZSector
<1> DEFINE o == Offset(ZBlocks)
           x == (o + ZSector) - 1
<1>1. /\ ZSector \in Nat \ {0} /\ ZBlocks \in Nat \ {0} /\ ZHeader \in Nat
      /\ 0 \in 0 .. ZBlocks /\ ZBlocks \in 0 .. ZBlocks
  BY ZNumbers
<1>2. \A b \in 0 .. ZBlocks : /\ Offset(b) \in Nat /\ Offset(b) <= o /\ Offset(0) <= Offset(b)
  BY <1>1, ZSpan
<1>3. o \in Nat /\ x \in Nat BY <1>1, <1>2
<1>4. x \div ZSector \in Nat /\ x % ZSector \in 0 .. ZSector - 1
      /\ x = (x \div ZSector) * ZSector + (x % ZSector)
  BY <1>1, <1>3, DivOf
<1>5. ZEnd = (x \div ZSector) * ZSector
  <2>1. o + ZSector - 1 = x BY <1>1, <1>3
  <2>2. ZSectors = x \div ZSector BY <2>1 DEF ZSectors
  <2> QED BY <2>2 DEF ZEnd
<1>6. ZEnd \in Nat /\ o <= ZEnd
  <2> DEFINE r == x % ZSector
  <2>1. ASSUME NEW q \in Nat PROVE q * ZSector \in Nat BY <1>1, SMT
  <2>2. ZEnd \in Nat BY <1>4, <1>5, <2>1
  <2>3. r \in 0 .. ZSector - 1 /\ x = ZEnd + r BY <1>4, <1>5
  <2>4. x = o + ZSector - 1 BY <1>1, <1>3
  <2> HIDE DEF x, r
  <2> QED BY <2>2, <2>3, <2>4, <1>1, <1>3
<1>7. Offset(0) = ZHeader + ZBlocks + 1 BY DEF ZImageInv, Offset
<1>8. ASSUME NEW b \in 0 .. ZBlocks - 1 PROVE Offset(b + 1) - Offset(b) \in 1 .. ZSector
  <2>1. b + 1 \in 1 .. ZBlocks /\ (b + 1) - 1 = b BY <1>1
  <2> QED BY <2>1 DEF ZImageInv, Offset
<1> HIDE DEF o, x
<1>9. ASSUME NEW b \in 0 .. ZBlocks PROVE Offset(b) \in Nat /\ Offset(b) <= ZEnd /\ ZHeader + b < ZEnd
  BY <1>1, <1>2, <1>3, <1>6, <1>7
<1> QED BY <1>6, <1>8, <1>9

(* What the image has before position ZLimit can be relied on.             *)
ZLimit == IF zClean THEN ZEnd ELSE 0

(* What s holds comes from position o of the image on, unless the device   *)
(* failed or the file ends before.                                         *)
Is(x, u, limit) == x = Unit(u) \/ (x = ZGarbage /\ u >= limit)
Holds(s, o, limit) == \A i \in 1 .. Len(s) : Is(s[i], o + i - 1, limit)

ZThings == {"unit", "garbage", "block"} \X Int

ZCacheInv ==
    /\ sector_cache \in Seq(ZThings)
    /\ \/ cur_sector = ZJunk /\ sector_cache = << >>
       \/ /\ cur_sector \in Nat /\ Len(sector_cache) = ZSize(ZCache)
          /\ Holds(sector_cache, ZSize(cur_sector), ZLimit)

ZIndexInv ==
    /\ idx_cache \in Seq(ZThings)
    /\ \/ idx_start = -1 /\ idx_cache = << >>
       \/ idx_start \in Nat /\ Len(idx_cache) = ZEntries /\ Holds(idx_cache, ZHeader + idx_start, ZLimit)

(* The call of read_raw_data of z units from o on.                         *)
RawFor(o, z) ==
    /\ raw \in [size : Nat, lba : Nat, pos : 0 .. ZSector - 1, got : Seq(ZThings), cached : BOOLEAN]
    /\ Len(raw.got) + raw.size = z /\ Holds(raw.got, o, ZLimit)
    /\ raw.size > 0 => ZSize(raw.lba) + raw.pos = o + Len(raw.got)

(* The call, and how far it is.                                            *)
ZCallInv ==
    /\ zStep \in {"idle", "index", "data", "unpack", "done", "undefined"}
    /\ zcall \in [lsn : Nat, count : Nat, asked : Nat, block : Nat, c_buff : Nat]
    /\ zcall.count <= zcall.asked /\ zcall.asked <= ZCount /\ zcall.block <= zcall.count
    /\ zcall.lsn + zcall.count <= ZBlocks
    /\ zcall.c_buff <= ZSize(zcall.count)
    /\ zStep \in {"index", "data"} => zcall.count > 0
    /\ zStep \in {"index", "data"} => zcall.block = 0
    /\ zStep = "index" => zcall.c_buff = 0
    /\ zStep \in {"data", "unpack"} =>
           /\ zcall.c_buff + Offset(zcall.lsn + zcall.count) - Offset(zcall.lsn + zcall.block)
                = ZSize(zcall.count)
           /\ \A b \in zcall.lsn .. zcall.lsn + zcall.count : Cached(idx_cache, idx_start, b) = Offset(b)

ZRawInv ==
    /\ zStep = "index" =>
           \/ raw = NoRaw /\ ~IndexMisses(zcall.lsn, zcall.count)
           \/ RawFor(zcall.lsn + ZHeader, ZEntries)
    /\ zStep = "data" =>
           RawFor(Offset(zcall.lsn), Offset(zcall.lsn + zcall.count) - Offset(zcall.lsn))

(* The caller's buffer: what is unpacked, and what is not.                 *)
Blocks(n) == \A i \in 1 .. ZSize(n) : zbuf[i] = <<"block", zcall.lsn + (i - 1) \div ZSector>>
ZBufInv ==
    /\ DOMAIN zbuf = 1 .. ZSize(zcall.count) /\ zbuf = [i \in 1 .. ZSize(zcall.count) |-> zbuf[i]]
    /\ zClean => zStep # "undefined"
    /\ zClean /\ zStep = "done" => Blocks(zcall.count)
    /\ zClean /\ zStep = "unpack" =>
           /\ Blocks(zcall.block)
           /\ \A i \in 1 .. ZSize(zcall.count) :
                i > zcall.c_buff => zbuf[i] = Unit(Offset(zcall.lsn + zcall.block) + (i - zcall.c_buff) - 1)

ZInv == ZImageInv /\ ZCacheInv /\ ZIndexInv /\ ZCallInv /\ ZRawInv /\ ZBufInv

(* Nothing becomes wrong when the device fails.                            *)
LEMMA HoldsOn ==
    ASSUME NEW l \in Nat, NEW m \in Nat, m <= l, NEW s, NEW o \in Int, Len(s) \in Nat, Holds(s, o, l)
    PROVE  Holds(s, o, m)
BY DEF Holds, Is

(* A piece of what holds the image, behind what does.                      *)
LEMMA HoldsMore ==
    ASSUME NEW s \in Seq(ZThings), NEW t \in Seq(ZThings), NEW o \in Int,
           NEW l, NEW p \in Nat, NEW k \in Nat, p + k <= Len(t),
           Holds(s, o, l), Holds(t, o + Len(s) - p, l)
    PROVE  LET r == s \o SubSeq(t, p + 1, p + k)
           IN r \in Seq(ZThings) /\ Len(r) = Len(s) + k /\ Holds(r, o, l)
<1> DEFINE u == SubSeq(t, p + 1, p + k)
           r == s \o u
<1>1. Len(t) \in Nat /\ Len(s) \in Nat /\ \A i \in 1 .. Len(t) : t[i] \in ZThings OBVIOUS
<1>2. \A i \in p + 1 .. p + k : t[i] \in ZThings BY <1>1
<1>3. /\ u \in Seq(ZThings) /\ Len(u) = (IF p + 1 <= p + k THEN (p + k) - (p + 1) + 1 ELSE 0)
      /\ \A i \in 1 .. (p + k) - (p + 1) + 1 : u[i] = t[(p + 1) + i - 1]
  <2>1. p + 1 \in Int /\ p + k \in Int OBVIOUS
  <2> HIDE DEF u
  <2> QED BY <1>2, <2>1, SubSeqProperties DEF u
<1>4. Len(u) = k BY <1>3
<1>5. \A i \in 1 .. k : u[i] = t[p + i]
  <2> SUFFICES ASSUME NEW i \in 1 .. k PROVE u[i] = t[p + i]
    OBVIOUS
  <2>1. i \in 1 .. (p + k) - (p + 1) + 1 /\ (p + 1) + i - 1 = p + i OBVIOUS
  <2> QED BY <2>1, <1>3
<1> HIDE DEF u
<1>6. /\ r \in Seq(ZThings) /\ Len(r) = Len(s) + k
      /\ \A i \in 1 .. Len(s) + k : r[i] = IF i <= Len(s) THEN s[i] ELSE u[i - Len(s)]
  BY <1>3, <1>4, ConcatProperties
<1> HIDE DEF r
<1>7. ASSUME NEW i \in 1 .. Len(s) + k PROVE Is(r[i], o + i - 1, l)
  <2>1. CASE i <= Len(s) BY <2>1, <1>6 DEF Holds
  <2>2. CASE i > Len(s)
    <3> DEFINE j == p + (i - Len(s))
    <3>1. i - Len(s) \in 1 .. k BY <2>2, <1>1
    <3>2. j \in 1 .. Len(t) /\ (o + Len(s) - p) + j - 1 = o + i - 1 BY <3>1, <1>1
    <3>a. ~(i <= Len(s)) BY <2>2, <1>1
    <3>3. r[i] = u[i - Len(s)] BY <3>a, <1>6, Zenon
    <3>5. u[i - Len(s)] = t[j] BY <3>1, <1>5
    <3> HIDE DEF j
    <3>4. Is(t[j], (o + Len(s) - p) + j - 1, l) BY <3>2 DEF Holds
    <3> QED BY <3>2, <3>3, <3>4, <3>5
  <2> QED BY <2>1, <2>2, <1>1
<1>8. Holds(r, o, l) BY <1>6, <1>7 DEF Holds
<1> QED BY <1>6, <1>8 DEF r, u

(* What the device delivers.                                               *)
LEMMA ZDevice ==
    ASSUME ZImageInv, NEW lba \in Nat, NEW n \in Nat, NEW ok \in BOOLEAN,
           NEW l \in Nat, l <= ZEnd, ok \/ l = 0
    PROVE  /\ Device(lba, n, ok) \in Seq(ZThings) /\ Len(Device(lba, n, ok)) = ZSize(n)
           /\ Holds(Device(lba, n, ok), ZSize(lba), l)
<1> DEFINE V(i) == IF ok /\ lba * ZSector + i - 1 < ZSectors * ZSector THEN Unit(lba * ZSector + i - 1)
                   ELSE ZGarbage
<1>1. ZSize(lba) \in Nat /\ ZSize(n) \in Nat /\ ZEnd \in Nat BY ZSizeOfSum, ZEndOf
<1>2. Device(lba, n, ok) = [i \in 1 .. ZSize(n) |-> V(i)] BY DEF Device, ZSize
<1>3. \A i \in 1 .. ZSize(n) : V(i) = IF ok /\ ZSize(lba) + i - 1 < ZEnd THEN Unit(ZSize(lba) + i - 1)
                                      ELSE ZGarbage
  BY DEF ZSize, ZEnd
<1> HIDE DEF V
<1>4. \A i \in 1 .. ZSize(n) : V(i) \in ZThings
  BY <1>1, <1>3 DEF ZThings, Unit, ZGarbage
<1>5. \A i \in 1 .. ZSize(n) : Is(V(i), ZSize(lba) + i - 1, l)
  BY <1>1, <1>3 DEF Is
<1>6. [i \in 1 .. ZSize(n) |-> V(i)] \in Seq(ZThings) /\ Len([i \in 1 .. ZSize(n) |-> V(i)]) = ZSize(n)
  BY <1>1, <1>4
<1> QED BY <1>2, <1>5, <1>6 DEF Holds

(* An access of the device by way of the cache of sectors.                 *)
LEMMA ZAccess ==
    ASSUME ZImageInv, ZCacheInv, NEW lba \in Nat, NEW n \in Nat \ {0}, NEW ok \in BOOLEAN,
           NEW l \in Nat, l <= ZEnd, l <= ZLimit, ok \/ l = 0,
           DeviceReadSectorsCached(lba, n, ok)
    PROVE  LET d == Delivered(lba, n, ok)
           IN /\ sector_cache' \in Seq(ZThings)
              /\ \/ cur_sector' = ZJunk /\ sector_cache' = << >>
                 \/ /\ cur_sector' \in Nat /\ Len(sector_cache') = ZSize(ZCache)
                    /\ Holds(sector_cache', ZSize(cur_sector'), l)
              /\ d \in Seq(ZThings) /\ Len(d) = ZSize(n) /\ Holds(d, ZSize(lba), l)
<1> DEFINE d == Delivered(lba, n, ok)
           c == cur_sector'
           s == sector_cache'
<1>0. ZCache \in Nat /\ ZLimit \in Nat
  <2>1. ZEnd \in Nat BY ZEndOf
  <2> QED BY <2>1, ZNumbers DEF ZLimit
<1>1. ASSUME sector_cache \in Seq(ZThings), cur_sector \in Nat, Len(sector_cache) = ZSize(ZCache),
             Holds(sector_cache, ZSize(cur_sector), ZLimit)
      PROVE  Holds(sector_cache, ZSize(cur_sector), l)
  <2>1. ZSize(cur_sector) \in Int /\ Len(sector_cache) \in Nat BY <1>1, ZSizeOfSum
  <2> QED BY <1>0, <1>1, <2>1, HoldsOn
<1>2. CASE ~(raw.cached /\ n < ZCache)
  <2>1. s = sector_cache /\ c = cur_sector /\ d = Device(lba, n, ok)
    BY <1>2 DEF DeviceReadSectorsCached, Delivered
  <2>2. d \in Seq(ZThings) /\ Len(d) = ZSize(n) /\ Holds(d, ZSize(lba), l) BY <2>1, ZDevice
  <2> HIDE DEF d
  <2> QED BY <2>1, <2>2, <1>1 DEF ZCacheInv, d
<1>3. CASE raw.cached /\ n < ZCache
  <2>1. /\ s \in Seq(ZThings) /\ c \in Nat /\ Len(s) = ZSize(ZCache) /\ Holds(s, ZSize(c), l)
        /\ c <= lba /\ lba + n - c <= ZCache
    <3>1. CASE Misses(lba, n)
      <4>1. c = lba /\ s = Device(lba, ZCache, ok) BY <1>3, <3>1 DEF DeviceReadSectorsCached
      <4>2. /\ Device(lba, ZCache, ok) \in Seq(ZThings) /\ Len(Device(lba, ZCache, ok)) = ZSize(ZCache)
            /\ Holds(Device(lba, ZCache, ok), ZSize(lba), l)
        BY <1>0, ZDevice
      <4> QED BY <4>1, <4>2, <1>0, <1>3
    <3>2. CASE ~Misses(lba, n)
      <4>1. c = cur_sector /\ s = sector_cache BY <1>3, <3>2 DEF DeviceReadSectorsCached
      <4>2. cur_sector # ZJunk /\ ~(lba < cur_sector) /\ ~(lba + n - cur_sector > ZCache)
        BY <3>2 DEF Misses
      <4>3. /\ sector_cache \in Seq(ZThings) /\ cur_sector \in Nat /\ Len(sector_cache) = ZSize(ZCache)
            /\ Holds(sector_cache, ZSize(cur_sector), ZLimit)
        BY <4>2 DEF ZCacheInv
      <4>4. Holds(sector_cache, ZSize(cur_sector), l) BY <4>3, <1>1
      <4> QED BY <4>1, <4>2, <4>3, <4>4, <1>0
    <3> QED BY <3>1, <3>2
  <2> DEFINE p == ZSize(lba - c)
             V(i) == IF p + i <= Len(s) THEN s[p + i] ELSE ZGarbage
  <2>2. d = [i \in 1 .. ZSize(n) |-> V(i)] BY <1>3 DEF Delivered, ZSize
  <2>3. /\ p \in Nat /\ ZSize(n) \in Nat /\ ZSize(ZCache) \in Nat /\ ZSize(c) \in Nat
        /\ p + ZSize(n) <= ZSize(ZCache) /\ ZSize(lba) = ZSize(c) + p
    <3>1. lba - c \in Nat /\ c + (lba - c) = lba /\ (lba - c) + n \in Nat /\ (lba - c) + n <= ZCache
      <4>1. c \in Nat /\ c <= lba /\ lba + n - c <= ZCache BY <2>1
      <4> HIDE DEF c
      <4> QED BY <4>1, <1>0
    <3>2. ZSize(c + (lba - c)) = ZSize(c) + ZSize(lba - c) /\ ZSize(c) \in Nat
      BY <3>1, <2>1, ZSizeOfSum
    <3>3. ZSize((lba - c) + n) = ZSize(lba - c) + ZSize(n) /\ ZSize(lba - c) \in Nat
      BY <3>1, ZSizeOfSum
    <3>4. ZSize((lba - c) + n) <= ZSize(ZCache) BY <3>1, <1>0, ZSizeOfSum
    <3>5. ZSize(n) \in Nat /\ ZSize(ZCache) \in Nat BY <1>0, ZSizeOfSum
    <3> QED BY <3>1, <3>2, <3>3, <3>4, <3>5
  <2>4. ASSUME NEW i \in 1 .. ZSize(n) PROVE V(i) \in ZThings /\ Is(V(i), ZSize(lba) + i - 1, l)
    <3> HIDE DEF p
    <3>1. p + i \in 1 .. Len(s) BY <2>1, <2>3
    <3>2. V(i) = s[p + i] BY <3>1
    <3>3. s[p + i] \in ZThings BY <2>1, <3>1
    <3>4. Is(s[p + i], ZSize(c) + (p + i) - 1, l) BY <2>1, <3>1 DEF Holds
    <3>5. ZSize(c) + (p + i) - 1 = ZSize(lba) + i - 1 BY <2>3
    <3> QED BY <3>2, <3>3, <3>4, <3>5
  <2> HIDE DEF V, p, s, c
  <2>5. [i \in 1 .. ZSize(n) |-> V(i)] \in Seq(ZThings) /\ Len([i \in 1 .. ZSize(n) |-> V(i)]) = ZSize(n)
    BY <2>3, <2>4
  <2>6. d \in Seq(ZThings) /\ Len(d) = ZSize(n) /\ Holds(d, ZSize(lba), l)
    <3> HIDE DEF d
    <3> QED BY <2>2, <2>4, <2>5 DEF Holds
  <2> HIDE DEF d
  <2> QED BY <2>1, <2>6 DEF s, c, d
<1> QED BY <1>2, <1>3

(* One access of read_raw_data: n sectors, of which k units count.         *)
LEMMA ZRawAccess ==
    ASSUME ZImageInv, ZCacheInv, NEW n \in Nat \ {0}, NEW k \in Nat, NEW ok \in BOOLEAN,
           NEW l \in Nat, l <= ZEnd, l <= ZLimit, ok \/ l = 0,
           NEW o \in Nat, NEW z \in Nat, RawFor(o, z), raw.size > 0,
           k <= raw.size, raw.pos + k <= ZSize(n), k < raw.size => raw.pos + k = ZSize(n),
           RawAccess(n, k, ok)
    PROVE  /\ sector_cache' \in Seq(ZThings)
           /\ \/ cur_sector' = ZJunk /\ sector_cache' = << >>
              \/ /\ cur_sector' \in Nat /\ Len(sector_cache') = ZSize(ZCache)
                 /\ Holds(sector_cache', ZSize(cur_sector'), l)
           /\ raw' \in [size : Nat, lba : Nat, pos : 0 .. ZSector - 1, got : Seq(ZThings), cached : BOOLEAN]
           /\ Len(raw'.got) + raw'.size = z /\ Holds(raw'.got, o, l)
           /\ raw'.size > 0 => ZSize(raw'.lba) + raw'.pos = o + Len(raw'.got)
<1> DEFINE d == Delivered(raw.lba, n, ok)
           g == raw.got \o SubSeq(d, raw.pos + 1, raw.pos + k)
<1>1. /\ raw \in [size : Nat, lba : Nat, pos : 0 .. ZSector - 1, got : Seq(ZThings), cached : BOOLEAN]
      /\ Len(raw.got) + raw.size = z /\ Holds(raw.got, o, ZLimit)
      /\ ZSize(raw.lba) + raw.pos = o + Len(raw.got)
  BY DEF RawFor
<1>2. /\ raw.size \in Nat /\ raw.lba \in Nat /\ raw.pos \in Nat /\ raw.got \in Seq(ZThings)
      /\ raw.cached \in BOOLEAN /\ Len(raw.got) \in Nat
  BY <1>1, ZNumbers
<1>e. Len(raw.got) + raw.size = z /\ ZSize(raw.lba) + raw.pos = o + Len(raw.got) BY <1>1
<1>i. Len(raw.got) \in Int /\ raw.pos \in Int /\ raw.size \in Int /\ ZSize(raw.lba) \in Int
  <2>1. ZSize(raw.lba) \in Nat BY <1>2, ZSizeOfSum
  <2> QED BY <2>1, <1>2
<1>3. /\ DeviceReadSectorsCached(raw.lba, n, ok)
      /\ raw' = [raw EXCEPT !.got = g, !.size = @ - k, !.lba = @ + n, !.pos = 0]
  BY DEF RawAccess
<1>4. /\ sector_cache' \in Seq(ZThings)
      /\ \/ cur_sector' = ZJunk /\ sector_cache' = << >>
         \/ /\ cur_sector' \in Nat /\ Len(sector_cache') = ZSize(ZCache)
            /\ Holds(sector_cache', ZSize(cur_sector'), l)
      /\ d \in Seq(ZThings) /\ Len(d) = ZSize(n) /\ Holds(d, ZSize(raw.lba), l)
  <2> HIDE DEF d
  <2> QED BY <1>2, <1>3, ZAccess DEF d
<1>5. ZLimit \in Nat
  <2>1. ZEnd \in Nat BY ZEndOf
  <2> QED BY <2>1 DEF ZLimit
<1>6. Holds(raw.got, o, l)
  <2>1. o \in Int OBVIOUS
  <2> QED BY <2>1, <1>1, <1>2, <1>5, HoldsOn
<1> HIDE DEF d
<1>7. g \in Seq(ZThings) /\ Len(g) = Len(raw.got) + k /\ Holds(g, o, l)
  <2>1. o + Len(raw.got) - raw.pos = ZSize(raw.lba)
    <3>1. ASSUME NEW a \in Int, NEW b \in Int, NEW e \in Int, a + b = o + e PROVE o + e - b = a
      BY <3>1
    <3> QED BY <3>1, <1>e, <1>i
  <2>2. Holds(d, o + Len(raw.got) - raw.pos, l) BY <2>1, <1>4
  <2>3. raw.pos + k <= Len(d) /\ o \in Int BY <1>4
  <2> QED BY <2>2, <2>3, <1>2, <1>4, <1>6, HoldsMore
<1> HIDE DEF g
<1>8. /\ raw'.got = g /\ raw'.size = raw.size - k /\ raw'.lba = raw.lba + n /\ raw'.pos = 0
      /\ raw' \in [size : Nat, lba : Nat, pos : 0 .. ZSector - 1, got : Seq(ZThings), cached : BOOLEAN]
  <2>1. raw.size - k \in Nat /\ raw.lba + n \in Nat /\ 0 \in 0 .. ZSector - 1 BY <1>2, ZNumbers
  <2> QED BY <2>1, <1>1, <1>3, <1>7
<1>9. ZSize(raw.lba + n) = ZSize(raw.lba) + ZSize(n) /\ ZSize(raw.lba) \in Nat /\ ZSize(n) \in Nat
  BY <1>2, ZSizeOfSum
<1>10. Len(raw'.got) + raw'.size = z /\ Holds(raw'.got, o, l)
  <2>1. Len(raw'.got) = Len(raw.got) + k /\ raw'.size = raw.size - k BY <1>7, <1>8
  <2>2. Holds(raw'.got, o, l) BY <1>7, <1>8
  <2> QED BY <2>1, <2>2, <1>e, <1>2
<1>11. raw'.size > 0 => ZSize(raw'.lba) + raw'.pos = o + Len(raw'.got)
  <2>1. ASSUME raw'.size > 0 PROVE ZSize(raw'.lba) + raw'.pos = o + Len(raw'.got)
    <3>1. raw.pos + k = ZSize(n) BY <2>1, <1>2, <1>8
    <3>2. Len(raw'.got) = Len(raw.got) + k BY <1>7, <1>8
    <3>3. ZSize(raw'.lba) = ZSize(raw.lba) + ZSize(n) BY <1>8, <1>9
    <3>4. raw'.pos = 0 BY <1>8
    <3> DEFINE a == ZSize(raw.lba)
               b == raw.pos
               e == Len(raw.got)
               v == ZSize(n)
    <3>5. a \in Int /\ b \in Int /\ e \in Int /\ v \in Int BY <1>i, <1>9
    <3>6. a + b = o + e /\ b + k = v BY <3>1, <1>e
    <3> HIDE DEF a, b, e, v
    <3>7. (a + v) + 0 = o + (e + k) BY <3>5, <3>6
    <3> QED BY <3>2, <3>3, <3>4, <3>7 DEF a, e, v
  <2> QED BY <2>1
<1> QED BY <1>4, <1>8, <1>10, <1>11

(* read_raw_data accesses the device once more.                            *)
LEMMA ZRawPart ==
    ASSUME ZImageInv, ZCacheInv, NEW ok \in BOOLEAN,
           NEW l \in Nat, l <= ZEnd, l <= ZLimit, ok \/ l = 0,
           NEW o \in Nat, NEW z \in Nat, RawFor(o, z), raw.size > 0,
           RawPart(ok)
    PROVE  /\ sector_cache' \in Seq(ZThings)
           /\ \/ cur_sector' = ZJunk /\ sector_cache' = << >>
              \/ /\ cur_sector' \in Nat /\ Len(sector_cache') = ZSize(ZCache)
                 /\ Holds(sector_cache', ZSize(cur_sector'), l)
           /\ raw' \in [size : Nat, lba : Nat, pos : 0 .. ZSector - 1, got : Seq(ZThings), cached : BOOLEAN]
           /\ Len(raw'.got) + raw'.size = z /\ Holds(raw'.got, o, l)
           /\ raw'.size > 0 => ZSize(raw'.lba) + raw'.pos = o + Len(raw'.got)
<1>1. raw.size \in Nat /\ raw.pos \in 0 .. ZSector - 1 /\ raw.pos \in Nat BY ZNumbers DEF RawFor
<1>2. ZSector \in Nat \ {0} /\ ZSize(1) = ZSector /\ 1 \in Nat \ {0}
  <2>1. 1 \in Nat OBVIOUS
  <2> QED BY <2>1, ZNumbers, ZSizeOfSum
<1>3. CASE raw.pos # 0
  <2> DEFINE k == IF raw.size < ZSector - raw.pos THEN raw.size ELSE ZSector - raw.pos
  <2>1. RawAccess(1, k, ok) BY <1>3 DEF RawPart
  <2>2. k \in Nat /\ k <= raw.size /\ raw.pos + k <= ZSize(1) /\ (k < raw.size => raw.pos + k = ZSize(1))
    BY <1>1, <1>2
  <2> HIDE DEF k
  <2> QED BY <2>1, <2>2, <1>2, ZRawAccess
<1>4. CASE raw.pos = 0
  <2> DEFINE x == (raw.size + ZSector) - 1
             q == x \div ZSector
  <2>1. x \in Nat BY <1>1, <1>2
  <2>2. RawBlocks = q
    <3>1. raw.size + ZSector - 1 = x BY <1>1, <1>2
    <3> QED BY <3>1 DEF RawBlocks
  <2>3. q \in Nat /\ x = q * ZSector + (x % ZSector) /\ x % ZSector \in 0 .. ZSector - 1
    <3> HIDE DEF x
    <3> QED BY <2>1, <1>2, DivOf
  <2>4. ZSize(q) \in Nat /\ ZSize(q) <= x /\ x < ZSize(q) + ZSector
    <3>1. ZSize(q) = q * ZSector BY DEF ZSize
    <3>2. ZSize(q) \in Nat BY <2>3, ZSizeOfSum
    <3> HIDE DEF q, x
    <3> QED BY <3>1, <3>2, <2>1, <2>3, <1>2
  <2>5. x = raw.size + ZSector - 1 BY <1>1, <1>2
  <2> HIDE DEF q, x
  <2>6. CASE q > 1
    <3>1. RawAccess(q - 1, (q - 1) * ZSector, ok) BY <1>4, <2>2, <2>6 DEF RawPart
    <3>2. q - 1 \in Nat \ {0} /\ (q - 1) + 1 = q BY <2>3, <2>6
    <3>3. ZSize((q - 1) + 1) = ZSize(q - 1) + ZSize(1) /\ ZSize(q - 1) \in Nat
      BY <3>2, <1>2, ZSizeOfSum
    <3>4. (q - 1) * ZSector = ZSize(q - 1) BY DEF ZSize
    <3>5. ZSize(q - 1) < raw.size BY <3>2, <3>3, <2>4, <2>5, <1>1, <1>2
    <3>6. /\ ZSize(q - 1) <= raw.size /\ raw.pos + ZSize(q - 1) <= ZSize(q - 1)
          /\ ZSize(q - 1) < raw.size => raw.pos + ZSize(q - 1) = ZSize(q - 1)
      BY <3>3, <3>5, <1>1, <1>4
    <3>7. RawAccess(q - 1, ZSize(q - 1), ok) BY <3>1, <3>4
    <3> QED BY <3>2, <3>3, <3>6, <3>7, ZRawAccess
  <2>7. CASE ~(q > 1)
    <3>1. RawAccess(1, raw.size, ok) BY <1>4, <2>2, <2>7 DEF RawPart
    <3>2. raw.size <= ZSector
      <4>1. q = 0 \/ q = 1 BY <2>3, <2>7
      <4>2. ZSize(q) <= ZSector
        <5>1. 0 \in Nat OBVIOUS
        <5>2. ZSize(0) = 0 BY <5>1, ZSizeOfSum
        <5> QED BY <4>1, <5>2, <1>2
      <4> QED BY <4>2, <2>4, <2>5, <1>1, <1>2
    <3>3. /\ raw.size <= raw.size /\ raw.pos + raw.size <= ZSize(1)
          /\ raw.size < raw.size => raw.pos + raw.size = ZSize(1)
      BY <3>2, <1>1, <1>2, <1>4
    <3> QED BY <3>1, <3>3, <1>1, <1>2, ZRawAccess
  <2> QED BY <2>6, <2>7
<1> QED BY <1>3, <1>4

(* The offset a cached index gives is that of the block, or the entry was  *)
(* not read.                                                               *)
LEMMA ZCached ==
    ASSUME ZImageInv, NEW cache \in Seq(ZThings), NEW start \in Nat, Len(cache) = ZEntries,
           Holds(cache, ZHeader + start, ZLimit),
           NEW b \in 0 .. ZBlocks, start <= b, b < start + ZEntries
    PROVE  /\ Cached(cache, start, b) \in {Offset(b), ZJunk} /\ Offset(b) # ZJunk
           /\ zClean => Cached(cache, start, b) = Offset(b)
<1> DEFINE i == b - start + 1
           x == cache[i]
<1>1. b \in Nat /\ ZHeader \in Nat /\ ZEntries \in Nat /\ ZBlocks \in Nat BY ZNumbers
<1>2. i \in 1 .. Len(cache) /\ i \in DOMAIN cache BY <1>1
<1>3. Cached(cache, start, b) = Entry(x) BY <1>2 DEF Cached
<1>4. (ZHeader + start) + i - 1 = ZHeader + b BY <1>1
<1>5. Is(x, ZHeader + b, ZLimit)
  <2> HIDE DEF i
  <2>1. Is(cache[i], (ZHeader + start) + i - 1, ZLimit) BY <1>2 DEF Holds
  <2> QED BY <2>1, <1>4
<1>6. Offset(b) \in Nat /\ ZHeader + b < ZEnd /\ ZEnd \in Nat BY ZEndOf
<1>7. Offset(b) # ZJunk BY <1>6 DEF ZJunk
<1>8. Entry(Unit(ZHeader + b)) = Offset(b)
  <2>1. Unit(ZHeader + b) \in {Unit(ZHeader + e) : e \in 0 .. ZBlocks} OBVIOUS
  <2>2. Unit(ZHeader + b)[2] = ZHeader + b BY DEF Unit
  <2>3. (ZHeader + b) - ZHeader = b BY <1>1
  <2>4. Entry(Unit(ZHeader + b)) = Offset(Unit(ZHeader + b)[2] - ZHeader)
    BY <2>1, Zenon DEF Entry
  <2> QED BY <2>2, <2>3, <2>4
<1>9. Entry(ZGarbage) = ZJunk
  <2>1. ZGarbage \notin {Unit(ZHeader + e) : e \in 0 .. ZBlocks} BY DEF ZGarbage, Unit
  <2> QED BY <2>1, Zenon DEF Entry
<1>10. x = Unit(ZHeader + b) \/ (x = ZGarbage /\ ~zClean)
  BY <1>1, <1>5, <1>6 DEF Is, ZLimit
<1> HIDE DEF x
<1> QED BY <1>3, <1>7, <1>8, <1>9, <1>10

(* A call of read_raw_data begins.                                         *)
LEMMA ZRawBegins ==
    ASSUME NEW o \in Nat, NEW z \in Nat, NEW c \in BOOLEAN, raw' = RawRead(z, o, c)
    PROVE  RawFor(o, z)'
<1> DEFINE p == o % ZSector
           q == o \div ZSector
<1>1. ZSector \in Nat \ {0} BY ZNumbers
<1>2. q \in Nat /\ p \in 0 .. ZSector - 1 /\ o = q * ZSector + p BY <1>1, DivOf
<1>3. raw' = [size |-> z, lba |-> q, pos |-> p, got |-> << >>, cached |-> c] BY DEF RawRead
<1> HIDE DEF p, q
<1>4. << >> \in Seq(ZThings) /\ Len(<< >>) = 0 OBVIOUS
<1>5. raw' \in [size : Nat, lba : Nat, pos : 0 .. ZSector - 1, got : Seq(ZThings), cached : BOOLEAN]
  <2> DEFINE none == << >>
             T == Seq(ZThings)
             R == 0 .. ZSector - 1
             B == BOOLEAN
  <2>1. none \in T /\ p \in R /\ q \in Nat /\ c \in B BY <1>2, <1>4
  <2>2. raw' = [size |-> z, lba |-> q, pos |-> p, got |-> none, cached |-> c] BY <1>3
  <2> HIDE DEF none, T, R, B
  <2>3. raw' \in [size : Nat, lba : Nat, pos : R, got : T, cached : B] BY <2>1, <2>2
  <2> QED BY <2>3 DEF T, R, B
<1>6. raw'.got = << >> /\ raw'.size = z /\ raw'.lba = q /\ raw'.pos = p BY <1>3
<1>7. Len(raw'.got) + raw'.size = z BY <1>4, <1>6
<1>8. ZSize(raw'.lba) + raw'.pos = o + Len(raw'.got)
  <2>1. ZSize(q) = q * ZSector BY DEF ZSize
  <2> QED BY <2>1, <1>2, <1>4, <1>6
<1>9. \A l : Holds(raw'.got, o, l) BY <1>4, <1>6 DEF Holds
<1> QED BY <1>5, <1>7, <1>8, <1>9 DEF RawFor, Holds, Is, ZSize

(* What the steps that leave the image and the device alone keep.          *)
LEMMA ZFrame ==
    ASSUME zIndex' = zIndex, zClean' = zClean
    PROVE  /\ ZImageInv => ZImageInv' /\ ZEnd' = ZEnd /\ ZLimit' = ZLimit
           /\ (ZCacheInv /\ cur_sector' = cur_sector /\ sector_cache' = sector_cache => ZCacheInv')
           /\ (ZIndexInv /\ idx_start' = idx_start /\ idx_cache' = idx_cache => ZIndexInv')
<1>1. ZImageInv => ZImageInv' BY DEF ZImageInv
<1>2. ZEnd' = ZEnd BY DEF ZEnd, ZSectors, Offset
<1>3. ZLimit' = ZLimit BY <1>2 DEF ZLimit
<1>4. ZCacheInv /\ cur_sector' = cur_sector /\ sector_cache' = sector_cache => ZCacheInv'
  BY <1>3 DEF ZCacheInv, Holds, Is, ZSize
<1>5. ZIndexInv /\ idx_start' = idx_start /\ idx_cache' = idx_cache => ZIndexInv'
  BY <1>3 DEF ZIndexInv, Holds, Is
<1> QED BY <1>1, <1>2, <1>3, <1>4, <1>5

(* The invariant at the start.                                             *)
LEMMA ZStart == ASSUME ZInit PROVE ZInv
<1> DEFINE first == ZHeader + ZBlocks + 1
<1>1. ZImageInv
  <2>1. first \in Nat /\ ZBlocks * ZSector \in Nat /\ ZBlocks \in Nat BY ZNumbers
  <2>2. /\ zIndex \in [0 .. ZBlocks -> first .. first + ZBlocks * ZSector] /\ zIndex[0] = first
        /\ \A b \in 1 .. ZBlocks : zIndex[b] - zIndex[b - 1] \in 1 .. ZSector
    BY DEF ZInit, ZImages
  <2>3. \A v \in first .. first + ZBlocks * ZSector : v \in Nat BY <2>1
  <2>4. zIndex \in [0 .. ZBlocks -> Nat] BY <2>2, <2>3
  <2> QED BY <2>2, <2>4 DEF ZImageInv
<1>2. << >> \in Seq(ZThings) /\ ZSize(0) = 0
  <2>1. 0 \in Nat OBVIOUS
  <2> QED BY <2>1, ZSizeOfSum
<1>3. ZCacheInv /\ ZIndexInv BY <1>2 DEF ZInit, ZCacheInv, ZIndexInv
<1>4. ZCallInv BY <1>2, ZNumbers DEF ZInit, ZCallInv
<1>5. ZRawInv BY DEF ZInit, ZRawInv
<1>6. ZBufInv
  <2>1. zcall.count = 0 /\ zbuf = << >> /\ zStep = "idle" BY DEF ZInit
  <2>2. DOMAIN zbuf = 1 .. 0 /\ zbuf = [i \in 1 .. 0 |-> zbuf[i]] BY <2>1
  <2>3. ZSize(zcall.count) = 0 BY <2>1, <1>2
  <2> QED BY <2>1, <2>2, <2>3 DEF ZBufInv
<1> QED BY <1>1, <1>3, <1>4, <1>5, <1>6 DEF ZInv

(* ziso_read_sector is called.                                             *)
LEMMA ZReadStep == ASSUME ZInv, ZRead PROVE ZInv'
<1>1. zIndex' = zIndex /\ zClean' = zClean /\ cur_sector' = cur_sector /\ sector_cache' = sector_cache
      /\ idx_start' = idx_start /\ idx_cache' = idx_cache
  BY DEF ZRead
<1>2. ZImageInv' /\ ZCacheInv' /\ ZIndexInv' BY <1>1, ZFrame DEF ZInv
<1> DEFINE C(lsn, asked) == IF lsn >= ZBlocks THEN 0
                            ELSE IF lsn + asked > ZBlocks THEN ZBlocks - lsn ELSE asked
<1>3. PICK lsn \in 0 .. ZBlocks, asked \in 1 .. ZCount :
         /\ zcall' = [lsn |-> lsn, count |-> C(lsn, asked), asked |-> asked, block |-> 0, c_buff |-> 0]
         /\ zbuf' = [i \in 1 .. C(lsn, asked) * ZSector |-> ZGarbage]
         /\ zStep' = IF C(lsn, asked) = 0 THEN "done" ELSE "index"
         /\ raw' = IF C(lsn, asked) > 0 /\ IndexMisses(lsn, C(lsn, asked))
                   THEN RawRead(ZEntries, lsn + ZHeader, FALSE) ELSE NoRaw
  BY DEF ZRead
<1> DEFINE count == C(lsn, asked)
<1>4. /\ lsn \in Nat /\ asked \in Nat /\ asked <= ZCount /\ count \in Nat /\ count <= asked
      /\ lsn + count <= ZBlocks
  BY ZNumbers
<1>5. /\ zcall' = [lsn |-> lsn, count |-> count, asked |-> asked, block |-> 0, c_buff |-> 0]
      /\ zbuf' = [i \in 1 .. ZSize(count) |-> ZGarbage]
      /\ zStep' = IF count = 0 THEN "done" ELSE "index"
      /\ raw' = IF count > 0 /\ IndexMisses(lsn, count)
                THEN RawRead(ZEntries, lsn + ZHeader, FALSE) ELSE NoRaw
  BY <1>3 DEF ZSize
<1> HIDE DEF count
<1>6. /\ zcall'.lsn = lsn /\ zcall'.count = count /\ zcall'.asked = asked /\ zcall'.block = 0
      /\ zcall'.c_buff = 0
      /\ zcall' \in [lsn : Nat, count : Nat, asked : Nat, block : Nat, c_buff : Nat]
  BY <1>4, <1>5
<1>7. ZSize(count) \in Nat /\ ZSize(0) = 0 BY <1>4, ZSizeOfSum
<1>8. ZCallInv'
  <2>1. zStep' \in {"done", "index"} /\ (zStep' = "index" => count > 0) BY <1>4, <1>5
  <2>2. 0 <= ZSize(count) BY <1>7
  <2>3. ZSize(zcall.count)' = ZSize(count) BY <1>6 DEF ZSize
  <2> QED BY <2>1, <2>2, <2>3, <1>4, <1>6 DEF ZCallInv
<1>9. ZRawInv'
  <2>1. zStep' # "data" BY <1>5
  <2>2. ASSUME zStep' = "index"
        PROVE  (raw = NoRaw /\ ~IndexMisses(zcall.lsn, zcall.count))' \/ RawFor(zcall.lsn + ZHeader, ZEntries)'
    <3>1. count > 0 BY <2>2, <1>4, <1>5
    <3>2. CASE IndexMisses(lsn, count)
      <4>1. raw' = RawRead(ZEntries, lsn + ZHeader, FALSE) BY <3>1, <3>2, <1>5
      <4>2. lsn + ZHeader \in Nat /\ ZEntries \in Nat /\ FALSE \in BOOLEAN BY <1>4, ZNumbers
      <4>3. RawFor(lsn + ZHeader, ZEntries)' BY <4>1, <4>2, ZRawBegins
      <4> QED BY <4>3, <1>6 DEF RawFor, Holds, Is
    <3>3. CASE ~IndexMisses(lsn, count)
      <4>1. raw' = NoRaw BY <3>3, <1>5
      <4>2. ~IndexMisses(zcall.lsn, zcall.count)' BY <3>3, <1>1, <1>6 DEF IndexMisses
      <4> QED BY <4>1, <4>2 DEF NoRaw
    <3> QED BY <3>2, <3>3
  <2> QED BY <2>1, <2>2 DEF ZRawInv
<1>10. ZBufInv'
  <2>1. zStep' # "undefined" /\ zStep' # "unpack" BY <1>5
  <2>2. ZSize(zcall.count)' = ZSize(count) BY <1>6 DEF ZSize
  <2>3. DOMAIN zbuf' = 1 .. ZSize(count) /\ zbuf' = [i \in 1 .. ZSize(count) |-> zbuf'[i]]
    BY <1>5
  <2>4. zStep' = "done" => Blocks(zcall.count)'
    <3>1. ASSUME zStep' = "done" PROVE Blocks(zcall.count)'
      <4>1. count = 0 BY <3>1, <1>5
      <4>2. 1 .. ZSize(count) = {} BY <4>1, <1>7
      <4>3. \A i \in 1 .. ZSize(count) : zbuf'[i] = <<"block", zcall'.lsn + (i - 1) \div ZSector>>
        BY <4>2
      <4> QED BY <4>3, <2>2 DEF Blocks
    <3> QED BY <3>1
  <2> QED BY <2>1, <2>2, <2>3, <2>4 DEF ZBufInv
<1> QED BY <1>2, <1>8, <1>9, <1>10 DEF ZInv

(* read_raw_data goes on, or its device fails.                             *)
LEMMA ReadRawDataStep == ASSUME ZInv, ReadRawData PROVE ZInv'
<1>1. /\ zIndex' = zIndex /\ idx_start' = idx_start /\ idx_cache' = idx_cache /\ zcall' = zcall
      /\ zbuf' = zbuf /\ zStep' = zStep /\ zStep \in {"index", "data"} /\ raw.size > 0
  BY DEF ReadRawData
<1>2. PICK ok \in BOOLEAN : RawPart(ok) /\ zClean' = IF ok THEN zClean ELSE FALSE
  BY DEF ReadRawData
<1>3. ZImageInv' /\ ZEnd' = ZEnd /\ ZEnd \in Nat
  <2>1. ZImageInv' BY <1>1 DEF ZInv, ZImageInv
  <2>2. ZEnd' = ZEnd BY <1>1 DEF ZEnd, ZSectors, Offset
  <2>3. ZEnd \in Nat BY ZEndOf DEF ZInv
  <2> QED BY <2>1, <2>2, <2>3
<1> DEFINE l == ZLimit'
<1>4. l \in Nat /\ l <= ZEnd /\ l <= ZLimit /\ (ok \/ l = 0) /\ ZLimit \in Nat
  <2>1. CASE ok
    <3>1. zClean' = zClean BY <2>1, <1>2
    <3>2. l = ZLimit BY <3>1, <1>3 DEF ZLimit
    <3> QED BY <2>1, <3>2, <1>3 DEF ZLimit
  <2>2. CASE ~ok
    <3>1. zClean' = FALSE BY <2>2, <1>2
    <3>2. l = 0 BY <3>1 DEF ZLimit
    <3>3. ZLimit \in Nat BY <1>3 DEF ZLimit
    <3> HIDE DEF l
    <3> QED BY <3>2, <3>3, <1>3
  <2> QED BY <2>1, <2>2
<1> HIDE DEF l
<1>5. ASSUME NEW o \in Nat, NEW z \in Nat, RawFor(o, z)
      PROVE  ZCacheInv' /\ RawFor(o, z)'
  <2>1. ZImageInv /\ ZCacheInv BY DEF ZInv
  <2>2. /\ sector_cache' \in Seq(ZThings)
        /\ \/ cur_sector' = ZJunk /\ sector_cache' = << >>
           \/ /\ cur_sector' \in Nat /\ Len(sector_cache') = ZSize(ZCache)
              /\ Holds(sector_cache', ZSize(cur_sector'), l)
        /\ raw' \in [size : Nat, lba : Nat, pos : 0 .. ZSector - 1, got : Seq(ZThings), cached : BOOLEAN]
        /\ Len(raw'.got) + raw'.size = z /\ Holds(raw'.got, o, l)
        /\ raw'.size > 0 => ZSize(raw'.lba) + raw'.pos = o + Len(raw'.got)
    BY <2>1, <1>1, <1>2, <1>4, <1>5, ZRawPart
  <2>3. ZCacheInv' BY <2>2 DEF ZCacheInv, Holds, Is, ZSize, l
  <2>4. RawFor(o, z)' BY <2>2 DEF RawFor, Holds, Is, ZSize, l
  <2> QED BY <2>3, <2>4
<1>6. ZIndexInv'
  <2>1. ZIndexInv BY DEF ZInv
  <2>2. CASE idx_start = -1 /\ idx_cache = << >> BY <2>1, <2>2, <1>1 DEF ZIndexInv
  <2>3. CASE idx_start \in Nat /\ Len(idx_cache) = ZEntries /\ Holds(idx_cache, ZHeader + idx_start, ZLimit)
    <3>1. ZHeader + idx_start \in Int /\ Len(idx_cache) \in Nat BY <2>3, ZNumbers
    <3>2. Holds(idx_cache, ZHeader + idx_start, l) BY <2>3, <3>1, <1>4, HoldsOn
    <3> QED BY <2>1, <2>3, <3>2, <1>1 DEF ZIndexInv, Holds, Is, l
  <2> QED BY <2>1, <2>2, <2>3 DEF ZIndexInv
<1>7. /\ zcall.lsn \in Nat /\ zcall.count \in Nat /\ zcall.lsn + zcall.count <= ZBlocks
  BY DEF ZInv, ZCallInv
<1>8. ZCacheInv' /\ ZRawInv'
  <2>1. CASE zStep = "index"
    <3>1. RawFor(zcall.lsn + ZHeader, ZEntries)
      <4>1. raw # NoRaw BY <1>1 DEF NoRaw
      <4> QED BY <2>1, <4>1 DEF ZInv, ZRawInv
    <3>2. zcall.lsn + ZHeader \in Nat /\ ZEntries \in Nat BY <1>7, ZNumbers
    <3>3. ZCacheInv' BY <3>1, <3>2, <1>5
    <3> DEFINE o == zcall.lsn + ZHeader
    <3>4. o' = o BY <1>1
    <3>5. RawFor(zcall.lsn + ZHeader, ZEntries)'
      <4>1. PICK x \in Nat : x = o BY <3>2
      <4>2. RawFor(x, ZEntries)' BY <4>1, <3>1, <3>2, <1>5
      <4>3. x = (zcall.lsn + ZHeader)' BY <4>1, <3>4
      <4> QED BY <4>2, <4>3 DEF RawFor, Holds, Is
    <3> QED BY <2>1, <3>3, <3>5, <1>1 DEF ZRawInv
  <2>2. CASE zStep = "data"
    <3> DEFINE o == Offset(zcall.lsn)
               z == Offset(zcall.lsn + zcall.count) - Offset(zcall.lsn)
    <3>1. RawFor(o, z) BY <2>2 DEF ZInv, ZRawInv
    <3>2. o \in Nat /\ z \in Nat
      <4>1. zcall.lsn \in 0 .. ZBlocks /\ zcall.lsn + zcall.count \in 0 .. ZBlocks
            /\ zcall.lsn <= zcall.lsn + zcall.count
        BY <1>7, ZNumbers
      <4>2. Offset(zcall.lsn) \in Nat /\ Offset(zcall.lsn + zcall.count) \in Nat
            /\ Offset(zcall.lsn) <= Offset(zcall.lsn + zcall.count)
        BY <4>1, ZSpan DEF ZInv
      <4> QED BY <4>2
    <3>3. o' = o /\ z' = z BY <1>1 DEF Offset
    <3>4. PICK x \in Nat, y \in Nat : x = o /\ y = z BY <3>2
    <3>5. ZCacheInv' /\ RawFor(x, y)' BY <3>1, <3>2, <3>4, <1>5
    <3>6. x = o' /\ y = z' BY <3>3, <3>4
    <3>7. RawFor(Offset(zcall.lsn), Offset(zcall.lsn + zcall.count) - Offset(zcall.lsn))'
      BY <3>5, <3>6 DEF RawFor, Holds, Is
    <3> QED BY <2>2, <3>5, <3>7, <1>1 DEF ZRawInv
  <2> QED BY <2>1, <2>2, <1>1
<1>9. ZCallInv'
  <2>1. ZCallInv BY DEF ZInv
  <2> QED BY <2>1, <1>1 DEF ZCallInv, Offset, ZSize, Cached, Entry
<1>10. ZBufInv'
  <2>1. ZBufInv BY DEF ZInv
  <2> QED BY <2>1, <1>1 DEF ZBufInv, ZSize
<1> QED BY <1>3, <1>6, <1>8, <1>9, <1>10 DEF ZInv

(* The index is there: it covers the read.                                 *)
LEMMA ZIndexCovers ==
    ASSUME ZInv, IndexReady
    PROVE  /\ idx_start' \in Nat /\ idx_cache' \in Seq(ZThings) /\ Len(idx_cache') = ZEntries
           /\ Holds(idx_cache', ZHeader + idx_start', ZLimit)
           /\ \A b \in zcall.lsn .. zcall.lsn + zcall.count :
                /\ b \in 0 .. ZBlocks /\ Offset(b) # ZJunk
                /\ Cached(idx_cache', idx_start', b) \in {Offset(b), ZJunk}
                /\ zClean => Cached(idx_cache', idx_start', b) = Offset(b)
<1> DEFINE st == idx_start'
           ca == idx_cache'
<1>1. /\ zStep = "index" /\ raw.size = 0 /\ st = (IF raw = NoRaw THEN idx_start ELSE zcall.lsn)
      /\ ca = IF raw = NoRaw THEN idx_cache ELSE raw.got
  BY DEF IndexReady
<1>2. /\ zcall.lsn \in Nat /\ zcall.count \in Nat /\ zcall.count <= ZEntries - 1
      /\ zcall.lsn + zcall.count <= ZBlocks
  <2>1. /\ zcall.lsn \in Nat /\ zcall.count \in Nat /\ zcall.asked \in Nat
        /\ zcall.lsn + zcall.count <= ZBlocks /\ zcall.count <= zcall.asked /\ zcall.asked <= ZCount
    BY DEF ZInv, ZCallInv
  <2> QED BY <2>1, ZNumbers
<1>3. /\ st \in Nat /\ ca \in Seq(ZThings) /\ Len(ca) = ZEntries /\ Holds(ca, ZHeader + st, ZLimit)
      /\ st <= zcall.lsn /\ zcall.lsn + zcall.count < st + ZEntries
  <2>1. CASE raw = NoRaw
    <3>1. st = idx_start /\ ca = idx_cache BY <2>1, <1>1
    <3>2. ~IndexMisses(zcall.lsn, zcall.count)
      <4>1. SUFFICES ASSUME RawFor(zcall.lsn + ZHeader, ZEntries) PROVE FALSE
        BY <1>1 DEF ZInv, ZRawInv
      <4>2. Len(raw.got) + raw.size = ZEntries BY <4>1 DEF RawFor
      <4>3. raw.got = << >> /\ raw.size = 0 /\ Len(<< >>) = 0 BY <2>1 DEF NoRaw
      <4> QED BY <4>2, <4>3, ZNumbers
    <3>3. ~(idx_start < 0) /\ ~(zcall.lsn < idx_start) /\ ~(zcall.lsn + zcall.count >= idx_start + ZEntries - 1)
      BY <3>2 DEF IndexMisses
    <3>4. idx_start # -1 BY <3>3
    <3>5. /\ idx_start \in Nat /\ idx_cache \in Seq(ZThings) /\ Len(idx_cache) = ZEntries
          /\ Holds(idx_cache, ZHeader + idx_start, ZLimit)
      BY <3>4 DEF ZInv, ZIndexInv
    <3>6. idx_start <= zcall.lsn /\ zcall.lsn + zcall.count < idx_start + ZEntries
      <4>1. idx_start \in Nat /\ ZEntries \in Nat BY <3>5, ZNumbers
      <4> QED BY <4>1, <3>3, <1>2
    <3> QED BY <3>1, <3>5, <3>6
  <2>2. CASE raw # NoRaw
    <3>1. st = zcall.lsn /\ ca = raw.got BY <2>2, <1>1
    <3>2. RawFor(zcall.lsn + ZHeader, ZEntries) BY <2>2, <1>1 DEF ZInv, ZRawInv
    <3>3. /\ raw.got \in Seq(ZThings) /\ Len(raw.got) + raw.size = ZEntries
          /\ Holds(raw.got, zcall.lsn + ZHeader, ZLimit)
      BY <3>2 DEF RawFor
    <3>4. Len(raw.got) = ZEntries
      <4>1. Len(raw.got) \in Nat BY <3>3
      <4> QED BY <4>1, <3>3, <1>1, ZNumbers
    <3>5. zcall.lsn + ZHeader = ZHeader + zcall.lsn BY <1>2, ZNumbers
    <3>6. zcall.lsn + zcall.count < zcall.lsn + ZEntries BY <1>2, ZNumbers
    <3>7. zcall.lsn <= zcall.lsn BY <1>2
    <3> QED BY <3>1, <3>3, <3>4, <3>5, <3>6, <3>7, <1>2
  <2> QED BY <2>1, <2>2
<1> HIDE DEF st, ca
<1>4. ASSUME NEW b \in zcall.lsn .. zcall.lsn + zcall.count
      PROVE  /\ b \in 0 .. ZBlocks /\ Offset(b) # ZJunk /\ Cached(ca, st, b) \in {Offset(b), ZJunk}
             /\ zClean => Cached(ca, st, b) = Offset(b)
  <2>1. b \in 0 .. ZBlocks /\ st <= b /\ b < st + ZEntries
    <3>1. st \in Nat /\ st <= zcall.lsn /\ zcall.lsn + zcall.count < st + ZEntries BY <1>3
    <3> QED BY <3>1, <1>2, ZNumbers
  <2> QED BY <2>1, <1>3, ZCached DEF ZInv
<1> QED BY <1>3, <1>4 DEF st, ca

(* The index is there: the data is read, or an entry was not read.         *)
LEMMA IndexReadyStep == ASSUME ZInv, IndexReady PROVE ZInv'
<1>1. /\ zIndex' = zIndex /\ zClean' = zClean /\ cur_sector' = cur_sector /\ sector_cache' = sector_cache
      /\ zbuf' = zbuf /\ zStep = "index"
  BY DEF IndexReady
<1>2. /\ idx_start' \in Nat /\ idx_cache' \in Seq(ZThings) /\ Len(idx_cache') = ZEntries
      /\ Holds(idx_cache', ZHeader + idx_start', ZLimit)
  BY ZIndexCovers
<1>3. \A b \in zcall.lsn .. zcall.lsn + zcall.count :
        /\ b \in 0 .. ZBlocks /\ Offset(b) # ZJunk
        /\ Cached(idx_cache', idx_start', b) \in {Offset(b), ZJunk}
        /\ zClean => Cached(idx_cache', idx_start', b) = Offset(b)
  BY ZIndexCovers
<1>4. ZImageInv' /\ ZCacheInv' /\ ZLimit' = ZLimit BY <1>1, ZFrame DEF ZInv
<1>5. ZIndexInv' BY <1>2, <1>4 DEF ZIndexInv, Holds, Is
<1>6. /\ zcall \in [lsn : Nat, count : Nat, asked : Nat, block : Nat, c_buff : Nat]
      /\ zcall.count <= zcall.asked /\ zcall.asked <= ZCount /\ zcall.block = 0 /\ zcall.c_buff = 0
      /\ zcall.lsn + zcall.count <= ZBlocks /\ zcall.count > 0
  BY <1>1 DEF ZInv, ZCallInv
<1>7. zcall.lsn \in Nat /\ zcall.count \in Nat /\ ZSize(zcall.count) \in Nat
  <2>1. zcall.lsn \in Nat /\ zcall.count \in Nat BY <1>6
  <2> QED BY <2>1, ZSizeOfSum
<1>b. /\ DOMAIN zbuf = 1 .. ZSize(zcall.count) /\ zbuf = [i \in 1 .. ZSize(zcall.count) |-> zbuf[i]]
  BY DEF ZInv, ZBufInv
<1> DEFINE Q == \E b \in zcall.lsn .. zcall.lsn + zcall.count : Cached(idx_cache', idx_start', b) = ZJunk
<1>8. CASE Q
  <2>1. zStep' = "undefined" /\ raw' = raw /\ zcall' = zcall BY <1>8 DEF IndexReady
  <2>2. ~zClean
    <3>1. PICK b \in zcall.lsn .. zcall.lsn + zcall.count : Cached(idx_cache', idx_start', b) = ZJunk
      BY <1>8
    <3> QED BY <3>1, <1>3
  <2>3. ZCallInv'
    <3>1. ZCallInv BY DEF ZInv
    <3> QED BY <2>1, <3>1 DEF ZCallInv, ZSize
  <2>4. ZRawInv' BY <2>1 DEF ZRawInv
  <2>5. ZBufInv' BY <2>1, <2>2, <1>1, <1>b DEF ZBufInv, ZSize
  <2> QED BY <2>3, <2>4, <2>5, <1>4, <1>5 DEF ZInv
<1>9. CASE ~Q
  <2> DEFINE e == zcall.lsn + zcall.count
             o == Offset(zcall.lsn)
             z == Offset(e) - Offset(zcall.lsn)
  <2>1. \A b \in zcall.lsn .. e : Cached(idx_cache', idx_start', b) = Offset(b) BY <1>3, <1>9
  <2>2. /\ zcall.lsn \in zcall.lsn .. e /\ e \in zcall.lsn .. e /\ zcall.lsn <= e
        /\ e - zcall.lsn = zcall.count
    BY <1>7
  <2>3. Cached(idx_cache', idx_start', zcall.lsn) = o /\ Cached(idx_cache', idx_start', e) = Offset(e)
    BY <2>1, <2>2
  <2>4. /\ Offset(zcall.lsn) \in Nat /\ Offset(e) \in Nat /\ Offset(zcall.lsn) <= Offset(e)
        /\ Offset(e) - Offset(zcall.lsn) <= ZSize(zcall.count)
    <3>1. zcall.lsn \in 0 .. ZBlocks /\ e \in 0 .. ZBlocks BY <1>3, <2>2
    <3>2. /\ Offset(zcall.lsn) \in Nat /\ Offset(e) \in Nat /\ Offset(zcall.lsn) <= Offset(e)
          /\ Offset(e) - Offset(zcall.lsn) <= ZSize(e - zcall.lsn)
      <4> HIDE DEF e
      <4> QED BY <3>1, <2>2, ZSpan DEF ZInv
    <3> QED BY <3>2, <2>2
  <2>5. o \in Nat /\ z \in Nat /\ z <= ZSize(zcall.count) BY <2>4
  <2>6. /\ raw' = RawRead(z, o, TRUE) /\ zStep' = "data"
        /\ zcall' = [zcall EXCEPT !.c_buff = @ + ZSize(zcall.count) - z]
    <3>1. LET u == Cached(idx_cache', idx_start', zcall.lsn)
              v == Cached(idx_cache', idx_start', e)
          IN /\ raw' = RawRead(v - u, u, TRUE) /\ zStep' = "data"
             /\ zcall' = [zcall EXCEPT !.c_buff = @ + zcall.count * ZSector - (v - u)]
      BY <1>9 DEF IndexReady
    <3> QED BY <3>1, <2>3 DEF ZSize
  <2>7. PICK x \in Nat, y \in Nat : x = o /\ y = z BY <2>5
  <2>8. o' = o BY <2>6, <1>1 DEF Offset
  <2>9. /\ zcall'.lsn = zcall.lsn /\ zcall'.count = zcall.count /\ zcall'.asked = zcall.asked
        /\ zcall'.block = 0 /\ zcall'.c_buff = ZSize(zcall.count) - z
        /\ zcall' \in [lsn : Nat, count : Nat, asked : Nat, block : Nat, c_buff : Nat]
    <3>1. 0 + ZSize(zcall.count) - z = ZSize(zcall.count) - z /\ ZSize(zcall.count) - z \in Nat
      <4> HIDE DEF z
      <4> QED BY <2>5, <1>7
    <3> HIDE DEF z
    <3> QED BY <3>1, <2>6, <1>6
  <2>10. ZCallInv'
    <3>1. \A b \in zcall.lsn .. e : Cached(idx_cache, idx_start, b)' = Offset(b)'
      BY <2>1, <1>1 DEF Cached, Entry, Offset
    <3>2. (zcall.c_buff + Offset(zcall.lsn + zcall.count) - Offset(zcall.lsn + zcall.block))'
             = ZSize(zcall.count)
      <4>1. Offset(zcall.lsn + zcall.count)' = Offset(e) BY <2>9, <1>1 DEF Offset
      <4>2. Offset(zcall.lsn + zcall.block)' = Offset(zcall.lsn)
        <5>1. zcall.lsn + 0 = zcall.lsn BY <1>7
        <5> QED BY <5>1, <2>9, <1>1 DEF Offset
      <4>3. (ZSize(zcall.count) - z) + Offset(e) - Offset(zcall.lsn) = ZSize(zcall.count)
        BY <2>4, <1>7
      <4> QED BY <4>1, <4>2, <4>3, <2>9
    <3>3. ZSize(zcall.count)' = ZSize(zcall.count) BY <2>9 DEF ZSize
    <3>4. zcall'.c_buff <= ZSize(zcall.count)
      <4> HIDE DEF z
      <4> QED BY <2>5, <2>9, <1>7
    <3>5. zcall'.block <= zcall'.count BY <2>9, <1>7
    <3> HIDE DEF z
    <3> QED BY <2>6, <2>9, <3>1, <3>2, <3>3, <3>4, <3>5, <1>6 DEF ZCallInv
  <2>11. ZRawInv'
    <3>1. RawFor(x, y)' BY <2>6, <2>7, ZRawBegins
    <3>2. x = Offset(zcall.lsn)' /\ y = (Offset(zcall.lsn + zcall.count) - Offset(zcall.lsn))'
      BY <2>7, <2>9, <1>1 DEF Offset
    <3>3. RawFor(Offset(zcall.lsn), Offset(zcall.lsn + zcall.count) - Offset(zcall.lsn))'
      BY <3>1, <3>2 DEF RawFor, Holds, Is
    <3> QED BY <2>6, <3>3 DEF ZRawInv
  <2>12. ZBufInv'
    <3>1. ZSize(zcall.count)' = ZSize(zcall.count) BY <2>9 DEF ZSize
    <3> QED BY <2>6, <3>1, <1>1, <1>b DEF ZBufInv
  <2> QED BY <2>10, <2>11, <2>12, <1>4, <1>5 DEF ZInv
<1> QED BY <1>8, <1>9

(* What the call has to hold, in the numbers the steps use.                *)
LEMMA ZCallIs ==
    ASSUME ZInv
    PROVE  /\ zcall \in [lsn : Nat, count : Nat, asked : Nat, block : Nat, c_buff : Nat]
           /\ zcall.lsn \in Nat /\ zcall.count \in Nat /\ zcall.block \in Nat /\ zcall.c_buff \in Nat
           /\ ZSize(zcall.count) \in Nat /\ zcall.lsn + zcall.count <= ZBlocks
           /\ \A b \in zcall.lsn .. zcall.lsn + zcall.count : b \in 0 .. ZBlocks /\ Offset(b) \in Nat
<1>1. /\ zcall \in [lsn : Nat, count : Nat, asked : Nat, block : Nat, c_buff : Nat]
      /\ zcall.lsn + zcall.count <= ZBlocks
  BY DEF ZInv, ZCallInv
<1>2. zcall.lsn \in Nat /\ zcall.count \in Nat /\ zcall.block \in Nat /\ zcall.c_buff \in Nat
  BY <1>1
<1>3. ZSize(zcall.count) \in Nat BY <1>2, ZSizeOfSum
<1>4. ASSUME NEW b \in zcall.lsn .. zcall.lsn + zcall.count PROVE b \in 0 .. ZBlocks /\ Offset(b) \in Nat
  <2>1. b \in 0 .. ZBlocks BY <1>1, <1>2, ZNumbers
  <2> QED BY <2>1, ZEndOf DEF ZInv
<1> QED BY <1>1, <1>2, <1>3, <1>4

(* The compressed blocks are at the end of the buffer.                     *)
LEMMA DataReadyStep == ASSUME ZInv, DataReady PROVE ZInv'
<1>1. /\ zIndex' = zIndex /\ zClean' = zClean /\ cur_sector' = cur_sector /\ sector_cache' = sector_cache
      /\ idx_start' = idx_start /\ idx_cache' = idx_cache /\ zcall' = zcall
      /\ zStep = "data" /\ zStep' = "unpack" /\ raw.size = 0
  BY DEF DataReady
<1>2. ZImageInv' /\ ZCacheInv' /\ ZIndexInv' BY <1>1, ZFrame DEF ZInv
<1>3. /\ zcall.lsn \in Nat /\ zcall.count \in Nat /\ zcall.block = 0 /\ zcall.c_buff \in Nat
      /\ ZSize(zcall.count) \in Nat /\ zcall.lsn + zcall.count <= ZBlocks
  <2>1. zcall.block = 0 BY <1>1 DEF ZInv, ZCallInv
  <2> QED BY <2>1, ZCallIs
<1>4. ZCallInv'
  <2>1. ZCallInv BY DEF ZInv
  <2> QED BY <2>1, <1>1 DEF ZCallInv, Offset, ZSize, Cached, Entry
<1>5. ZRawInv' BY <1>1 DEF ZRawInv
<1> DEFINE e == zcall.lsn + zcall.count
           c == zcall.c_buff
           o == Offset(zcall.lsn)
           n == ZSize(zcall.count)
<1>6. /\ o \in Nat /\ Offset(e) \in Nat /\ o <= Offset(e) /\ c + Offset(e) - o = n /\ c \in Nat /\ n \in Nat
  <2>1. zcall.lsn \in 0 .. ZBlocks /\ e \in 0 .. ZBlocks /\ zcall.lsn <= e BY <1>3, ZNumbers
  <2>2. o \in Nat /\ Offset(e) \in Nat /\ o <= Offset(e)
    <3> HIDE DEF e
    <3> QED BY <2>1, ZSpan DEF ZInv
  <2>3. c + Offset(e) - Offset(zcall.lsn + zcall.block) = n BY <1>1 DEF ZInv, ZCallInv
  <2>4. zcall.lsn + zcall.block = zcall.lsn BY <1>3
  <2> QED BY <2>2, <2>3, <2>4, <1>3
<1>7. Len(raw.got) = Offset(e) - o /\ Holds(raw.got, o, ZLimit)
  <2>1. RawFor(o, Offset(e) - o) BY <1>1 DEF ZInv, ZRawInv
  <2>2. /\ raw.got \in Seq(ZThings) /\ Len(raw.got) + raw.size = Offset(e) - o
        /\ Holds(raw.got, o, ZLimit)
    BY <2>1 DEF RawFor
  <2>3. Len(raw.got) \in Nat BY <2>2
  <2> HIDE DEF e, o
  <2> QED BY <2>2, <2>3, <1>1, <1>6
<1>8. /\ DOMAIN zbuf = 1 .. n
      /\ zbuf' = [i \in 1 .. n |-> IF i > c THEN raw.got[i - c] ELSE zbuf[i]]
  BY DEF ZInv, ZBufInv, DataReady
<1>9. ASSUME zClean, NEW i \in 1 .. n, i > c PROVE zbuf'[i] = Unit(o + (i - c) - 1)
  <2> HIDE DEF c, n, o, e
  <2>1. zbuf'[i] = raw.got[i - c] BY <1>8, <1>9
  <2>2. i - c \in 1 .. Len(raw.got) BY <1>6, <1>7, <1>9
  <2>3. Is(raw.got[i - c], o + (i - c) - 1, ZLimit) BY <2>2, <1>7 DEF Holds
  <2>4. Offset(e) <= ZEnd /\ ZEnd \in Nat
    <3>1. e \in 0 .. ZBlocks BY <1>3, ZNumbers DEF e
    <3> QED BY <3>1, ZEndOf DEF ZInv
  <2>5. ~(o + (i - c) - 1 >= ZLimit)
    <3>1. ZLimit = ZEnd BY <1>9 DEF ZLimit
    <3> QED BY <3>1, <2>4, <1>6, <1>9
  <2> QED BY <2>1, <2>3, <2>5 DEF Is
<1>10. ZBufInv'
  <2>1. ZSize(zcall.count)' = n BY <1>1 DEF ZSize
  <2>2. DOMAIN zbuf' = 1 .. n /\ zbuf' = [i \in 1 .. n |-> zbuf'[i]]
    <3> HIDE DEF n, c
    <3> QED BY <1>8
  <2>3. Blocks(zcall.block)'
    <3>1. ZSize(0) = 0 BY <1>3, ZSizeOfSum
    <3>2. ZSize(zcall.block)' = 0 BY <3>1, <1>1, <1>3 DEF ZSize
    <3>3. \A i \in 1 .. 0 : zbuf'[i] = <<"block", zcall'.lsn + (i - 1) \div ZSector>> OBVIOUS
    <3> QED BY <3>2, <3>3 DEF Blocks
  <2>4. zClean => \A i \in 1 .. n : i > c => zbuf'[i] = Unit(o + (i - c) - 1) BY <1>9
  <2>5. Offset(zcall.lsn + zcall.block)' = o
    <3>1. zcall.lsn + zcall.block = zcall.lsn BY <1>3
    <3> QED BY <3>1, <1>1 DEF Offset
  <2>6. zcall'.c_buff = c BY <1>1
  <2> HIDE DEF n, o, c
  <2>7. zClean => \A i \in 1 .. n : i > zcall'.c_buff
                    => zbuf'[i] = Unit(Offset(zcall.lsn + zcall.block)' + (i - zcall'.c_buff) - 1)
    BY <2>4, <2>5, <2>6
  <2> QED BY <2>1, <2>2, <2>3, <2>7, <1>1 DEF ZBufInv, Unit
<1> QED BY <1>2, <1>4, <1>5, <1>10 DEF ZInv

(* One block is unpacked: to where no compressed data is still needed.     *)
LEMMA UnpackStep == ASSUME ZInv, Unpack PROVE ZInv'
<1> DEFINE b == zcall.lsn + zcall.block
           e == zcall.lsn + zcall.count
           s == Offset(b + 1) - Offset(b)
           c == zcall.c_buff
           n == ZSize(zcall.count)
           a == ZSize(zcall.block)
           src == SubSeq(zbuf, c + 1, c + s)
<1>1. /\ zIndex' = zIndex /\ zClean' = zClean /\ cur_sector' = cur_sector /\ sector_cache' = sector_cache
      /\ idx_start' = idx_start /\ idx_cache' = idx_cache /\ raw' = raw
      /\ zStep = "unpack" /\ zStep' = "unpack" /\ zcall.block < zcall.count
  BY DEF Unpack
<1>2. ZImageInv' /\ ZCacheInv' /\ ZIndexInv' BY <1>1, ZFrame DEF ZInv
<1>3. /\ zcall \in [lsn : Nat, count : Nat, asked : Nat, block : Nat, c_buff : Nat]
      /\ zcall.lsn \in Nat /\ zcall.count \in Nat /\ zcall.block \in Nat /\ c \in Nat /\ n \in Nat
      /\ zcall.lsn + zcall.count <= ZBlocks /\ a \in Nat
  <2>1. zcall.block \in Nat BY ZCallIs
  <2>2. a \in Nat BY <2>1, ZSizeOfSum
  <2> QED BY <2>2, ZCallIs
<1>4. /\ b \in zcall.lsn .. e /\ b + 1 \in zcall.lsn .. e /\ e \in zcall.lsn .. e /\ b + 1 <= e
      /\ b \in 0 .. ZBlocks - 1 /\ b + 1 \in 0 .. ZBlocks /\ e \in 0 .. ZBlocks
      /\ zcall.block + 1 \in Nat /\ e - (b + 1) \in Nat
      /\ (zcall.block + 1) + (e - (b + 1)) = zcall.count /\ zcall.lsn + (zcall.block + 1) = b + 1
  BY <1>1, <1>3, ZNumbers
<1>5. /\ Offset(b) \in Nat /\ Offset(b + 1) \in Nat /\ Offset(e) \in Nat /\ Offset(b + 1) <= Offset(e)
      /\ Offset(e) - Offset(b + 1) <= ZSize(e - (b + 1)) /\ s \in 1 .. ZSector
  <2> HIDE DEF b, e
  <2>1. /\ Offset(b + 1) \in Nat /\ Offset(e) \in Nat /\ Offset(b + 1) <= Offset(e)
        /\ Offset(e) - Offset(b + 1) <= ZSize(e - (b + 1))
    BY <1>4, ZSpan DEF ZInv
  <2>2. s \in 1 .. ZSector BY <1>4, ZEndOf DEF ZInv
  <2>3. b \in 0 .. ZBlocks BY <1>4, ZNumbers
  <2>4. Offset(b) \in Nat BY <2>3, ZEndOf DEF ZInv
  <2> QED BY <2>1, <2>2, <2>4
<1>6. /\ c + Offset(e) - Offset(b) = n
      /\ Cached(idx_cache, idx_start, b) = Offset(b) /\ Cached(idx_cache, idx_start, b + 1) = Offset(b + 1)
  <2>1. /\ zcall.c_buff + Offset(zcall.lsn + zcall.count) - Offset(zcall.lsn + zcall.block)
             = ZSize(zcall.count)
        /\ \A d \in zcall.lsn .. zcall.lsn + zcall.count : Cached(idx_cache, idx_start, d) = Offset(d)
    BY <1>1 DEF ZInv, ZCallInv
  <2> QED BY <2>1, <1>4
<1>7. ZSize(zcall.block + 1) = a + ZSector /\ ZSize(e - (b + 1)) \in Nat
      /\ n = ZSize(zcall.block + 1) + ZSize(e - (b + 1))
  <2>1. 1 \in Nat OBVIOUS
  <2>2. ZSize(zcall.block + 1) = a + ZSize(1) /\ ZSize(1) = ZSector BY <2>1, <1>3, ZSizeOfSum
  <2>3. ZSize((zcall.block + 1) + (e - (b + 1))) = ZSize(zcall.block + 1) + ZSize(e - (b + 1))
        /\ ZSize(e - (b + 1)) \in Nat
    BY <1>4, ZSizeOfSum
  <2> QED BY <2>2, <2>3, <1>4
<1>8. /\ zbuf' = [i \in DOMAIN zbuf |-> IF i \in a + 1 .. a + ZSector THEN Unpacked(src, b) ELSE zbuf[i]]
      /\ zcall' = [zcall EXCEPT !.block = @ + 1, !.c_buff = @ + s]
  <2>1. LET d == Cached(idx_cache, idx_start, b + 1) - Cached(idx_cache, idx_start, b)
        IN /\ zbuf' = [i \in DOMAIN zbuf |->
                         IF i \in zcall.block * ZSector + 1 .. zcall.block * ZSector + ZSector
                         THEN Unpacked(SubSeq(zbuf, zcall.c_buff + 1, zcall.c_buff + d), b) ELSE zbuf[i]]
           /\ zcall' = [zcall EXCEPT !.block = @ + 1, !.c_buff = @ + d]
    BY DEF Unpack
  <2> QED BY <2>1, <1>6 DEF ZSize
<1>9. /\ zcall'.lsn = zcall.lsn /\ zcall'.count = zcall.count /\ zcall'.asked = zcall.asked
      /\ zcall'.block = zcall.block + 1 /\ zcall'.c_buff = c + s
      /\ zcall' \in [lsn : Nat, count : Nat, asked : Nat, block : Nat, c_buff : Nat]
  <2>1. c + s \in Nat
    <3> HIDE DEF s, c
    <3> QED BY <1>3, <1>5, ZNumbers
  <2> HIDE DEF s
  <2> QED BY <2>1, <1>3, <1>4, <1>8
<1>10. /\ (c + s) + Offset(e) - Offset(b + 1) = n /\ c + s <= n /\ ZSize(zcall.block + 1) <= c + s
       /\ s = Offset(b + 1) - Offset(b)
  <2> DEFINE x == Offset(b)
             y == Offset(b + 1)
             z == Offset(e)
             w == ZSize(e - (b + 1))
             v == ZSize(zcall.block + 1)
  <2>1. /\ x \in Nat /\ y \in Nat /\ z \in Nat /\ w \in Nat /\ y <= z /\ z - y <= w /\ c \in Nat /\ n \in Nat
        /\ c + z - x = n /\ n = v + w /\ v \in Nat
    <3>1. v \in Nat BY <1>4, ZSizeOfSum
    <3> QED BY <3>1, <1>3, <1>5, <1>6, <1>7
  <2> HIDE DEF x, y, z, w, v, c, n
  <2>2. (c + (y - x)) + z - y = n /\ c + (y - x) <= n /\ v <= c + (y - x) BY <2>1
  <2> QED BY <2>2 DEF x, y, z, v
<1>11. ZCallInv'
  <2>1. ZCallInv BY DEF ZInv
  <2>2. zcall.block + 1 <= zcall.count BY <1>1, <1>3
  <2>3. ZSize(zcall.count)' = n BY <1>9 DEF ZSize
  <2>4. Offset(zcall.lsn + zcall.count)' = Offset(e) /\ Offset(zcall.lsn + zcall.block)' = Offset(b + 1)
    BY <1>1, <1>4, <1>9 DEF Offset
  <2>5. (zcall.c_buff + Offset(zcall.lsn + zcall.count) - Offset(zcall.lsn + zcall.block))' = n
    <3> HIDE DEF b, e, s, c, n
    <3> QED BY <2>4, <1>9, <1>10
  <2>6. \A d \in zcall.lsn .. e : Cached(idx_cache, idx_start, d)' = Offset(d)'
    <3>1. \A d \in zcall.lsn .. e : Cached(idx_cache, idx_start, d) = Offset(d)
      BY <2>1, <1>1 DEF ZCallInv
    <3> QED BY <3>1, <1>1 DEF Cached, Entry, Offset
  <2>7. /\ zcall'.count <= zcall'.asked /\ zcall'.asked <= ZCount /\ zcall'.block <= zcall'.count
        /\ zcall'.lsn + zcall'.count <= ZBlocks /\ zcall'.c_buff <= n
    BY <2>1, <2>2, <1>9, <1>10 DEF ZCallInv
  <2>8. \A d \in zcall'.lsn .. zcall'.lsn + zcall'.count : Cached(idx_cache, idx_start, d)' = Offset(d)'
    BY <2>6, <1>9
  <2> HIDE DEF n, c, s, b, e
  <2> QED BY <2>3, <2>5, <2>7, <2>8, <1>1, <1>9 DEF ZCallInv
<1>12. ZRawInv' BY <1>1 DEF ZRawInv
<1>13. ZBufInv'
  <2>1. DOMAIN zbuf = 1 .. n /\ ZSize(zcall.count)' = n BY <1>9 DEF ZInv, ZBufInv, ZSize
  <2>2. DOMAIN zbuf' = 1 .. n /\ zbuf' = [i \in 1 .. n |-> zbuf'[i]]
    <3> HIDE DEF n, src, a, b
    <3> QED BY <2>1, <1>8
  <2>3. ASSUME zClean
        PROVE  /\ Blocks(zcall.block)'
               /\ \A i \in 1 .. n : i > c + s => zbuf'[i] = Unit(Offset(b + 1) + (i - (c + s)) - 1)
    <3>1. /\ \A i \in 1 .. a : zbuf[i] = <<"block", zcall.lsn + (i - 1) \div ZSector>>
          /\ \A i \in 1 .. n : i > c => zbuf[i] = Unit(Offset(b) + (i - c) - 1)
      BY <2>3, <1>1 DEF ZInv, ZBufInv, Blocks
    <3>2. src = [i \in 1 .. s |-> Unit(Offset(b) + i - 1)]
      <4> DEFINE A == {zbuf[i] : i \in 1 .. n}
      <4>1. \A i \in c + 1 .. c + s : zbuf[i] \in A
        <5> HIDE DEF c, s, n
        <5>1. \A i \in c + 1 .. c + s : i \in 1 .. n BY <1>3, <1>5, <1>10, ZNumbers
        <5> QED BY <5>1
      <4>2. s \in Nat /\ s >= 1 /\ c + 1 \in Int /\ c + s \in Int
        <5> HIDE DEF s, c
        <5> QED BY <1>3, <1>5, ZNumbers
      <4> HIDE DEF A, s, c, src, n, b
      <4>3. /\ src \in Seq(A) /\ Len(src) = (IF c + 1 <= c + s THEN (c + s) - (c + 1) + 1 ELSE 0)
            /\ \A i \in 1 .. (c + s) - (c + 1) + 1 : src[i] = zbuf[(c + 1) + i - 1]
        BY <4>1, <4>2, SubSeqProperties DEF src
      <4>4. Len(src) = s /\ \A i \in 1 .. s : src[i] = zbuf[c + i]
        <5>1. c + 1 <= c + s /\ (c + s) - (c + 1) + 1 = s BY <4>2, <1>3
        <5>2. ASSUME NEW i \in 1 .. s PROVE src[i] = zbuf[c + i]
          <6>1. i \in 1 .. (c + s) - (c + 1) + 1 /\ (c + 1) + i - 1 = c + i BY <5>1, <4>2, <1>3
          <6> QED BY <6>1, <4>3
        <5> QED BY <5>1, <5>2, <4>3
      <4>5. ASSUME NEW i \in 1 .. s PROVE src[i] = Unit(Offset(b) + i - 1)
        <5>1. c + i \in 1 .. n /\ c + i > c /\ (c + i) - c = i BY <4>2, <1>3, <1>10
        <5>2. zbuf[c + i] = Unit(Offset(b) + ((c + i) - c) - 1) BY <5>1, <3>1
        <5> QED BY <5>1, <5>2, <4>4
      <4>6. src = [i \in 1 .. s |-> src[i]] BY <4>3, <4>4
      <4> QED BY <4>5, <4>6
    <3>3. Unpacked(src, b) = <<"block", b>> BY <3>2 DEF Unpacked
    <3>4. ASSUME NEW i \in 1 .. a + ZSector
          PROVE  zbuf'[i] = <<"block", zcall.lsn + (i - 1) \div ZSector>>
      <4>1. i \in 1 .. n
        <5> HIDE DEF a, n
        <5> QED BY <1>3, <1>7, ZNumbers
      <4>2. CASE i <= a
        <5>1. i \notin a + 1 .. a + ZSector /\ i \in 1 .. a
          <6> HIDE DEF a
          <6> QED BY <4>2, <1>3, ZNumbers
        <5>2. zbuf'[i] = zbuf[i]
          <6> HIDE DEF src, a, n, b
          <6> QED BY <4>1, <5>1, <2>1, <1>8
        <5> QED BY <5>1, <5>2, <3>1
      <4>3. CASE i > a
        <5>1. i \in a + 1 .. a + ZSector /\ i - 1 - a \in 0 .. ZSector - 1 /\ i - 1 = a + (i - 1 - a)
          <6> HIDE DEF a
          <6> QED BY <4>3, <1>3, ZNumbers
        <5>2. zbuf'[i] = Unpacked(src, b)
          <6> HIDE DEF src, a, n, b
          <6> QED BY <4>1, <5>1, <2>1, <1>8
        <5>3. (i - 1) \div ZSector = zcall.block
          <6> DEFINE r == i - 1 - a
          <6>1. a = zcall.block * ZSector BY DEF ZSize
          <6>2. r \in 0 .. ZSector - 1 /\ zcall.block \in Nat /\ ZSector \in Nat \ {0}
            BY <5>1, <1>3, ZNumbers
          <6> HIDE DEF r
          <6>3. (zcall.block * ZSector + r) \div ZSector = zcall.block BY <6>2, DivIs
          <6>4. i - 1 = zcall.block * ZSector + r BY <5>1, <6>1 DEF r
          <6> QED BY <6>3, <6>4
        <5> QED BY <5>2, <5>3, <3>3
      <4> HIDE DEF a
      <4> QED BY <4>2, <4>3, <1>3
    <3>5. Blocks(zcall.block)'
      <4>1. ZSize(zcall.block)' = a + ZSector BY <1>7, <1>9 DEF ZSize
      <4> HIDE DEF a
      <4> QED BY <3>4, <4>1, <1>9 DEF Blocks
    <3>6. ASSUME NEW i \in 1 .. n, i > c + s
          PROVE  zbuf'[i] = Unit(Offset(b + 1) + (i - (c + s)) - 1)
      <4> DEFINE x == Offset(b)
                 y == Offset(b + 1)
      <4>1. /\ x \in Nat /\ y \in Nat /\ s = y - x /\ s >= 1 /\ c \in Nat /\ n \in Nat /\ a \in Nat
            /\ a + ZSector <= c + s /\ ZSector \in Nat
        <5>1. a + ZSector <= c + s BY <1>7, <1>10
        <5>2. s >= 1
          <6> HIDE DEF s
          <6> QED BY <1>5, ZNumbers
        <5> QED BY <5>1, <5>2, <1>3, <1>5, ZNumbers
      <4> HIDE DEF x, y, s, c, n, a, src
      <4>2. i > c /\ i \notin a + 1 .. a + ZSector /\ x + (i - c) - 1 = y + (i - (c + s)) - 1
        BY <3>6, <4>1
      <4>3. zbuf'[i] = zbuf[i]
        <5> HIDE DEF b
        <5> QED BY <4>2, <2>1, <1>8
      <4>4. zbuf[i] = Unit(x + (i - c) - 1) BY <4>2, <3>1 DEF x
      <4>5. zbuf'[i] = Unit(y + (i - (c + s)) - 1) BY <4>2, <4>3, <4>4
      <4> QED BY <4>5 DEF y
    <3> QED BY <3>5, <3>6
  <2>4. Offset(zcall.lsn + zcall.block)' = Offset(b + 1) BY <1>1, <1>4, <1>9 DEF Offset
  <2>5. zcall'.c_buff = c + s BY <1>9
  <2> HIDE DEF n, c, s, b, a, e
  <2>6. zClean => \A i \in 1 .. n : i > zcall'.c_buff
                    => zbuf'[i] = Unit(Offset(zcall.lsn + zcall.block)' + (i - zcall'.c_buff) - 1)
    BY <2>3, <2>4, <2>5
  <2>7. zClean => Blocks(zcall.block)' BY <2>3
  <2> QED BY <2>1, <2>2, <2>6, <2>7, <1>1 DEF ZBufInv, Unit
<1> QED BY <1>2, <1>11, <1>12, <1>13 DEF ZInv

(* The steps that change no more than where the call stands.               *)
LEMMA ZOtherSteps == ASSUME ZInv, ZReturn \/ ZIdle \/ UNCHANGED zVars PROVE ZInv'
<1>1. /\ zIndex' = zIndex /\ zClean' = zClean /\ cur_sector' = cur_sector /\ sector_cache' = sector_cache
      /\ idx_start' = idx_start /\ idx_cache' = idx_cache /\ zcall' = zcall /\ raw' = raw /\ zbuf' = zbuf
  BY DEF ZReturn, ZIdle, zVars
<1>2. ZImageInv' /\ ZCacheInv' /\ ZIndexInv' /\ ZLimit' = ZLimit BY <1>1, ZFrame DEF ZInv
<1>3. ZCallInv /\ ZRawInv /\ ZBufInv BY DEF ZInv
<1>4. zcall \in [lsn : Nat, count : Nat, asked : Nat, block : Nat, c_buff : Nat]
  BY <1>3 DEF ZCallInv
<1>5. CASE ZReturn
  <2>1. zStep = "unpack" /\ zStep' = "done" /\ zcall.block = zcall.count BY <1>5 DEF ZReturn
  <2>2. ZCallInv' BY <2>1, <1>1, <1>3 DEF ZCallInv, ZSize
  <2>3. ZRawInv' BY <2>1 DEF ZRawInv
  <2>4. ZBufInv' BY <2>1, <1>1, <1>3 DEF ZBufInv, Blocks, ZSize
  <2> QED BY <2>2, <2>3, <2>4, <1>2 DEF ZInv
<1>6. CASE ZIdle
  <2>1. zStep = "done" /\ zStep' = "idle" BY <1>6 DEF ZIdle
  <2>2. ZCallInv' BY <2>1, <1>1, <1>3 DEF ZCallInv, ZSize
  <2>3. ZRawInv' BY <2>1 DEF ZRawInv
  <2>4. ZBufInv' BY <2>1, <1>1, <1>3 DEF ZBufInv, ZSize
  <2> QED BY <2>2, <2>3, <2>4, <1>2 DEF ZInv
<1>7. CASE UNCHANGED zVars
  <2>1. zStep' = zStep BY <1>7 DEF zVars
  <2>2. ZCallInv' BY <2>1, <1>1, <1>3 DEF ZCallInv, ZSize, Offset, Cached, Entry
  <2>3. ZRawInv'
    BY <2>1, <1>1, <1>2, <1>3 DEF ZRawInv, RawFor, Holds, Is, ZSize, Offset,
       IndexMisses, NoRaw, Unit, ZGarbage
  <2>4. ZBufInv' BY <2>1, <1>1, <1>3 DEF ZBufInv, Blocks, ZSize, Offset, Unit
  <2> QED BY <2>2, <2>3, <2>4, <1>2 DEF ZInv
<1> QED BY <1>5, <1>6, <1>7

(* What the invariant says to the caller.                                  *)
LEMMA ZPromise == ASSUME ZInv PROVE ZsoReadsRight
<1>1. ZCacheInv /\ ZIndexInv /\ ZCallInv /\ ZBufInv BY DEF ZInv
<1>2. << >> \in Seq(ZThings) /\ Len(<< >>) = 0 OBVIOUS
<1>3. Len(sector_cache) \in {0, ZCache * ZSector}
  <2>1. Len(sector_cache) = 0 \/ Len(sector_cache) = ZSize(ZCache) BY <1>1, <1>2 DEF ZCacheInv
  <2> QED BY <2>1 DEF ZSize
<1>4. Len(idx_cache) \in {0, ZEntries} BY <1>1, <1>2 DEF ZIndexInv
<1>5. zcall.count \in 0 .. zcall.asked /\ zcall.c_buff \in 0 .. zcall.count * ZSector
  <2>1. zcall \in [lsn : Nat, count : Nat, asked : Nat, block : Nat, c_buff : Nat]
    BY <1>1 DEF ZCallInv
  <2>2. /\ zcall.count \in Nat /\ zcall.asked \in Nat /\ zcall.c_buff \in Nat
        /\ zcall.count <= zcall.asked /\ zcall.c_buff <= ZSize(zcall.count)
    BY <2>1, <1>1 DEF ZCallInv
  <2>3. ZSize(zcall.count) \in Nat BY <2>2, ZSizeOfSum
  <2>4. zcall.c_buff \in 0 .. ZSize(zcall.count) BY <2>2, <2>3
  <2>5. zcall.count \in 0 .. zcall.asked BY <2>2
  <2> QED BY <2>4, <2>5 DEF ZSize
<1>6. ZTypeOK BY <1>1, <1>3, <1>4, <1>5 DEF ZTypeOK, ZCallInv
<1>7. ASSUME zClean, zStep = "done"
      PROVE  zbuf = [i \in 1 .. zcall.count * ZSector |-> <<"block", zcall.lsn + (i - 1) \div ZSector>>]
  <2>1. zbuf = [i \in 1 .. ZSize(zcall.count) |-> zbuf[i]] BY <1>1 DEF ZBufInv
  <2>2. \A i \in 1 .. ZSize(zcall.count) : zbuf[i] = <<"block", zcall.lsn + (i - 1) \div ZSector>>
    BY <1>1, <1>7 DEF ZBufInv, Blocks
  <2>3. zbuf = [i \in 1 .. ZSize(zcall.count) |-> <<"block", zcall.lsn + (i - 1) \div ZSector>>]
    BY <2>1, <2>2, Zenon
  <2> QED BY <2>3 DEF ZSize
<1>8. zClean => zStep # "undefined" BY <1>1 DEF ZBufInv
<1> QED BY <1>6, <1>7, <1>8 DEF ZsoReadsRight

(* As long as the device has not failed, a read of a compressed image gives *)
(* the blocks that were asked for, whatever the image, the length of the   *)
(* read, the caches and their sizes; failing or not, all stays inside the  *)
(* caller's buffer.                                                        *)
THEOREM ZsoReads == ZSpec => []ZsoReadsRight
<1>1. ZInit => ZInv BY ZStart
<1>2. ZInv /\ [ZNext]_zVars => ZInv'
  <2> SUFFICES ASSUME ZInv, [ZNext]_zVars PROVE ZInv'
    OBVIOUS
  <2>1. CASE ZRead BY <2>1, ZReadStep
  <2>2. CASE ReadRawData BY <2>2, ReadRawDataStep
  <2>3. CASE IndexReady BY <2>3, IndexReadyStep
  <2>4. CASE DataReady BY <2>4, DataReadyStep
  <2>5. CASE Unpack BY <2>5, UnpackStep
  <2>6. CASE ZReturn \/ ZIdle \/ UNCHANGED zVars BY <2>6, ZOtherSteps
  <2> QED BY <2>1, <2>2, <2>3, <2>4, <2>5, <2>6 DEF ZNext
<1>3. ZInv => ZsoReadsRight BY ZPromise
<1> QED BY <1>1, <1>2, <1>3, PTL DEF ZSpec
=============================================================================
