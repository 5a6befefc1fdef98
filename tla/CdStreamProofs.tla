--------------------------- MODULE CdStreamProofs ---------------------------
(***************************************************************************)
(* Proofs about the emulated drive (CdStream) for every size of the ring   *)
(* and any number of calls: its lock, the end of a stream, and what the    *)
(* ring holds.  They rest on three inductive invariants.                   *)
(*                                                                         *)
(* DriveInv, for the lock and the end of a stream:                         *)
(*   DriveTypes  what the locks, alarms and program counters may be;       *)
(*   LockInv     without a misplaced command the drive is busy while a     *)
(*               read is requested, under way or about to be reported by   *)
(*               the alarm of the game's callback, and there is only one;  *)
(*   WaitEnds    is inductive as it stands;                                *)
(*   StopInv     between CancelAlarm and the reset of sceCdStStop no alarm *)
(*               can be set, and after the reset only the read that was    *)
(*               under way is left, until sceCdSync has returned.          *)
(* FillInv, for a stream that is never forgotten: while StIsReading is set *)
(* a read is on its way, and a thread that gives up has found a full ring. *)
(* RingInv, for what the ring holds: there is one read of the stream at a  *)
(* time, its bank is free and the one at StWritePtr, and the sectors       *)
(* between StReadPtr and StWritePtr are the stream from next on.           *)
(***************************************************************************)
EXTENDS CdStream, TLAPS

DriveTypes ==
    /\ sync_flag \in BOOLEAN /\ rthread_sema \in BOOLEAN
    /\ Stm0Callback \in BOOLEAN /\ user_cb \in BOOLEAN
    /\ DOMAIN st = {"WritePtr", "ReadPtr", "Streamed", "IsReading", "Stat", "lsn"}
    /\ st.IsReading \in BOOLEAN /\ st.Stat \in BOOLEAN
    /\ DOMAIN pc = Ids

(* A read is requested or under way.                                       *)
Busy == rthread_sema \/ pc["rd"] = "reading"

LockInv ==
    "stale" \notin seen =>
        /\ Busy => sync_flag
        /\ ~(rthread_sema /\ pc["rd"] = "reading")
        /\ "event" \in alarms => sync_flag /\ ~Busy

(* A read into the ring is requested or under way.                         *)
Filling == \/ rthread_sema /\ request.by = "st"
           \/ pc["rd"] = "reading" /\ reading.by = "st"

StopInv ==
    /\ pc["cl"] = "halt" =>
           /\ "stm" \notin alarms
           /\ pc["rd"] \in {"signalstm", "callback", "fill", "start"} => ~sync_flag
           /\ pc["rd"] \notin {"failed", "resched"}
    /\ ~st.Stat =>
           /\ ~Stm0Callback /\ ~st.IsReading /\ "stm" \notin alarms
           /\ pc["rd"] \in {"wait", "reading", "signal"}
           /\ pc["cl"] \in {"idle", "begin", "sync", "waitef"}
           /\ (pc["cl"] \in {"idle", "begin"} /\ "stale" \notin seen) => ~Filling

DriveInv == DriveTypes /\ LockInv /\ WaitEnds /\ StopInv

----------------------------------------------------------------------------
(* The invariant holds when the module has been loaded and sceCdStInit has *)
(* set up the ring.                                                        *)
THEOREM DriveInit == Init => DriveInv
<1> SUFFICES ASSUME Init PROVE DriveInv
  OBVIOUS
<1>1. DriveTypes
  BY DEF Init, DriveTypes
<1>2. pc["rd"] = "wait" /\ pc["cl"] = "idle"
  BY DEF Init, Ids
<1>3. LockInv /\ WaitEnds
  BY <1>2 DEF Init, LockInv, Busy, WaitEnds
<1>4. StopInv
  BY <1>2 DEF Init, StopInv, Filling
<1> QED
  BY <1>1, <1>3, <1>4 DEF DriveInv

----------------------------------------------------------------------------
(* The threads of the drive: the reading thread and the alarms.            *)
LEMMA ReaderKeepsInv == DriveInv /\ (Reader \/ Alarm) => DriveInv'
<1> SUFFICES ASSUME DriveInv, Reader \/ Alarm PROVE DriveInv'
  OBVIOUS
<1> USE DEF DriveInv, DriveTypes, LockInv, Busy, WaitEnds, StopInv, Filling,
            Goto, Ids, drive, hist
<1>1. CASE ReadBegin
  BY <1>1 DEF ReadBegin
<1>2. CASE ReadSignal
  BY <1>2 DEF ReadSignal
<1>3. CASE StmCallback
  BY <1>3 DEF StmCallback
<1>4. ASSUME NEW ok \in BOOLEAN, ReadEnd(ok) PROVE DriveInv'
  <2>1. CASE Stm0Callback \/ ~user_cb
    <3>1. sync_flag' = FALSE /\ UNCHANGED alarms
      BY <1>4, <2>1 DEF ReadEnd
    <3>2. pc' = [pc EXCEPT !["rd"] = IF Stm0Callback THEN "signalstm" ELSE "signal"]
      BY <1>4, <2>1 DEF ReadEnd
    <3> QED
      BY <1>4, <3>1, <3>2 DEF ReadEnd
  <2>2. CASE ~(Stm0Callback \/ ~user_cb)
    <3>1. alarms' = alarms \cup {"event"} /\ UNCHANGED sync_flag
      BY <1>4, <2>2 DEF ReadEnd
    <3>2. pc' = [pc EXCEPT !["rd"] = "wait"]
      BY <1>4, <2>2 DEF ReadEnd
    <3> QED
      BY <1>4, <3>1, <3>2 DEF ReadEnd
  <2> QED
    BY <2>1, <2>2
<1>5. CASE FillCheck("rd")
  BY <1>5 DEF FillCheck, Return
<1>6. CASE FillStart("rd")
  <2>1. CASE sync_flag
    BY <1>6, <2>1 DEF FillStart, AsyncRead, Return
  <2>2. CASE ~sync_flag
    BY <1>6, <2>2 DEF FillStart, AsyncRead, Return
  <2> QED
    BY <2>1, <2>2
<1>7. CASE FillUndo("rd")
  BY <1>7 DEF FillUndo, Return
<1>8. CASE FillResched("rd")
  BY <1>8 DEF FillResched, Return
<1>9. CASE StmScheduleCb
  <2>1. CASE UNCHANGED <<drive, st>>
    BY <1>9, <2>1 DEF StmScheduleCb
  <2>2. CASE ~UNCHANGED <<drive, st>>
    BY <1>9, <2>2 DEF StmScheduleCb, AsyncRead
  <2> QED
    BY <2>1, <2>2
<1>10. CASE event_alarm_cb
  BY <1>10 DEF event_alarm_cb
<1> QED
  BY <1>1, <1>2, <1>3, <1>4, <1>5, <1>6, <1>7, <1>8, <1>9, <1>10
     DEF Reader, Alarm, Fill

----------------------------------------------------------------------------
(* The streaming calls, once they have begun.                              *)
LEMMA ClientStepKeepsInv == DriveInv /\ ClientStep => DriveInv'
<1> SUFFICES ASSUME DriveInv, ClientStep PROVE DriveInv'
  OBVIOUS
<1> USE DEF DriveInv, DriveTypes, LockInv, Busy, WaitEnds, StopInv, Filling,
            Goto, Ids, drive, hist, Quiet
<1>1. CASE HaltCancel
  BY <1>1 DEF HaltCancel
<1>2. CASE HaltReset
  BY <1>2 DEF HaltReset, StReset
<1>3. CASE StartBegin
  BY <1>3 DEF StartBegin, StReset
<1>4. CASE ReadWait
  BY <1>4 DEF ReadWait
<1>5. CASE ReadSectors
  BY <1>5 DEF ReadSectors, Take
<1>6. CASE ReadSectorsEE
  BY <1>6 DEF ReadSectorsEE
<1>7. CASE TransferDone
  BY <1>7 DEF TransferDone, Take
<1>8. CASE Quiet /\ FillCheck("cl")
  BY <1>8 DEF FillCheck, Return
<1>9. CASE Quiet /\ FillStart("cl")
  <2>1. CASE sync_flag
    BY <1>9, <2>1 DEF FillStart, AsyncRead, Return
  <2>2. CASE ~sync_flag
    BY <1>9, <2>2 DEF FillStart, AsyncRead, Return
  <2> QED
    BY <2>1, <2>2
<1>10. CASE Quiet /\ FillUndo("cl")
  BY <1>10 DEF FillUndo, Return
<1>11. CASE Quiet /\ FillResched("cl")
  BY <1>11 DEF FillResched, Return
<1>12. CASE SyncTest("cl", AfterSync)
  BY <1>12 DEF SyncTest, AfterSync
<1>13. CASE SyncWake("cl")
  BY <1>13 DEF SyncWake
<1> QED
  BY <1>1, <1>2, <1>3, <1>4, <1>5, <1>6, <1>7, <1>8, <1>9, <1>10, <1>11, <1>12,
     <1>13
     DEF ClientStep, Fill

----------------------------------------------------------------------------
(* The streaming calls begin.                                              *)
LEMMA ClientKeepsInv == DriveInv /\ Client => DriveInv'
<1> SUFFICES ASSUME DriveInv, Client PROVE DriveInv'
  OBVIOUS
<1> USE DEF DriveInv, DriveTypes, LockInv, Busy, WaitEnds, StopInv, Filling,
            Goto, Ids, drive, hist, Quiet
<1>1. CASE sceCdStStop
  BY <1>1 DEF sceCdStStop, Halt, Enter
<1>2. CASE sceCdStPause
  BY <1>2 DEF sceCdStPause, Halt, Enter
<1>3. CASE sceCdStResume
  BY <1>3 DEF sceCdStResume, Enter
<1>4. ASSUME NEW l \in Lsns, sceCdStStart(l) PROVE DriveInv'
  BY <1>4 DEF sceCdStStart, Enter
<1>5. ASSUME NEW l \in Lsns, sceCdStSeek(l) PROVE DriveInv'
  BY <1>5 DEF sceCdStSeek, sceCdStStart, Enter
<1>6. ASSUME NEW n \in Sizes, NEW to \in {"ee", "iop"}, sceCdStRead(n, to) PROVE DriveInv'
  BY <1>6 DEF sceCdStRead, Enter
<1> QED
  BY <1>1, <1>2, <1>3, <1>4, <1>5, <1>6
     DEF Client

----------------------------------------------------------------------------
(* The game's own use of the drive.                                        *)
LEMMA GameKeepsInv == DriveInv /\ (GameStep \/ Game) => DriveInv'
<1> SUFFICES ASSUME DriveInv, (GameStep \/ Game) PROVE DriveInv'
  OBVIOUS
<1> USE DEF DriveInv, DriveTypes, LockInv, Busy, WaitEnds, StopInv, Filling,
            Goto, Ids, drive, hist, Quiet
<1>1. CASE CommandEvent
  <2>1. CASE user_cb
    BY <1>1, <2>1 DEF CommandEvent
  <2>2. CASE ~user_cb
    <3>1. sync_flag' = FALSE /\ UNCHANGED alarms
      BY <1>1, <2>2 DEF CommandEvent
    <3>2. sync_flag => "stale" \in seen'
      BY <1>1 DEF CommandEvent
    <3>3. pc' = [pc EXCEPT !["gm"] = "signal"] /\ seen \subseteq seen'
      BY <1>1, <2>2 DEF CommandEvent
    <3> QED
      BY <1>1, <3>1, <3>2, <3>3 DEF CommandEvent
  <2> QED
    BY <2>1, <2>2
<1>2. CASE CommandSignal
  BY <1>2 DEF CommandSignal
<1>3. CASE SyncTest("gm", "idle")
  BY <1>3 DEF SyncTest
<1>4. CASE SyncWake("gm")
  BY <1>4 DEF SyncWake
<1>5. CASE sceCdRead
  BY <1>5 DEF sceCdRead, Play, AsyncRead
<1>6. ASSUME NEW b \in BOOLEAN, sceCdCallback(b) PROVE DriveInv'
  BY <1>6 DEF sceCdCallback, Play
<1>7. ASSUME NEW b \in BOOLEAN, Command(b) PROVE DriveInv'
  BY <1>7 DEF Command, Play
<1> QED
  BY <1>1, <1>2, <1>3, <1>4, <1>5, <1>6, <1>7
     DEF GameStep, Game

----------------------------------------------------------------------------
(* Every step of every thread and alarm keeps the invariant.               *)
THEOREM DriveInvariance == Spec => []DriveInv
<1>1. DriveInv /\ [Next]_vars => DriveInv'
  <2> SUFFICES ASSUME DriveInv, [Next]_vars PROVE DriveInv'
    OBVIOUS
  <2>1. CASE Next
    BY <2>1, ReaderKeepsInv, ClientStepKeepsInv, ClientKeepsInv, GameKeepsInv
       DEF Next
  <2>2. CASE UNCHANGED vars
    BY <2>2 DEF vars, drive, hist, DriveInv, DriveTypes, LockInv, Busy, WaitEnds,
                StopInv, Filling
  <2> QED
    BY <2>1, <2>2
<1> QED
  BY <1>1, DriveInit, PTL DEF Spec

(* However streams, reads, callbacks and commands interleave, sceCdSync    *)
(* reports the drive ready only when no read is requested or under way,    *)
(* unless the game issues a command while another thread reads or with a   *)
(* callback registered.                                                    *)
THEOREM DriveIsLocked == Spec => []ReadyMeansReadUndisturbed
<1>1. DriveInv => ReadyMeansReadUndisturbed
  BY DEF DriveInv, LockInv, Busy, ReadyMeansReadUndisturbed, ReadyMeansRead
<1> QED
  BY <1>1, DriveInvariance, PTL

(* A thread that sleeps in sceCdSync always has something that will set    *)
(* the bit of the event flag it sleeps on: no wake-up is lost.             *)
THEOREM SyncIsWoken == Spec => []WaitEnds
<1>1. DriveInv => WaitEnds
  BY DEF DriveInv
<1> QED
  BY <1>1, DriveInvariance, PTL

(* When sceCdStStop has returned nothing writes into the ring, whatever    *)
(* read, alarm or command was under way when it was called.                *)
THEOREM StopIsFinal == Spec => []StoppedIsQuiet
<1>1. DriveInv => StoppedIsQuiet
  BY DEF DriveInv, StopInv, Filling, StoppedIsQuiet
<1> QED
  BY <1>1, DriveInvariance, PTL

----------------------------------------------------------------------------
(* The stream is filled.                                                   *)

(* While StIsReading is set a read of the stream is about to be asked for, *)
(* requested, under way or about to be counted, or the flag is about to be *)
(* taken back.                                                             *)
ReadIsComing ==
    \/ rthread_sema /\ request.by = "st"
    \/ pc["rd"] \in {"reading", "signalstm", "callback"} /\ reading.by = "st"
    \/ pc["rd"] \in {"start", "failed", "full"}
    \/ pc["cl"] \in {"start", "failed", "full"}

FillInv ==
    /\ pc["rd"] = "signal" => ~Stm0Callback
    /\ pc["rd"] = "signalstm" => Stm0Callback
    /\ pc["cl"] \in {"sync", "waitef", "begin"} => ~Stm0Callback
    /\ "full" \in {pc["rd"], pc["cl"]} => ~Room
    /\ st.IsReading /\ seen \cap {"unheard", "stale"} = {} => ReadIsComing
    /\ StreamIsFilledUndisturbed

----------------------------------------------------------------------------
(* The ring.                                                               *)

(* Where banks begin, and where a sector is that may lie behind the end.   *)
Banks == {k * StBanksize : k \in 0 .. bankmax - 1}
Pos(a) == IF a >= StBufmax THEN a - StBufmax ELSE a

RingTypes ==
    /\ st \in [WritePtr : Banks, ReadPtr : 0 .. StBufmax - 1, Streamed : Int,
               IsReading : BOOLEAN, Stat : BOOLEAN, lsn : Nat]
    /\ next \in Nat
    /\ ring \in [0 .. StBufmax - 1 -> Int]
    /\ bank \in [{"rd", "cl"} -> Banks]
    /\ request \in [by : {"none", "st", "gm"}, lsn : Nat, ptr : Banks]
    /\ reading \in [by : {"none", "st", "gm"}, lsn : Nat, ptr : Banks]
    /\ call \in [op : {"none", "start", "stop", "pause", "read"}, lsn : Nat, left : Nat,
                 to : {"ee", "iop"}, ptr : 0 .. StBufmax - 1, n : Nat]

(* A call that waits for the drive has silenced the stream, and ended it   *)
(* unless it is a pause.                                                   *)
SyncIsQuiet ==
    /\ pc["cl"] \in {"sync", "waitef"} =>
           /\ ~Stm0Callback /\ pc["rd"] \in {"wait", "reading", "signal"}
           /\ st.Stat => call.op = "pause"
    /\ pc["cl"] = "begin" => ~st.Stat

(* The four ways in which a read of the stream may be on its way.          *)
Requested == rthread_sema /\ request.by = "st"
UnderWay == pc["rd"] \in {"reading", "signalstm", "callback"} /\ reading.by = "st"
AtFill(p) == pc[p] \in {"start", "failed", "full"}

(* There is one at a time, and StIsReading tells of it, unless a pause is  *)
(* waiting for it.                                                         *)
OneRead ==
    /\ ~(Requested /\ UnderWay) /\ ~(Requested /\ AtFill("rd")) /\ ~(UnderWay /\ AtFill("rd"))
    /\ ~((Requested \/ UnderWay \/ AtFill("rd")) /\ AtFill("cl"))
    /\ Requested \/ UnderWay \/ AtFill("rd") \/ AtFill("cl") =>
           st.IsReading \/ pc["cl"] \in {"sync", "waitef"}

(* It goes to the bank at StWritePtr, which is free, and reads on from     *)
(* Stlsn; when it has ended the bank holds these sectors.                  *)
IsNext(r) == r.ptr = st.WritePtr /\ r.lsn = st.lsn
BankIsFree ==
    /\ \A p \in {"rd", "cl"} : pc[p] = "start" => bank[p] = st.WritePtr /\ Room
    /\ Requested => IsNext(request) /\ Room
    /\ UnderWay => IsNext(reading) /\ Room
    /\ UnderWay /\ pc["rd"] # "reading" =>
           \A j \in 0 .. StBanksize - 1 : ring[st.WritePtr + j] \in {st.lsn + j, Bad}

(* RingHoldsStream without the remainder, the place of StWritePtr that     *)
(* belongs to it, and the transfer to the EE that is under way.            *)
RingFits ==
    /\ st.Streamed \in 0 .. StBufmax /\ st.lsn = next + st.Streamed
    /\ st.WritePtr = Pos(st.ReadPtr + st.Streamed)
    /\ \A i \in 0 .. st.Streamed - 1 : ring[Pos(st.ReadPtr + i)] \in {next + i, Bad}
    /\ pc["cl"] = "dma" => call.n <= st.Streamed /\ call.ptr = Pos(st.ReadPtr + call.n)

Good == st.Stat /\ seen \cap {"foreign", "stale"} = {}
RingInv == RingTypes /\ SyncIsQuiet /\ (Good => OneRead /\ BankIsFree /\ RingFits)

----------------------------------------------------------------------------
(* Arithmetic of the ring.                                                 *)

(* The ring is a whole number of banks, each of at least one sector.       *)
LEMMA RingShape ==
    /\ StBanksize \in Nat /\ StBanksize >= 1 /\ StBufmax \in Nat /\ StBufmax >= StBanksize
    /\ 0 \in Banks
    /\ \A w \in Banks : /\ w \in Nat /\ w + StBanksize <= StBufmax
                        /\ w + StBanksize < StBufmax => w + StBanksize \in Banks
<1>1. bufmax \in Nat /\ bankmax \in Nat /\ bankmax >= 1 /\ bufmax >= bankmax
  BY CdStreamAssumption
<1>2. ASSUME NEW a \in Nat, NEW b \in Nat, b >= 1, a >= b PROVE a \div b \in Nat /\ a \div b >= 1
  BY <1>2, Z3
<1>3. StBanksize \in Nat /\ StBanksize >= 1
  BY <1>1, <1>2 DEF StBanksize
<1>4. StBufmax \in Nat /\ StBufmax >= StBanksize
  BY <1>1, <1>3 DEF StBufmax
<1>5. 0 \in Banks
  BY <1>1, <1>3 DEF Banks
<1>6. ASSUME NEW w \in Banks
      PROVE  /\ w \in Nat /\ w + StBanksize <= StBufmax
             /\ w + StBanksize < StBufmax => w + StBanksize \in Banks
  <2>1. PICK k \in 0 .. bankmax - 1 : w = k * StBanksize
    BY DEF Banks
  <2>2. w \in Nat /\ w + StBanksize = (k + 1) * StBanksize
    BY <1>1, <1>3, <2>1
  <2>3. w + StBanksize <= StBufmax /\ (k + 1 = bankmax => w + StBanksize = StBufmax)
    BY <1>1, <1>3, <2>1, <2>2 DEF StBufmax
  <2>4. k + 1 < bankmax => w + StBanksize \in Banks
    BY <1>1, <2>2 DEF Banks
  <2>5. k + 1 < bankmax \/ k + 1 = bankmax
    BY <1>1, <2>1
  <2>6. CASE k + 1 = bankmax
    BY <1>3, <1>4, <2>2, <2>3, <2>6
  <2> QED
    BY <2>2, <2>3, <2>4, <2>5, <2>6
<1> QED
  BY <1>3, <1>4, <1>5, <1>6

(* The remainder of RingHoldsStream.                                       *)
LEMMA PosIsRemainder ==
    ASSUME NEW a \in Nat, a < 2 * StBufmax
    PROVE  a % StBufmax = Pos(a)
<1>1. ASSUME NEW n \in Nat, n >= 1, NEW b \in Nat, b < 2 * n PROVE b % n = IF b >= n THEN b - n ELSE b
  <2>1. CASE b < n
    BY <2>1
  <2>2. CASE b >= n
    BY <1>1, <2>2
  <2> QED
    BY <2>1, <2>2
<1>2. StBufmax \in Nat /\ StBufmax >= 1
  BY RingShape
<1> QED
  BY <1>1, <1>2 DEF Pos

(* ReadSectors never copies more than it is asked for, nor leaves the      *)
(* ring.                                                                   *)
LEMMA CopyStays ==
    ASSUME st.WritePtr \in Banks, st.ReadPtr \in 0 .. StBufmax - 1, st.Streamed \in Int, NEW max \in Nat
    PROVE  Copied(max) \in 0 .. max /\ CopiedTo(max) \in 0 .. StBufmax - 1
<1> DEFINE R == st.ReadPtr
           W == st.WritePtr
           T == Tail1(max)
           H == Head2(max)
           r == Wrap(R + T)
<1>1. R \in Nat /\ R < StBufmax /\ W \in Nat /\ W < StBufmax /\ StBufmax \in Nat
  BY RingShape
<1>2. T \in Nat /\ T <= max /\ R + T <= StBufmax
  BY <1>1 DEF Tail1, Least
<1> HIDE DEF T
<1>3. r \in Nat /\ r < StBufmax
  BY <1>1, <1>2 DEF Wrap
<1>4. H = IF T < max /\ r < W THEN Least(W - r, max - T) ELSE 0
  BY DEF Head2, T
<1> HIDE DEF r, R, W
<1>5. H \in Nat /\ H <= max - T /\ r + H < StBufmax
  BY <1>1, <1>2, <1>3, <1>4 DEF Least
<1>6. Copied(max) = T + H /\ CopiedTo(max) = Wrap(r + H)
  BY DEF Copied, CopiedTo, T, r, R
<1> HIDE DEF H
<1> QED
  BY <1>1, <1>2, <1>3, <1>5, <1>6 DEF Wrap

(* And it copies what has been streamed, as far as it is asked for.        *)
LEMMA CopyFits ==
    ASSUME st.WritePtr \in Banks, st.ReadPtr \in 0 .. StBufmax - 1, NEW max \in Nat,
           st.Streamed \in 0 .. StBufmax, st.WritePtr = Pos(st.ReadPtr + st.Streamed)
    PROVE  Copied(max) <= st.Streamed /\ CopiedTo(max) = Pos(st.ReadPtr + Copied(max))
<1> DEFINE R == st.ReadPtr
           W == st.WritePtr
           S == st.Streamed
           T == Tail1(max)
           H == Head2(max)
           r == Wrap(R + T)
<1>1. /\ R \in Nat /\ R < StBufmax /\ W \in Nat /\ W < StBufmax /\ StBufmax \in Nat /\ S \in Nat /\ S <= StBufmax
      /\ W = IF R + S >= StBufmax THEN R + S - StBufmax ELSE R + S
  BY RingShape DEF Pos
<1>2. T = IF W <= R /\ S > 0 THEN (IF StBufmax - R < max THEN StBufmax - R ELSE max) ELSE 0
  BY DEF Tail1, Least
<1> HIDE DEF T
<1>3. r = IF R + T >= StBufmax THEN 0 ELSE R + T
  BY DEF Wrap
<1>4. H = IF T < max /\ r < W THEN (IF W - r < max - T THEN W - r ELSE max - T) ELSE 0
  BY DEF Head2, T, Least
<1>5. Copied(max) = T + H /\ CopiedTo(max) = IF r + H >= StBufmax THEN 0 ELSE r + H
  BY DEF Copied, CopiedTo, T, r, R, Wrap
<1> HIDE DEF r, R, W, S, H
<1>6. T + H <= S /\ (IF r + H >= StBufmax THEN 0 ELSE r + H) = IF R + (T + H) >= StBufmax THEN R + (T + H) - StBufmax ELSE R + (T + H)
  <2>1. CASE W <= R /\ S > 0
    BY <1>1, <1>2, <1>3, <1>4, <2>1
  <2>2. CASE ~(W <= R /\ S > 0)
    BY <1>1, <1>2, <1>3, <1>4, <2>2
  <2> QED
    BY <2>1, <2>2
<1>7. T \in Int /\ H \in Int
  BY <1>1, <1>2, <1>3, <1>4
<1>8. Pos(R + (T + H)) = IF R + (T + H) >= StBufmax THEN R + (T + H) - StBufmax ELSE R + (T + H)
  BY <1>1, <1>7 DEF Pos
<1>9. CopiedTo(max) = Pos(R + (T + H))
  BY <1>5, <1>6, <1>8, Zenon
<1>10. Copied(max) <= S /\ CopiedTo(max) = Pos(R + Copied(max))
  BY <1>5, <1>6, <1>9, Zenon
<1> QED
  BY <1>10 DEF R, S

(* A sector counted as streamed lies outside the bank at StWritePtr.       *)
LEMMA Apart ==
    ASSUME NEW R \in Nat, R < StBufmax, NEW S \in Nat, S + StBanksize <= StBufmax,
           Pos(R + S) + StBanksize <= StBufmax, NEW i \in 0 .. S - 1
    PROVE  Pos(R + i) \in 0 .. StBufmax - 1 /\ Pos(R + i) \notin Pos(R + S) .. Pos(R + S) + StBanksize - 1
  BY RingShape DEF Pos

(* What StmCallback adds to the ring comes behind what is there.           *)
LEMMA BankFollows ==
    ASSUME NEW R \in Nat, R < StBufmax, NEW S \in Nat, S + StBanksize <= StBufmax,
           Pos(R + S) + StBanksize <= StBufmax
    PROVE  /\ Pos(R + (S + StBanksize)) = Wrap(Pos(R + S) + StBanksize)
           /\ \A i \in S .. S + StBanksize - 1 :
                  /\ i - S \in 0 .. StBanksize - 1
                  /\ Pos(R + i) = Pos(R + S) + (i - S)
<1>1. StBufmax \in Nat /\ StBanksize \in Nat /\ StBanksize >= 1
  BY RingShape
<1>2. Pos(R + (S + StBanksize)) = Wrap(Pos(R + S) + StBanksize)
  BY <1>1 DEF Pos, Wrap
<1>3. ASSUME NEW i \in S .. S + StBanksize - 1
      PROVE  i - S \in 0 .. StBanksize - 1 /\ Pos(R + i) = Pos(R + S) + (i - S)
  <2>1. CASE R + S >= StBufmax
    BY <1>1, <2>1 DEF Pos
  <2>2. CASE R + S < StBufmax
    BY <1>1, <2>2 DEF Pos
  <2> QED
    BY <1>1, <2>1, <2>2
<1> QED
  BY <1>2, <1>3

(* What ReadSectors takes is in front of what is left.                     *)
LEMMA RestFollows ==
    ASSUME NEW R \in Nat, R < StBufmax, NEW S \in Nat, S <= StBufmax, NEW n \in Nat, n <= S
    PROVE  /\ Pos(R + n) \in 0 .. StBufmax - 1
           /\ Pos(Pos(R + n) + (S - n)) = Pos(R + S)
           /\ \A i \in 0 .. S - n - 1 : Pos(Pos(R + n) + i) = Pos(R + (n + i)) /\ n + i \in 0 .. S - 1
  BY RingShape DEF Pos

----------------------------------------------------------------------------
(* Calls that wait for the drive stay quiet.                               *)
LEMMA SyncStep ==
    ASSUME DriveInv, SyncIsQuiet, DOMAIN call = DOMAIN NoCall, [Next]_vars
    PROVE  SyncIsQuiet'
<1>0. /\ DOMAIN pc = Ids /\ Stm0Callback \in BOOLEAN /\ st.Stat \in BOOLEAN
      /\ DOMAIN st = {"WritePtr", "ReadPtr", "Streamed", "IsReading", "Stat", "lsn"}
      /\ DOMAIN call = {"op", "lsn", "left", "to", "ptr", "n"}
  BY DEF DriveInv, DriveTypes, NoCall
<1>1. ASSUME ReadBegin PROVE SyncIsQuiet'
  BY <1>0, <1>1 DEF ReadBegin, SyncIsQuiet, Goto, Ids, drive, hist, Quiet
<1>2. ASSUME ReadSignal PROVE SyncIsQuiet'
  BY <1>0, <1>2 DEF ReadSignal, SyncIsQuiet, Goto, Ids, drive, hist, Quiet
<1>3. ASSUME StmCallback PROVE SyncIsQuiet'
  BY <1>0, <1>3 DEF StmCallback, SyncIsQuiet, Goto, Ids, drive, hist, Quiet
<1>4. ASSUME NEW ok \in BOOLEAN, ReadEnd(ok) PROVE SyncIsQuiet'
  BY <1>0, <1>4 DEF ReadEnd, SyncIsQuiet, Goto, Ids, drive, hist, Quiet
<1>5. ASSUME FillCheck("rd") PROVE SyncIsQuiet'
  BY <1>0, <1>5 DEF FillCheck, Return, SyncIsQuiet, Goto, Ids, drive, hist, Quiet
<1>6. ASSUME FillStart("rd") PROVE SyncIsQuiet'
  BY <1>0, <1>6 DEF FillStart, Return, AsyncRead, SyncIsQuiet, Goto, Ids, drive,
     hist, Quiet
<1>7. ASSUME FillUndo("rd") PROVE SyncIsQuiet'
  BY <1>0, <1>7 DEF FillUndo, Return, SyncIsQuiet, Goto, Ids, drive, hist, Quiet
<1>8. ASSUME FillResched("rd") PROVE SyncIsQuiet'
  BY <1>0, <1>8 DEF FillResched, Return, SyncIsQuiet, Goto, Ids, drive, hist, Quiet
<1>9. ASSUME StmScheduleCb PROVE SyncIsQuiet'
  BY <1>0, <1>9 DEF StmScheduleCb, AsyncRead, SyncIsQuiet, Goto, Ids, drive,
     hist, Quiet
<1>10. ASSUME event_alarm_cb PROVE SyncIsQuiet'
  BY <1>0, <1>10 DEF event_alarm_cb, SyncIsQuiet, Goto, Ids, drive, hist, Quiet
<1>11. ASSUME HaltCancel PROVE SyncIsQuiet'
  BY <1>0, <1>11 DEF HaltCancel, SyncIsQuiet, Goto, Ids, drive, hist, Quiet
<1>12. ASSUME HaltReset PROVE SyncIsQuiet'
  BY <1>0, <1>12 DEF HaltReset, StReset, SyncIsQuiet, Goto, Ids, drive, hist, Quiet
<1>13. ASSUME StartBegin PROVE SyncIsQuiet'
  BY <1>0, <1>13 DEF StartBegin, StReset, SyncIsQuiet, Goto, Ids, drive, hist, Quiet
<1>14. ASSUME ReadWait PROVE SyncIsQuiet'
  BY <1>0, <1>14 DEF ReadWait, SyncIsQuiet, Goto, Ids, drive, hist, Quiet
<1>15. ASSUME ReadSectors PROVE SyncIsQuiet'
  BY <1>0, <1>15 DEF ReadSectors, Take, SyncIsQuiet, Goto, Ids, drive, hist, Quiet
<1>16. ASSUME ReadSectorsEE PROVE SyncIsQuiet'
  BY <1>0, <1>16 DEF ReadSectorsEE, SyncIsQuiet, Goto, Ids, drive, hist, Quiet
<1>17. ASSUME TransferDone PROVE SyncIsQuiet'
  BY <1>0, <1>17 DEF TransferDone, Take, SyncIsQuiet, Goto, Ids, drive, hist, Quiet
<1>18. ASSUME Quiet, FillCheck("cl") PROVE SyncIsQuiet'
  BY <1>0, <1>18 DEF FillCheck, Return, SyncIsQuiet, Goto, Ids, drive, hist, Quiet
<1>19. ASSUME Quiet, FillStart("cl") PROVE SyncIsQuiet'
  BY <1>0, <1>19 DEF FillStart, Return, AsyncRead, SyncIsQuiet, Goto, Ids,
     drive, hist, Quiet
<1>20. ASSUME Quiet, FillUndo("cl") PROVE SyncIsQuiet'
  BY <1>0, <1>20 DEF FillUndo, Return, SyncIsQuiet, Goto, Ids, drive, hist, Quiet
<1>21. ASSUME Quiet, FillResched("cl") PROVE SyncIsQuiet'
  BY <1>0, <1>21 DEF FillResched, Return, SyncIsQuiet, Goto, Ids, drive, hist, Quiet
<1>22. ASSUME Quiet, SyncTest("cl", AfterSync) PROVE SyncIsQuiet'
  BY <1>0, <1>22 DEF SyncTest, AfterSync, SyncIsQuiet, Goto, Ids, drive, hist, Quiet
<1>23. ASSUME Quiet, SyncWake("cl") PROVE SyncIsQuiet'
  BY <1>0, <1>23 DEF SyncWake, SyncIsQuiet, Goto, Ids, drive, hist, Quiet
<1>24. ASSUME NEW l \in Lsns, sceCdStStart(l) PROVE SyncIsQuiet'
  BY <1>0, <1>24 DEF sceCdStStart, Enter, NoCall, SyncIsQuiet, Goto, Ids, drive,
     hist, Quiet
<1>25. ASSUME NEW l \in Lsns, sceCdStSeek(l) PROVE SyncIsQuiet'
  BY <1>0, <1>25 DEF sceCdStSeek, sceCdStStart, Enter, NoCall, SyncIsQuiet,
     Goto, Ids, drive, hist, Quiet
<1>26. ASSUME sceCdStStop PROVE SyncIsQuiet'
  BY <1>0, <1>26 DEF sceCdStStop, Halt, Enter, NoCall, SyncIsQuiet, Goto, Ids,
     drive, hist, Quiet
<1>27. ASSUME sceCdStPause PROVE SyncIsQuiet'
  BY <1>0, <1>27 DEF sceCdStPause, Halt, Enter, NoCall, SyncIsQuiet, Goto, Ids,
     drive, hist, Quiet
<1>28. ASSUME sceCdStResume PROVE SyncIsQuiet'
  BY <1>0, <1>28 DEF sceCdStResume, Enter, NoCall, SyncIsQuiet, Goto, Ids,
     drive, hist, Quiet
<1>29. ASSUME NEW n \in Sizes, NEW to \in {"ee", "iop"}, sceCdStRead(n, to) PROVE SyncIsQuiet'
  BY <1>0, <1>29 DEF sceCdStRead, Enter, NoCall, SyncIsQuiet, Goto, Ids, drive,
     hist, Quiet
<1>30. ASSUME CommandEvent PROVE SyncIsQuiet'
  BY <1>0, <1>30 DEF CommandEvent, SyncIsQuiet, Goto, Ids, drive, hist, Quiet
<1>31. ASSUME CommandSignal PROVE SyncIsQuiet'
  BY <1>0, <1>31 DEF CommandSignal, SyncIsQuiet, Goto, Ids, drive, hist, Quiet
<1>32. ASSUME Quiet, SyncTest("gm", "idle") PROVE SyncIsQuiet'
  BY <1>0, <1>32 DEF SyncTest, SyncIsQuiet, Goto, Ids, drive, hist, Quiet
<1>33. ASSUME Quiet, SyncWake("gm") PROVE SyncIsQuiet'
  BY <1>0, <1>33 DEF SyncWake, SyncIsQuiet, Goto, Ids, drive, hist, Quiet
<1>34. ASSUME sceCdRead PROVE SyncIsQuiet'
  BY <1>0, <1>34 DEF sceCdRead, Play, AsyncRead, SyncIsQuiet, Goto, Ids, drive,
     hist, Quiet
<1>35. ASSUME NEW b \in BOOLEAN, sceCdCallback(b) PROVE SyncIsQuiet'
  BY <1>0, <1>35 DEF sceCdCallback, Play, SyncIsQuiet, Goto, Ids, drive, hist, Quiet
<1>36. ASSUME NEW b \in BOOLEAN, Command(b) PROVE SyncIsQuiet'
  BY <1>0, <1>36 DEF Command, Play, SyncIsQuiet, Goto, Ids, drive, hist, Quiet
<1>37. ASSUME UNCHANGED vars PROVE SyncIsQuiet'
  BY <1>0, <1>37 DEF vars, SyncIsQuiet, Goto, Ids, drive, hist, Quiet
<1> QED
  BY <1>1, <1>2, <1>3, <1>4, <1>5, <1>6, <1>7, <1>8, <1>9, <1>10, <1>11, <1>12,
     <1>13, <1>14, <1>15, <1>16, <1>17, <1>18, <1>19, <1>20, <1>21, <1>22,
     <1>23, <1>24, <1>25, <1>26, <1>27, <1>28, <1>29, <1>30, <1>31, <1>32,
     <1>33, <1>34, <1>35, <1>36, <1>37 DEF Next, Reader, Alarm, ClientStep,
     Client, GameStep, Game, Fill

(* A stream is not forgotten.                                              *)
LEMMA FillStep ==
    ASSUME DriveInv, RingTypes, FillInv, [Next]_vars
    PROVE  FillInv'
<1>0. /\ DOMAIN pc = Ids /\ Stm0Callback \in BOOLEAN /\ st.Stat \in BOOLEAN /\ st.IsReading \in BOOLEAN
      /\ st \in [WritePtr : Banks, ReadPtr : 0 .. StBufmax - 1, Streamed : Int, IsReading : BOOLEAN, Stat : BOOLEAN, lsn : Nat]
      /\ StBanksize \in Nat /\ StBufmax \in Nat /\ LockInv /\ StopInv
  BY RingShape DEF DriveInv, DriveTypes, RingTypes
<1>1. ASSUME ReadBegin PROVE FillInv'
  BY <1>0, <1>1 DEF ReadBegin, FillInv, LockInv, StopInv, Busy, ReadIsComing,
     StreamIsFilledUndisturbed, Room, Goto, Ids, drive, hist, Quiet
<1>2. ASSUME ReadSignal PROVE FillInv'
  BY <1>0, <1>2 DEF ReadSignal, FillInv, LockInv, StopInv, Busy, ReadIsComing,
     StreamIsFilledUndisturbed, Room, Goto, Ids, drive, hist, Quiet
<1>3. ASSUME StmCallback PROVE FillInv'
  BY <1>0, <1>3 DEF StmCallback, FillInv, LockInv, StopInv, Busy, ReadIsComing,
     StreamIsFilledUndisturbed, Room, Goto, Ids, drive, hist, Quiet
<1>4. ASSUME NEW ok \in BOOLEAN, ReadEnd(ok) PROVE FillInv'
  BY <1>0, <1>4 DEF ReadEnd, FillInv, LockInv, StopInv, Busy, ReadIsComing,
     StreamIsFilledUndisturbed, Room, Goto, Ids, drive, hist, Quiet
<1>5. ASSUME FillCheck("rd") PROVE FillInv'
  BY <1>0, <1>5 DEF FillCheck, Return, FillInv, LockInv, StopInv, Busy,
     ReadIsComing, StreamIsFilledUndisturbed, Room, Goto, Ids, drive, hist,
     Quiet
<1>6. ASSUME FillStart("rd") PROVE FillInv'
  BY <1>0, <1>6 DEF FillStart, Return, AsyncRead, FillInv, LockInv, StopInv,
     Busy, ReadIsComing, StreamIsFilledUndisturbed, Room, Goto, Ids, drive,
     hist, Quiet
<1>7. ASSUME FillUndo("rd") PROVE FillInv'
  BY <1>0, <1>7 DEF FillUndo, Return, FillInv, LockInv, StopInv, Busy,
     ReadIsComing, StreamIsFilledUndisturbed, Room, Goto, Ids, drive, hist,
     Quiet
<1>8. ASSUME FillResched("rd") PROVE FillInv'
  BY <1>0, <1>8 DEF FillResched, Return, FillInv, LockInv, StopInv, Busy,
     ReadIsComing, StreamIsFilledUndisturbed, Room, Goto, Ids, drive, hist,
     Quiet
<1>9. ASSUME StmScheduleCb PROVE FillInv'
  BY <1>0, <1>9 DEF StmScheduleCb, AsyncRead, FillInv, LockInv, StopInv, Busy,
     ReadIsComing, StreamIsFilledUndisturbed, Room, Goto, Ids, drive, hist,
     Quiet
<1>10. ASSUME event_alarm_cb PROVE FillInv'
  BY <1>0, <1>10 DEF event_alarm_cb, FillInv, LockInv, StopInv, Busy,
     ReadIsComing, StreamIsFilledUndisturbed, Room, Goto, Ids, drive, hist,
     Quiet
<1>11. ASSUME HaltCancel PROVE FillInv'
  BY <1>0, <1>11 DEF HaltCancel, FillInv, LockInv, StopInv, Busy, ReadIsComing,
     StreamIsFilledUndisturbed, Room, Goto, Ids, drive, hist, Quiet
<1>12. ASSUME HaltReset PROVE FillInv'
  BY <1>0, <1>12 DEF HaltReset, StReset, FillInv, LockInv, StopInv, Busy,
     ReadIsComing, StreamIsFilledUndisturbed, Room, Goto, Ids, drive, hist,
     Quiet
<1>13. ASSUME StartBegin PROVE FillInv'
  BY <1>0, <1>13 DEF StartBegin, StReset, FillInv, LockInv, StopInv, Busy,
     ReadIsComing, StreamIsFilledUndisturbed, Room, Goto, Ids, drive, hist,
     Quiet
<1>14. ASSUME ReadWait PROVE FillInv'
  BY <1>0, <1>14 DEF ReadWait, FillInv, LockInv, StopInv, Busy, ReadIsComing,
     StreamIsFilledUndisturbed, Room, Goto, Ids, drive, hist, Quiet
<1>15. ASSUME ReadSectors PROVE FillInv'
  BY <1>0, <1>15 DEF ReadSectors, Take, FillInv, LockInv, StopInv, Busy,
     ReadIsComing, StreamIsFilledUndisturbed, Room, Goto, Ids, drive, hist,
     Quiet
<1>16. ASSUME ReadSectorsEE PROVE FillInv'
  BY <1>0, <1>16 DEF ReadSectorsEE, FillInv, LockInv, StopInv, Busy,
     ReadIsComing, StreamIsFilledUndisturbed, Room, Goto, Ids, drive, hist,
     Quiet
<1>17. ASSUME TransferDone PROVE FillInv'
  BY <1>0, <1>17 DEF TransferDone, Take, FillInv, LockInv, StopInv, Busy,
     ReadIsComing, StreamIsFilledUndisturbed, Room, Goto, Ids, drive, hist,
     Quiet
<1>18. ASSUME Quiet, FillCheck("cl") PROVE FillInv'
  BY <1>0, <1>18 DEF FillCheck, Return, FillInv, LockInv, StopInv, Busy,
     ReadIsComing, StreamIsFilledUndisturbed, Room, Goto, Ids, drive, hist,
     Quiet
<1>19. ASSUME Quiet, FillStart("cl") PROVE FillInv'
  BY <1>0, <1>19 DEF FillStart, Return, AsyncRead, FillInv, LockInv, StopInv,
     Busy, ReadIsComing, StreamIsFilledUndisturbed, Room, Goto, Ids, drive,
     hist, Quiet
<1>20. ASSUME Quiet, FillUndo("cl") PROVE FillInv'
  BY <1>0, <1>20 DEF FillUndo, Return, FillInv, LockInv, StopInv, Busy,
     ReadIsComing, StreamIsFilledUndisturbed, Room, Goto, Ids, drive, hist,
     Quiet
<1>21. ASSUME Quiet, FillResched("cl") PROVE FillInv'
  BY <1>0, <1>21 DEF FillResched, Return, FillInv, LockInv, StopInv, Busy,
     ReadIsComing, StreamIsFilledUndisturbed, Room, Goto, Ids, drive, hist,
     Quiet
<1>22. ASSUME Quiet, SyncTest("cl", AfterSync) PROVE FillInv'
  BY <1>0, <1>22 DEF SyncTest, AfterSync, FillInv, LockInv, StopInv, Busy,
     ReadIsComing, StreamIsFilledUndisturbed, Room, Goto, Ids, drive, hist,
     Quiet
<1>23. ASSUME Quiet, SyncWake("cl") PROVE FillInv'
  BY <1>0, <1>23 DEF SyncWake, FillInv, LockInv, StopInv, Busy, ReadIsComing,
     StreamIsFilledUndisturbed, Room, Goto, Ids, drive, hist, Quiet
<1>24. ASSUME NEW l \in Lsns, sceCdStStart(l) PROVE FillInv'
  BY <1>0, <1>24 DEF sceCdStStart, Enter, NoCall, FillInv, LockInv, StopInv,
     Busy, ReadIsComing, StreamIsFilledUndisturbed, Room, Goto, Ids, drive,
     hist, Quiet
<1>25. ASSUME NEW l \in Lsns, sceCdStSeek(l) PROVE FillInv'
  BY <1>0, <1>25 DEF sceCdStSeek, sceCdStStart, Enter, NoCall, FillInv, LockInv,
     StopInv, Busy, ReadIsComing, StreamIsFilledUndisturbed, Room, Goto, Ids,
     drive, hist, Quiet
<1>26. ASSUME sceCdStStop PROVE FillInv'
  BY <1>0, <1>26 DEF sceCdStStop, Halt, Enter, NoCall, FillInv, LockInv,
     StopInv, Busy, ReadIsComing, StreamIsFilledUndisturbed, Room, Goto, Ids,
     drive, hist, Quiet
<1>27. ASSUME sceCdStPause PROVE FillInv'
  BY <1>0, <1>27 DEF sceCdStPause, Halt, Enter, NoCall, FillInv, LockInv,
     StopInv, Busy, ReadIsComing, StreamIsFilledUndisturbed, Room, Goto, Ids,
     drive, hist, Quiet
<1>28. ASSUME sceCdStResume PROVE FillInv'
  BY <1>0, <1>28 DEF sceCdStResume, Enter, NoCall, FillInv, LockInv, StopInv,
     Busy, ReadIsComing, StreamIsFilledUndisturbed, Room, Goto, Ids, drive,
     hist, Quiet
<1>29. ASSUME NEW n \in Sizes, NEW to \in {"ee", "iop"}, sceCdStRead(n, to) PROVE FillInv'
  BY <1>0, <1>29 DEF sceCdStRead, Enter, NoCall, FillInv, LockInv, StopInv,
     Busy, ReadIsComing, StreamIsFilledUndisturbed, Room, Goto, Ids, drive,
     hist, Quiet
<1>30. ASSUME CommandEvent PROVE FillInv'
  BY <1>0, <1>30 DEF CommandEvent, FillInv, LockInv, StopInv, Busy,
     ReadIsComing, StreamIsFilledUndisturbed, Room, Goto, Ids, drive, hist,
     Quiet
<1>31. ASSUME CommandSignal PROVE FillInv'
  BY <1>0, <1>31 DEF CommandSignal, FillInv, LockInv, StopInv, Busy,
     ReadIsComing, StreamIsFilledUndisturbed, Room, Goto, Ids, drive, hist,
     Quiet
<1>32. ASSUME Quiet, SyncTest("gm", "idle") PROVE FillInv'
  BY <1>0, <1>32 DEF SyncTest, FillInv, LockInv, StopInv, Busy, ReadIsComing,
     StreamIsFilledUndisturbed, Room, Goto, Ids, drive, hist, Quiet
<1>33. ASSUME Quiet, SyncWake("gm") PROVE FillInv'
  BY <1>0, <1>33 DEF SyncWake, FillInv, LockInv, StopInv, Busy, ReadIsComing,
     StreamIsFilledUndisturbed, Room, Goto, Ids, drive, hist, Quiet
<1>34. ASSUME sceCdRead PROVE FillInv'
  BY <1>0, <1>34 DEF sceCdRead, Play, AsyncRead, FillInv, LockInv, StopInv,
     Busy, ReadIsComing, StreamIsFilledUndisturbed, Room, Goto, Ids, drive,
     hist, Quiet
<1>35. ASSUME NEW b \in BOOLEAN, sceCdCallback(b) PROVE FillInv'
  BY <1>0, <1>35 DEF sceCdCallback, Play, FillInv, LockInv, StopInv, Busy,
     ReadIsComing, StreamIsFilledUndisturbed, Room, Goto, Ids, drive, hist,
     Quiet
<1>36. ASSUME NEW b \in BOOLEAN, Command(b) PROVE FillInv'
  BY <1>0, <1>36 DEF Command, Play, FillInv, LockInv, StopInv, Busy,
     ReadIsComing, StreamIsFilledUndisturbed, Room, Goto, Ids, drive, hist,
     Quiet
<1>37. ASSUME UNCHANGED vars PROVE FillInv'
  BY <1>0, <1>37 DEF vars, FillInv, LockInv, StopInv, Busy, ReadIsComing,
     StreamIsFilledUndisturbed, Room, Goto, Ids, drive, hist, Quiet
<1> QED
  BY <1>1, <1>2, <1>3, <1>4, <1>5, <1>6, <1>7, <1>8, <1>9, <1>10, <1>11, <1>12,
     <1>13, <1>14, <1>15, <1>16, <1>17, <1>18, <1>19, <1>20, <1>21, <1>22,
     <1>23, <1>24, <1>25, <1>26, <1>27, <1>28, <1>29, <1>30, <1>31, <1>32,
     <1>33, <1>34, <1>35, <1>36, <1>37 DEF Next, Reader, Alarm, ClientStep,
     Client, GameStep, Game, Fill

(* The two ways in which several fields of StreamingData change at once.   *)
LEMMA StRecords ==
    ASSUME NEW A, NEW B, NEW C, NEW D, NEW w \in A, NEW r \in B, NEW t \in C, NEW l \in D,
           NEW s \in [WritePtr : A, ReadPtr : B, Streamed : C, IsReading : BOOLEAN, Stat : BOOLEAN, lsn : D]
    PROVE  /\ [s EXCEPT !.lsn = l, !.Streamed = t, !.WritePtr = w, !.IsReading = FALSE]
                  \in [WritePtr : A, ReadPtr : B, Streamed : C, IsReading : BOOLEAN, Stat : BOOLEAN, lsn : D]
           /\ [s EXCEPT !.ReadPtr = r, !.Streamed = t]
                  \in [WritePtr : A, ReadPtr : B, Streamed : C, IsReading : BOOLEAN, Stat : BOOLEAN, lsn : D]
  OBVIOUS

(* What the ring, the requests and the calls may be.                       *)
LEMMA TypesStep ==
    ASSUME RingTypes, [Next]_vars
    PROVE  RingTypes'
<1> DEFINE STS == [WritePtr : Banks, ReadPtr : 0 .. StBufmax - 1, Streamed : Int, IsReading : BOOLEAN, Stat : BOOLEAN, lsn : Nat]
<1>0. /\ st \in STS /\ 0 \in Banks /\ 0 \in 0 .. StBufmax - 1
      /\ StBanksize \in Nat /\ StBufmax \in Nat /\ Lsns \subseteq Nat /\ Sizes \subseteq Nat
  BY RingShape, CdStreamAssumption DEF RingTypes
<1>1. ASSUME ReadBegin PROVE RingTypes'
  <2>1. ring' \in [0 .. StBufmax - 1 -> Int]
    <3>1. request.ptr \in Nat /\ request.lsn \in Nat
      BY RingShape DEF RingTypes
    <3> QED
      BY <1>1, <3>1 DEF ReadBegin, Put, Junk, Bad, RingTypes
  <2> QED
    BY <1>0, <2>1, <1>1 DEF ReadBegin, RingTypes, NoRead, Goto, drive, hist
<1>2. ASSUME ReadSignal PROVE RingTypes'
  BY <1>0, <1>2 DEF ReadSignal, RingTypes, Goto, drive, hist, NoRead, NoCall
<1>3. ASSUME StmCallback PROVE RingTypes'
  <2>1. CASE st.IsReading
    <3>1. st.WritePtr \in Nat /\ st.WritePtr + StBanksize <= StBufmax
          /\ (IF st.WritePtr + StBanksize >= StBufmax THEN 0 ELSE st.WritePtr + StBanksize) \in Banks
      BY <1>0, RingShape
    <3>2. st' \in STS
      <4>1. st.lsn + StBanksize \in Nat /\ st.Streamed + StBanksize \in Int
        BY <1>0
      <4> QED
        BY <1>0, <2>1, <3>1, <4>1, <1>3, StRecords DEF StmCallback
    <3> QED
      BY <3>2, <1>0, <1>3 DEF StmCallback, RingTypes, NoRead, drive, hist
  <2>2. CASE ~st.IsReading
    BY <2>2, <1>0, <1>3 DEF StmCallback, RingTypes, NoRead, drive, hist
  <2> QED
    BY <2>1, <2>2
<1>4. ASSUME NEW ok \in BOOLEAN, ReadEnd(ok) PROVE RingTypes'
  <2>1. ring' \in [0 .. StBufmax - 1 -> Int]
    <3>1. reading.ptr \in Nat /\ reading.lsn \in Nat
      BY RingShape DEF RingTypes
    <3> QED
      BY <1>4, <3>1 DEF ReadEnd, Put, Junk, Bad, RingTypes
  <2> QED
    BY <1>0, <2>1, <1>4 DEF ReadEnd, RingTypes, NoRead, Goto, drive, hist
<1>5. ASSUME FillCheck("rd") PROVE RingTypes'
  <2>1. [st EXCEPT !.IsReading = TRUE] \in STS
    BY <1>0
  <2>2. st' \in STS
    BY <1>0, <2>1, <1>5 DEF FillCheck
  <2>3. bank' \in [{"rd", "cl"} -> Banks]
    BY <1>0, <1>5 DEF FillCheck, RingTypes
  <2> QED
    BY <2>2, <2>3, <1>5 DEF FillCheck, RingTypes, drive, hist
<1>6. ASSUME FillStart("rd") PROVE RingTypes'
  BY <1>0, <1>6 DEF FillStart, Return, AsyncRead, RingTypes, Goto, drive, hist,
     NoRead, NoCall
<1>7. ASSUME FillUndo("rd") PROVE RingTypes'
  BY <1>0, <1>7 DEF FillUndo, Return, RingTypes, Goto, drive, hist, NoRead, NoCall
<1>8. ASSUME FillResched("rd") PROVE RingTypes'
  BY <1>0, <1>8 DEF FillResched, Return, RingTypes, Goto, drive, hist, NoRead,
     NoCall
<1>9. ASSUME StmScheduleCb PROVE RingTypes'
  <2>1. [st EXCEPT !.IsReading = TRUE] \in STS
    BY <1>0
  <2>2. st' \in STS
    BY <1>0, <2>1, <1>9 DEF StmScheduleCb
  <2>3. [by |-> "st", lsn |-> st.lsn, ptr |-> st.WritePtr] \in [by : {"none", "st", "gm"}, lsn : Nat, ptr : Banks]
    BY <1>0
  <2>4. request' \in [by : {"none", "st", "gm"}, lsn : Nat, ptr : Banks]
    BY <2>3, <1>9 DEF StmScheduleCb, AsyncRead, RingTypes, drive
  <2> QED
    BY <2>2, <2>4, <1>9 DEF StmScheduleCb, RingTypes, hist
<1>10. ASSUME event_alarm_cb PROVE RingTypes'
  BY <1>0, <1>10 DEF event_alarm_cb, RingTypes, Goto, drive, hist, NoRead, NoCall
<1>11. ASSUME HaltCancel PROVE RingTypes'
  BY <1>0, <1>11 DEF HaltCancel, RingTypes, Goto, drive, hist, NoRead, NoCall
<1>12. ASSUME HaltReset PROVE RingTypes'
  <2> DEFINE a == [st EXCEPT !.WritePtr = 0]
             b == [a EXCEPT !.ReadPtr = 0]
             c == [b EXCEPT !.Streamed = 0]
             d == [c EXCEPT !.IsReading = FALSE]
  <2>1. a \in STS
    BY <1>0
  <2>2. StReset = d
    BY <1>0 DEF StReset
  <2> HIDE DEF a
  <2>3. b \in STS
    BY <1>0, <2>1
  <2> HIDE DEF b
  <2>4. c \in STS
    BY <2>3
  <2> HIDE DEF c
  <2>5. StReset \in STS
    BY <2>2, <2>4
  <2> HIDE DEF d
  <2>6. [StReset EXCEPT !.Stat = FALSE] \in STS
    BY <2>5
  <2>7. [st EXCEPT !.IsReading = FALSE] \in STS
    BY <1>0
  <2>8. st' \in STS
    BY <2>6, <2>7, <1>12 DEF HaltReset
  <2> QED
    BY <2>8, <1>12 DEF HaltReset, RingTypes, drive, hist
<1>13. ASSUME StartBegin PROVE RingTypes'
  <2> DEFINE a == [st EXCEPT !.WritePtr = 0]
             b == [a EXCEPT !.ReadPtr = 0]
             c == [b EXCEPT !.Streamed = 0]
             d == [c EXCEPT !.IsReading = FALSE]
  <2>1. a \in STS
    BY <1>0
  <2>2. StReset = d
    BY <1>0 DEF StReset
  <2> HIDE DEF a
  <2>3. b \in STS
    BY <1>0, <2>1
  <2> HIDE DEF b
  <2>4. c \in STS
    BY <2>3
  <2> HIDE DEF c
  <2>5. StReset \in STS
    BY <2>2, <2>4
  <2> HIDE DEF d
  <2>6. call.lsn \in Nat
    BY DEF RingTypes
  <2> DEFINE e == [StReset EXCEPT !.Stat = TRUE]
             f == [e EXCEPT !.lsn = call.lsn]
  <2>7. e \in STS
    BY <2>5
  <2>8. st' = f
    BY <2>5, <1>13 DEF StartBegin
  <2> HIDE DEF e
  <2>9. f \in STS
    BY <2>6, <2>7
  <2> QED
    BY <1>0, <2>6, <2>8, <2>9, <1>13 DEF StartBegin, RingTypes, NoCall, drive
<1>14. ASSUME ReadWait PROVE RingTypes'
  BY <1>0, <1>14 DEF ReadWait, RingTypes, Goto, drive, hist, NoRead, NoCall
<1>15. ASSUME ReadSectors PROVE RingTypes'
  <2>1. Copied(call.left) \in 0 .. call.left /\ CopiedTo(call.left) \in 0 .. StBufmax - 1
    BY <1>0, CopyStays DEF RingTypes
  <2>2. st' \in STS /\ next' \in Nat
    <3>1. st.Streamed \in Int /\ next \in Nat /\ Copied(call.left) \in Nat
      BY <1>0, <2>1 DEF RingTypes
    <3>2. st.Streamed - Copied(call.left) \in Int /\ next + Copied(call.left) \in Nat
      BY <3>1
    <3> QED
      BY <1>0, <2>1, <3>2, <1>15, StRecords DEF ReadSectors, Take
  <2>3. Copied(call.left) = call.left \/ call.left - Copied(call.left) \in Nat
    BY <2>1 DEF RingTypes
  <2> QED
    BY <1>0, <2>2, <2>3, <1>15 DEF ReadSectors, RingTypes, NoCall, drive, hist
<1>16. ASSUME ReadSectorsEE PROVE RingTypes'
  <2>1. Copied(call.left) \in 0 .. call.left /\ CopiedTo(call.left) \in 0 .. StBufmax - 1
    BY <1>0, CopyStays DEF RingTypes
  <2>2. Copied(call.left) \in Nat
    BY <2>1 DEF RingTypes
  <2> QED
    BY <1>0, <2>1, <2>2, <1>16 DEF ReadSectorsEE, RingTypes, NoCall, drive, hist
<1>17. ASSUME TransferDone PROVE RingTypes'
  <2>1. call.n \in Nat /\ call.ptr \in 0 .. StBufmax - 1
    BY DEF RingTypes
  <2>2. st' \in STS /\ next' \in Nat
    <3>1. st.Streamed - call.n \in Int /\ next + call.n \in Nat
      BY <1>0, <2>1 DEF RingTypes
    <3> QED
      BY <1>0, <2>1, <3>1, <1>17, StRecords DEF TransferDone, Take
  <2> QED
    BY <1>0, <2>2, <1>17 DEF TransferDone, RingTypes, NoCall, drive, hist
<1>18. ASSUME Quiet, FillCheck("cl") PROVE RingTypes'
  <2>1. [st EXCEPT !.IsReading = TRUE] \in STS
    BY <1>0
  <2>2. st' \in STS
    BY <1>0, <2>1, <1>18 DEF FillCheck
  <2>3. bank' \in [{"rd", "cl"} -> Banks]
    BY <1>0, <1>18 DEF FillCheck, RingTypes
  <2> QED
    BY <2>2, <2>3, <1>18 DEF FillCheck, RingTypes, drive, hist
<1>19. ASSUME Quiet, FillStart("cl") PROVE RingTypes'
  BY <1>0, <1>19 DEF FillStart, Return, AsyncRead, RingTypes, Goto, drive, hist,
     NoRead, NoCall
<1>20. ASSUME Quiet, FillUndo("cl") PROVE RingTypes'
  BY <1>0, <1>20 DEF FillUndo, Return, RingTypes, Goto, drive, hist, NoRead, NoCall
<1>21. ASSUME Quiet, FillResched("cl") PROVE RingTypes'
  BY <1>0, <1>21 DEF FillResched, Return, RingTypes, Goto, drive, hist, NoRead,
     NoCall
<1>22. ASSUME Quiet, SyncTest("cl", AfterSync) PROVE RingTypes'
  BY <1>0, <1>22 DEF SyncTest, AfterSync, RingTypes, Goto, drive, hist, NoRead,
     NoCall
<1>23. ASSUME Quiet, SyncWake("cl") PROVE RingTypes'
  BY <1>0, <1>23 DEF SyncWake, RingTypes, Goto, drive, hist, NoRead, NoCall
<1>24. ASSUME NEW l \in Lsns, sceCdStStart(l) PROVE RingTypes'
  BY <1>0, <1>24 DEF sceCdStStart, Enter, NoCall, RingTypes, Goto, drive, hist,
     NoRead, NoCall
<1>25. ASSUME NEW l \in Lsns, sceCdStSeek(l) PROVE RingTypes'
  BY <1>0, <1>25 DEF sceCdStSeek, sceCdStStart, Enter, NoCall, RingTypes, Goto,
     drive, hist, NoRead, NoCall
<1>26. ASSUME sceCdStStop PROVE RingTypes'
  BY <1>0, <1>26 DEF sceCdStStop, Halt, Enter, NoCall, RingTypes, Goto, drive,
     hist, NoRead, NoCall
<1>27. ASSUME sceCdStPause PROVE RingTypes'
  BY <1>0, <1>27 DEF sceCdStPause, Halt, Enter, NoCall, RingTypes, Goto, drive,
     hist, NoRead, NoCall
<1>28. ASSUME sceCdStResume PROVE RingTypes'
  BY <1>0, <1>28 DEF sceCdStResume, Enter, NoCall, RingTypes, Goto, drive, hist,
     NoRead, NoCall
<1>29. ASSUME NEW n \in Sizes, NEW to \in {"ee", "iop"}, sceCdStRead(n, to) PROVE RingTypes'
  BY <1>0, <1>29 DEF sceCdStRead, Enter, NoCall, RingTypes, Goto, drive, hist,
     NoRead, NoCall
<1>30. ASSUME CommandEvent PROVE RingTypes'
  BY <1>0, <1>30 DEF CommandEvent, RingTypes, Goto, drive, hist, NoRead, NoCall
<1>31. ASSUME CommandSignal PROVE RingTypes'
  BY <1>0, <1>31 DEF CommandSignal, RingTypes, Goto, drive, hist, NoRead, NoCall
<1>32. ASSUME Quiet, SyncTest("gm", "idle") PROVE RingTypes'
  BY <1>0, <1>32 DEF SyncTest, RingTypes, Goto, drive, hist, NoRead, NoCall
<1>33. ASSUME Quiet, SyncWake("gm") PROVE RingTypes'
  BY <1>0, <1>33 DEF SyncWake, RingTypes, Goto, drive, hist, NoRead, NoCall
<1>34. ASSUME sceCdRead PROVE RingTypes'
  BY <1>0, <1>34 DEF sceCdRead, Play, AsyncRead, RingTypes, Goto, drive, hist,
     NoRead, NoCall
<1>35. ASSUME NEW b \in BOOLEAN, sceCdCallback(b) PROVE RingTypes'
  BY <1>0, <1>35 DEF sceCdCallback, Play, RingTypes, Goto, drive, hist, NoRead,
     NoCall
<1>36. ASSUME NEW b \in BOOLEAN, Command(b) PROVE RingTypes'
  BY <1>0, <1>36 DEF Command, Play, RingTypes, Goto, drive, hist, NoRead, NoCall
<1>37. ASSUME UNCHANGED vars PROVE RingTypes'
  BY <1>0, <1>37 DEF vars, RingTypes, Goto, drive, hist, NoRead, NoCall
<1> QED
  BY <1>1, <1>2, <1>3, <1>4, <1>5, <1>6, <1>7, <1>8, <1>9, <1>10, <1>11, <1>12,
     <1>13, <1>14, <1>15, <1>16, <1>17, <1>18, <1>19, <1>20, <1>21, <1>22,
     <1>23, <1>24, <1>25, <1>26, <1>27, <1>28, <1>29, <1>30, <1>31, <1>32,
     <1>33, <1>34, <1>35, <1>36, <1>37 DEF Next, Reader, Alarm, ClientStep,
     Client, GameStep, Game, Fill

(* The history only grows, and a stream begins only in StartBegin.         *)
LEMMA GoodBack ==
    ASSUME DriveInv, [Next]_vars, Good', ~StartBegin
    PROVE  Good
<1>0. DOMAIN st = {"WritePtr", "ReadPtr", "Streamed", "IsReading", "Stat", "lsn"}
  BY DEF DriveInv, DriveTypes
<1>1. ASSUME ReadBegin PROVE Good
  BY <1>0, <1>1 DEF ReadBegin, Good, drive, hist
<1>2. ASSUME ReadSignal PROVE Good
  BY <1>0, <1>2 DEF ReadSignal, Good, drive, hist
<1>3. ASSUME StmCallback PROVE Good
  BY <1>0, <1>3 DEF StmCallback, Good, drive, hist
<1>4. ASSUME NEW ok \in BOOLEAN, ReadEnd(ok) PROVE Good
  BY <1>0, <1>4 DEF ReadEnd, Good, drive, hist
<1>5. ASSUME FillCheck("rd") PROVE Good
  BY <1>0, <1>5 DEF FillCheck, Return, Good, drive, hist
<1>6. ASSUME FillStart("rd") PROVE Good
  BY <1>0, <1>6 DEF FillStart, Return, AsyncRead, Good, drive, hist
<1>7. ASSUME FillUndo("rd") PROVE Good
  BY <1>0, <1>7 DEF FillUndo, Return, Good, drive, hist
<1>8. ASSUME FillResched("rd") PROVE Good
  BY <1>0, <1>8 DEF FillResched, Return, Good, drive, hist
<1>9. ASSUME StmScheduleCb PROVE Good
  BY <1>0, <1>9 DEF StmScheduleCb, AsyncRead, Good, drive, hist
<1>10. ASSUME event_alarm_cb PROVE Good
  BY <1>0, <1>10 DEF event_alarm_cb, Good, drive, hist
<1>11. ASSUME HaltCancel PROVE Good
  BY <1>0, <1>11 DEF HaltCancel, Good, drive, hist
<1>12. ASSUME HaltReset PROVE Good
  BY <1>0, <1>12 DEF HaltReset, StReset, Good, drive, hist
<1>13. ASSUME StartBegin PROVE Good
  BY <1>13
<1>14. ASSUME ReadWait PROVE Good
  BY <1>0, <1>14 DEF ReadWait, Good, drive, hist
<1>15. ASSUME ReadSectors PROVE Good
  BY <1>0, <1>15 DEF ReadSectors, Take, Good, drive, hist
<1>16. ASSUME ReadSectorsEE PROVE Good
  BY <1>0, <1>16 DEF ReadSectorsEE, Good, drive, hist
<1>17. ASSUME TransferDone PROVE Good
  BY <1>0, <1>17 DEF TransferDone, Take, Good, drive, hist
<1>18. ASSUME Quiet, FillCheck("cl") PROVE Good
  BY <1>0, <1>18 DEF FillCheck, Return, Good, drive, hist
<1>19. ASSUME Quiet, FillStart("cl") PROVE Good
  BY <1>0, <1>19 DEF FillStart, Return, AsyncRead, Good, drive, hist
<1>20. ASSUME Quiet, FillUndo("cl") PROVE Good
  BY <1>0, <1>20 DEF FillUndo, Return, Good, drive, hist
<1>21. ASSUME Quiet, FillResched("cl") PROVE Good
  BY <1>0, <1>21 DEF FillResched, Return, Good, drive, hist
<1>22. ASSUME Quiet, SyncTest("cl", AfterSync) PROVE Good
  BY <1>0, <1>22 DEF SyncTest, AfterSync, Good, drive, hist
<1>23. ASSUME Quiet, SyncWake("cl") PROVE Good
  BY <1>0, <1>23 DEF SyncWake, Good, drive, hist
<1>24. ASSUME NEW l \in Lsns, sceCdStStart(l) PROVE Good
  BY <1>0, <1>24 DEF sceCdStStart, Enter, NoCall, Good, drive, hist
<1>25. ASSUME NEW l \in Lsns, sceCdStSeek(l) PROVE Good
  BY <1>0, <1>25 DEF sceCdStSeek, sceCdStStart, Enter, NoCall, Good, drive, hist
<1>26. ASSUME sceCdStStop PROVE Good
  BY <1>0, <1>26 DEF sceCdStStop, Halt, Enter, NoCall, Good, drive, hist
<1>27. ASSUME sceCdStPause PROVE Good
  BY <1>0, <1>27 DEF sceCdStPause, Halt, Enter, NoCall, Good, drive, hist
<1>28. ASSUME sceCdStResume PROVE Good
  BY <1>0, <1>28 DEF sceCdStResume, Enter, NoCall, Good, drive, hist
<1>29. ASSUME NEW n \in Sizes, NEW to \in {"ee", "iop"}, sceCdStRead(n, to) PROVE Good
  BY <1>0, <1>29 DEF sceCdStRead, Enter, NoCall, Good, drive, hist
<1>30. ASSUME CommandEvent PROVE Good
  BY <1>0, <1>30 DEF CommandEvent, Good, drive, hist
<1>31. ASSUME CommandSignal PROVE Good
  BY <1>0, <1>31 DEF CommandSignal, Good, drive, hist
<1>32. ASSUME Quiet, SyncTest("gm", "idle") PROVE Good
  BY <1>0, <1>32 DEF SyncTest, Good, drive, hist
<1>33. ASSUME Quiet, SyncWake("gm") PROVE Good
  BY <1>0, <1>33 DEF SyncWake, Good, drive, hist
<1>34. ASSUME sceCdRead PROVE Good
  BY <1>0, <1>34 DEF sceCdRead, Play, AsyncRead, Good, drive, hist
<1>35. ASSUME NEW b \in BOOLEAN, sceCdCallback(b) PROVE Good
  BY <1>0, <1>35 DEF sceCdCallback, Play, Good, drive, hist
<1>36. ASSUME NEW b \in BOOLEAN, Command(b) PROVE Good
  BY <1>0, <1>36 DEF Command, Play, Good, drive, hist
<1>37. ASSUME UNCHANGED vars PROVE Good
  BY <1>0, <1>37 DEF vars, Good, drive, hist
<1> QED
  BY <1>1, <1>2, <1>3, <1>4, <1>5, <1>6, <1>7, <1>8, <1>9, <1>10, <1>11, <1>12,
     <1>13, <1>14, <1>15, <1>16, <1>17, <1>18, <1>19, <1>20, <1>21, <1>22,
     <1>23, <1>24, <1>25, <1>26, <1>27, <1>28, <1>29, <1>30, <1>31, <1>32,
     <1>33, <1>34, <1>35, <1>36, <1>37 DEF Next, Reader, Alarm, ClientStep,
     Client, GameStep, Game, Fill

(* A new stream finds the drive idle and the ring empty.                   *)
LEMMA StartsWell ==
    ASSUME DriveInv, RingTypes, SyncIsQuiet, StartBegin, Good'
    PROVE  OneRead' /\ BankIsFree' /\ RingFits'
<1>1. /\ DOMAIN pc = Ids /\ ~st.Stat /\ pc["rd"] \in {"wait", "reading"}
      /\ "stale" \notin seen
  BY DEF DriveInv, DriveTypes, SyncIsQuiet, StartBegin, Good, Quiet
<1>2. ~Filling
  BY <1>1 DEF DriveInv, StopInv, StartBegin
<1>3. pc'["rd"] = pc["rd"] /\ pc'["cl"] = "fill" /\ ~Requested' /\ ~UnderWay'
  BY <1>1, <1>2 DEF StartBegin, Goto, Ids, Filling, Requested, UnderWay, drive
<1>4. ~AtFill("rd")' /\ ~AtFill("cl")'
  BY <1>1, <1>3 DEF AtFill
<1>5. OneRead' /\ BankIsFree'
  BY <1>1, <1>3, <1>4 DEF OneRead, BankIsFree
<1>6. /\ st'.WritePtr = 0 /\ st'.ReadPtr = 0 /\ st'.Streamed = 0
      /\ st'.lsn = call.lsn /\ next' = call.lsn /\ call.lsn \in Nat
  BY DEF StartBegin, StReset, RingTypes
<1>7. RingFits'
  BY <1>3, <1>6, RingShape DEF RingFits, Pos
<1> QED
  BY <1>5, <1>7

(* There is one read of the stream at a time.                              *)
LEMMA OneStep ==
    ASSUME DriveInv, RingTypes, SyncIsQuiet, Good, Good', OneRead, Next, ~StartBegin
    PROVE  OneRead'
<1>0. /\ DOMAIN pc = Ids /\ Stm0Callback \in BOOLEAN
      /\ st \in [WritePtr : Banks, ReadPtr : 0 .. StBufmax - 1, Streamed : Int, IsReading : BOOLEAN, Stat : BOOLEAN, lsn : Nat]
      /\ "stale" \notin seen /\ "foreign" \notin seen' /\ "stale" \notin seen'
      /\ Busy => sync_flag
      /\ ~(rthread_sema /\ pc["rd"] = "reading")
  BY DEF DriveInv, DriveTypes, RingTypes, LockInv, Good
<1>1. ASSUME ReadBegin PROVE OneRead'
  BY <1>0, <1>1 DEF ReadBegin, OneRead, SyncIsQuiet, Requested, UnderWay,
     AtFill, Busy, Goto, Ids, drive, hist, Quiet, NoRead
<1>2. ASSUME ReadSignal PROVE OneRead'
  BY <1>0, <1>2 DEF ReadSignal, OneRead, SyncIsQuiet, Requested, UnderWay,
     AtFill, Busy, Goto, Ids, drive, hist, Quiet, NoRead
<1>3. ASSUME StmCallback PROVE OneRead'
  BY <1>0, <1>3 DEF StmCallback, OneRead, SyncIsQuiet, Requested, UnderWay,
     AtFill, Busy, Goto, Ids, drive, hist, Quiet, NoRead
<1>4. ASSUME NEW ok \in BOOLEAN, ReadEnd(ok) PROVE OneRead'
  BY <1>0, <1>4 DEF ReadEnd, OneRead, SyncIsQuiet, Requested, UnderWay, AtFill,
     Busy, Goto, Ids, drive, hist, Quiet, NoRead
<1>5. ASSUME FillCheck("rd") PROVE OneRead'
  BY <1>0, <1>5 DEF FillCheck, Return, OneRead, SyncIsQuiet, Requested,
     UnderWay, AtFill, Busy, Goto, Ids, drive, hist, Quiet, NoRead
<1>6. ASSUME FillStart("rd") PROVE OneRead'
  BY <1>0, <1>6 DEF FillStart, Return, AsyncRead, OneRead, SyncIsQuiet,
     Requested, UnderWay, AtFill, Busy, Goto, Ids, drive, hist, Quiet, NoRead
<1>7. ASSUME FillUndo("rd") PROVE OneRead'
  BY <1>0, <1>7 DEF FillUndo, Return, OneRead, SyncIsQuiet, Requested, UnderWay,
     AtFill, Busy, Goto, Ids, drive, hist, Quiet, NoRead
<1>8. ASSUME FillResched("rd") PROVE OneRead'
  BY <1>0, <1>8 DEF FillResched, Return, OneRead, SyncIsQuiet, Requested,
     UnderWay, AtFill, Busy, Goto, Ids, drive, hist, Quiet, NoRead
<1>9. ASSUME StmScheduleCb PROVE OneRead'
  BY <1>0, <1>9 DEF StmScheduleCb, AsyncRead, OneRead, SyncIsQuiet, Requested,
     UnderWay, AtFill, Busy, Goto, Ids, drive, hist, Quiet, NoRead
<1>10. ASSUME event_alarm_cb PROVE OneRead'
  BY <1>0, <1>10 DEF event_alarm_cb, OneRead, SyncIsQuiet, Requested, UnderWay,
     AtFill, Busy, Goto, Ids, drive, hist, Quiet, NoRead
<1>11. ASSUME HaltCancel PROVE OneRead'
  BY <1>0, <1>11 DEF HaltCancel, OneRead, SyncIsQuiet, Requested, UnderWay,
     AtFill, Busy, Goto, Ids, drive, hist, Quiet, NoRead
<1>12. ASSUME HaltReset PROVE OneRead'
  BY <1>0, <1>12 DEF HaltReset, StReset, OneRead, SyncIsQuiet, Requested,
     UnderWay, AtFill, Busy, Goto, Ids, drive, hist, Quiet, NoRead
<1>13. ASSUME StartBegin PROVE OneRead'
  BY <1>13
<1>14. ASSUME ReadWait PROVE OneRead'
  BY <1>0, <1>14 DEF ReadWait, OneRead, SyncIsQuiet, Requested, UnderWay,
     AtFill, Busy, Goto, Ids, drive, hist, Quiet, NoRead
<1>15. ASSUME ReadSectors PROVE OneRead'
  BY <1>0, <1>15 DEF ReadSectors, Take, OneRead, SyncIsQuiet, Requested,
     UnderWay, AtFill, Busy, Goto, Ids, drive, hist, Quiet, NoRead
<1>16. ASSUME ReadSectorsEE PROVE OneRead'
  BY <1>0, <1>16 DEF ReadSectorsEE, OneRead, SyncIsQuiet, Requested, UnderWay,
     AtFill, Busy, Goto, Ids, drive, hist, Quiet, NoRead
<1>17. ASSUME TransferDone PROVE OneRead'
  BY <1>0, <1>17 DEF TransferDone, Take, OneRead, SyncIsQuiet, Requested,
     UnderWay, AtFill, Busy, Goto, Ids, drive, hist, Quiet, NoRead
<1>18. ASSUME Quiet, FillCheck("cl") PROVE OneRead'
  BY <1>0, <1>18 DEF FillCheck, Return, OneRead, SyncIsQuiet, Requested,
     UnderWay, AtFill, Busy, Goto, Ids, drive, hist, Quiet, NoRead
<1>19. ASSUME Quiet, FillStart("cl") PROVE OneRead'
  BY <1>0, <1>19 DEF FillStart, Return, AsyncRead, OneRead, SyncIsQuiet,
     Requested, UnderWay, AtFill, Busy, Goto, Ids, drive, hist, Quiet, NoRead
<1>20. ASSUME Quiet, FillUndo("cl") PROVE OneRead'
  BY <1>0, <1>20 DEF FillUndo, Return, OneRead, SyncIsQuiet, Requested,
     UnderWay, AtFill, Busy, Goto, Ids, drive, hist, Quiet, NoRead
<1>21. ASSUME Quiet, FillResched("cl") PROVE OneRead'
  BY <1>0, <1>21 DEF FillResched, Return, OneRead, SyncIsQuiet, Requested,
     UnderWay, AtFill, Busy, Goto, Ids, drive, hist, Quiet, NoRead
<1>22. ASSUME Quiet, SyncTest("cl", AfterSync) PROVE OneRead'
  BY <1>0, <1>22 DEF SyncTest, AfterSync, OneRead, SyncIsQuiet, Requested,
     UnderWay, AtFill, Busy, Goto, Ids, drive, hist, Quiet, NoRead
<1>23. ASSUME Quiet, SyncWake("cl") PROVE OneRead'
  BY <1>0, <1>23 DEF SyncWake, OneRead, SyncIsQuiet, Requested, UnderWay,
     AtFill, Busy, Goto, Ids, drive, hist, Quiet, NoRead
<1>24. ASSUME NEW l \in Lsns, sceCdStStart(l) PROVE OneRead'
  BY <1>0, <1>24 DEF sceCdStStart, Enter, NoCall, OneRead, SyncIsQuiet,
     Requested, UnderWay, AtFill, Busy, Goto, Ids, drive, hist, Quiet, NoRead
<1>25. ASSUME NEW l \in Lsns, sceCdStSeek(l) PROVE OneRead'
  BY <1>0, <1>25 DEF sceCdStSeek, sceCdStStart, Enter, NoCall, OneRead,
     SyncIsQuiet, Requested, UnderWay, AtFill, Busy, Goto, Ids, drive, hist,
     Quiet, NoRead
<1>26. ASSUME sceCdStStop PROVE OneRead'
  BY <1>0, <1>26 DEF sceCdStStop, Halt, Enter, NoCall, OneRead, SyncIsQuiet,
     Requested, UnderWay, AtFill, Busy, Goto, Ids, drive, hist, Quiet, NoRead
<1>27. ASSUME sceCdStPause PROVE OneRead'
  BY <1>0, <1>27 DEF sceCdStPause, Halt, Enter, NoCall, OneRead, SyncIsQuiet,
     Requested, UnderWay, AtFill, Busy, Goto, Ids, drive, hist, Quiet, NoRead
<1>28. ASSUME sceCdStResume PROVE OneRead'
  BY <1>0, <1>28 DEF sceCdStResume, Enter, NoCall, OneRead, SyncIsQuiet,
     Requested, UnderWay, AtFill, Busy, Goto, Ids, drive, hist, Quiet, NoRead
<1>29. ASSUME NEW n \in Sizes, NEW to \in {"ee", "iop"}, sceCdStRead(n, to) PROVE OneRead'
  BY <1>0, <1>29 DEF sceCdStRead, Enter, NoCall, OneRead, SyncIsQuiet,
     Requested, UnderWay, AtFill, Busy, Goto, Ids, drive, hist, Quiet, NoRead
<1>30. ASSUME CommandEvent PROVE OneRead'
  BY <1>0, <1>30 DEF CommandEvent, OneRead, SyncIsQuiet, Requested, UnderWay,
     AtFill, Busy, Goto, Ids, drive, hist, Quiet, NoRead
<1>31. ASSUME CommandSignal PROVE OneRead'
  BY <1>0, <1>31 DEF CommandSignal, OneRead, SyncIsQuiet, Requested, UnderWay,
     AtFill, Busy, Goto, Ids, drive, hist, Quiet, NoRead
<1>32. ASSUME Quiet, SyncTest("gm", "idle") PROVE OneRead'
  BY <1>0, <1>32 DEF SyncTest, OneRead, SyncIsQuiet, Requested, UnderWay,
     AtFill, Busy, Goto, Ids, drive, hist, Quiet, NoRead
<1>33. ASSUME Quiet, SyncWake("gm") PROVE OneRead'
  BY <1>0, <1>33 DEF SyncWake, OneRead, SyncIsQuiet, Requested, UnderWay,
     AtFill, Busy, Goto, Ids, drive, hist, Quiet, NoRead
<1>34. ASSUME sceCdRead PROVE OneRead'
  BY <1>0, <1>34 DEF sceCdRead, Play, AsyncRead, OneRead, SyncIsQuiet,
     Requested, UnderWay, AtFill, Busy, Goto, Ids, drive, hist, Quiet, NoRead
<1>35. ASSUME NEW b \in BOOLEAN, sceCdCallback(b) PROVE OneRead'
  BY <1>0, <1>35 DEF sceCdCallback, Play, OneRead, SyncIsQuiet, Requested,
     UnderWay, AtFill, Busy, Goto, Ids, drive, hist, Quiet, NoRead
<1>36. ASSUME NEW b \in BOOLEAN, Command(b) PROVE OneRead'
  BY <1>0, <1>36 DEF Command, Play, OneRead, SyncIsQuiet, Requested, UnderWay,
     AtFill, Busy, Goto, Ids, drive, hist, Quiet, NoRead
<1>37. ASSUME FALSE PROVE OneRead'
  BY <1>0, <1>37 DEF OneRead, SyncIsQuiet, Requested, UnderWay, AtFill, Busy,
     Goto, Ids, drive, hist, Quiet, NoRead
<1> QED
  BY <1>1, <1>2, <1>3, <1>4, <1>5, <1>6, <1>7, <1>8, <1>9, <1>10, <1>11, <1>12,
     <1>13, <1>14, <1>15, <1>16, <1>17, <1>18, <1>19, <1>20, <1>21, <1>22,
     <1>23, <1>24, <1>25, <1>26, <1>27, <1>28, <1>29, <1>30, <1>31, <1>32,
     <1>33, <1>34, <1>35, <1>36, <1>37 DEF Next, Reader, Alarm, ClientStep,
     Client, GameStep, Game, Fill

(* The bank it fills is free.                                              *)
LEMMA BankStep ==
    ASSUME DriveInv, RingTypes, SyncIsQuiet, Good, Good', OneRead, BankIsFree, Next, ~StartBegin
    PROVE  BankIsFree'
<1>0. /\ DOMAIN pc = Ids /\ Stm0Callback \in BOOLEAN
      /\ st \in [WritePtr : Banks, ReadPtr : 0 .. StBufmax - 1, Streamed : Int, IsReading : BOOLEAN, Stat : BOOLEAN, lsn : Nat]
      /\ "stale" \notin seen /\ "foreign" \notin seen' /\ "stale" \notin seen'
      /\ StBanksize \in Nat /\ StBufmax \in Nat
      /\ Busy => sync_flag
      /\ ~(rthread_sema /\ pc["rd"] = "reading")
  BY RingShape DEF DriveInv, DriveTypes, RingTypes, LockInv, Good
<1>1. ASSUME ReadBegin PROVE BankIsFree'
  BY <1>0, <1>1 DEF ReadBegin, BankIsFree, IsNext, Room, OneRead, SyncIsQuiet,
     Requested, UnderWay, AtFill, Busy, Goto, Ids, drive, hist, Quiet, NoRead
<1>2. ASSUME ReadSignal PROVE BankIsFree'
  BY <1>0, <1>2 DEF ReadSignal, BankIsFree, IsNext, Room, OneRead, SyncIsQuiet,
     Requested, UnderWay, AtFill, Busy, Goto, Ids, drive, hist, Quiet, NoRead
<1>3. ASSUME StmCallback PROVE BankIsFree'
  BY <1>0, <1>3 DEF StmCallback, BankIsFree, IsNext, Room, OneRead, SyncIsQuiet,
     Requested, UnderWay, AtFill, Busy, Goto, Ids, drive, hist, Quiet, NoRead
<1>4. ASSUME NEW ok \in BOOLEAN, ReadEnd(ok) PROVE BankIsFree'
  <2>1. /\ st' = st /\ bank' = bank /\ request' = request /\ rthread_sema' = rthread_sema
        /\ pc'["cl"] = pc["cl"] /\ pc'["rd"] \in {"signalstm", "signal", "wait"}
    BY <1>0, <1>4 DEF ReadEnd, Goto, Ids
  <2>2. UnderWay' => UnderWay /\ reading' = reading
    BY <2>1, <1>4 DEF UnderWay, ReadEnd, NoRead
  <2>3. ASSUME UnderWay', NEW j \in 0 .. StBanksize - 1
        PROVE  ring'[st.WritePtr + j] \in {st.lsn + j, Bad}
    <3>1. /\ reading.by = "st" /\ reading.ptr = st.WritePtr /\ reading.lsn = st.lsn
          /\ st.WritePtr \in Nat /\ st.WritePtr + StBanksize <= StBufmax /\ st.lsn \in Nat
      BY <1>0, <2>2, <2>3, RingShape DEF BankIsFree, IsNext, UnderWay
    <3>2. DOMAIN ring = 0 .. StBufmax - 1
      BY DEF RingTypes
    <3>4. j \in Nat /\ j < StBanksize
      BY <1>0
    <3>5. st.WritePtr + j \in DOMAIN ring /\ st.WritePtr + j \in BankOf(reading)
      BY <1>0, <3>1, <3>2, <3>4 DEF BankOf
    <3>3. ring'[st.WritePtr + j] = IF ok THEN reading.lsn + (st.WritePtr + j) - reading.ptr ELSE Bad
      BY <1>4, <3>1, <3>5 DEF ReadEnd, Put
    <3> QED
      BY <1>0, <3>1, <3>3
  <2> QED
    BY <2>1, <2>2, <2>3 DEF BankIsFree, IsNext, Requested, Room
<1>5. ASSUME FillCheck("rd") PROVE BankIsFree'
  <2>1. st'.WritePtr = st.WritePtr /\ st'.lsn = st.lsn /\ st'.Streamed = st.Streamed
    BY <1>0, <1>5 DEF FillCheck
  <2>2. /\ request' = request /\ reading' = reading
        /\ ring' = ring /\ rthread_sema' = rthread_sema
    BY <1>5 DEF FillCheck, drive
  <2>3. pc'["cl"] = pc["cl"] /\ bank'["cl"] = bank["cl"]
    BY <1>0, <1>5 DEF FillCheck, Goto, Ids, RingTypes
  <2>4. pc'["rd"] = "start" => bank'["rd"] = st.WritePtr /\ Room
    BY <1>0, <1>5 DEF FillCheck, Goto, Ids, RingTypes, Return
  <2>5. pc'["rd"] = pc["rd"] \/ pc'["rd"] \in {"wait", "start", "full"}
    BY <1>0, <1>5 DEF FillCheck, Goto, Ids, Return
  <2> QED
    BY <2>1, <2>2, <2>3, <2>4, <2>5 DEF BankIsFree, IsNext, Requested, UnderWay,
       Room
<1>6. ASSUME FillStart("rd") PROVE BankIsFree'
  BY <1>0, <1>6 DEF FillStart, Return, AsyncRead, BankIsFree, IsNext, Room,
     OneRead, SyncIsQuiet, Requested, UnderWay, AtFill, Busy, Goto, Ids, drive,
     hist, Quiet, NoRead
<1>7. ASSUME FillUndo("rd") PROVE BankIsFree'
  BY <1>0, <1>7 DEF FillUndo, Return, BankIsFree, IsNext, Room, OneRead,
     SyncIsQuiet, Requested, UnderWay, AtFill, Busy, Goto, Ids, drive, hist,
     Quiet, NoRead
<1>8. ASSUME FillResched("rd") PROVE BankIsFree'
  BY <1>0, <1>8 DEF FillResched, Return, BankIsFree, IsNext, Room, OneRead,
     SyncIsQuiet, Requested, UnderWay, AtFill, Busy, Goto, Ids, drive, hist,
     Quiet, NoRead
<1>9. ASSUME StmScheduleCb PROVE BankIsFree'
  BY <1>0, <1>9 DEF StmScheduleCb, AsyncRead, BankIsFree, IsNext, Room, OneRead,
     SyncIsQuiet, Requested, UnderWay, AtFill, Busy, Goto, Ids, drive, hist,
     Quiet, NoRead
<1>10. ASSUME event_alarm_cb PROVE BankIsFree'
  BY <1>0, <1>10 DEF event_alarm_cb, BankIsFree, IsNext, Room, OneRead,
     SyncIsQuiet, Requested, UnderWay, AtFill, Busy, Goto, Ids, drive, hist,
     Quiet, NoRead
<1>11. ASSUME HaltCancel PROVE BankIsFree'
  BY <1>0, <1>11 DEF HaltCancel, BankIsFree, IsNext, Room, OneRead, SyncIsQuiet,
     Requested, UnderWay, AtFill, Busy, Goto, Ids, drive, hist, Quiet, NoRead
<1>12. ASSUME HaltReset PROVE BankIsFree'
  <2>1. call.op = "pause"
    BY <1>0, <1>12 DEF HaltReset, Good, StReset
  <2>2. st'.WritePtr = st.WritePtr /\ st'.lsn = st.lsn /\ st'.Streamed = st.Streamed
    BY <1>0, <2>1, <1>12 DEF HaltReset
  <2>3. pc'["rd"] = pc["rd"] /\ pc'["cl"] = "sync"
    BY <1>0, <1>12 DEF HaltReset, Goto, Ids
  <2>4. /\ bank' = bank /\ request' = request /\ reading' = reading
        /\ ring' = ring /\ rthread_sema' = rthread_sema
    BY <1>12 DEF HaltReset, drive
  <2> QED
    BY <2>2, <2>3, <2>4 DEF BankIsFree, IsNext, Requested, UnderWay, Room
<1>13. ASSUME StartBegin PROVE BankIsFree'
  BY <1>13
<1>14. ASSUME ReadWait PROVE BankIsFree'
  BY <1>0, <1>14 DEF ReadWait, BankIsFree, IsNext, Room, OneRead, SyncIsQuiet,
     Requested, UnderWay, AtFill, Busy, Goto, Ids, drive, hist, Quiet, NoRead
<1>15. ASSUME ReadSectors PROVE BankIsFree'
  <2>1. st'.WritePtr = st.WritePtr /\ st'.lsn = st.lsn /\ st'.Streamed = st.Streamed - Copied(call.left) /\ Copied(call.left) \in Nat
    BY <1>0, <1>15, CopyStays DEF ReadSectors, Take, RingTypes
  <2>2. Room => Room'
    BY <1>0, <2>1 DEF Room
  <2>3. \E l \in {"fill", "wait8"} : pc' = [pc EXCEPT !["cl"] = l]
    BY <1>15 DEF ReadSectors, Goto
  <2>4. pc'["rd"] = pc["rd"] /\ pc'["cl"] \in {"fill", "wait8"}
    BY <1>0, <2>3 DEF Ids
  <2>5. /\ bank' = bank /\ request' = request /\ reading' = reading
        /\ ring' = ring /\ rthread_sema' = rthread_sema
    BY <1>15 DEF ReadSectors, drive
  <2> QED
    BY <2>1, <2>2, <2>4, <2>5 DEF BankIsFree, IsNext, Requested, UnderWay
<1>16. ASSUME ReadSectorsEE PROVE BankIsFree'
  BY <1>0, <1>16 DEF ReadSectorsEE, BankIsFree, IsNext, Room, OneRead,
     SyncIsQuiet, Requested, UnderWay, AtFill, Busy, Goto, Ids, drive, hist,
     Quiet, NoRead
<1>17. ASSUME TransferDone PROVE BankIsFree'
  <2>1. st'.WritePtr = st.WritePtr /\ st'.lsn = st.lsn /\ st'.Streamed = st.Streamed - call.n /\ call.n \in Nat
    BY <1>0, <1>17, CopyStays DEF TransferDone, Take, RingTypes
  <2>2. Room => Room'
    BY <1>0, <2>1 DEF Room
  <2>3. \E l \in {"fill", "wait8"} : pc' = [pc EXCEPT !["cl"] = l]
    BY <1>17 DEF TransferDone, Goto
  <2>4. pc'["rd"] = pc["rd"] /\ pc'["cl"] \in {"fill", "wait8"}
    BY <1>0, <2>3 DEF Ids
  <2>5. /\ bank' = bank /\ request' = request /\ reading' = reading
        /\ ring' = ring /\ rthread_sema' = rthread_sema
    BY <1>17 DEF TransferDone, drive
  <2> QED
    BY <2>1, <2>2, <2>4, <2>5 DEF BankIsFree, IsNext, Requested, UnderWay
<1>18. ASSUME Quiet, FillCheck("cl") PROVE BankIsFree'
  <2>1. st'.WritePtr = st.WritePtr /\ st'.lsn = st.lsn /\ st'.Streamed = st.Streamed
    BY <1>0, <1>18 DEF FillCheck
  <2>2. /\ request' = request /\ reading' = reading
        /\ ring' = ring /\ rthread_sema' = rthread_sema
    BY <1>18 DEF FillCheck, drive
  <2>3. pc'["rd"] = pc["rd"] /\ bank'["rd"] = bank["rd"]
    BY <1>0, <1>18 DEF FillCheck, Goto, Ids, RingTypes
  <2>4. pc'["cl"] = "start" => bank'["cl"] = st.WritePtr /\ Room
    BY <1>0, <1>18 DEF FillCheck, Goto, Ids, RingTypes, Return
  <2>5. pc'["rd"] = pc["rd"] \/ pc'["rd"] \in {"wait", "start", "full"}
    BY <1>0, <1>18 DEF FillCheck, Goto, Ids, Return
  <2> QED
    BY <2>1, <2>2, <2>3, <2>4, <2>5 DEF BankIsFree, IsNext, Requested, UnderWay,
       Room
<1>19. ASSUME Quiet, FillStart("cl") PROVE BankIsFree'
  BY <1>0, <1>19 DEF FillStart, Return, AsyncRead, BankIsFree, IsNext, Room,
     OneRead, SyncIsQuiet, Requested, UnderWay, AtFill, Busy, Goto, Ids, drive,
     hist, Quiet, NoRead
<1>20. ASSUME Quiet, FillUndo("cl") PROVE BankIsFree'
  BY <1>0, <1>20 DEF FillUndo, Return, BankIsFree, IsNext, Room, OneRead,
     SyncIsQuiet, Requested, UnderWay, AtFill, Busy, Goto, Ids, drive, hist,
     Quiet, NoRead
<1>21. ASSUME Quiet, FillResched("cl") PROVE BankIsFree'
  BY <1>0, <1>21 DEF FillResched, Return, BankIsFree, IsNext, Room, OneRead,
     SyncIsQuiet, Requested, UnderWay, AtFill, Busy, Goto, Ids, drive, hist,
     Quiet, NoRead
<1>22. ASSUME Quiet, SyncTest("cl", AfterSync) PROVE BankIsFree'
  BY <1>0, <1>22 DEF SyncTest, AfterSync, BankIsFree, IsNext, Room, OneRead,
     SyncIsQuiet, Requested, UnderWay, AtFill, Busy, Goto, Ids, drive, hist,
     Quiet, NoRead
<1>23. ASSUME Quiet, SyncWake("cl") PROVE BankIsFree'
  BY <1>0, <1>23 DEF SyncWake, BankIsFree, IsNext, Room, OneRead, SyncIsQuiet,
     Requested, UnderWay, AtFill, Busy, Goto, Ids, drive, hist, Quiet, NoRead
<1>24. ASSUME NEW l \in Lsns, sceCdStStart(l) PROVE BankIsFree'
  BY <1>0, <1>24 DEF sceCdStStart, Enter, NoCall, BankIsFree, IsNext, Room,
     OneRead, SyncIsQuiet, Requested, UnderWay, AtFill, Busy, Goto, Ids, drive,
     hist, Quiet, NoRead
<1>25. ASSUME NEW l \in Lsns, sceCdStSeek(l) PROVE BankIsFree'
  BY <1>0, <1>25 DEF sceCdStSeek, sceCdStStart, Enter, NoCall, BankIsFree,
     IsNext, Room, OneRead, SyncIsQuiet, Requested, UnderWay, AtFill, Busy,
     Goto, Ids, drive, hist, Quiet, NoRead
<1>26. ASSUME sceCdStStop PROVE BankIsFree'
  BY <1>0, <1>26 DEF sceCdStStop, Halt, Enter, NoCall, BankIsFree, IsNext, Room,
     OneRead, SyncIsQuiet, Requested, UnderWay, AtFill, Busy, Goto, Ids, drive,
     hist, Quiet, NoRead
<1>27. ASSUME sceCdStPause PROVE BankIsFree'
  BY <1>0, <1>27 DEF sceCdStPause, Halt, Enter, NoCall, BankIsFree, IsNext,
     Room, OneRead, SyncIsQuiet, Requested, UnderWay, AtFill, Busy, Goto, Ids,
     drive, hist, Quiet, NoRead
<1>28. ASSUME sceCdStResume PROVE BankIsFree'
  BY <1>0, <1>28 DEF sceCdStResume, Enter, NoCall, BankIsFree, IsNext, Room,
     OneRead, SyncIsQuiet, Requested, UnderWay, AtFill, Busy, Goto, Ids, drive,
     hist, Quiet, NoRead
<1>29. ASSUME NEW n \in Sizes, NEW to \in {"ee", "iop"}, sceCdStRead(n, to) PROVE BankIsFree'
  BY <1>0, <1>29 DEF sceCdStRead, Enter, NoCall, BankIsFree, IsNext, Room,
     OneRead, SyncIsQuiet, Requested, UnderWay, AtFill, Busy, Goto, Ids, drive,
     hist, Quiet, NoRead
<1>30. ASSUME CommandEvent PROVE BankIsFree'
  BY <1>0, <1>30 DEF CommandEvent, BankIsFree, IsNext, Room, OneRead,
     SyncIsQuiet, Requested, UnderWay, AtFill, Busy, Goto, Ids, drive, hist,
     Quiet, NoRead
<1>31. ASSUME CommandSignal PROVE BankIsFree'
  BY <1>0, <1>31 DEF CommandSignal, BankIsFree, IsNext, Room, OneRead,
     SyncIsQuiet, Requested, UnderWay, AtFill, Busy, Goto, Ids, drive, hist,
     Quiet, NoRead
<1>32. ASSUME Quiet, SyncTest("gm", "idle") PROVE BankIsFree'
  BY <1>0, <1>32 DEF SyncTest, BankIsFree, IsNext, Room, OneRead, SyncIsQuiet,
     Requested, UnderWay, AtFill, Busy, Goto, Ids, drive, hist, Quiet, NoRead
<1>33. ASSUME Quiet, SyncWake("gm") PROVE BankIsFree'
  BY <1>0, <1>33 DEF SyncWake, BankIsFree, IsNext, Room, OneRead, SyncIsQuiet,
     Requested, UnderWay, AtFill, Busy, Goto, Ids, drive, hist, Quiet, NoRead
<1>34. ASSUME sceCdRead PROVE BankIsFree'
  BY <1>0, <1>34 DEF sceCdRead, Play, AsyncRead, BankIsFree, IsNext, Room,
     OneRead, SyncIsQuiet, Requested, UnderWay, AtFill, Busy, Goto, Ids, drive,
     hist, Quiet, NoRead
<1>35. ASSUME NEW b \in BOOLEAN, sceCdCallback(b) PROVE BankIsFree'
  BY <1>0, <1>35 DEF sceCdCallback, Play, BankIsFree, IsNext, Room, OneRead,
     SyncIsQuiet, Requested, UnderWay, AtFill, Busy, Goto, Ids, drive, hist,
     Quiet, NoRead
<1>36. ASSUME NEW b \in BOOLEAN, Command(b) PROVE BankIsFree'
  BY <1>0, <1>36 DEF Command, Play, BankIsFree, IsNext, Room, OneRead,
     SyncIsQuiet, Requested, UnderWay, AtFill, Busy, Goto, Ids, drive, hist,
     Quiet, NoRead
<1>37. ASSUME FALSE PROVE BankIsFree'
  BY <1>0, <1>37 DEF BankIsFree, IsNext, Room, OneRead, SyncIsQuiet, Requested,
     UnderWay, AtFill, Busy, Goto, Ids, drive, hist, Quiet, NoRead
<1> QED
  BY <1>1, <1>2, <1>3, <1>4, <1>5, <1>6, <1>7, <1>8, <1>9, <1>10, <1>11, <1>12,
     <1>13, <1>14, <1>15, <1>16, <1>17, <1>18, <1>19, <1>20, <1>21, <1>22,
     <1>23, <1>24, <1>25, <1>26, <1>27, <1>28, <1>29, <1>30, <1>31, <1>32,
     <1>33, <1>34, <1>35, <1>36, <1>37 DEF Next, Reader, Alarm, ClientStep,
     Client, GameStep, Game, Fill

(* The ring, untouched.                                                    *)
LEMMA FitsUntouched ==
    ASSUME RingFits, next' = next, ring' = ring, st'.WritePtr = st.WritePtr, st'.ReadPtr = st.ReadPtr,
           st'.Streamed = st.Streamed, st'.lsn = st.lsn,
           pc'["cl"] = "dma" => pc["cl"] = "dma" /\ call' = call
    PROVE  RingFits'
  BY DEF RingFits

(* The ring, taken from: the game gets the next n sectors.                 *)
LEMMA FitsTaken ==
    ASSUME RingTypes, RingFits, NEW n \in Nat, n <= st.Streamed, Take(n, Pos(st.ReadPtr + n)), ring' = ring,
           pc'["cl"] # "dma"
    PROVE  RingFits'
<1> DEFINE R == st.ReadPtr
           S == st.Streamed
<1>1. R \in Nat /\ R < StBufmax /\ S \in Nat /\ S <= StBufmax /\ StBufmax \in Nat /\ next \in Nat
  BY RingShape DEF RingFits, RingTypes
<1>2. /\ st'.WritePtr = st.WritePtr /\ st'.lsn = st.lsn /\ st'.ReadPtr = Pos(R + n)
      /\ st'.Streamed = S - n /\ next' = next + n
  BY DEF Take, RingTypes
<1>3. /\ Pos(Pos(R + n) + (S - n)) = Pos(R + S)
      /\ \A i \in 0 .. S - n - 1 : Pos(Pos(R + n) + i) = Pos(R + (n + i)) /\ n + i \in 0 .. S - 1
  BY <1>1, RestFollows
<1>4. st.WritePtr = Pos(R + S) /\ st.lsn = next + S
      /\ \A i \in 0 .. S - 1 : ring[Pos(R + i)] \in {next + i, Bad}
  BY DEF RingFits
<1> HIDE DEF R, S
<1>5. ASSUME NEW i \in 0 .. S - n - 1 PROVE ring[Pos(Pos(R + n) + i)] \in {(next + n) + i, Bad}
  <2>1. ring[Pos(R + (n + i))] \in {next + (n + i), Bad} /\ Pos(Pos(R + n) + i) = Pos(R + (n + i))
    BY <1>3, <1>4
  <2> QED
    BY <1>1, <2>1
<1>6. S - n \in 0 .. StBufmax /\ st.lsn = (next + n) + (S - n)
  BY <1>1, <1>4 DEF S
<1> QED
  BY <1>2, <1>3, <1>4, <1>5, <1>6 DEF RingFits

(* The ring, written to: only the free bank at StWritePtr changes.         *)
LEMMA FitsWritten ==
    ASSUME RingTypes, RingFits, Room, st' = st, next' = next, call' = call, pc'["cl"] = pc["cl"],
           \A i \in 0 .. StBufmax - 1 : i \notin st.WritePtr .. st.WritePtr + StBanksize - 1 => ring'[i] = ring[i]
    PROVE  RingFits'
<1>1. /\ st.ReadPtr \in Nat /\ st.ReadPtr < StBufmax /\ st.Streamed \in Nat /\ st.Streamed + StBanksize <= StBufmax
      /\ st.WritePtr + StBanksize <= StBufmax /\ st.WritePtr = Pos(st.ReadPtr + st.Streamed)
  BY RingShape DEF RingFits, RingTypes, Room
<1>2. \A i \in 0 .. st.Streamed - 1 : ring'[Pos(st.ReadPtr + i)] = ring[Pos(st.ReadPtr + i)]
  BY <1>1, Apart
<1> QED
  BY <1>2 DEF RingFits

(* What the ring holds is what the game is owed.                           *)
LEMMA FitsStep ==
    ASSUME DriveInv, RingTypes, SyncIsQuiet, Good, Good', OneRead, BankIsFree, RingFits, Next, ~StartBegin
    PROVE  RingFits'
<1>0. /\ DOMAIN pc = Ids /\ Stm0Callback \in BOOLEAN
      /\ st \in [WritePtr : Banks, ReadPtr : 0 .. StBufmax - 1, Streamed : Int, IsReading : BOOLEAN, Stat : BOOLEAN, lsn : Nat]
      /\ "stale" \notin seen /\ "foreign" \notin seen' /\ "stale" \notin seen'
      /\ StBanksize \in Nat /\ StBufmax \in Nat
      /\ RingFits /\ (pc["cl"] = "dma" => call.n <= st.Streamed /\ call.ptr = Pos(st.ReadPtr + call.n))
      /\ Busy => sync_flag
      /\ ~(rthread_sema /\ pc["rd"] = "reading")
  BY RingShape DEF DriveInv, DriveTypes, RingTypes, LockInv, Good, RingFits
<1>1. ASSUME ReadBegin PROVE RingFits'
  <2>1. st' = st /\ next' = next /\ call' = call /\ pc'["cl"] = pc["cl"]
    BY <1>0, <1>1 DEF ReadBegin, Goto, Ids, hist
  <2>2. ring' = Put(request, [i \in DOMAIN ring |-> Junk]) /\ rthread_sema
    BY <1>1 DEF ReadBegin
  <2>3. CASE request.by = "st"
    <3>1. request.ptr = st.WritePtr /\ Room
      BY <2>2, <2>3 DEF BankIsFree, Requested, IsNext
    <3>2. \A i \in 0 .. StBufmax - 1 : i \notin st.WritePtr .. st.WritePtr + StBanksize - 1 => ring'[i] = ring[i]
      BY <2>2, <3>1 DEF Put, BankOf, RingTypes
    <3> QED
      BY <2>1, <3>1, <3>2, FitsWritten
  <2>4. CASE request.by # "st"
    <3>1. ring' = ring
      BY <2>2, <2>4 DEF Put, RingTypes
    <3> QED
      BY <2>1, <3>1, FitsUntouched
  <2> QED
    BY <2>3, <2>4
<1>2. ASSUME ReadSignal PROVE RingFits'
  BY <1>0, FitsUntouched, <1>2 DEF ReadSignal, Goto, Ids, drive, hist
<1>3. ASSUME StmCallback PROVE RingFits'
  <2>1. pc["rd"] = "callback" /\ ring' = ring /\ next' = next /\ call' = call /\ pc'["cl"] = pc["cl"]
    BY <1>0, <1>3 DEF StmCallback, Goto, Ids
  <2>2. CASE ~st.IsReading
    <3>1. st' = st
      BY <2>2, <1>3 DEF StmCallback
    <3> QED
      BY <2>1, <3>1, FitsUntouched
  <2>3. CASE st.IsReading
    <3>1. UnderWay
      BY <1>0, <2>1, <2>3, <1>3 DEF StmCallback, UnderWay
    <3>2. Room /\ \A j \in 0 .. StBanksize - 1 : ring[st.WritePtr + j] \in {st.lsn + j, Bad}
      BY <2>1, <3>1 DEF BankIsFree
    <3> DEFINE R == st.ReadPtr
               S == st.Streamed
               W == st.WritePtr
    <3>3. /\ R \in Nat /\ R < StBufmax /\ S \in Nat /\ S + StBanksize <= StBufmax
          /\ W \in Nat /\ W + StBanksize <= StBufmax /\ next \in Nat
      <4>1. R \in Nat /\ R < StBufmax
        BY <1>0
      <4>2. S \in Nat /\ S + StBanksize <= StBufmax
        BY <1>0, <3>2 DEF RingFits, Room
      <4>3. W \in Nat /\ W + StBanksize <= StBufmax
        BY <1>0, RingShape
      <4> QED
        BY <4>1, <4>2, <4>3 DEF RingTypes
    <3>4. /\ W = Pos(R + S) /\ st.lsn = next + S
          /\ \A i \in 0 .. S - 1 : ring[Pos(R + i)] \in {next + i, Bad}
      BY DEF RingFits
    <3>5. /\ st'.ReadPtr = R /\ st'.Streamed = S + StBanksize /\ st'.lsn = st.lsn + StBanksize
          /\ st'.WritePtr = Wrap(W + StBanksize)
      BY <1>0, <2>3, <1>3 DEF StmCallback, Wrap
    <3> HIDE DEF R, S, W
    <3>6. /\ Pos(R + (S + StBanksize)) = Wrap(W + StBanksize)
          /\ \A i \in S .. S + StBanksize - 1 : i - S \in 0 .. StBanksize - 1 /\ Pos(R + i) = W + (i - S)
      BY <3>3, <3>4, BankFollows
    <3>7. ASSUME NEW i \in 0 .. (S + StBanksize) - 1 PROVE ring[Pos(R + i)] \in {next + i, Bad}
      <4>1. CASE i < S
        BY <1>0, <3>3, <3>4, <4>1
      <4>2. CASE i >= S
        <5>1. i \in S .. S + StBanksize - 1
          BY <1>0, <3>3, <4>2
        <5>2. ring[W + (i - S)] \in {st.lsn + (i - S), Bad}
          BY <3>2, <3>6, <5>1 DEF W
        <5>3. st.lsn + (i - S) = next + i
          BY <1>0, <3>3, <3>4
        <5> QED
          BY <3>6, <5>1, <5>2, <5>3
      <4> QED
        BY <3>3, <4>1, <4>2
    <3>8. S + StBanksize \in 0 .. StBufmax /\ st.lsn + StBanksize = next + (S + StBanksize)
      BY <1>0, <3>3, <3>4
    <3>9. pc["cl"] = "dma" => call.n <= S + StBanksize /\ call.ptr = Pos(R + call.n)
      BY <1>0, <3>3 DEF S, R, RingTypes
    <3> QED
      BY <2>1, <3>5, <3>6, <3>7, <3>8, <3>9 DEF RingFits
  <2> QED
    BY <1>0, <2>2, <2>3
<1>4. ASSUME NEW ok \in BOOLEAN, ReadEnd(ok) PROVE RingFits'
  <2> DEFINE f == [i \in DOMAIN ring |-> IF ok THEN reading.lsn + i - reading.ptr ELSE Bad]
  <2>1. st' = st /\ next' = next /\ call' = call /\ pc'["cl"] = pc["cl"]
    BY <1>0, <1>4 DEF ReadEnd, Goto, Ids
  <2>2. ring' = Put(reading, f) /\ pc["rd"] = "reading"
    BY <1>4 DEF ReadEnd
  <2> HIDE DEF f
  <2>3. CASE reading.by = "st"
    <3>1. reading.ptr = st.WritePtr /\ Room
      BY <2>2, <2>3 DEF BankIsFree, UnderWay, IsNext
    <3>2. \A i \in 0 .. StBufmax - 1 : i \notin st.WritePtr .. st.WritePtr + StBanksize - 1 => ring'[i] = ring[i]
      BY <2>2, <3>1 DEF Put, BankOf, RingTypes
    <3> QED
      BY <2>1, <3>1, <3>2, FitsWritten
  <2>4. CASE reading.by # "st"
    <3>1. ring' = ring
      BY <2>2, <2>4 DEF Put, RingTypes
    <3> QED
      BY <2>1, <3>1, FitsUntouched
  <2> QED
    BY <2>3, <2>4
<1>5. ASSUME FillCheck("rd") PROVE RingFits'
  BY <1>0, FitsUntouched, <1>5 DEF FillCheck, Return, Goto, Ids, drive, hist
<1>6. ASSUME FillStart("rd") PROVE RingFits'
  BY <1>0, FitsUntouched, <1>6 DEF FillStart, Return, AsyncRead, Goto, Ids,
     drive, hist
<1>7. ASSUME FillUndo("rd") PROVE RingFits'
  BY <1>0, FitsUntouched, <1>7 DEF FillUndo, Return, Goto, Ids, drive, hist
<1>8. ASSUME FillResched("rd") PROVE RingFits'
  BY <1>0, FitsUntouched, <1>8 DEF FillResched, Return, Goto, Ids, drive, hist
<1>9. ASSUME StmScheduleCb PROVE RingFits'
  BY <1>0, FitsUntouched, <1>9 DEF StmScheduleCb, AsyncRead, Goto, Ids, drive, hist
<1>10. ASSUME event_alarm_cb PROVE RingFits'
  BY <1>0, FitsUntouched, <1>10 DEF event_alarm_cb, Goto, Ids, drive, hist
<1>11. ASSUME HaltCancel PROVE RingFits'
  BY <1>0, FitsUntouched, <1>11 DEF HaltCancel, Goto, Ids, drive, hist
<1>12. ASSUME HaltReset PROVE RingFits'
  <2>1. call.op = "pause"
    BY <1>0, <1>12 DEF HaltReset, Good, StReset
  <2>2. st'.WritePtr = st.WritePtr /\ st'.lsn = st.lsn /\ st'.Streamed = st.Streamed
    BY <1>0, <2>1, <1>12 DEF HaltReset
  <2>3. pc'["rd"] = pc["rd"] /\ pc'["cl"] = "sync"
    BY <1>0, <1>12 DEF HaltReset, Goto, Ids
  <2>4. next' = next /\ ring' = ring /\ st'.ReadPtr = st.ReadPtr
    BY <1>0, <2>1, <1>12 DEF HaltReset, hist
  <2> QED
    BY <2>2, <2>3, <2>4, FitsUntouched
<1>13. ASSUME StartBegin PROVE RingFits'
  BY <1>13
<1>14. ASSUME ReadWait PROVE RingFits'
  BY <1>0, FitsUntouched, <1>14 DEF ReadWait, Goto, Ids, drive, hist
<1>15. ASSUME ReadSectors PROVE RingFits'
  <2>1. /\ call.left \in Nat /\ Copied(call.left) \in Nat /\ Copied(call.left) <= st.Streamed
        /\ CopiedTo(call.left) = Pos(st.ReadPtr + Copied(call.left))
    BY <1>0, CopyStays, CopyFits DEF RingTypes, RingFits
  <2>2. Take(Copied(call.left), Pos(st.ReadPtr + Copied(call.left))) /\ ring' = ring
    BY <2>1, <1>15 DEF ReadSectors
  <2>3. pc'["cl"] # "dma"
    BY <1>0, <1>15 DEF ReadSectors, Goto, Ids
  <2> QED
    BY <2>1, <2>2, <2>3, FitsTaken
<1>16. ASSUME ReadSectorsEE PROVE RingFits'
  <2>1. /\ call.left \in Nat /\ Copied(call.left) \in Nat /\ Copied(call.left) <= st.Streamed
        /\ CopiedTo(call.left) = Pos(st.ReadPtr + Copied(call.left))
    BY <1>0, CopyStays, CopyFits DEF RingTypes, RingFits
  <2>2. st' = st /\ ring' = ring /\ next' = next
    BY <1>16 DEF ReadSectorsEE, hist
  <2>3. pc'["cl"] = "dma" => call'.n = Copied(call.left) /\ call'.ptr = CopiedTo(call.left)
    BY <1>0, <1>16 DEF ReadSectorsEE, Goto, Ids, RingTypes
  <2> QED
    BY <2>1, <2>2, <2>3 DEF RingFits
<1>17. ASSUME TransferDone PROVE RingFits'
  <2>1. call.n \in Nat /\ call.n <= st.Streamed /\ call.ptr = Pos(st.ReadPtr + call.n)
    BY <1>0, <1>17 DEF TransferDone, RingTypes
  <2>2. Take(call.n, Pos(st.ReadPtr + call.n)) /\ ring' = ring
    BY <2>1, <1>17 DEF TransferDone
  <2>3. pc'["cl"] # "dma"
    BY <1>0, <1>17 DEF TransferDone, Goto, Ids
  <2> QED
    BY <2>1, <2>2, <2>3, FitsTaken
<1>18. ASSUME Quiet, FillCheck("cl") PROVE RingFits'
  BY <1>0, FitsUntouched, <1>18 DEF FillCheck, Return, Goto, Ids, drive, hist
<1>19. ASSUME Quiet, FillStart("cl") PROVE RingFits'
  BY <1>0, FitsUntouched, <1>19 DEF FillStart, Return, AsyncRead, Goto, Ids,
     drive, hist
<1>20. ASSUME Quiet, FillUndo("cl") PROVE RingFits'
  BY <1>0, FitsUntouched, <1>20 DEF FillUndo, Return, Goto, Ids, drive, hist
<1>21. ASSUME Quiet, FillResched("cl") PROVE RingFits'
  BY <1>0, FitsUntouched, <1>21 DEF FillResched, Return, Goto, Ids, drive, hist
<1>22. ASSUME Quiet, SyncTest("cl", AfterSync) PROVE RingFits'
  BY <1>0, FitsUntouched, <1>22 DEF SyncTest, AfterSync, Goto, Ids, drive, hist
<1>23. ASSUME Quiet, SyncWake("cl") PROVE RingFits'
  BY <1>0, FitsUntouched, <1>23 DEF SyncWake, Goto, Ids, drive, hist
<1>24. ASSUME NEW l \in Lsns, sceCdStStart(l) PROVE RingFits'
  BY <1>0, FitsUntouched, <1>24 DEF sceCdStStart, Enter, NoCall, Goto, Ids,
     drive, hist
<1>25. ASSUME NEW l \in Lsns, sceCdStSeek(l) PROVE RingFits'
  BY <1>0, FitsUntouched, <1>25 DEF sceCdStSeek, sceCdStStart, Enter, NoCall,
     Goto, Ids, drive, hist
<1>26. ASSUME sceCdStStop PROVE RingFits'
  BY <1>0, FitsUntouched, <1>26 DEF sceCdStStop, Halt, Enter, NoCall, Goto, Ids,
     drive, hist
<1>27. ASSUME sceCdStPause PROVE RingFits'
  BY <1>0, FitsUntouched, <1>27 DEF sceCdStPause, Halt, Enter, NoCall, Goto,
     Ids, drive, hist
<1>28. ASSUME sceCdStResume PROVE RingFits'
  BY <1>0, FitsUntouched, <1>28 DEF sceCdStResume, Enter, NoCall, Goto, Ids,
     drive, hist
<1>29. ASSUME NEW n \in Sizes, NEW to \in {"ee", "iop"}, sceCdStRead(n, to) PROVE RingFits'
  BY <1>0, FitsUntouched, <1>29 DEF sceCdStRead, Enter, NoCall, Goto, Ids,
     drive, hist
<1>30. ASSUME CommandEvent PROVE RingFits'
  BY <1>0, FitsUntouched, <1>30 DEF CommandEvent, Goto, Ids, drive, hist
<1>31. ASSUME CommandSignal PROVE RingFits'
  BY <1>0, FitsUntouched, <1>31 DEF CommandSignal, Goto, Ids, drive, hist
<1>32. ASSUME Quiet, SyncTest("gm", "idle") PROVE RingFits'
  BY <1>0, FitsUntouched, <1>32 DEF SyncTest, Goto, Ids, drive, hist
<1>33. ASSUME Quiet, SyncWake("gm") PROVE RingFits'
  BY <1>0, FitsUntouched, <1>33 DEF SyncWake, Goto, Ids, drive, hist
<1>34. ASSUME sceCdRead PROVE RingFits'
  BY <1>0, FitsUntouched, <1>34 DEF sceCdRead, Play, AsyncRead, Goto, Ids,
     drive, hist
<1>35. ASSUME NEW b \in BOOLEAN, sceCdCallback(b) PROVE RingFits'
  BY <1>0, FitsUntouched, <1>35 DEF sceCdCallback, Play, Goto, Ids, drive, hist
<1>36. ASSUME NEW b \in BOOLEAN, Command(b) PROVE RingFits'
  BY <1>0, FitsUntouched, <1>36 DEF Command, Play, Goto, Ids, drive, hist
<1>37. ASSUME FALSE PROVE RingFits'
  BY <1>0, FitsUntouched, <1>37 DEF Goto, Ids, drive, hist
<1> QED
  BY <1>1, <1>2, <1>3, <1>4, <1>5, <1>6, <1>7, <1>8, <1>9, <1>10, <1>11, <1>12,
     <1>13, <1>14, <1>15, <1>16, <1>17, <1>18, <1>19, <1>20, <1>21, <1>22,
     <1>23, <1>24, <1>25, <1>26, <1>27, <1>28, <1>29, <1>30, <1>31, <1>32,
     <1>33, <1>34, <1>35, <1>36, <1>37 DEF Next, Reader, Alarm, ClientStep,
     Client, GameStep, Game, Fill

(* The ring of sceCdStInit, before the first stream.                       *)
LEMMA RingInit == Init => RingInv /\ FillInv
<1> SUFFICES ASSUME Init PROVE RingInv /\ FillInv
  OBVIOUS
<1>1. pc["rd"] = "wait" /\ pc["cl"] = "idle" /\ ~st.Stat /\ ~st.IsReading /\ ~Stm0Callback
  BY DEF Init, Ids
<1>2. 0 \in Banks /\ StBufmax \in Nat /\ 0 \in 0 .. StBufmax - 1
  BY RingShape
<1>3. RingTypes
  BY <1>2 DEF Init, RingTypes, NoRead, NoCall, Junk
<1>4. SyncIsQuiet /\ ~Good
  BY <1>1 DEF SyncIsQuiet, Good
<1>5. FillInv
  BY <1>1 DEF FillInv, StreamIsFilledUndisturbed
<1> QED
  BY <1>3, <1>4, <1>5 DEF RingInv

(* Every step of every thread and alarm keeps the ring and the stream.     *)
LEMMA RingStep ==
    ASSUME DriveInv, RingInv, FillInv, [Next]_vars
    PROVE  RingInv' /\ FillInv'
<1>1. RingTypes /\ SyncIsQuiet
  BY DEF RingInv
<1>2. RingTypes' /\ FillInv'
  BY <1>1, TypesStep, FillStep
<1>3. DOMAIN call = DOMAIN NoCall
  BY <1>1 DEF RingTypes, NoCall
<1>4. SyncIsQuiet'
  BY <1>1, <1>3, SyncStep
<1>5. ASSUME Good' PROVE OneRead' /\ BankIsFree' /\ RingFits'
  <2>1. CASE StartBegin
    BY <1>1, <1>5, <2>1, StartsWell
  <2>2. CASE Next /\ ~StartBegin
    <3>1. Good
      BY <1>5, <2>2, GoodBack
    <3>2. OneRead /\ BankIsFree /\ RingFits
      BY <3>1 DEF RingInv
    <3> QED
      BY <1>1, <1>5, <2>2, <3>1, <3>2, OneStep, BankStep, FitsStep
  <2>3. CASE UNCHANGED vars
    <3>1. OneRead /\ BankIsFree /\ RingFits
      BY <1>5, <2>3 DEF RingInv, Good, vars, hist
    <3>2. OneRead'
      BY <2>3, <3>1 DEF vars, drive, hist, OneRead, Requested, UnderWay, AtFill
    <3>3. BankIsFree'
      BY <2>3, <3>1 DEF vars, drive, hist, BankIsFree, Requested, UnderWay,
         IsNext, Room
    <3>4. RingFits'
      BY <2>3, <3>1 DEF vars, hist, RingFits
    <3> QED
      BY <3>2, <3>3, <3>4
  <2> QED
    BY <2>1, <2>2, <2>3
<1> QED
  BY <1>2, <1>4, <1>5 DEF RingInv

(* The ring and the stream are in order in every state.                    *)
THEOREM RingInvariance == Spec => [](RingInv /\ FillInv)
<1>1. DriveInv /\ RingInv /\ FillInv /\ [Next]_vars => RingInv' /\ FillInv'
  BY RingStep
<1> QED
  BY <1>1, RingInit, DriveInvariance, PTL DEF Spec

(* The game gets every sector of its stream once and in order, and none    *)
(* that the drive has not read or is writing again, for any size of the    *)
(* ring and however reads, pauses, seeks and other reads interleave; what  *)
(* a misplaced command or a read counted for the stream does is left out.  *)
THEOREM StreamIsRight == Spec => []RingHoldsStream
<1>1. RingInv => RingHoldsStream
  <2> SUFFICES ASSUME RingInv, Good PROVE RingHoldsStream
    BY DEF Good, RingHoldsStream
  <2>1. RingFits /\ st.ReadPtr \in 0 .. StBufmax - 1 /\ StBufmax \in Nat
    BY RingShape DEF RingInv, RingTypes
  <2>2. ASSUME NEW i \in 0 .. st.Streamed - 1
        PROVE  ring[(st.ReadPtr + i) % StBufmax] \in {next + i, Bad}
    <3>1. st.ReadPtr + i \in Nat /\ st.ReadPtr + i < 2 * StBufmax
      BY <2>1 DEF RingFits
    <3>2. (st.ReadPtr + i) % StBufmax = Pos(st.ReadPtr + i)
      BY <3>1, PosIsRemainder
    <3> QED
      BY <2>1, <3>2 DEF RingFits
  <2> QED
    BY <2>1, <2>2 DEF RingFits, RingHoldsStream
<1> QED
  BY <1>1, RingInvariance, PTL

(* While a stream plays and a bank is free, somebody is filling it or will *)
(* be called to: the retry of a request refused by a busy drive is never   *)
(* lost, except when a paused stream was read or a command was misplaced.  *)
THEOREM StreamStaysFilled == Spec => []StreamIsFilledUndisturbed
<1>1. FillInv => StreamIsFilledUndisturbed
  BY DEF FillInv
<1> QED
  BY <1>1, RingInvariance, PTL
=============================================================================
