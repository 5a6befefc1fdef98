------------------------------ MODULE CdStream ------------------------------
(***************************************************************************)
(* The emulated disc drive a game runs on: the lock and the reading thread *)
(* of cdvdman (modules/iopcore/cdvdman/cdvdman.c, ncmd.c) and the streaming*)
(* service built on them (streaming.c).                                    *)
(*                                                                         *)
(* Three threads of the I/O processor take part.                           *)
(*   rd  the reading thread of cdvdman, of priority 0x0f                   *)
(*   cl  the thread that serves the streaming calls of the game (the RPC   *)
(*       thread of cdvdfsv, of priority 0x51, or a thread of the game)     *)
(*   gm  a thread of the game that reads the disc by itself                *)
(* The priorities are strict and rd has the highest: cl and gm run only    *)
(* while rd waits, for a request or for the device (Quiet).  The order in  *)
(* which cl and gm run is not known, so any step of one may fall between   *)
(* two steps of the other.  The alarms are interrupts, which may come      *)
(* between any two steps and are atomic, as everything between             *)
(* CpuSuspendIntr and CpuResumeIntr is.                                    *)
(***************************************************************************)
EXTENDS Integers, FiniteSets

CONSTANTS
    bankmax,     \* sceCdStInit: banks of the ring
    bufmax,      \* sceCdStInit: sectors the game gives to the ring
    Lsns,        \* sectors a stream may start at
    Sizes,       \* how many sectors one sceCdStRead may ask for
    MaxCalls,    \* bound: streaming calls
    MaxGame,     \* bound: calls of the thread gm
    MaxFails     \* bound: reads the device fails

ASSUME CdStreamAssumption ==
    /\ bankmax \in Nat \ {0}
    /\ bufmax \in Nat /\ bufmax >= bankmax
    /\ Lsns \subseteq Nat
    /\ Sizes \subseteq Nat \ {0}
    /\ {MaxCalls, MaxGame, MaxFails} \subseteq Nat

Junk == -1       \* a sector of the ring that is being overwritten, or never was written
Bad  == -2       \* a sector whose read the device failed
Ids  == {"rd", "cl", "gm"}
NoRead == [by |-> "none", lsn |-> 0, ptr |-> 0]
NoCall == [op |-> "none", lsn |-> 0, left |-> 0, to |-> "ee", ptr |-> 0, n |-> 0]

VARIABLES
    sync_flag,     \* the drive is busy
    intr_ef,       \* bits 1 (drive ready) and 8 (data for the stream) of the event flag
    request,       \* cdread_lba, cdread_buf of the next read, and whose it is
    rthread_sema,  \* cdrom_rthread_sema
    reading,       \* the parameters of the read under way
    Stm0Callback,  \* the streaming callback is set
    user_cb,       \* the game registered a callback
    alarms,        \* pending alarms: "stm" (StmScheduleCb), "event" (event_alarm_cb)
    st,            \* cdvdman_stat.StreamingData
    ring,          \* what each sector of the ring holds
    pc,            \* where each thread is
    bank,          \* local of StFillStreamBuffer: where to write
    call,          \* locals of the streaming call under way
    count,         \* calls and failures so far, against the bounds
    next,          \* history: the sector the stream owes the game next
    seen           \* history: the hazards this behaviour has met

drive == <<sync_flag, intr_ef, request, rthread_sema>>
hist  == <<next, seen>>
vars == <<drive, reading, Stm0Callback, user_cb, alarms, st, ring, pc, bank,
          call, count, hist>>

----------------------------------------------------------------------------
(* The shape of the ring, from sceCdStInit.                                *)

StBanksize == bufmax \div bankmax
StBufmax == StBanksize * bankmax

StReset == [st EXCEPT !.WritePtr = 0, !.ReadPtr = 0, !.Streamed = 0,
                      !.IsReading = FALSE]

Init ==
    /\ sync_flag = FALSE
    /\ intr_ef = {1}
    /\ request = NoRead
    /\ rthread_sema = FALSE
    /\ reading = NoRead
    /\ Stm0Callback = FALSE
    /\ user_cb \in BOOLEAN
    /\ alarms = {}
    /\ st = [WritePtr |-> 0, ReadPtr |-> 0, Streamed |-> 0,
             IsReading |-> FALSE, Stat |-> FALSE, lsn |-> 0]
    /\ ring = [i \in 0 .. StBufmax - 1 |-> Junk]
    /\ pc = [p \in Ids |-> IF p = "rd" THEN "wait" ELSE "idle"]
    /\ bank = [p \in {"rd", "cl"} |-> 0]
    /\ call = NoCall
    /\ count = [calls |-> 0, game |-> 0, fails |-> 0]
    /\ next = 0
    /\ seen = {}

(* The reading thread is waiting, so a thread below it may run.            *)
Quiet == pc["rd"] = "reading" \/ (pc["rd"] = "wait" /\ ~rthread_sema)

Goto(p, l) == pc' = [pc EXCEPT ![p] = l]

----------------------------------------------------------------------------
(* The lock of the drive.                                                  *)

(* Mutant: cdvdman_common_lock does not look at sync_flag.                 *)
AsyncReadUnlocked(r) ==
    /\ sync_flag' = TRUE
    /\ intr_ef' = intr_ef \ {1}
    /\ request' = r
    /\ rthread_sema' = TRUE

(* cdvdman_AsyncRead with cdvdman_common_lock.  SignalSema follows the     *)
(* locked section at once; nothing can replace the request between them    *)
(* while sync_flag is set.                                                 *)
AsyncRead(r) ==
    /\ ~sync_flag
    /\ sync_flag' = TRUE
    /\ intr_ef' = intr_ef \ {1}
    /\ request' = r
    /\ rthread_sema' = TRUE

(* sceCdSync(0): a thread tests sync_flag, sleeps on the event flag and    *)
(* tests again.                                                            *)
SyncTest(p, after) ==
    /\ pc[p] = "sync"
    /\ Goto(p, IF sync_flag THEN "waitef" ELSE after)
    /\ call' = IF p = "cl" /\ pc'[p] = "idle" THEN NoCall ELSE call
    /\ UNCHANGED <<drive, reading, Stm0Callback, user_cb, alarms, st, ring,
                   bank, count, hist>>

SyncWake(p) ==
    /\ pc[p] = "waitef"
    /\ 1 \in intr_ef
    /\ Goto(p, "sync")
    /\ UNCHANGED <<drive, reading, Stm0Callback, user_cb, alarms, st, ring,
                   bank, call, count, hist>>

----------------------------------------------------------------------------
(* StStartFillStreamBuffer and StFillStreamBuffer, by rd and by cl.        *)

Room == StBufmax - st.Streamed >= StBanksize    \* AllocBank succeeds

Return(p) == IF p = "rd" THEN "wait" ELSE "idle"

(* The locked section: nothing to do while a bank is being read.           *)
FillCheck(p) ==
    /\ pc[p] = "fill"
    /\ \/ /\ st.IsReading
          /\ Goto(p, Return(p))
          /\ UNCHANGED <<alarms, st, bank>>
       \/ /\ ~st.IsReading
          /\ alarms' = alarms \ {"stm"}
          /\ st' = [st EXCEPT !.IsReading = TRUE]
          /\ bank' = [bank EXCEPT ![p] = IF Room THEN st.WritePtr ELSE 0]
          /\ Goto(p, IF Room THEN "start" ELSE "full")
    /\ UNCHANGED <<drive, reading, Stm0Callback, user_cb, ring, call, count, hist>>

(* The request, after the interrupts were enabled again.                   *)
FillStart(p) ==
    /\ pc[p] = "start"
    /\ \/ /\ AsyncRead([by |-> "st", lsn |-> st.lsn, ptr |-> bank[p]])
          /\ Goto(p, Return(p))
       \/ /\ sync_flag
          /\ Goto(p, "failed")
          /\ UNCHANGED drive
    /\ bank' = [bank EXCEPT ![p] = 0]
    /\ UNCHANGED <<reading, Stm0Callback, user_cb, alarms, st, ring, call,
                   count, hist>>

(* No bank is free, or the drive is busy: StIsReading is taken back.       *)
FillUndo(p) ==
    /\ pc[p] \in {"failed", "full"}
    /\ st' = [st EXCEPT !.IsReading = FALSE]
    /\ Goto(p, IF pc[p] = "failed" THEN "resched" ELSE Return(p))
    /\ UNCHANGED <<drive, reading, Stm0Callback, user_cb, alarms, ring, bank,
                   call, count, hist>>

(* Mutant: the failed request is not tried again.                          *)
FillReschedNever(p) ==
    /\ pc[p] = "resched"
    /\ Goto(p, Return(p))
    /\ UNCHANGED <<drive, reading, Stm0Callback, user_cb, alarms, st, ring, bank,
                   call, count, hist>>

(* The drive was busy: StStartFillStreamBuffer tries again by an alarm.    *)
FillResched(p) ==
    /\ pc[p] = "resched"
    /\ alarms' = alarms \cup {"stm"}
    /\ Goto(p, Return(p))
    /\ UNCHANGED <<drive, reading, Stm0Callback, user_cb, st, ring, bank, call,
                   count, hist>>

Fill(p) == FillCheck(p) \/ FillStart(p) \/ FillUndo(p) \/ FillResched(p)

----------------------------------------------------------------------------
(* The reading thread: cdvdman_cdread_Thread.                              *)

BankOf(r) == r.ptr .. r.ptr + StBanksize - 1

(* The ring after the bank of the read r was given what the function f     *)
(* says; a read of the game goes elsewhere.                                *)
Put(r, f) == [i \in DOMAIN ring |->
                 IF r.by = "st" /\ i \in BankOf(r) THEN f[i] ELSE ring[i]]

(* cdvdman_read begins: the sectors it writes no longer hold anything.     *)
(* Its parameters are forgotten: no read uses them again.                  *)
ReadBegin ==
    /\ pc["rd"] = "wait"
    /\ rthread_sema
    /\ rthread_sema' = FALSE
    /\ reading' = request
    /\ request' = NoRead
    /\ ring' = Put(request, [i \in DOMAIN ring |-> Junk])
    /\ Goto("rd", "reading")
    /\ UNCHANGED <<sync_flag, intr_ef, Stm0Callback, user_cb, alarms, st, bank,
                   call, count, hist>>

(* cdvdman_read returns, which it does with 1 whether or not the device    *)
(* could read; then the streaming callback, or cdvdman_cb_event, which     *)
(* leaves the drive busy until its alarm if the game has a callback.  That *)
(* a read of the game failed makes no difference here.                     *)
ReadEnd(ok) ==
    /\ pc["rd"] = "reading"
    /\ ok \/ (reading.by = "st" /\ count.fails < MaxFails)
    /\ count' = IF ok THEN count ELSE [count EXCEPT !.fails = @ + 1]
    /\ ring' = Put(reading, [i \in DOMAIN ring |->
                     IF ok THEN reading.lsn + i - reading.ptr ELSE Bad])
    /\ IF Stm0Callback \/ ~user_cb
          THEN /\ sync_flag' = FALSE
               /\ Goto("rd", IF Stm0Callback THEN "signalstm" ELSE "signal")
               /\ UNCHANGED alarms
          ELSE /\ alarms' = alarms \cup {"event"}
               /\ Goto("rd", "wait")
               /\ UNCHANGED sync_flag
    /\ reading' = IF Stm0Callback THEN reading ELSE NoRead
    /\ seen' = IF reading.by = "st" /\ st.IsReading /\ ~Stm0Callback
                  THEN seen \cup {"unheard"} ELSE seen
    /\ UNCHANGED <<intr_ef, request, rthread_sema, Stm0Callback, user_cb, st,
                   bank, call, next>>

(* Mutant: the end of a read sets only the bit of the stream.              *)
ReadSignalStreamOnly ==
    /\ pc["rd"] \in {"signal", "signalstm"}
    /\ intr_ef' = intr_ef \cup {8}
    /\ Goto("rd", IF pc["rd"] = "signalstm" /\ Stm0Callback
                     THEN "callback" ELSE "wait")
    /\ UNCHANGED <<sync_flag, request, rthread_sema, reading, Stm0Callback,
                   user_cb, alarms, st, ring, bank, call, count, hist>>

(* The second half of cdvdman_signal_read_end, and the second test of the  *)
(* streaming callback.                                                     *)
ReadSignal ==
    /\ pc["rd"] \in {"signal", "signalstm"}
    /\ intr_ef' = intr_ef \cup {1, 8}
    /\ Goto("rd", IF pc["rd"] = "signalstm" /\ Stm0Callback
                     THEN "callback" ELSE "wait")
    /\ UNCHANGED <<sync_flag, request, rthread_sema, reading, Stm0Callback,
                   user_cb, alarms, st, ring, bank, call, count, hist>>

(* A bank is counted if StIsReading says that the stream was reading.      *)
StmCallback ==
    /\ pc["rd"] = "callback"
    /\ st' = IF st.IsReading
                THEN [st EXCEPT !.lsn = @ + StBanksize,
                                !.Streamed = @ + StBanksize,
                                !.WritePtr = IF @ + StBanksize >= StBufmax
                                                THEN 0 ELSE @ + StBanksize,
                                !.IsReading = FALSE]
                ELSE st
    /\ seen' = IF st.IsReading /\ reading.by # "st"
                  THEN seen \cup {"foreign"} ELSE seen
    /\ reading' = NoRead
    /\ Goto("rd", "fill")
    /\ UNCHANGED <<drive, Stm0Callback, user_cb, alarms, ring, bank,
                   call, count, next>>

----------------------------------------------------------------------------
(* The alarms.                                                             *)

(* StmScheduleCb: StFillStreamBuffer in the interrupt.  While the drive is *)
(* busy it asks to be run again, which changes nothing.                    *)
StmScheduleCb ==
    /\ "stm" \in alarms
    /\ alarms' = alarms \ {"stm"}
    /\ \/ /\ st.IsReading \/ ~Room
          /\ UNCHANGED <<drive, st>>
       \/ /\ ~st.IsReading /\ Room
          /\ AsyncRead([by |-> "st", lsn |-> st.lsn, ptr |-> st.WritePtr])
          /\ st' = [st EXCEPT !.IsReading = TRUE]
    /\ UNCHANGED <<reading, Stm0Callback, user_cb, ring, pc, bank, call, count,
                   hist>>

(* event_alarm_cb: the drive is ready, and the game's callback runs.       *)
event_alarm_cb ==
    /\ "event" \in alarms
    /\ alarms' = alarms \ {"event"}
    /\ sync_flag' = FALSE
    /\ intr_ef' = intr_ef \cup {1, 8}
    /\ UNCHANGED <<request, rthread_sema, reading, Stm0Callback, user_cb, st,
                   ring, pc, bank, call, count, hist>>

----------------------------------------------------------------------------
(* The streaming calls.                                                    *)

Enter(c) ==
    /\ Quiet
    /\ pc["cl"] = "idle"
    /\ count.calls < MaxCalls
    /\ count' = [count EXCEPT !.calls = @ + 1]
    /\ call' = c

sceCdStStart(l) ==
    /\ Enter([NoCall EXCEPT !.op = "start", !.lsn = l])
    /\ Goto("cl", IF st.Stat THEN "cancel" ELSE "begin")
    /\ UNCHANGED <<drive, reading, Stm0Callback, user_cb, alarms, st, ring,
                   bank, hist>>

sceCdStSeek(l) == st.Stat /\ sceCdStStart(l)

(* sceCdStStop and sceCdStPause begin alike.                               *)
Halt(op) ==
    /\ st.Stat
    /\ Enter([NoCall EXCEPT !.op = op])
    /\ Goto("cl", "cancel")
    /\ UNCHANGED <<drive, reading, Stm0Callback, user_cb, alarms, st, ring,
                   bank, hist>>

sceCdStStop  == Halt("stop")
sceCdStPause == Halt("pause")

(* Mutant: the alarm is not cancelled.                                     *)
HaltCancelNothing ==
    /\ Quiet
    /\ pc["cl"] = "cancel"
    /\ Goto("cl", "halt")
    /\ UNCHANGED <<drive, reading, Stm0Callback, user_cb, alarms, st, ring, bank,
                   call, count, hist>>

(* CancelAlarm, before the interrupts are disabled.                        *)
HaltCancel ==
    /\ Quiet
    /\ pc["cl"] = "cancel"
    /\ alarms' = alarms \ {"stm"}
    /\ Goto("cl", "halt")
    /\ UNCHANGED <<drive, reading, Stm0Callback, user_cb, st, ring, bank, call,
                   count, hist>>

(* A pause keeps the ring; the stop resets it.  Both then wait for the     *)
(* drive with sceCdSync(0).                                                *)
HaltReset ==
    /\ Quiet
    /\ pc["cl"] = "halt"
    /\ Stm0Callback' = FALSE
    /\ st' = IF call.op = "pause" THEN [st EXCEPT !.IsReading = FALSE]
                                  ELSE [StReset EXCEPT !.Stat = FALSE]
    /\ Goto("cl", "sync")
    /\ UNCHANGED <<drive, reading, user_cb, alarms, ring, bank, call, count, hist>>

(* The rest of sceCdStStart, up to StStartFillStreamBuffer.                *)
StartBegin ==
    /\ Quiet
    /\ pc["cl"] = "begin"
    /\ st' = [StReset EXCEPT !.Stat = TRUE, !.lsn = call.lsn]
    /\ Stm0Callback' = TRUE
    /\ next' = call.lsn
    /\ call' = NoCall
    /\ Goto("cl", "fill")
    /\ UNCHANGED <<drive, reading, user_cb, alarms, ring, bank, count, seen>>

sceCdStResume ==
    /\ st.Stat
    /\ Enter(NoCall)
    /\ Stm0Callback' = TRUE
    /\ Goto("cl", "fill")
    /\ UNCHANGED <<drive, reading, user_cb, alarms, st, ring, bank, hist>>

(* sceCdStRead: the calls of the EE come through cdvdfsv, which never asks *)
(* to wait (mode 0); those of the IOP here wait for all the sectors.       *)
sceCdStRead(n, to) ==
    /\ st.Stat
    /\ Enter([NoCall EXCEPT !.op = "read", !.left = n, !.to = to])
    /\ intr_ef' = intr_ef \cup {8}
    /\ Goto("cl", "wait8")
    /\ UNCHANGED <<sync_flag, request, rthread_sema, reading, Stm0Callback,
                   user_cb, alarms, st, ring, bank, hist>>

ReadWait ==
    /\ Quiet
    /\ pc["cl"] = "wait8"
    /\ 8 \in intr_ef
    /\ intr_ef' = intr_ef \ {8}
    /\ Goto("cl", "copy")
    /\ UNCHANGED <<sync_flag, request, rthread_sema, reading, Stm0Callback,
                   user_cb, alarms, st, ring, bank, call, count, hist>>

(* How far ReadSectors and ReadSectorsEE get with max sectors: up to the   *)
(* end of the ring if it is wrapped or full, then from its start.          *)
Least(a, b) == IF a < b THEN a ELSE b
Wrap(p) == IF p >= StBufmax THEN 0 ELSE p
Tail1Unchecked(max) == \* mutant: an empty ring is taken for a full one
    IF st.WritePtr <= st.ReadPtr THEN Least(StBufmax - st.ReadPtr, max) ELSE 0
Tail1(max) == IF st.WritePtr <= st.ReadPtr /\ st.Streamed > 0
                 THEN Least(StBufmax - st.ReadPtr, max) ELSE 0
Head2(max) == LET r == Wrap(st.ReadPtr + Tail1(max)) IN
              IF Tail1(max) < max /\ r < st.WritePtr
                 THEN Least(st.WritePtr - r, max - Tail1(max)) ELSE 0
Copied(max) == Tail1(max) + Head2(max)
CopiedTo(max) == Wrap(Wrap(st.ReadPtr + Tail1(max)) + Head2(max))

(* The sectors leave the ring.                                             *)
Take(n, to) == /\ st' = [st EXCEPT !.ReadPtr = to, !.Streamed = @ - n]
               /\ next' = next + n

(* In one locked section; the call then waits for the rest, or fills the   *)
(* ring and returns.                                                       *)
ReadSectors ==
    /\ Quiet
    /\ pc["cl"] = "copy" /\ call.to = "iop"
    /\ Take(Copied(call.left), CopiedTo(call.left))
    /\ call' = IF Copied(call.left) = call.left THEN NoCall
               ELSE [call EXCEPT !.left = @ - Copied(call.left)]
    /\ Goto("cl", IF Copied(call.left) = call.left THEN "fill" ELSE "wait8")
    /\ UNCHANGED <<drive, reading, Stm0Callback, user_cb, alarms, ring, bank,
                   count, seen>>

(* ReadSectorsEE: the transfer is set up with interrupts off ...           *)
ReadSectorsEE ==
    /\ Quiet
    /\ pc["cl"] = "copy" /\ call.to = "ee"
    /\ call' = IF Copied(call.left) = 0 THEN NoCall
               ELSE [call EXCEPT !.ptr = CopiedTo(call.left),
                                 !.n = Copied(call.left)]
    /\ Goto("cl", IF Copied(call.left) = 0 THEN "fill" ELSE "dma")
    /\ UNCHANGED <<drive, reading, Stm0Callback, user_cb, alarms, st, ring, bank,
                   count, hist>>

(* ... and the ring is told only when it is over.                          *)
TransferDone ==
    /\ Quiet
    /\ pc["cl"] = "dma"
    /\ Take(call.n, call.ptr)
    /\ Goto("cl", "fill")
    /\ call' = NoCall
    /\ UNCHANGED <<drive, reading, Stm0Callback, user_cb, alarms, ring, bank,
                   count, seen>>

----------------------------------------------------------------------------
(* The game's own use of the drive.                                        *)

Play ==
    /\ Quiet
    /\ pc["gm"] = "idle"
    /\ count.game < MaxGame
    /\ count' = [count EXCEPT !.game = @ + 1]

(* sceCdRead and then sceCdSync(0).                                        *)
sceCdRead ==
    /\ Play
    /\ AsyncRead([by |-> "gm", lsn |-> 0, ptr |-> 0])
    /\ Goto("gm", "sync")
    /\ UNCHANGED <<reading, Stm0Callback, user_cb, alarms, st, ring, bank, call,
                   hist>>

(* sceCdCallback.                                                          *)
sceCdCallback(b) ==
    /\ Play
    /\ ~sync_flag
    /\ user_cb' = b
    /\ UNCHANGED <<drive, reading, Stm0Callback, alarms, st, ring, pc, bank, call,
                   hist>>

(* sceCdSeek, sceCdStop, sceCdPause, sceCdGetToc and sceCdBreak look at    *)
(* sync_flag; sceCdStandby does not.                                       *)
Command(checks) ==
    /\ Play
    /\ checks => ~sync_flag
    /\ Goto("gm", "event")
    /\ UNCHANGED <<drive, reading, Stm0Callback, user_cb, alarms, st, ring, bank,
                   call, hist>>

(* The cdvdman_cb_event that ends each of these commands.                  *)
CommandEvent ==
    /\ Quiet
    /\ pc["gm"] = "event"
    /\ IF user_cb
          THEN /\ alarms' = alarms \cup {"event"}
               /\ Goto("gm", "idle")
               /\ UNCHANGED sync_flag
          ELSE /\ sync_flag' = FALSE
               /\ Goto("gm", "signal")
               /\ UNCHANGED alarms
    /\ seen' = IF user_cb \/ sync_flag THEN seen \cup {"stale"} ELSE seen
    /\ UNCHANGED <<intr_ef, request, rthread_sema, reading, Stm0Callback, user_cb,
                   st, ring, bank, call, count, next>>

CommandSignal ==
    /\ Quiet
    /\ pc["gm"] = "signal"
    /\ intr_ef' = intr_ef \cup {1, 8}
    /\ Goto("gm", "idle")
    /\ UNCHANGED <<sync_flag, request, rthread_sema, reading, Stm0Callback, user_cb,
                   alarms, st, ring, bank, call, count, hist>>

----------------------------------------------------------------------------
Reader ==
    \/ ReadBegin \/ ReadSignal \/ StmCallback \/ Fill("rd")
    \/ \E ok \in BOOLEAN : ReadEnd(ok)

Alarm == StmScheduleCb \/ event_alarm_cb

AfterSync == IF call.op = "start" THEN "begin" ELSE "idle"

ClientStep ==
    \/ HaltCancel \/ HaltReset \/ StartBegin
    \/ ReadWait \/ ReadSectors \/ ReadSectorsEE \/ TransferDone
    \/ Quiet /\ (Fill("cl") \/ SyncTest("cl", AfterSync) \/ SyncWake("cl"))

Client ==
    \/ \E l \in Lsns : sceCdStStart(l) \/ sceCdStSeek(l)
    \/ sceCdStStop \/ sceCdStPause \/ sceCdStResume
    \/ \E n \in Sizes, to \in {"ee", "iop"} : sceCdStRead(n, to)

GameStep ==
    \/ CommandEvent \/ CommandSignal
    \/ Quiet /\ (SyncTest("gm", "idle") \/ SyncWake("gm"))

Game ==
    \/ sceCdRead
    \/ \E b \in BOOLEAN : sceCdCallback(b) \/ Command(b)

Next == Reader \/ Alarm \/ ClientStep \/ Client \/ GameStep \/ Game

Spec == Init /\ [][Next]_vars

----------------------------------------------------------------------------
(* The state is well formed: every pointer is inside the ring.             *)
TypeOK ==
    /\ sync_flag \in BOOLEAN /\ rthread_sema \in BOOLEAN
    /\ Stm0Callback \in BOOLEAN /\ user_cb \in BOOLEAN
    /\ intr_ef \subseteq {1, 8}
    /\ alarms \subseteq {"stm", "event"}
    /\ st \in [WritePtr : 0 .. StBufmax - 1, ReadPtr : 0 .. StBufmax - 1,
               Streamed : Nat, IsReading : BOOLEAN, Stat : BOOLEAN, lsn : Nat]
    /\ {request, reading} \subseteq [by : {"none", "st", "gm"}, lsn : Nat,
                                     ptr : 0 .. StBufmax - StBanksize]
    /\ \A i \in DOMAIN ring : ring[i] \in Nat \cup {Junk, Bad}

(* What sceCdStRead will deliver: the sectors the ring counts as streamed  *)
(* (StStreamed, StReadPtr) are those of the disc that follow what the game *)
(* had so far, unless the device failed to read them, and the next read of *)
(* the stream (Stlsn) goes on where they end.  There are never more of     *)
(* them than the ring holds, nor fewer than none, which is what a read     *)
(* beyond the streamed sectors would leave.  It holds through a transfer   *)
(* to the EE, so no bank is refilled while it is being sent.  A behaviour  *)
(* in which StmCallback counted a read of the game is left out.            *)
RingHoldsStream ==
    (st.Stat /\ seen \cap {"foreign", "stale"} = {}) =>
        /\ st.Streamed \in 0 .. StBufmax
        /\ st.lsn = next + st.Streamed
        /\ \A i \in 0 .. st.Streamed - 1 :
               ring[(st.ReadPtr + i) % StBufmax] \in {next + i, Bad}

(* The drive looks ready (sync_flag, sceCdSync) only when no read is       *)
(* requested or under way, whoever asked for it: the data of a read is     *)
(* there when sceCdSync(0) returns.                                        *)
ReadyMeansRead == ~sync_flag => ~rthread_sema /\ pc["rd"] # "reading"

(* ReadyMeansRead for games that issue no command with a callback          *)
(* registered or while another thread reads.                               *)
ReadyMeansReadUndisturbed == "stale" \notin seen => ReadyMeansRead

(* After sceCdStStop has returned the ring belongs to the game again: no   *)
(* read into it is requested or under way and no alarm will start one.     *)
StoppedIsQuiet ==
    (pc["cl"] = "idle" /\ ~st.Stat /\ "stale" \notin seen) =>
        /\ "stm" \notin alarms /\ ~st.IsReading
        /\ ~(rthread_sema /\ request.by = "st")
        /\ ~(pc["rd"] = "reading" /\ reading.by = "st")

(* A stream is not forgotten: between two calls, when the streaming        *)
(* callback is set and a bank is free, a read is coming or under way, or   *)
(* the alarm that tries again is set.  (Not for a game that reads a paused *)
(* stream: nobody hears the end of the read this starts, StIsReading stays *)
(* set, and the stream is not filled again before a stop, start or pause.  *)
(* Nor for one whose commands clear sync_flag during a read: another read  *)
(* may then take the place of the stream's.)                               *)
StreamIsFilledUndisturbed ==
    (pc["cl"] = "idle" /\ Stm0Callback /\ Room /\ seen \cap {"unheard", "stale"} = {}) =>
        "stm" \in alarms \/ rthread_sema \/ pc["rd"] # "wait"

(* A thread that waits for the drive is woken: the drive is busy only      *)
(* while a read is requested or under way or the alarm that ends it is     *)
(* pending, and once it is ready the bit of the event flag on which        *)
(* sceCdSync sleeps is set, or the thread that ended the read is about to. *)
WaitEnds ==
    /\ sync_flag => rthread_sema \/ pc["rd"] = "reading" \/ "event" \in alarms
    /\ 1 \notin intr_ef =>
           \/ sync_flag \/ pc["gm"] = "signal"
           \/ pc["rd"] \in {"signal", "signalstm"}
=============================================================================
