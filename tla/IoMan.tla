------------------------------- MODULE IoMan -------------------------------
(***************************************************************************)
(* The asynchronous I/O manager of the launcher: src/src/ioman.c.          *)
(*                                                                         *)
(* A worker thread ("io", priority 30) serves a singly linked list of      *)
(* requests.  The GUI thread ("gui", priority 31) and the handlers that    *)
(* the worker runs add requests; only the GUI thread removes requests,     *)
(* blocks the manager and ends it.  Two binary semaphores protect the      *)
(* list: gProcSemaId, held by the worker while it works through the list,  *)
(* and gEndSemaId, held while the list is linked or unlinked.              *)
(*                                                                         *)
(* EE threads are scheduled by strict priority without time slicing, so a  *)
(* step of the GUI thread is possible only while the worker is blocked:    *)
(* asleep, waiting for a semaphore, or inside a handler (which may wait    *)
(* for a device).  The worker may preempt the GUI thread anywhere.         *)
(***************************************************************************)
EXTENDS Naturals, Sequences, FiniteSets

CONSTANTS
    Types,       \* request types that have a handler
    DedupTypes,  \* IO_MENU_UPDATE_DEFFERED and IO_COMPAT_UPDATE_DEFFERED
    Data,        \* the data pointers given to requests
    Reqs,        \* addresses malloc can return for a request (bounds the heap)
    NULL,
    Garbage,     \* the contents of memory that is free or was just allocated
    MaxWakeups,  \* bound on the wakeups the kernel holds for the worker
    MaxNested    \* bound on the requests one run of a handler adds

ASSUME IoManAssumption ==
    /\ DedupTypes \subseteq Types
    /\ NULL \notin Reqs /\ Garbage \notin Reqs /\ NULL # Garbage
    /\ Garbage \notin Types /\ Garbage \notin Data
    /\ MaxWakeups \in Nat /\ MaxNested \in Nat

VARIABLES
    gReqList, gReqEnd,       \* head and tail of the list
    rtype, rdata, rnext,     \* the fields of struct io_request_t
    live,                    \* the requests that are allocated
    handlers,                \* the types in gRequestHandlers
    procSema, endSema,       \* the holder of each semaphore
    wakeups,                 \* wakeups pending for the worker
    isIOBlocked, gIOTerminate, isIORunning,
    pc,                      \* where each thread is
    arg,                     \* the (type, data) a thread is adding
    node,                    \* local req: the request a thread adds or visits
    served,                  \* local req of ioWorkerThread: the request being served
    nested,                  \* requests added by the handler that is running
    fifo,                    \* history: the requests in the list, in order
    owed                     \* history: pairs accepted and not yet started since

heap == <<gReqList, gReqEnd, rtype, rdata, rnext, live, fifo>>
semas == <<procSema, endSema>>
flags == <<isIOBlocked, gIOTerminate, isIORunning>>
locals == <<arg, node, served, nested>>
vars == <<heap, semas, flags, locals, handlers, wakeups, pc, owed>>

Threads == {"gui", "io"}
Free == "free"
Pair == [type: Types, data: Data \cup {NULL}]

GuiPC == {"idle", "reg_wait", "reg", "put_lock", "put_link", "put_fill", "put_wake",
          "rm_proc", "rm_end", "rm_walk", "blk_wait", "ended"}
IoPC == {"top", "sleep", "wait_proc", "loop", "handler", "put_lock",
         "put_link", "put_fill", "wait_end", "release", "drain", "dead"}

TypeOK ==
    /\ gReqList \in Reqs \cup {NULL} /\ gReqEnd \in Reqs \cup {NULL}
    /\ rtype \in [Reqs -> Types \cup {Garbage}]
    /\ rdata \in [Reqs -> Data \cup {NULL, Garbage}]
    /\ rnext \in [Reqs -> Reqs \cup {NULL, Garbage}]
    /\ live \subseteq Reqs /\ fifo \in Seq(Reqs)
    /\ handlers \subseteq Types
    /\ procSema \in Threads \cup {Free} /\ endSema \in Threads \cup {Free}
    /\ wakeups \in Nat
    /\ isIOBlocked \in BOOLEAN /\ gIOTerminate \in BOOLEAN /\ isIORunning \in BOOLEAN
    /\ pc \in [Threads -> GuiPC \cup IoPC]
    /\ pc["gui"] \in GuiPC /\ pc["io"] \in IoPC
    /\ arg \in [Threads -> Pair \cup {NULL}]
    /\ node \in [Threads -> Reqs \cup {NULL}]
    /\ served \in Reqs \cup {NULL}
    /\ nested \in Nat
    /\ owed \subseteq Pair

----------------------------------------------------------------------------
(* ioInit, up to its first ioRegisterHandler: the semaphores exist and the *)
(* list is empty.  The worker is created a little later, but it does       *)
(* nothing before the first WakeupThread.                                  *)
Init ==
    /\ gReqList = NULL /\ gReqEnd = NULL
    /\ rtype = [n \in Reqs |-> Garbage]
    /\ rdata = [n \in Reqs |-> Garbage]
    /\ rnext = [n \in Reqs |-> Garbage]
    /\ live = {} /\ fifo = <<>>
    /\ handlers = {}
    /\ procSema = Free /\ endSema = Free
    /\ wakeups = 0
    /\ isIOBlocked = FALSE /\ gIOTerminate = FALSE /\ isIORunning = TRUE
    /\ pc = [t \in Threads |-> IF t = "gui" THEN "idle" ELSE "top"]
    /\ arg = [t \in Threads |-> NULL]
    /\ node = [t \in Threads |-> NULL]
    /\ served = NULL /\ nested = 0 /\ owed = {}

(* Mutant: the worker has the priority of the GUI thread.                  *)
IoReadySamePriority == FALSE

(* The worker can go on: it has the higher priority, so the GUI thread is  *)
(* preempted.                                                              *)
IoReady ==
    \/ pc["io"] \in {"top", "loop", "put_link", "put_fill", "release", "drain"}
    \/ pc["io"] = "sleep" /\ wakeups > 0
    \/ pc["io"] = "wait_proc" /\ procSema \in {Free, "io"}
    \/ pc["io"] \in {"put_lock", "wait_end"} /\ endSema \in {Free, "io"}

(* The worker is between taking a request from the head of the list and    *)
(* unlinking it.                                                           *)
Serving == pc["io"] \in {"handler", "put_lock", "put_link", "put_fill", "wait_end"}

Goto(t, label) == pc' = [pc EXCEPT ![t] = label]
GuiStep(from) == ~IoReady /\ pc["gui"] = from
IoStep(from) == pc["io"] = from
Step(t, from) == IF t = "gui" THEN GuiStep(from) ELSE IoStep(from)

(* Where a thread calls ioPutRequest from, and returns to.                 *)
Caller(t) == IF t = "gui" THEN "idle" ELSE "handler"

(* SignalSema hands the semaphore to the thread that waits for it.         *)
Other(t) == IF t = "gui" THEN "io" ELSE "gui"
SignalProc(t) ==
    procSema' = IF pc[Other(t)] \in {"reg_wait", "rm_proc", "wait_proc"} THEN Other(t) ELSE Free
SignalEnd(t) ==
    endSema' = IF pc[Other(t)] \in {"put_lock", "rm_end", "wait_end"} THEN Other(t) ELSE Free

(* free: what the blocks held is gone (rnext is left to the caller).       *)
Release(ns) ==
    /\ live' = live \ ns
    /\ rtype' = [n \in Reqs |-> IF n \in ns THEN Garbage ELSE rtype[n]]
    /\ rdata' = [n \in Reqs |-> IF n \in ns THEN Garbage ELSE rdata[n]]

----------------------------------------------------------------------------
(* ioRegisterHandler.  Its callers register each type once, before they    *)
(* put the first request, so the error returns (which would keep           *)
(* gProcSemaId) are not taken.                                             *)
RegisterCall ==
    /\ GuiStep("idle")
    /\ handlers # Types
    /\ Goto("gui", "reg_wait")
    /\ UNCHANGED <<heap, semas, flags, locals, handlers, wakeups, owed>>

RegisterWait ==
    /\ GuiStep("reg_wait")
    /\ procSema \in {Free, "gui"}
    /\ procSema' = "gui"
    /\ Goto("gui", "reg")
    /\ UNCHANGED <<heap, endSema, flags, locals, handlers, wakeups, owed>>

RegisterAdd(ty) ==
    /\ GuiStep("reg")
    /\ ty \notin handlers
    /\ handlers' = handlers \cup {ty}
    /\ SignalProc("gui")
    /\ Goto("gui", "idle")
    /\ UNCHANGED <<heap, endSema, flags, locals, wakeups, owed>>

----------------------------------------------------------------------------
(* The bound on the heap: a block is left for this call and for the one    *)
(* the other thread may be in.                                             *)
HeapRoom(t) ==
    Cardinality(live) + Cardinality({u \in Threads \ {t} : pc[u] \in {"put_lock", "put_link"}})
        < Cardinality(Reqs)

(* Mutant: isIOBlocked is not tested.                                      *)
PutCheckUnblocked(t, ty, d) ==
    /\ Step(t, Caller(t))
    /\ ty \in handlers
    /\ wakeups < MaxWakeups /\ HeapRoom(t)
    /\ IF t = "io" THEN nested < MaxNested /\ nested' = nested + 1 ELSE UNCHANGED nested
    /\ arg' = [arg EXCEPT ![t] = [type |-> ty, data |-> d]]
    /\ Goto(t, "put_lock")
    /\ UNCHANGED <<heap, semas, flags, node, served, handlers, wakeups, owed>>

(* ioPutRequest.  A call that returns IO_ERR_IO_BLOCKED or                 *)
(* IO_ERR_INVALID_HANDLER changes nothing and is no step.                  *)
PutCheck(t, ty, d) ==
    /\ Step(t, Caller(t))
    /\ ~isIOBlocked
    /\ ty \in handlers
    /\ wakeups < MaxWakeups /\ HeapRoom(t)
    /\ IF t = "io"
       THEN nested < MaxNested /\ nested' = nested + 1
       ELSE UNCHANGED nested
    /\ arg' = [arg EXCEPT ![t] = [type |-> ty, data |-> d]]
    /\ Goto(t, "put_lock")
    /\ UNCHANGED <<heap, semas, flags, node, served, handlers, wakeups, owed>>

PutLock(t) ==
    /\ Step(t, "put_lock")
    /\ endSema \in {Free, t}
    /\ endSema' = t
    /\ Goto(t, "put_link")
    /\ UNCHANGED <<heap, procSema, flags, locals, handlers, wakeups, owed>>

(* Mutant: only the last request is compared.                              *)
DuplicateOfLast(p) ==
    /\ p.type \in DedupTypes
    /\ gReqEnd # NULL /\ rtype[gReqEnd] = p.type /\ rdata[gReqEnd] = p.data

(* The request is already in the list, as the walk of the list finds out.  *)
Duplicate(p) ==
    /\ p.type \in DedupTypes
    /\ \E i \in DOMAIN fifo : rtype[fifo[i]] = p.type /\ rdata[fifo[i]] = p.data

PutDuplicate(t) ==
    /\ Step(t, "put_link")
    /\ Duplicate(arg[t])
    /\ SignalEnd(t)
    /\ owed' = owed \cup {arg[t]}
    /\ arg' = [arg EXCEPT ![t] = NULL]
    /\ Goto(t, Caller(t))
    /\ UNCHANGED <<heap, procSema, flags, node, served, nested, handlers, wakeups>>

(* malloc, and the new request made reachable before its fields are set.   *)
PutLink(t, n) ==
    /\ Step(t, "put_link")
    /\ ~Duplicate(arg[t])
    /\ n \notin live
    /\ live' = live \cup {n}
    /\ IF gReqEnd = NULL
       THEN gReqList' = n /\ UNCHANGED rnext
       ELSE rnext' = [rnext EXCEPT ![gReqEnd] = n] /\ UNCHANGED gReqList
    /\ gReqEnd' = n
    /\ node' = [node EXCEPT ![t] = n]
    /\ fifo' = Append(fifo, n)
    /\ Goto(t, "put_fill")
    /\ UNCHANGED <<rtype, rdata, semas, flags, arg, served, nested, handlers, wakeups,
                   owed>>

(* The fields are set and gEndSemaId is signalled.                         *)
PutFill(t) ==
    /\ Step(t, "put_fill")
    /\ rtype' = [rtype EXCEPT ![node[t]] = arg[t].type]
    /\ rdata' = [rdata EXCEPT ![node[t]] = arg[t].data]
    /\ rnext' = [rnext EXCEPT ![node[t]] = NULL]
    /\ SignalEnd(t)
    /\ owed' = owed \cup {arg[t]}
    /\ arg' = [arg EXCEPT ![t] = NULL] /\ node' = [node EXCEPT ![t] = NULL]
    \* WakeupThread fails when the worker calls it for itself.
    /\ Goto(t, IF t = "gui" THEN "put_wake" ELSE "handler")
    /\ UNCHANGED <<gReqList, gReqEnd, live, fifo, procSema, flags, served, nested,
                   handlers, wakeups>>

PutWake ==
    /\ GuiStep("put_wake")
    /\ wakeups' = wakeups + 1
    /\ Goto("gui", "idle")
    /\ UNCHANGED <<heap, semas, flags, locals, handlers, owed>>

----------------------------------------------------------------------------
(* ioRemoveRequests, called by the GUI thread.  Once it holds both         *)
(* semaphores nobody else touches the list, so its loop is one step: the   *)
(* requests of the type are unlinked and freed, the others keep their      *)
(* order.                                                                  *)
RemoveCall(ty) ==
    /\ GuiStep("idle")
    /\ arg' = [arg EXCEPT !["gui"] = [type |-> ty, data |-> NULL]]
    /\ Goto("gui", "rm_proc")
    /\ UNCHANGED <<heap, semas, flags, node, served, nested, handlers, wakeups, owed>>

RemoveProc ==
    /\ GuiStep("rm_proc")
    /\ procSema \in {Free, "gui"}
    /\ procSema' = "gui"
    /\ Goto("gui", "rm_end")
    /\ UNCHANGED <<heap, endSema, flags, locals, handlers, wakeups, owed>>

RemoveEnd ==
    /\ GuiStep("rm_end")
    /\ endSema \in {Free, "gui"}
    /\ endSema' = "gui"
    /\ Goto("gui", "rm_walk")
    /\ UNCHANGED <<heap, procSema, flags, locals, handlers, wakeups, owed>>

RemoveWalk ==
    LET kept == IF gReqList = NULL THEN <<>>  \* the loop is not entered
                ELSE SelectSeq(fifo, LAMBDA n : rtype[n] # arg["gui"].type)
        keep == {kept[i] : i \in DOMAIN kept}
        gone == {fifo[i] : i \in DOMAIN fifo} \ keep
    IN
    /\ GuiStep("rm_walk")
    /\ fifo' = kept
    /\ gReqList' = IF kept = <<>> THEN NULL ELSE kept[1]
    /\ gReqEnd' = IF kept = <<>> THEN NULL ELSE kept[Len(kept)]
    /\ rnext' = [n \in Reqs |->
                    IF n \in gone THEN Garbage
                    ELSE IF \E i \in DOMAIN kept : i < Len(kept) /\ kept[i] = n
                    THEN kept[1 + CHOOSE i \in DOMAIN kept : kept[i] = n]
                    ELSE IF n \in keep THEN NULL ELSE rnext[n]]
    /\ Release(gone)
    /\ owed' = owed \ {[type |-> rtype[n], data |-> rdata[n]] : n \in gone}
    /\ SignalEnd("gui") /\ SignalProc("gui")
    /\ arg' = [arg EXCEPT !["gui"] = NULL]
    /\ Goto("gui", "idle")
    /\ UNCHANGED <<flags, node, served, nested, handlers, wakeups>>

----------------------------------------------------------------------------
(* ioBlockOps and ioEnd.  Every caller of ioEnd (deinit, miniDeinit) has   *)
(* just called ioBlockOps(1), and never comes back to the manager.         *)
BlockOps ==
    /\ GuiStep("idle")
    /\ ~isIOBlocked
    /\ isIOBlocked' = TRUE
    /\ Goto("gui", "blk_wait")
    /\ UNCHANGED <<heap, semas, gIOTerminate, isIORunning, locals, handlers, wakeups, owed>>

(* Mutant: ioBlockOps does not wait.                                       *)
BlockDoneAtOnce ==
    /\ GuiStep("blk_wait")
    /\ Goto("gui", "idle")
    /\ UNCHANGED <<heap, semas, flags, locals, handlers, wakeups, owed>>

(* The busy wait of ioBlockOps ends when ioHasPendingRequests is 0.        *)
BlockDone ==
    /\ GuiStep("blk_wait")
    /\ gReqList = NULL
    /\ Goto("gui", "idle")
    /\ UNCHANGED <<heap, semas, flags, locals, handlers, wakeups, owed>>

UnblockOps ==
    /\ GuiStep("idle")
    /\ isIOBlocked
    /\ isIOBlocked' = FALSE
    /\ UNCHANGED <<heap, semas, gIOTerminate, isIORunning, locals, handlers, wakeups, pc, owed>>

End ==
    /\ GuiStep("idle")
    /\ isIOBlocked
    /\ gIOTerminate' = TRUE
    /\ wakeups' = wakeups + 1
    /\ Goto("gui", "ended")
    /\ UNCHANGED <<heap, semas, isIOBlocked, isIORunning, locals, handlers, owed>>

----------------------------------------------------------------------------
(* ioWorkerThread.                                                         *)
WorkerTop ==
    /\ IoStep("top")
    /\ Goto("io", IF gIOTerminate THEN "drain" ELSE "sleep")
    /\ UNCHANGED <<heap, semas, flags, locals, handlers, wakeups, owed>>

WorkerWake ==
    /\ IoStep("sleep")
    /\ wakeups > 0
    /\ wakeups' = wakeups - 1
    /\ Goto("io", IF gIOTerminate THEN "drain" ELSE "wait_proc")
    /\ UNCHANGED <<heap, semas, flags, locals, handlers, owed>>

WorkerProc ==
    /\ IoStep("wait_proc")
    /\ procSema \in {Free, "io"}
    /\ procSema' = "io"
    /\ Goto("io", "loop")
    /\ UNCHANGED <<heap, endSema, flags, locals, handlers, wakeups, owed>>

(* ioProcessRequest for the head of the list: the handler starts.          *)
WorkerStart ==
    /\ IoStep("loop")
    /\ gReqList # NULL /\ ~gIOTerminate
    /\ served' = gReqList
    /\ owed' = owed \ {[type |-> rtype[gReqList], data |-> rdata[gReqList]]}
    /\ Goto("io", "handler")
    /\ UNCHANGED <<heap, semas, flags, arg, node, nested, handlers, wakeups>>

(* Mutants: the worker may stop after a request, or when I/O is blocked.   *)
WorkerEmptyEarly ==
    /\ IoStep("loop")
    /\ Goto("io", "release")
    /\ UNCHANGED <<heap, semas, flags, locals, handlers, wakeups, owed>>

WorkerEmptyBlocked ==
    /\ IoStep("loop")
    /\ gReqList = NULL \/ gIOTerminate \/ isIOBlocked
    /\ Goto("io", "release")
    /\ UNCHANGED <<heap, semas, flags, locals, handlers, wakeups, owed>>

WorkerEmpty ==
    /\ IoStep("loop")
    /\ gReqList = NULL \/ gIOTerminate
    /\ Goto("io", "release")
    /\ UNCHANGED <<heap, semas, flags, locals, handlers, wakeups, owed>>

(* The handler returns.                                                    *)
HandlerDone ==
    /\ IoStep("handler")
    /\ Goto("io", "wait_end")
    /\ UNCHANGED <<heap, semas, flags, locals, handlers, wakeups, owed>>

(* The served request is unlinked and freed, gEndSemaId taken and          *)
(* signalled; nothing blocks in between.                                   *)
WorkerUnlink ==
    LET next == rnext[served] IN
    /\ IoStep("wait_end")
    /\ endSema \in {Free, "io"}
    /\ SignalEnd("io")
    /\ gReqList' = next
    /\ gReqEnd' = IF next = NULL THEN NULL ELSE gReqEnd
    /\ Release({served})
    /\ rnext' = [rnext EXCEPT ![served] = Garbage]
    /\ fifo' = Tail(fifo)
    /\ served' = NULL /\ nested' = 0
    /\ Goto("io", "loop")
    /\ UNCHANGED <<procSema, flags, arg, node, handlers, wakeups, owed>>

WorkerRelease ==
    /\ IoStep("release")
    /\ SignalProc("io")
    /\ Goto("io", "top")
    /\ UNCHANGED <<heap, endSema, flags, locals, handlers, wakeups, owed>>

(* The requests still pending are freed and the semaphores deleted.        *)
WorkerDrain ==
    /\ IoStep("drain")
    /\ gReqList' = NULL
    /\ live' = live \ {fifo[i] : i \in DOMAIN fifo}
    /\ fifo' = <<>>
    /\ isIORunning' = FALSE
    /\ Goto("io", "dead")
    /\ UNCHANGED <<gReqEnd, rtype, rdata, rnext, semas, isIOBlocked, gIOTerminate, locals,
                   handlers, wakeups, owed>>

(* Both threads have finished with the manager.                            *)
Ended ==
    /\ pc["gui"] = "ended" /\ pc["io"] = "dead"
    /\ UNCHANGED vars

----------------------------------------------------------------------------
GuiNext ==
    \/ RegisterCall \/ RegisterWait \/ (\E ty \in Types : RegisterAdd(ty))
    \/ \E ty \in Types, d \in Data : PutCheck("gui", ty, d)
    \/ PutLock("gui") \/ PutDuplicate("gui")
    \/ (\E n \in Reqs : PutLink("gui", n)) \/ PutFill("gui") \/ PutWake
    \/ (\E ty \in Types : RemoveCall(ty)) \/ RemoveProc \/ RemoveEnd
    \/ RemoveWalk
    \/ BlockOps \/ BlockDone \/ UnblockOps \/ End

IoNext ==
    \/ WorkerTop \/ WorkerWake \/ WorkerProc \/ WorkerStart \/ WorkerEmpty
    \/ \E ty \in Types, d \in Data : PutCheck("io", ty, d)
    \/ PutLock("io") \/ PutDuplicate("io")
    \/ (\E n \in Reqs : PutLink("io", n)) \/ PutFill("io")
    \/ HandlerDone \/ WorkerUnlink \/ WorkerRelease \/ WorkerDrain

Next == GuiNext \/ IoNext \/ Ended

Spec == Init /\ [][Next]_vars

(* Handlers return (they are bounded device operations), threads that are  *)
(* ready run, and the GUI thread finishes an operation it has begun.  What *)
(* the GUI thread calls next is up to the user.                            *)
GuiGoesOn ==
    \/ RegisterWait \/ (\E ty \in Types : RegisterAdd(ty))
    \/ PutLock("gui") \/ PutDuplicate("gui")
    \/ (\E n \in Reqs : PutLink("gui", n)) \/ PutFill("gui") \/ PutWake
    \/ RemoveProc \/ RemoveEnd \/ RemoveWalk
    \/ BlockDone

WorkerGoesOn ==
    \/ WorkerTop \/ WorkerWake \/ WorkerProc \/ WorkerStart \/ WorkerEmpty
    \/ PutLock("io") \/ PutDuplicate("io")
    \/ (\E n \in Reqs : PutLink("io", n)) \/ PutFill("io")
    \/ HandlerDone \/ WorkerUnlink \/ WorkerRelease \/ WorkerDrain

FairSpec == Spec /\ WF_vars(GuiGoesOn) /\ WF_vars(WorkerGoesOn)

----------------------------------------------------------------------------
Filled(n) == \A t \in Threads : ~(pc[t] = "put_fill" /\ node[t] = n)

(* first, end and the next fields link the requests of s, each once and in *)
(* this order.                                                             *)
Linked(s, first, end, next) ==
    /\ \A i, j \in 1..Len(s) : s[i] = s[j] => i = j
    /\ first = IF s = <<>> THEN NULL ELSE s[1]
    /\ end = IF s = <<>> THEN NULL ELSE s[Len(s)]
    /\ \A i \in 1..(Len(s) - 1) : next[s[i]] = s[i + 1]

Elements(s) == {s[i] : i \in 1..Len(s)}

(* The pointers describe one list, from gReqList along next to gReqEnd,    *)
(* that ends there (its last next is NULL once its fields are set), and    *)
(* exactly the requests in it are allocated.  It must hold through every   *)
(* interleaving of adding, serving and removing.                           *)
QueueShape ==
    /\ Linked(fifo, gReqList, gReqEnd, rnext)
    /\ live = Elements(fifo)
    /\ gReqEnd # NULL /\ Filled(gReqEnd) => rnext[gReqEnd] = NULL

(* The worker starts a handler only for a request whose fields are set,    *)
(* although ioPutRequest makes the request reachable first and the worker  *)
(* reads gReqList without gEndSemaId; and the request stays allocated and  *)
(* at the head of the list until the worker unlinks it.                    *)
ServedIsIntact ==
    Serving
        => /\ served = gReqList /\ served \in live
           /\ rtype[served] \in handlers /\ rdata[served] # Garbage

(* No wakeup is lost: when a request is in the list and the worker sleeps  *)
(* with no wakeup pending, the GUI thread is still inside the call of      *)
(* ioPutRequest that will wake it.                                         *)
NoLostWakeup ==
    (gReqList # NULL /\ pc["io"] = "sleep" /\ wakeups = 0)
        => pc["gui"] \in {"put_fill", "put_wake"}

(* Once ioBlockOps(1) has returned, no request is in the list and no       *)
(* handler runs until ioBlockOps(0): deinit relies on it to shut devices   *)
(* down and to end the manager.                                            *)
BlockedIsQuiet ==
    (isIOBlocked /\ pc["gui"] # "blk_wait")
        => gReqList = NULL /\ ~Serving

(* Every request that ioPutRequest accepted leaves the list, by being      *)
(* served or removed.                                                      *)
EveryRequestLeaves == \A n \in Reqs : n \in live ~> n \notin live

(* ioBlockOps(1) returns.                                                  *)
BlockReturns == pc["gui"] = "blk_wait" ~> pc["gui"] # "blk_wait"

(* Every accepted request of a type that is not merged is started after    *)
(* the call that put it (or removed).                                      *)
AcceptedIsStarted ==
    \A p \in Pair : p.type \notin DedupTypes => (p \in owed ~> p \notin owed)

(* No request is forgotten: each one is started after the call that put    *)
(* it, its memory is given back (ioProcessRequest), and so ioBlockOps(1),  *)
(* which waits for the end of them all, returns.                           *)
RequestsAreServed == AcceptedIsStarted /\ EveryRequestLeaves /\ BlockReturns

(* ioRemoveRequests waits for gProcSemaId, which the worker holds until it *)
(* has worked off the whole list; so the walk never finds a request to     *)
(* remove, and the call waits for all the I/O that is queued.              *)
RemoveFindsNothing == pc["gui"] \in {"rm_end", "rm_walk"} => gReqList = NULL

(* The pending requests as the callers see them: the one a thread is still *)
(* filling in is not queued yet.                                           *)
Visible ==
    Len(fifo) - IF \E t \in Threads : pc[t] = "put_fill" THEN 1 ELSE 0

Queue == INSTANCE IoQueue WITH
    queue <- [i \in 1..Visible |-> [type |-> rtype[fifo[i]], data |-> rdata[fifo[i]]]],
    busy <- Serving,
    gate <- IF gIOTerminate THEN "ended" ELSE IF ~isIOBlocked THEN "open"
            ELSE IF pc["gui"] = "blk_wait" THEN "closing" ELSE "closed"

(* The linked list, its two semaphores and the flags implement the queue   *)
(* of IoQueue: requests are served in the order they were put, each put    *)
(* queues exactly one request or is merged, and nothing enters the queue   *)
(* once ioBlockOps(1) was called.                                          *)
ImplementsQueue == Queue!Spec

=============================================================================
