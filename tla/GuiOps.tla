------------------------------- MODULE GuiOps -------------------------------
(***************************************************************************)
(* The deferred operations of the GUI: guiDeferUpdate and                  *)
(* guiHandleDeferredOps of src/src/gui.c.                                  *)
(*                                                                         *)
(* The I/O worker ("io", priority 30) and, while it sets the menus up, the *)
(* GUI thread ("gui", priority 31) append operations to a linked list      *)
(* under gSemaId; the GUI thread works the list off once per frame.  Each  *)
(* operation is its own list node, numbered in the order of the appends;   *)
(* node 0 is the address 0, which the EE lets a program write to.          *)
(***************************************************************************)
EXTENDS Naturals, Sequences, FiniteSets

CONSTANT MaxOps   \* bound on the operations that are deferred

ASSUME GuiOpsAssumption == MaxOps \in Nat

NoNode == 0
OpNode == 1..MaxOps
Threads == {"gui", "io"}
Free == "free"

VARIABLES
    gUpdateList, gUpdateEnd,  \* head and tail of the list
    unext,                    \* the next field of each node, and of address 0
    freed,                    \* the nodes that have been freed
    created,                  \* how many nodes have been allocated
    gSemaId,                  \* the thread that holds the semaphore
    gScheduledOps, gCompletedOps,
    opPc,                     \* where each thread is
    mine,                     \* the operation a thread is deferring
    handled                   \* history: the operations guiHandleOp has run, in order

opList == <<gUpdateList, gUpdateEnd, unext, freed, created>>
opCounts == <<gScheduledOps, gCompletedOps>>
opsVars == <<opList, opCounts, gSemaId, opPc, mine, handled>>

OpsTypeOK ==
    /\ gUpdateList \in OpNode \cup {NoNode} /\ gUpdateEnd \in OpNode \cup {NoNode}
    /\ unext \in [OpNode \cup {NoNode} -> OpNode \cup {NoNode}]
    /\ freed \subseteq OpNode /\ created \in 0..MaxOps
    /\ gSemaId \in Threads \cup {Free}
    /\ gScheduledOps \in Nat /\ gCompletedOps \in Nat
    /\ opPc \in [Threads -> {"idle", "wait", "link", "count", "drain_wait", "drain", "reset"}]
    /\ mine \in [Threads -> OpNode \cup {NoNode}]
    /\ handled \in Seq(OpNode)

(* guiInit.                                                                *)
OpsInit ==
    /\ gUpdateList = NoNode /\ gUpdateEnd = NoNode
    /\ unext = [n \in OpNode \cup {NoNode} |-> NoNode]
    /\ freed = {} /\ created = 0
    /\ gSemaId = Free
    /\ gScheduledOps = 0 /\ gCompletedOps = 0
    /\ opPc = [t \in Threads |-> "idle"]
    /\ mine = [t \in Threads |-> NoNode]
    /\ handled = <<>>

(* The worker can go on and preempts the GUI thread.  At "idle" it is      *)
(* between two operations, where it may wait for a device.                 *)
IoReady ==
    \/ opPc["io"] \in {"link", "count"}
    \/ opPc["io"] = "wait" /\ gSemaId \in {Free, "io"}

At(t, label) == opPc[t] = label /\ (t = "gui" => ~IoReady)
Goto(t, label) == opPc' = [opPc EXCEPT ![t] = label]

(* SignalSema hands the semaphore to the thread that waits for it.         *)
Other(t) == IF t = "gui" THEN "io" ELSE "gui"
Signal(t) ==
    gSemaId' = IF opPc[Other(t)] \in {"wait", "drain_wait"} THEN Other(t) ELSE Free

----------------------------------------------------------------------------
(* guiDeferUpdate: the call, WaitSema, the list under the semaphore, and   *)
(* the serial id taken after SignalSema.                                   *)
Deferring == {t \in Threads : opPc[t] \in {"wait", "link"}}

DeferCall(t) ==
    /\ At(t, "idle")
    /\ created + Cardinality(Deferring) < MaxOps
    /\ Goto(t, "wait")
    /\ UNCHANGED <<opList, opCounts, gSemaId, mine, handled>>

DeferWait(t) ==
    /\ At(t, "wait")
    /\ gSemaId \in {Free, t}
    /\ gSemaId' = t
    /\ Goto(t, "link")
    /\ UNCHANGED <<opList, opCounts, mine, handled>>

DeferLink(t) ==
    LET up == created + 1 IN
    /\ At(t, "link")
    /\ created' = up
    /\ mine' = [mine EXCEPT ![t] = up]
    /\ IF gUpdateList = NoNode
       THEN gUpdateList' = up /\ unext' = [unext EXCEPT ![up] = NoNode]
       ELSE unext' = [unext EXCEPT ![up] = NoNode, ![gUpdateEnd] = up] /\ UNCHANGED gUpdateList
    /\ gUpdateEnd' = up
    /\ Signal(t)
    /\ Goto(t, "count")
    /\ UNCHANGED <<freed, opCounts, handled>>

DeferCount(t) ==
    /\ At(t, "count")
    /\ gScheduledOps' = gScheduledOps + 1
    /\ mine' = [mine EXCEPT ![t] = NoNode]
    /\ Goto(t, "idle")
    /\ UNCHANGED <<opList, gCompletedOps, gSemaId, handled>>

----------------------------------------------------------------------------
(* guiHandleDeferredOps: guiHandleOp runs every operation in the list, and *)
(* gUpdateEnd is cleared after the semaphore was signalled.                *)
DrainCall ==
    /\ At("gui", "idle")
    /\ Goto("gui", "drain_wait")
    /\ UNCHANGED <<opList, opCounts, gSemaId, mine, handled>>

DrainWait ==
    /\ At("gui", "drain_wait")
    /\ gSemaId \in {Free, "gui"}
    /\ gSemaId' = "gui"
    /\ Goto("gui", "drain")
    /\ UNCHANGED <<opList, opCounts, mine, handled>>

(* Mutant: the head of the list is run and freed but not unlinked.         *)
DrainOpKeepHead ==
    /\ At("gui", "drain")
    /\ gUpdateList # NoNode
    /\ handled' = Append(handled, gUpdateList)
    /\ freed' = freed \cup {gUpdateList}
    /\ gUpdateList' = IF gUpdateList \in freed THEN unext[gUpdateList] ELSE gUpdateList
    /\ gCompletedOps' = gCompletedOps + 1
    /\ UNCHANGED <<gUpdateEnd, unext, created, gScheduledOps, gSemaId, opPc, mine>>

DrainOp ==
    /\ At("gui", "drain")
    /\ gUpdateList # NoNode
    /\ handled' = Append(handled, gUpdateList)
    /\ gUpdateList' = unext[gUpdateList]
    /\ freed' = freed \cup {gUpdateList}
    /\ gCompletedOps' = gCompletedOps + 1
    /\ UNCHANGED <<gUpdateEnd, unext, created, gScheduledOps, gSemaId, opPc, mine>>

DrainSignal ==
    /\ At("gui", "drain")
    /\ gUpdateList = NoNode
    /\ Signal("gui")
    /\ Goto("gui", "reset")
    /\ UNCHANGED <<opList, opCounts, mine, handled>>

(* Mutant: the head of the list is cleared as well.                        *)
DrainResetBoth ==
    /\ At("gui", "reset")
    /\ gUpdateEnd' = NoNode /\ gUpdateList' = NoNode
    /\ Goto("gui", "idle")
    /\ UNCHANGED <<unext, freed, created, opCounts, gSemaId, mine, handled>>

DrainReset ==
    /\ At("gui", "reset")
    /\ gUpdateEnd' = NoNode
    /\ Goto("gui", "idle")
    /\ UNCHANGED <<gUpdateList, unext, freed, created, opCounts, gSemaId, mine, handled>>

----------------------------------------------------------------------------
Defer(t) == DeferCall(t) \/ DeferWait(t) \/ DeferLink(t) \/ DeferCount(t)
Drain == DrainCall \/ DrainWait \/ DrainOp \/ DrainSignal \/ DrainReset
OpsNext == (\E t \in Threads : Defer(t)) \/ Drain
OpsSpec == OpsInit /\ [][OpsNext]_opsVars

(* The main loop works the list off in every frame, and a thread finishes  *)
(* a call it has begun.  Which operations are deferred is up to the        *)
(* program.                                                                *)
Finish(t) == DeferWait(t) \/ DeferLink(t) \/ DeferCount(t)
OpsFairSpec == OpsSpec /\ WF_opsVars(Drain) /\ \A t \in Threads : WF_opsVars(Finish(t))

----------------------------------------------------------------------------
Handled(n) == \E i \in 1..Len(handled) : handled[i] = n

(* The nodes that a walk from gUpdateList meets: they are in every set     *)
(* that has the head of the list and, with a node, the one after it.       *)
Reachable ==
    LET IsClosed(S) ==
          /\ gUpdateList \in S \cup {NoNode}
          /\ \A n \in S : unext[n] \in S \cup {NoNode}
    IN  {n \in OpNode : \A S \in SUBSET OpNode : IsClosed(S) => n \in S}

(* guiHandleOp runs the operations in the order in which they were         *)
(* deferred, none twice, and never one whose node was freed: the menu      *)
(* operations of one update depend on each other (append before sort).     *)
HandledInOrder ==
    /\ \A i \in 1..(Len(handled) - 1) : handled[i] < handled[i + 1]
    /\ Reachable \cap freed = {}
    /\ \A i \in 1..Len(handled) : \A n \in Reachable : handled[i] < n

(* No more operations are completed than were scheduled, although the      *)
(* counter is incremented after the operation became visible.              *)
CompletedNotAhead == gCompletedOps <= gScheduledOps

(* The operations run in order, and the counters of guiDeferUpdate and     *)
(* guiHandleOp agree on how many are still to run.                         *)
OpsAreOrderly == HandledInOrder /\ CompletedNotAhead

(* guiDeferUpdate returns: the worker is "without stalls" as long as the   *)
(* GUI thread runs its frames.                                             *)
DeferReturns == \A t \in Threads : opPc[t] = "wait" ~> opPc[t] = "idle"

(* An operation that is in the list at its end is run in a later frame.    *)
ReachableIsHandled == \A n \in OpNode : n \in Reachable ~> Handled(n)

(* The two threads do not hold each other up: the one that defers gets on, *)
(* and what it left in the list is run.                                    *)
DeferringWorks == DeferReturns /\ ReachableIsHandled

(* guiDeferUpdate "defers the given update to an appropriate time": an     *)
(* operation that was deferred and not yet run is in the list.             *)
NoOpIsLost == \A n \in 1..created : n \in Reachable \/ Handled(n)
=============================================================================
