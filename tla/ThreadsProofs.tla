--------------------------- MODULE ThreadsProofs ---------------------------
(***************************************************************************)
(* The threads of the launcher keep their promises for lists, rings and    *)
(* numbers of operations of every size: deferred operations run in the     *)
(* order they were asked for, a frame shows no entry that was freed, and   *)
(* the music overwrites nothing that is still to be heard.                 *)
(***************************************************************************)
EXTENDS MCThreads, SequenceTheorems, FiniteSetTheorems, TLAPS

(* One for a thread at one of the labels.                                  *)
Is(t, labels) == IF opPc[t] \in labels THEN 1 ELSE 0

(* The list ascends: a node leads to a later one.                          *)
ListAscends ==
    /\ \A n \in OpNode : unext[n] # NoNode => n < unext[n] /\ unext[n] <= created
    /\ gUpdateList <= created /\ gUpdateEnd <= created

(* What was run came before what is in the list.                           *)
HandledBefore ==
    /\ \A n \in freed : n <= created /\ (gUpdateList # NoNode => n < gUpdateList)
    /\ \A i \in 1..Len(handled) :
         /\ i <= handled[i] /\ handled[i] <= created
         /\ gUpdateList # NoNode => handled[i] < gUpdateList
         /\ i < Len(handled) => handled[i] < handled[i + 1]

(* The counters count, but for the operations that are linked and not yet  *)
(* counted; a call that began has room for its node.                       *)
CountsAgree ==
    /\ created + Is("gui", {"wait", "link"}) + Is("io", {"wait", "link"}) <= MaxOps
    /\ created = gScheduledOps + Is("gui", {"count"}) + Is("io", {"count"})
    /\ gCompletedOps = Len(handled) /\ gCompletedOps <= gScheduledOps

OpsInv == OpsTypeOK /\ ListAscends /\ HandledBefore /\ CountsAgree

(* The two threads that may be in guiDeferUpdate.                          *)
LEMMA DeferringAre ==
    ASSUME OpsTypeOK
    PROVE  Cardinality(Deferring) = Is("gui", {"wait", "link"}) + Is("io", {"wait", "link"})
<1>1. Deferring = IF opPc["gui"] \in {"wait", "link"}
                  THEN IF opPc["io"] \in {"wait", "link"} THEN {"gui", "io"} ELSE {"gui"}
                  ELSE IF opPc["io"] \in {"wait", "link"} THEN {"io"} ELSE {}
  BY DEF Deferring, Threads
<1>2. Cardinality({}) = 0 /\ Cardinality({"gui"}) = 1 /\ Cardinality({"io"}) = 1
  BY FS_EmptySet, FS_Singleton
<1>3. Cardinality({"gui", "io"}) = 2
  <2>1. {"gui", "io"} = {"io"} \cup {"gui"} /\ "gui" \notin {"io"} /\ IsFiniteSet({"io"})
    BY FS_Singleton
  <2>2. Cardinality({"io"} \cup {"gui"}) = Cardinality({"io"}) + 1
    BY <2>1, FS_AddElement
  <2> QED BY <1>2, <2>1, <2>2
<1> QED
  BY <1>1, <1>2, <1>3 DEF Is

(* What a walk meets is not before the head.                               *)
LEMMA WalkAscends ==
    ASSUME OpsTypeOK, ListAscends
    PROVE  \A n \in Reachable : gUpdateList # NoNode /\ gUpdateList <= n
<1> DEFINE S == {n \in OpNode : gUpdateList # NoNode /\ gUpdateList <= n}
<1>1. S \in SUBSET OpNode /\ gUpdateList \in S \cup {NoNode}
  BY GuiOpsAssumption DEF OpsTypeOK, OpNode, NoNode
<1>2. \A n \in S : unext[n] \in S \cup {NoNode}
  BY GuiOpsAssumption DEF OpsTypeOK, ListAscends, OpNode, NoNode
<1>3. \A n \in Reachable : n \in S
  <2> HIDE DEF S
  <2> QED BY <1>1, <1>2 DEF Reachable
<1> QED
  BY <1>3

(* The invariant gives the property.                                       *)
LEMMA OrderFollows == OpsInv => OpsAreOrderly
<1> SUFFICES ASSUME OpsInv PROVE OpsAreOrderly
  OBVIOUS
<1>1. \A n \in Reachable : gUpdateList # NoNode /\ gUpdateList <= n /\ n \in Nat
  BY WalkAscends, GuiOpsAssumption DEF OpsInv, Reachable, OpNode
<1>2. /\ gUpdateList \in Nat /\ Len(handled) \in Nat /\ freed \subseteq Nat
      /\ \A i \in 1..Len(handled) : handled[i] \in Nat
  BY GuiOpsAssumption DEF OpsInv, OpsTypeOK, NoNode, OpNode
<1>3. Reachable \cap freed = {}
  BY <1>1, <1>2 DEF OpsInv, HandledBefore
<1>4. \A i \in 1..Len(handled) : \A n \in Reachable : handled[i] < n
  BY <1>1, <1>2 DEF OpsInv, HandledBefore
<1>5. \A i \in 1..(Len(handled) - 1) : handled[i] < handled[i + 1]
  BY <1>2 DEF OpsInv, HandledBefore
<1> QED
  BY <1>3, <1>4, <1>5 DEF OpsInv, CountsAgree, OpsAreOrderly, HandledInOrder,
     CompletedNotAhead

(* Nothing is deferred at first.                                           *)
LEMMA OpsStart == OpsInit => OpsInv
<1> SUFFICES ASSUME OpsInit PROVE OpsInv
  OBVIOUS
<1> USE GuiOpsAssumption
<1>1. OpsTypeOK
  BY DEF OpsInit, OpsTypeOK, OpNode, NoNode, Free, Threads
<1>2. ListAscends /\ HandledBefore /\ CountsAgree
  BY DEF OpsInit, ListAscends, HandledBefore, CountsAgree, Is, OpNode, NoNode,
     Threads
<1> QED
  BY <1>1, <1>2 DEF OpsInv

(* Each step of a thread keeps the order of the list.                      *)
LEMMA OpsStep == OpsInv /\ [OpsNext]_opsVars => OpsInv'
<1> SUFFICES ASSUME OpsInv, [OpsNext]_opsVars PROVE OpsInv'
  OBVIOUS
<1> USE GuiOpsAssumption
<1>0. /\ OpsTypeOK /\ ListAscends /\ HandledBefore /\ CountsAgree
      /\ Threads = {"gui", "io"} /\ OpNode \subseteq Nat
  BY DEF OpsInv, Threads, OpNode
<1>1. ASSUME NEW t \in Threads, DeferCall(t) PROVE OpsInv'
  <2>1. OpsTypeOK'
    BY <1>0, <1>1 DEF DeferCall, opList, opCounts, At, Goto, Signal, Other,
       Threads, Free, OpNode, NoNode, OpsTypeOK, CountsAgree, Is
  <2>2. ListAscends'
    BY <1>0, <1>1 DEF DeferCall, opList, opCounts, At, Goto, Signal, Other,
       Threads, Free, OpNode, NoNode, OpsTypeOK, ListAscends
  <2>3. HandledBefore'
    BY <1>0, <1>1 DEF DeferCall, opList, opCounts, At, Goto, Signal, Other,
       Threads, Free, OpNode, NoNode, OpsTypeOK, ListAscends, HandledBefore
  <2>4. CountsAgree'
    BY <1>0, <1>1, DeferringAre DEF DeferCall, opList, opCounts, At, Goto,
       Signal, Other, Threads, Free, OpNode, NoNode, IoReady, OpsTypeOK,
       CountsAgree, Is
  <2> QED BY <2>1, <2>2, <2>3, <2>4 DEF OpsInv
<1>2. ASSUME NEW t \in Threads, DeferWait(t) PROVE OpsInv'
  <2>1. OpsTypeOK'
    BY <1>0, <1>2 DEF DeferWait, opList, opCounts, At, Goto, Signal, Other,
       Threads, Free, OpNode, NoNode, OpsTypeOK, CountsAgree, Is
  <2>2. ListAscends'
    BY <1>0, <1>2 DEF DeferWait, opList, opCounts, At, Goto, Signal, Other,
       Threads, Free, OpNode, NoNode, OpsTypeOK, ListAscends
  <2>3. HandledBefore'
    BY <1>0, <1>2 DEF DeferWait, opList, opCounts, At, Goto, Signal, Other,
       Threads, Free, OpNode, NoNode, OpsTypeOK, ListAscends, HandledBefore
  <2>4. CountsAgree'
    BY <1>0, <1>2, DeferringAre DEF DeferWait, opList, opCounts, At, Goto,
       Signal, Other, Threads, Free, OpNode, NoNode, IoReady, OpsTypeOK,
       CountsAgree, Is
  <2> QED BY <2>1, <2>2, <2>3, <2>4 DEF OpsInv
<1>3. ASSUME NEW t \in Threads, DeferLink(t) PROVE OpsInv'
  <2>1. OpsTypeOK'
    <3>1. created + 1 \in OpNode /\ opPc[t] = "link"
      BY <1>0, <1>3 DEF DeferLink, At, CountsAgree, Is, OpsTypeOK, OpNode
    <3>2. /\ unext' \in [OpNode \cup {NoNode} -> OpNode \cup {NoNode}]
          /\ gUpdateList' \in OpNode \cup {NoNode} /\ gUpdateEnd' \in OpNode \cup {NoNode}
      BY <1>0, <1>3, <3>1 DEF DeferLink, OpsTypeOK
    <3>3. created' \in 0..MaxOps /\ mine' \in [Threads -> OpNode \cup {NoNode}]
      BY <1>0, <1>3, <3>1 DEF DeferLink, OpsTypeOK, OpNode
    <3>4. gSemaId' \in Threads \cup {Free}
          /\ opPc' \in [Threads -> {"idle", "wait", "link", "count", "drain_wait", "drain", "reset"}]
      BY <1>0, <1>3 DEF DeferLink, OpsTypeOK, Signal, Other, Goto
    <3> QED BY <1>0, <1>3, <3>2, <3>3, <3>4 DEF DeferLink, OpsTypeOK, opCounts
  <2>2. ListAscends'
    BY <1>0, <1>3 DEF DeferLink, opList, opCounts, At, Goto, Signal, Other,
       Threads, Free, OpNode, NoNode, OpsTypeOK, ListAscends
  <2>3. HandledBefore'
    BY <1>0, <1>3 DEF DeferLink, opList, opCounts, At, Goto, Signal, Other,
       Threads, Free, OpNode, NoNode, OpsTypeOK, ListAscends, HandledBefore
  <2>4. CountsAgree'
    BY <1>0, <1>3, DeferringAre DEF DeferLink, opList, opCounts, At, Goto,
       Signal, Other, Threads, Free, OpNode, NoNode, IoReady, OpsTypeOK,
       CountsAgree, Is
  <2> QED BY <2>1, <2>2, <2>3, <2>4 DEF OpsInv
<1>4. ASSUME NEW t \in Threads, DeferCount(t) PROVE OpsInv'
  <2>1. OpsTypeOK'
    BY <1>0, <1>4 DEF DeferCount, opList, opCounts, At, Goto, Signal, Other,
       Threads, Free, OpNode, NoNode, OpsTypeOK, CountsAgree, Is
  <2>2. ListAscends'
    BY <1>0, <1>4 DEF DeferCount, opList, opCounts, At, Goto, Signal, Other,
       Threads, Free, OpNode, NoNode, OpsTypeOK, ListAscends
  <2>3. HandledBefore'
    BY <1>0, <1>4 DEF DeferCount, opList, opCounts, At, Goto, Signal, Other,
       Threads, Free, OpNode, NoNode, OpsTypeOK, ListAscends, HandledBefore
  <2>4. CountsAgree'
    BY <1>0, <1>4, DeferringAre DEF DeferCount, opList, opCounts, At, Goto,
       Signal, Other, Threads, Free, OpNode, NoNode, IoReady, OpsTypeOK,
       CountsAgree, Is
  <2> QED BY <2>1, <2>2, <2>3, <2>4 DEF OpsInv
<1>5. CASE DrainCall
  <2>1. OpsTypeOK'
    BY <1>0, <1>5 DEF DrainCall, opList, opCounts, At, Goto, Signal, Other,
       Threads, Free, OpNode, NoNode, OpsTypeOK, CountsAgree, Is
  <2>2. ListAscends'
    BY <1>0, <1>5 DEF DrainCall, opList, opCounts, At, Goto, Signal, Other,
       Threads, Free, OpNode, NoNode, OpsTypeOK, ListAscends
  <2>3. HandledBefore'
    BY <1>0, <1>5 DEF DrainCall, opList, opCounts, At, Goto, Signal, Other,
       Threads, Free, OpNode, NoNode, OpsTypeOK, ListAscends, HandledBefore
  <2>4. CountsAgree'
    BY <1>0, <1>5, DeferringAre DEF DrainCall, opList, opCounts, At, Goto,
       Signal, Other, Threads, Free, OpNode, NoNode, IoReady, OpsTypeOK,
       CountsAgree, Is
  <2> QED BY <2>1, <2>2, <2>3, <2>4 DEF OpsInv
<1>6. CASE DrainWait
  <2>1. OpsTypeOK'
    BY <1>0, <1>6 DEF DrainWait, opList, opCounts, At, Goto, Signal, Other,
       Threads, Free, OpNode, NoNode, OpsTypeOK, CountsAgree, Is
  <2>2. ListAscends'
    BY <1>0, <1>6 DEF DrainWait, opList, opCounts, At, Goto, Signal, Other,
       Threads, Free, OpNode, NoNode, OpsTypeOK, ListAscends
  <2>3. HandledBefore'
    BY <1>0, <1>6 DEF DrainWait, opList, opCounts, At, Goto, Signal, Other,
       Threads, Free, OpNode, NoNode, OpsTypeOK, ListAscends, HandledBefore
  <2>4. CountsAgree'
    BY <1>0, <1>6, DeferringAre DEF DrainWait, opList, opCounts, At, Goto,
       Signal, Other, Threads, Free, OpNode, NoNode, IoReady, OpsTypeOK,
       CountsAgree, Is
  <2> QED BY <2>1, <2>2, <2>3, <2>4 DEF OpsInv
<1>7. CASE DrainOp
  <2>1. OpsTypeOK'
    BY <1>0, <1>7 DEF DrainOp, opList, opCounts, At, Goto, Signal, Other,
       Threads, Free, OpNode, NoNode, OpsTypeOK, CountsAgree, Is
  <2>2. ListAscends'
    BY <1>0, <1>7 DEF DrainOp, opList, opCounts, At, Goto, Signal, Other,
       Threads, Free, OpNode, NoNode, OpsTypeOK, ListAscends
  <2>3. HandledBefore'
    BY <1>0, <1>7 DEF DrainOp, opList, opCounts, At, Goto, Signal, Other,
       Threads, Free, OpNode, NoNode, OpsTypeOK, ListAscends, HandledBefore
  <2>4. CountsAgree'
    <3>1. /\ opPc["gui"] = "drain" /\ opPc["io"] # "count" /\ handled' = Append(handled, gUpdateList)
          /\ gUpdateList \in OpNode /\ gCompletedOps' = gCompletedOps + 1
          /\ UNCHANGED <<opPc, created, gScheduledOps>>
      BY <1>0, <1>7 DEF DrainOp, At, IoReady, OpsTypeOK
    <3>2. created = gScheduledOps /\ Len(handled') = Len(handled) + 1
      BY <1>0, <3>1 DEF CountsAgree, Is, OpsTypeOK
    <3>3. Len(handled) < gUpdateList /\ gUpdateList <= created
      <4>1. Len(handled) \in Nat /\ gUpdateList \in Nat \ {0} /\ gUpdateList # NoNode
        BY <1>0, <3>1 DEF OpsTypeOK, OpNode, NoNode
      <4>2. CASE Len(handled) = 0
        BY <1>0, <4>1, <4>2 DEF ListAscends
      <4>3. CASE Len(handled) > 0
        <5>1. Len(handled) \in 1..Len(handled) /\ handled[Len(handled)] \in Nat
          BY <1>0, <4>1, <4>3 DEF OpsTypeOK, OpNode
        <5> QED BY <1>0, <4>1, <5>1 DEF HandledBefore, ListAscends
      <4> QED BY <4>1, <4>2, <4>3
    <3> QED BY <1>0, <3>1, <3>2, <3>3 DEF CountsAgree, Is, OpsTypeOK, OpNode
  <2> QED BY <2>1, <2>2, <2>3, <2>4 DEF OpsInv
<1>8. CASE DrainSignal
  <2>1. OpsTypeOK'
    BY <1>0, <1>8 DEF DrainSignal, opList, opCounts, At, Goto, Signal, Other,
       Threads, Free, OpNode, NoNode, OpsTypeOK, CountsAgree, Is
  <2>2. ListAscends'
    BY <1>0, <1>8 DEF DrainSignal, opList, opCounts, At, Goto, Signal, Other,
       Threads, Free, OpNode, NoNode, OpsTypeOK, ListAscends
  <2>3. HandledBefore'
    BY <1>0, <1>8 DEF DrainSignal, opList, opCounts, At, Goto, Signal, Other,
       Threads, Free, OpNode, NoNode, OpsTypeOK, ListAscends, HandledBefore
  <2>4. CountsAgree'
    BY <1>0, <1>8, DeferringAre DEF DrainSignal, opList, opCounts, At, Goto,
       Signal, Other, Threads, Free, OpNode, NoNode, IoReady, OpsTypeOK,
       CountsAgree, Is
  <2> QED BY <2>1, <2>2, <2>3, <2>4 DEF OpsInv
<1>9. CASE DrainReset
  <2>1. OpsTypeOK'
    BY <1>0, <1>9 DEF DrainReset, opList, opCounts, At, Goto, Signal, Other,
       Threads, Free, OpNode, NoNode, OpsTypeOK, CountsAgree, Is
  <2>2. ListAscends'
    BY <1>0, <1>9 DEF DrainReset, opList, opCounts, At, Goto, Signal, Other,
       Threads, Free, OpNode, NoNode, OpsTypeOK, ListAscends
  <2>3. HandledBefore'
    BY <1>0, <1>9 DEF DrainReset, opList, opCounts, At, Goto, Signal, Other,
       Threads, Free, OpNode, NoNode, OpsTypeOK, ListAscends, HandledBefore
  <2>4. CountsAgree'
    BY <1>0, <1>9, DeferringAre DEF DrainReset, opList, opCounts, At, Goto,
       Signal, Other, Threads, Free, OpNode, NoNode, IoReady, OpsTypeOK,
       CountsAgree, Is
  <2> QED BY <2>1, <2>2, <2>3, <2>4 DEF OpsInv
<1>10. CASE UNCHANGED opsVars
  <2>1. OpsTypeOK'
    BY <1>0, <1>10 DEF opsVars, opList, opCounts, At, Goto, Signal, Other,
       Threads, Free, OpNode, NoNode, OpsTypeOK, CountsAgree, Is
  <2>2. ListAscends'
    BY <1>0, <1>10 DEF opsVars, opList, opCounts, At, Goto, Signal, Other,
       Threads, Free, OpNode, NoNode, OpsTypeOK, ListAscends
  <2>3. HandledBefore'
    BY <1>0, <1>10 DEF opsVars, opList, opCounts, At, Goto, Signal, Other,
       Threads, Free, OpNode, NoNode, OpsTypeOK, ListAscends, HandledBefore
  <2>4. CountsAgree'
    BY <1>0, <1>10, DeferringAre DEF opsVars, opList, opCounts, At, Goto,
       Signal, Other, Threads, Free, OpNode, NoNode, IoReady, OpsTypeOK,
       CountsAgree, Is
  <2> QED BY <2>1, <2>2, <2>3, <2>4 DEF OpsInv
<1> QED
  BY <1>1, <1>2, <1>3, <1>4, <1>5, <1>6, <1>7, <1>8, <1>9, <1>10 DEF OpsNext,
     Defer, Drain

(* guiHandleOp runs the operations in the order in which they were         *)
(* deferred, none twice and none that was freed, and the counters never    *)
(* say that more were run than asked for (gui.c, guiDeferUpdate and        *)
(* guiHandleDeferredOps), although gUpdateEnd is cleared without gSemaId.  *)
THEOREM OpsStayOrderly == OpsSpec => []OpsAreOrderly
  BY OpsStart, OpsStep, OrderFollows, PTL DEF OpsSpec

-----------------------------------------------------------------------------
(* The merged list of games.                                               *)

(* A set of games, as a list.                                              *)
LEMMA SetToSeqOfGames ==
    ASSUME NEW S \in SUBSET Games
    PROVE  SetToSeq(S) \in Seq(Games)
<1>0. IsFiniteSet(S)
  BY MenuUpdateAssumption, FS_Subset
<1>1. Cardinality(S) \in Nat /\ ExistsBijection(1..Cardinality(S), S)
  BY <1>0, FS_CardinalityType
<1>2. PICK f \in [1..Cardinality(S) -> S] : IsInjective(f)
  BY <1>1 DEF ExistsBijection, Bijection, Injection, IsInjective
<1>3. SetToSeq(S) \in [1..Cardinality(S) -> S]
  BY <1>2, Zenon DEF SetToSeq
<1> QED
  BY <1>1, <1>3, SeqDef

(* The queue after ioPutRequest.                                           *)
LEMMA PutKeepsQueue ==
    ASSUME NEW q \in Seq({"merged", "hdd"}), NEW r \in {"merged", "hdd"}
    PROVE  /\ Put(q, r) \in Seq({"merged", "hdd"})
           /\ q # <<>> => Put(q, r) # <<>>
  BY AppendProperties DEF Put

(* An update is in the queue until it has been served.                     *)
UpdateIsQueued == pc # "idle" => queue # <<>>

MenuInv == TypeOK /\ RenderIsSafe /\ UpdateIsQueued

(* Nothing is shown at first.                                              *)
LEMMA MenuStart == Init => MenuInv
<1> SUFFICES ASSUME Init PROVE MenuInv
  OBVIOUS
<1> USE MenuUpdateAssumption
<1>1. disk \in [Sources -> SUBSET Games] /\ games \in [Sources -> SUBSET Games]
  BY DEF Init, Games
<1>2. {usbDirty, ps5MergedHddUpdatePending, ps5MergedForceRebuildPending, askedHdd} \subseteq BOOLEAN
  BY DEF Init
<1>3. TypeOK
  <2>1. ops \in Seq(Games) /\ subMenu \in Seq(Games) /\ queue \in Seq({"merged", "hdd"})
    BY DEF Init
  <2>2. asks \in 0..MaxAsks /\ changes \in 0..MaxChanges
    BY DEF Init
  <2>3. /\ current \in Games \cup {NULL} /\ held \in Games \cup {NULL, Freed}
        /\ ps5MergedSourceUpdateMask \subseteq Sources /\ sorting \in BOOLEAN
        /\ severed \in BOOLEAN /\ lost \subseteq Games
        /\ pc \in {"idle", "needs", "lock", "usb", "hdd"}
        /\ phase \in {"start", "show", "emptied", "drained", "input", "using"}
    BY DEF Init
  <2> QED BY <1>1, <1>2, <2>1, <2>2, <2>3, Zenon DEF TypeOK
<1> QED
  BY <1>3 DEF Init, MenuInv, RenderIsSafe, UpdateIsQueued

(* The worker frees entries only while no frame is shown.                  *)
LEMMA MenuStep == MenuInv /\ [Next]_vars => MenuInv'
<1> SUFFICES ASSUME MenuInv, [Next]_vars PROVE MenuInv'
  OBVIOUS
<1> USE MenuUpdateAssumption
<1>0. TypeOK /\ RenderIsSafe /\ UpdateIsQueued
  BY DEF MenuInv
<1>a. queue \in Seq({"merged", "hdd"})
  BY <1>0 DEF TypeOK
<1> DEFINE Flags == /\ usbDirty \in BOOLEAN /\ ps5MergedHddUpdatePending \in BOOLEAN
                    /\ ps5MergedForceRebuildPending \in BOOLEAN /\ askedHdd \in BOOLEAN
<1>b. Flags
  BY <1>0 DEF TypeOK
<1>c. \A s \in Sources : List(s) \in SUBSET Games /\ SetToSeq(List(s)) \in Seq(Games)
  <2>1. \A s \in Sources : List(s) \in SUBSET Games
    BY <1>0 DEF TypeOK, List
  <2> QED BY <2>1, SetToSeqOfGames
<1>d. "usb" \in Sources /\ "hdd" \in Sources
  BY DEF Sources
<1>e. Entries \in Seq(Games) /\ (Entries # <<>> => Head(Entries) \in Games)
  BY <1>0, ConcatProperties, HeadTailProperties DEF TypeOK, Entries
<1>1. CASE Device
  <2>1. queue' \in Seq({"merged", "hdd"}) /\ UpdateIsQueued'
    BY <1>0, <1>a, <1>1, PutKeepsQueue, HeadTailProperties DEF Device,
       DeviceChange, vars, world, menu, flags, TypeOK, UpdateIsQueued
  <2>7. ops' \in Seq(Games) /\ subMenu' \in Seq(Games)
    BY <1>0, <1>c, <1>d, <1>e, <1>1 DEF Device, DeviceChange, vars, world, menu,
       flags, TypeOK
  <2>2. Flags' /\ sorting' \in BOOLEAN /\ severed' \in BOOLEAN
        /\ lost' \subseteq Games /\ ps5MergedSourceUpdateMask' \subseteq Sources
    BY <1>0, <1>b, <1>1 DEF Device, DeviceChange, vars, world, menu, flags, TypeOK
  <2>3. current' \in Games \cup {NULL} /\ held' \in Games \cup {NULL, Freed}
    BY <1>0, <1>1 DEF Device, DeviceChange, vars, world, menu, flags, TypeOK
  <2>4. disk' \in [Sources -> SUBSET Games] /\ games' \in [Sources -> SUBSET Games]
    <3>1. PICK g \in Games, s \in Sources : DeviceChange(s, g)
      BY <1>1 DEF Device, Sources
    <3> QED BY <1>0, <3>1 DEF DeviceChange, TypeOK
  <2>5. RenderIsSafe'
    BY <1>0, <1>1 DEF Device, DeviceChange, vars, world, menu, flags, TypeOK,
       RenderIsSafe, LockFree
  <2>6. /\ pc' \in {"idle", "needs", "lock", "usb", "hdd"}
        /\ phase' \in {"start", "show", "emptied", "drained", "input", "using"}
        /\ asks' \in 0..MaxAsks /\ changes' \in 0..MaxChanges
    BY <1>0, <1>1 DEF Device, DeviceChange, vars, world, menu, flags, TypeOK
  <2> QED BY <2>1, <2>2, <2>3, <2>4, <2>5, <2>6, <2>7 DEF TypeOK, MenuInv
<1>2. CASE guiStartFrame
  <2>1. queue' \in Seq({"merged", "hdd"}) /\ UpdateIsQueued'
    BY <1>0, <1>a, <1>2, PutKeepsQueue, HeadTailProperties DEF guiStartFrame,
       vars, world, menu, flags, TypeOK, UpdateIsQueued
  <2>7. ops' \in Seq(Games) /\ subMenu' \in Seq(Games)
    BY <1>0, <1>c, <1>d, <1>e, <1>2 DEF guiStartFrame, vars, world, menu, flags,
       TypeOK
  <2>2. Flags' /\ sorting' \in BOOLEAN /\ severed' \in BOOLEAN
        /\ lost' \subseteq Games /\ ps5MergedSourceUpdateMask' \subseteq Sources
    BY <1>0, <1>b, <1>2 DEF guiStartFrame, vars, world, menu, flags, TypeOK
  <2>3. current' \in Games \cup {NULL} /\ held' \in Games \cup {NULL, Freed}
    BY <1>0, <1>2 DEF guiStartFrame, vars, world, menu, flags, TypeOK
  <2>4. disk' \in [Sources -> SUBSET Games] /\ games' \in [Sources -> SUBSET Games]
    BY <1>0, <1>2 DEF guiStartFrame, vars, world, menu, flags, TypeOK
  <2>5. RenderIsSafe'
    BY <1>0, <1>2 DEF guiStartFrame, vars, world, menu, flags, TypeOK,
       RenderIsSafe, LockFree
  <2>6. /\ pc' \in {"idle", "needs", "lock", "usb", "hdd"}
        /\ phase' \in {"start", "show", "emptied", "drained", "input", "using"}
        /\ asks' \in 0..MaxAsks /\ changes' \in 0..MaxChanges
    BY <1>0, <1>2 DEF guiStartFrame, vars, world, menu, flags, TypeOK
  <2> QED BY <2>1, <2>2, <2>3, <2>4, <2>5, <2>6, <2>7 DEF TypeOK, MenuInv
<1>3. CASE guiHandleDeferredOps
  <2>1. queue' \in Seq({"merged", "hdd"}) /\ UpdateIsQueued'
    BY <1>0, <1>a, <1>3, PutKeepsQueue, HeadTailProperties
       DEF guiHandleDeferredOps, vars, world, menu, flags, TypeOK,
       UpdateIsQueued
  <2>7. ops' \in Seq(Games) /\ subMenu' \in Seq(Games)
    BY <1>0, <1>c, <1>d, <1>e, <1>3 DEF guiHandleDeferredOps, vars, world, menu,
       flags, TypeOK
  <2>2. Flags' /\ sorting' \in BOOLEAN /\ severed' \in BOOLEAN
        /\ lost' \subseteq Games /\ ps5MergedSourceUpdateMask' \subseteq Sources
    BY <1>0, <1>b, <1>3 DEF guiHandleDeferredOps, vars, world, menu, flags, TypeOK
  <2>3. current' \in Games \cup {NULL} /\ held' \in Games \cup {NULL, Freed}
    BY <1>0, <1>e, <1>3 DEF guiHandleDeferredOps, vars, world, menu, flags, TypeOK
  <2>4. disk' \in [Sources -> SUBSET Games] /\ games' \in [Sources -> SUBSET Games]
    BY <1>0, <1>3 DEF guiHandleDeferredOps, vars, world, menu, flags, TypeOK
  <2>5. RenderIsSafe'
    BY <1>0, <1>3 DEF guiHandleDeferredOps, vars, world, menu, flags, TypeOK,
       RenderIsSafe, LockFree
  <2>6. /\ pc' \in {"idle", "needs", "lock", "usb", "hdd"}
        /\ phase' \in {"start", "show", "emptied", "drained", "input", "using"}
        /\ asks' \in 0..MaxAsks /\ changes' \in 0..MaxChanges
    BY <1>0, <1>3 DEF guiHandleDeferredOps, vars, world, menu, flags, TypeOK
  <2> QED BY <2>1, <2>2, <2>3, <2>4, <2>5, <2>6, <2>7 DEF TypeOK, MenuInv
<1>4. CASE guiEndFrame
  <2>1. queue' \in Seq({"merged", "hdd"}) /\ UpdateIsQueued'
    BY <1>0, <1>a, <1>4, PutKeepsQueue, HeadTailProperties DEF guiEndFrame,
       vars, world, menu, flags, TypeOK, UpdateIsQueued
  <2>7. ops' \in Seq(Games) /\ subMenu' \in Seq(Games)
    BY <1>0, <1>c, <1>d, <1>e, <1>4 DEF guiEndFrame, vars, world, menu, flags,
       TypeOK
  <2>2. Flags' /\ sorting' \in BOOLEAN /\ severed' \in BOOLEAN
        /\ lost' \subseteq Games /\ ps5MergedSourceUpdateMask' \subseteq Sources
    BY <1>0, <1>b, <1>4 DEF guiEndFrame, vars, world, menu, flags, TypeOK
  <2>3. current' \in Games \cup {NULL} /\ held' \in Games \cup {NULL, Freed}
    BY <1>0, <1>4 DEF guiEndFrame, vars, world, menu, flags, TypeOK
  <2>4. disk' \in [Sources -> SUBSET Games] /\ games' \in [Sources -> SUBSET Games]
    BY <1>0, <1>4 DEF guiEndFrame, vars, world, menu, flags, TypeOK
  <2>5. RenderIsSafe'
    BY <1>0, <1>4 DEF guiEndFrame, vars, world, menu, flags, TypeOK,
       RenderIsSafe, LockFree
  <2>6. /\ pc' \in {"idle", "needs", "lock", "usb", "hdd"}
        /\ phase' \in {"start", "show", "emptied", "drained", "input", "using"}
        /\ asks' \in 0..MaxAsks /\ changes' \in 0..MaxChanges
    BY <1>0, <1>4 DEF guiEndFrame, vars, world, menu, flags, TypeOK
  <2> QED BY <2>1, <2>2, <2>3, <2>4, <2>5, <2>6, <2>7 DEF TypeOK, MenuInv
<1>5. CASE InputUse
  <2>1. queue' \in Seq({"merged", "hdd"}) /\ UpdateIsQueued'
    BY <1>0, <1>a, <1>5, PutKeepsQueue, HeadTailProperties DEF InputUse, vars,
       world, menu, flags, TypeOK, UpdateIsQueued
  <2>7. ops' \in Seq(Games) /\ subMenu' \in Seq(Games)
    BY <1>0, <1>c, <1>d, <1>e, <1>5 DEF InputUse, vars, world, menu, flags, TypeOK
  <2>2. Flags' /\ sorting' \in BOOLEAN /\ severed' \in BOOLEAN
        /\ lost' \subseteq Games /\ ps5MergedSourceUpdateMask' \subseteq Sources
    BY <1>0, <1>b, <1>5 DEF InputUse, vars, world, menu, flags, TypeOK
  <2>3. current' \in Games \cup {NULL} /\ held' \in Games \cup {NULL, Freed}
    BY <1>0, <1>5 DEF InputUse, vars, world, menu, flags, TypeOK
  <2>4. disk' \in [Sources -> SUBSET Games] /\ games' \in [Sources -> SUBSET Games]
    BY <1>0, <1>5 DEF InputUse, vars, world, menu, flags, TypeOK
  <2>5. RenderIsSafe'
    BY <1>0, <1>5 DEF InputUse, vars, world, menu, flags, TypeOK, RenderIsSafe,
       LockFree
  <2>6. /\ pc' \in {"idle", "needs", "lock", "usb", "hdd"}
        /\ phase' \in {"start", "show", "emptied", "drained", "input", "using"}
        /\ asks' \in 0..MaxAsks /\ changes' \in 0..MaxChanges
    BY <1>0, <1>5 DEF InputUse, vars, world, menu, flags, TypeOK
  <2> QED BY <2>1, <2>2, <2>3, <2>4, <2>5, <2>6, <2>7 DEF TypeOK, MenuInv
<1>6. CASE oplRefreshMergedGameList
  <2>1. queue' \in Seq({"merged", "hdd"}) /\ UpdateIsQueued'
    BY <1>0, <1>a, <1>6, PutKeepsQueue, HeadTailProperties
       DEF oplRefreshMergedGameList, vars, world, menu, flags, TypeOK,
       UpdateIsQueued
  <2>7. ops' \in Seq(Games) /\ subMenu' \in Seq(Games)
    BY <1>0, <1>c, <1>d, <1>e, <1>6 DEF oplRefreshMergedGameList, vars, world,
       menu, flags, TypeOK
  <2>2. Flags' /\ sorting' \in BOOLEAN /\ severed' \in BOOLEAN
        /\ lost' \subseteq Games /\ ps5MergedSourceUpdateMask' \subseteq Sources
    BY <1>0, <1>b, <1>6 DEF oplRefreshMergedGameList, vars, world, menu, flags,
       TypeOK
  <2>3. current' \in Games \cup {NULL} /\ held' \in Games \cup {NULL, Freed}
    BY <1>0, <1>6 DEF oplRefreshMergedGameList, vars, world, menu, flags, TypeOK
  <2>4. disk' \in [Sources -> SUBSET Games] /\ games' \in [Sources -> SUBSET Games]
    BY <1>0, <1>6 DEF oplRefreshMergedGameList, vars, world, menu, flags, TypeOK
  <2>5. RenderIsSafe'
    BY <1>0, <1>6 DEF oplRefreshMergedGameList, vars, world, menu, flags,
       TypeOK, RenderIsSafe, LockFree
  <2>6. /\ pc' \in {"idle", "needs", "lock", "usb", "hdd"}
        /\ phase' \in {"start", "show", "emptied", "drained", "input", "using"}
        /\ asks' \in 0..MaxAsks /\ changes' \in 0..MaxChanges
    BY <1>0, <1>6 DEF oplRefreshMergedGameList, vars, world, menu, flags, TypeOK
  <2> QED BY <2>1, <2>2, <2>3, <2>4, <2>5, <2>6, <2>7 DEF TypeOK, MenuInv
<1>7. CASE InitHdd
  <2>1. queue' \in Seq({"merged", "hdd"}) /\ UpdateIsQueued'
    BY <1>0, <1>a, <1>7, PutKeepsQueue, HeadTailProperties DEF InitHdd, vars,
       world, menu, flags, TypeOK, UpdateIsQueued
  <2>7. ops' \in Seq(Games) /\ subMenu' \in Seq(Games)
    BY <1>0, <1>c, <1>d, <1>e, <1>7 DEF InitHdd, vars, world, menu, flags, TypeOK
  <2>2. Flags' /\ sorting' \in BOOLEAN /\ severed' \in BOOLEAN
        /\ lost' \subseteq Games /\ ps5MergedSourceUpdateMask' \subseteq Sources
    BY <1>0, <1>b, <1>7 DEF InitHdd, vars, world, menu, flags, TypeOK
  <2>3. current' \in Games \cup {NULL} /\ held' \in Games \cup {NULL, Freed}
    BY <1>0, <1>7 DEF InitHdd, vars, world, menu, flags, TypeOK
  <2>4. disk' \in [Sources -> SUBSET Games] /\ games' \in [Sources -> SUBSET Games]
    BY <1>0, <1>7 DEF InitHdd, vars, world, menu, flags, TypeOK
  <2>5. RenderIsSafe'
    BY <1>0, <1>7 DEF InitHdd, vars, world, menu, flags, TypeOK, RenderIsSafe,
       LockFree
  <2>6. /\ pc' \in {"idle", "needs", "lock", "usb", "hdd"}
        /\ phase' \in {"start", "show", "emptied", "drained", "input", "using"}
        /\ asks' \in 0..MaxAsks /\ changes' \in 0..MaxChanges
    BY <1>0, <1>7 DEF InitHdd, vars, world, menu, flags, TypeOK
  <2> QED BY <2>1, <2>2, <2>3, <2>4, <2>5, <2>6, <2>7 DEF TypeOK, MenuInv
<1>8. CASE InputDone
  <2>1. queue' \in Seq({"merged", "hdd"}) /\ UpdateIsQueued'
    BY <1>0, <1>a, <1>8, PutKeepsQueue, HeadTailProperties DEF InputDone, vars,
       world, menu, flags, TypeOK, UpdateIsQueued
  <2>7. ops' \in Seq(Games) /\ subMenu' \in Seq(Games)
    BY <1>0, <1>c, <1>d, <1>e, <1>8 DEF InputDone, vars, world, menu, flags, TypeOK
  <2>2. Flags' /\ sorting' \in BOOLEAN /\ severed' \in BOOLEAN
        /\ lost' \subseteq Games /\ ps5MergedSourceUpdateMask' \subseteq Sources
    BY <1>0, <1>b, <1>8 DEF InputDone, vars, world, menu, flags, TypeOK
  <2>3. current' \in Games \cup {NULL} /\ held' \in Games \cup {NULL, Freed}
    BY <1>0, <1>8 DEF InputDone, vars, world, menu, flags, TypeOK
  <2>4. disk' \in [Sources -> SUBSET Games] /\ games' \in [Sources -> SUBSET Games]
    BY <1>0, <1>8 DEF InputDone, vars, world, menu, flags, TypeOK
  <2>5. RenderIsSafe'
    BY <1>0, <1>8 DEF InputDone, vars, world, menu, flags, TypeOK, RenderIsSafe,
       LockFree
  <2>6. /\ pc' \in {"idle", "needs", "lock", "usb", "hdd"}
        /\ phase' \in {"start", "show", "emptied", "drained", "input", "using"}
        /\ asks' \in 0..MaxAsks /\ changes' \in 0..MaxChanges
    BY <1>0, <1>8 DEF InputDone, vars, world, menu, flags, TypeOK
  <2> QED BY <2>1, <2>2, <2>3, <2>4, <2>5, <2>6, <2>7 DEF TypeOK, MenuInv
<1>9. CASE Forward
  <2>1. queue' \in Seq({"merged", "hdd"}) /\ UpdateIsQueued'
    BY <1>0, <1>a, <1>9, PutKeepsQueue, HeadTailProperties DEF Forward, vars,
       world, menu, flags, TypeOK, UpdateIsQueued
  <2>7. ops' \in Seq(Games) /\ subMenu' \in Seq(Games)
    BY <1>0, <1>c, <1>d, <1>e, <1>9 DEF Forward, vars, world, menu, flags, TypeOK
  <2>2. Flags' /\ sorting' \in BOOLEAN /\ severed' \in BOOLEAN
        /\ lost' \subseteq Games /\ ps5MergedSourceUpdateMask' \subseteq Sources
    BY <1>0, <1>b, <1>9 DEF Forward, vars, world, menu, flags, TypeOK
  <2>3. current' \in Games \cup {NULL} /\ held' \in Games \cup {NULL, Freed}
    BY <1>0, <1>9 DEF Forward, vars, world, menu, flags, TypeOK
  <2>4. disk' \in [Sources -> SUBSET Games] /\ games' \in [Sources -> SUBSET Games]
    BY <1>0, <1>9 DEF Forward, vars, world, menu, flags, TypeOK
  <2>5. RenderIsSafe'
    BY <1>0, <1>9 DEF Forward, vars, world, menu, flags, TypeOK, RenderIsSafe,
       LockFree
  <2>6. /\ pc' \in {"idle", "needs", "lock", "usb", "hdd"}
        /\ phase' \in {"start", "show", "emptied", "drained", "input", "using"}
        /\ asks' \in 0..MaxAsks /\ changes' \in 0..MaxChanges
    BY <1>0, <1>9 DEF Forward, vars, world, menu, flags, TypeOK
  <2> QED BY <2>1, <2>2, <2>3, <2>4, <2>5, <2>6, <2>7 DEF TypeOK, MenuInv
<1>10. CASE Start
  <2>1. queue' \in Seq({"merged", "hdd"}) /\ UpdateIsQueued'
    BY <1>0, <1>a, <1>10, PutKeepsQueue, HeadTailProperties DEF Start, vars,
       world, menu, flags, TypeOK, UpdateIsQueued
  <2>7. ops' \in Seq(Games) /\ subMenu' \in Seq(Games)
    BY <1>0, <1>c, <1>d, <1>e, <1>10 DEF Start, vars, world, menu, flags, TypeOK
  <2>2. Flags' /\ sorting' \in BOOLEAN /\ severed' \in BOOLEAN
        /\ lost' \subseteq Games /\ ps5MergedSourceUpdateMask' \subseteq Sources
    BY <1>0, <1>b, <1>10 DEF Start, vars, world, menu, flags, TypeOK
  <2>3. current' \in Games \cup {NULL} /\ held' \in Games \cup {NULL, Freed}
    BY <1>0, <1>10 DEF Start, vars, world, menu, flags, TypeOK
  <2>4. disk' \in [Sources -> SUBSET Games] /\ games' \in [Sources -> SUBSET Games]
    BY <1>0, <1>10 DEF Start, vars, world, menu, flags, TypeOK
  <2>5. RenderIsSafe'
    BY <1>0, <1>10 DEF Start, vars, world, menu, flags, TypeOK, RenderIsSafe,
       LockFree
  <2>6. /\ pc' \in {"idle", "needs", "lock", "usb", "hdd"}
        /\ phase' \in {"start", "show", "emptied", "drained", "input", "using"}
        /\ asks' \in 0..MaxAsks /\ changes' \in 0..MaxChanges
    BY <1>0, <1>10 DEF Start, vars, world, menu, flags, TypeOK
  <2> QED BY <2>1, <2>2, <2>3, <2>4, <2>5, <2>6, <2>7 DEF TypeOK, MenuInv
<1>11. CASE NeedsUpdate
  <2>1. queue' \in Seq({"merged", "hdd"}) /\ UpdateIsQueued'
    BY <1>0, <1>a, <1>11, PutKeepsQueue, HeadTailProperties DEF NeedsUpdate,
       vars, world, menu, flags, TypeOK, UpdateIsQueued
  <2>7. ops' \in Seq(Games) /\ subMenu' \in Seq(Games)
    BY <1>0, <1>c, <1>d, <1>e, <1>11 DEF NeedsUpdate, vars, world, menu, flags,
       TypeOK
  <2>2. Flags' /\ sorting' \in BOOLEAN /\ severed' \in BOOLEAN
        /\ lost' \subseteq Games /\ ps5MergedSourceUpdateMask' \subseteq Sources
    BY <1>0, <1>b, <1>11 DEF Due, NeedsUpdate, vars, world, menu, flags, TypeOK
  <2>3. current' \in Games \cup {NULL} /\ held' \in Games \cup {NULL, Freed}
    BY <1>0, <1>11 DEF NeedsUpdate, vars, world, menu, flags, TypeOK
  <2>4. disk' \in [Sources -> SUBSET Games] /\ games' \in [Sources -> SUBSET Games]
    BY <1>0, <1>11 DEF NeedsUpdate, vars, world, menu, flags, TypeOK
  <2>5. RenderIsSafe'
    BY <1>0, <1>11 DEF NeedsUpdate, vars, world, menu, flags, TypeOK,
       RenderIsSafe, LockFree
  <2>6. /\ pc' \in {"idle", "needs", "lock", "usb", "hdd"}
        /\ phase' \in {"start", "show", "emptied", "drained", "input", "using"}
        /\ asks' \in 0..MaxAsks /\ changes' \in 0..MaxChanges
    BY <1>0, <1>11 DEF NeedsUpdate, vars, world, menu, flags, TypeOK
  <2> QED BY <2>1, <2>2, <2>3, <2>4, <2>5, <2>6, <2>7 DEF TypeOK, MenuInv
<1>12. CASE NeedsNothing
  <2>1. queue' \in Seq({"merged", "hdd"}) /\ UpdateIsQueued'
    BY <1>0, <1>a, <1>12, PutKeepsQueue, HeadTailProperties DEF NeedsNothing,
       vars, world, menu, flags, TypeOK, UpdateIsQueued
  <2>7. ops' \in Seq(Games) /\ subMenu' \in Seq(Games)
    BY <1>0, <1>c, <1>d, <1>e, <1>12 DEF NeedsNothing, vars, world, menu, flags,
       TypeOK
  <2>2. Flags' /\ sorting' \in BOOLEAN /\ severed' \in BOOLEAN
        /\ lost' \subseteq Games /\ ps5MergedSourceUpdateMask' \subseteq Sources
    BY <1>0, <1>b, <1>12 DEF NeedsNothing, vars, world, menu, flags, TypeOK
  <2>3. current' \in Games \cup {NULL} /\ held' \in Games \cup {NULL, Freed}
    BY <1>0, <1>12 DEF NeedsNothing, vars, world, menu, flags, TypeOK
  <2>4. disk' \in [Sources -> SUBSET Games] /\ games' \in [Sources -> SUBSET Games]
    BY <1>0, <1>12 DEF NeedsNothing, vars, world, menu, flags, TypeOK
  <2>5. RenderIsSafe'
    BY <1>0, <1>12 DEF NeedsNothing, vars, world, menu, flags, TypeOK,
       RenderIsSafe, LockFree
  <2>6. /\ pc' \in {"idle", "needs", "lock", "usb", "hdd"}
        /\ phase' \in {"start", "show", "emptied", "drained", "input", "using"}
        /\ asks' \in 0..MaxAsks /\ changes' \in 0..MaxChanges
    BY <1>0, <1>12 DEF NeedsNothing, vars, world, menu, flags, TypeOK
  <2> QED BY <2>1, <2>2, <2>3, <2>4, <2>5, <2>6, <2>7 DEF TypeOK, MenuInv
<1>13. CASE clearMenuGameList
  <2>1. queue' \in Seq({"merged", "hdd"}) /\ UpdateIsQueued'
    BY <1>0, <1>a, <1>13, PutKeepsQueue, HeadTailProperties
       DEF clearMenuGameList, vars, world, menu, flags, TypeOK, UpdateIsQueued
  <2>7. ops' \in Seq(Games) /\ subMenu' \in Seq(Games)
    BY <1>0, <1>c, <1>d, <1>e, <1>13 DEF clearMenuGameList, vars, world, menu,
       flags, TypeOK
  <2>2. Flags' /\ sorting' \in BOOLEAN /\ severed' \in BOOLEAN
        /\ lost' \subseteq Games /\ ps5MergedSourceUpdateMask' \subseteq Sources
    BY <1>0, <1>b, <1>13 DEF clearMenuGameList, vars, world, menu, flags, TypeOK
  <2>3. current' \in Games \cup {NULL} /\ held' \in Games \cup {NULL, Freed}
    BY <1>0, <1>13 DEF clearMenuGameList, vars, world, menu, flags, TypeOK
  <2>4. disk' \in [Sources -> SUBSET Games] /\ games' \in [Sources -> SUBSET Games]
    BY <1>0, <1>13 DEF clearMenuGameList, vars, world, menu, flags, TypeOK
  <2>5. RenderIsSafe'
    BY <1>0, <1>13 DEF clearMenuGameList, vars, world, menu, flags, TypeOK,
       RenderIsSafe, LockFree
  <2>6. /\ pc' \in {"idle", "needs", "lock", "usb", "hdd"}
        /\ phase' \in {"start", "show", "emptied", "drained", "input", "using"}
        /\ asks' \in 0..MaxAsks /\ changes' \in 0..MaxChanges
    BY <1>0, <1>13 DEF clearMenuGameList, vars, world, menu, flags, TypeOK
  <2> QED BY <2>1, <2>2, <2>3, <2>4, <2>5, <2>6, <2>7 DEF TypeOK, MenuInv
<1>14. CASE UpdateUsb
  <2>1. queue' \in Seq({"merged", "hdd"}) /\ UpdateIsQueued'
    BY <1>0, <1>a, <1>14, PutKeepsQueue, HeadTailProperties DEF guiDeferUpdate,
       DeferSort, UpdateUsb, vars,
       world, menu, flags, TypeOK, UpdateIsQueued
  <2>7. ops' \in Seq(Games) /\ subMenu' \in Seq(Games)
    <3>1. ops' = ops \/ ops' = ops \o SetToSeq(List("usb"))
      BY <1>14 DEF UpdateUsb, guiDeferUpdate
    <3>2. ops \in Seq(Games) /\ subMenu \in Seq(Games) /\ subMenu' = subMenu
      BY <1>0, <1>14 DEF UpdateUsb, TypeOK
    <3>3. ops \o SetToSeq(List("usb")) \in Seq(Games)
      BY <1>c, <1>d, <3>2, ConcatProperties
    <3> QED BY <3>1, <3>2, <3>3
  <2>2. Flags' /\ sorting' \in BOOLEAN /\ severed' \in BOOLEAN
        /\ lost' \subseteq Games /\ ps5MergedSourceUpdateMask' \subseteq Sources
    BY <1>0, <1>b, <1>c, <1>d, <1>14 DEF guiDeferUpdate, DeferSort, UpdateUsb,
       vars, world, menu, flags, TypeOK
  <2>3. current' \in Games \cup {NULL} /\ held' \in Games \cup {NULL, Freed}
    BY <1>0, <1>14 DEF guiDeferUpdate, DeferSort, UpdateUsb, vars, world, menu,
       flags, TypeOK
  <2>4. disk' \in [Sources -> SUBSET Games] /\ games' \in [Sources -> SUBSET Games]
    BY <1>0, <1>c, <1>d, <1>14 DEF guiDeferUpdate, DeferSort, UpdateUsb, vars,
       world, menu, flags, TypeOK
  <2>5. RenderIsSafe'
    BY <1>0, <1>14 DEF guiDeferUpdate, DeferSort, UpdateUsb, vars, world, menu,
       flags, TypeOK,
       RenderIsSafe, LockFree
  <2>6. /\ pc' \in {"idle", "needs", "lock", "usb", "hdd"}
        /\ phase' \in {"start", "show", "emptied", "drained", "input", "using"}
        /\ asks' \in 0..MaxAsks /\ changes' \in 0..MaxChanges
    BY <1>0, <1>14 DEF guiDeferUpdate, DeferSort, UpdateUsb, vars, world, menu,
       flags, TypeOK
  <2> QED BY <2>1, <2>2, <2>3, <2>4, <2>5, <2>6, <2>7 DEF TypeOK, MenuInv
<1>15. CASE UpdateHdd
  <2>1. queue' \in Seq({"merged", "hdd"}) /\ UpdateIsQueued'
    BY <1>0, <1>a, <1>15, PutKeepsQueue, HeadTailProperties DEF guiDeferUpdate,
       DeferSort, UpdateHdd, vars,
       world, menu, flags, TypeOK, UpdateIsQueued
  <2>7. ops' \in Seq(Games) /\ subMenu' \in Seq(Games)
    <3>1. ops' = ops \/ ops' = ops \o SetToSeq(List("hdd"))
      BY <1>15 DEF UpdateHdd, guiDeferUpdate
    <3>2. ops \in Seq(Games) /\ subMenu \in Seq(Games) /\ subMenu' = subMenu
      BY <1>0, <1>15 DEF UpdateHdd, TypeOK
    <3>3. ops \o SetToSeq(List("hdd")) \in Seq(Games)
      BY <1>c, <1>d, <3>2, ConcatProperties
    <3> QED BY <3>1, <3>2, <3>3
  <2>2. Flags' /\ sorting' \in BOOLEAN /\ severed' \in BOOLEAN
        /\ lost' \subseteq Games /\ ps5MergedSourceUpdateMask' \subseteq Sources
    BY <1>0, <1>b, <1>c, <1>d, <1>15 DEF guiDeferUpdate, DeferSort, UpdateHdd,
       vars, world, menu, flags, TypeOK
  <2>3. current' \in Games \cup {NULL} /\ held' \in Games \cup {NULL, Freed}
    BY <1>0, <1>15 DEF guiDeferUpdate, DeferSort, UpdateHdd, vars, world, menu,
       flags, TypeOK
  <2>4. disk' \in [Sources -> SUBSET Games] /\ games' \in [Sources -> SUBSET Games]
    BY <1>0, <1>c, <1>d, <1>15 DEF guiDeferUpdate, DeferSort, UpdateHdd, vars,
       world, menu, flags, TypeOK
  <2>5. RenderIsSafe'
    BY <1>0, <1>15 DEF guiDeferUpdate, DeferSort, UpdateHdd, vars, world, menu,
       flags, TypeOK,
       RenderIsSafe, LockFree
  <2>6. /\ pc' \in {"idle", "needs", "lock", "usb", "hdd"}
        /\ phase' \in {"start", "show", "emptied", "drained", "input", "using"}
        /\ asks' \in 0..MaxAsks /\ changes' \in 0..MaxChanges
    BY <1>0, <1>15 DEF guiDeferUpdate, DeferSort, UpdateHdd, vars, world, menu,
       flags, TypeOK
  <2> QED BY <2>1, <2>2, <2>3, <2>4, <2>5, <2>6, <2>7 DEF TypeOK, MenuInv
<1>16. CASE UNCHANGED vars
  <2>1. queue' \in Seq({"merged", "hdd"}) /\ UpdateIsQueued'
    BY <1>0, <1>a, <1>16, PutKeepsQueue, HeadTailProperties DEF vars, world,
       menu, flags, TypeOK, UpdateIsQueued
  <2>7. ops' \in Seq(Games) /\ subMenu' \in Seq(Games)
    BY <1>0, <1>c, <1>d, <1>e, <1>16 DEF vars, world, menu, flags, TypeOK
  <2>2. Flags' /\ sorting' \in BOOLEAN /\ severed' \in BOOLEAN
        /\ lost' \subseteq Games /\ ps5MergedSourceUpdateMask' \subseteq Sources
    BY <1>0, <1>b, <1>16 DEF vars, world, menu, flags, TypeOK
  <2>3. current' \in Games \cup {NULL} /\ held' \in Games \cup {NULL, Freed}
    BY <1>0, <1>16 DEF vars, world, menu, flags, TypeOK
  <2>4. disk' \in [Sources -> SUBSET Games] /\ games' \in [Sources -> SUBSET Games]
    BY <1>0, <1>16 DEF vars, world, menu, flags, TypeOK
  <2>5. RenderIsSafe'
    BY <1>0, <1>16 DEF vars, world, menu, flags, TypeOK, RenderIsSafe, LockFree
  <2>6. /\ pc' \in {"idle", "needs", "lock", "usb", "hdd"}
        /\ phase' \in {"start", "show", "emptied", "drained", "input", "using"}
        /\ asks' \in 0..MaxAsks /\ changes' \in 0..MaxChanges
    BY <1>0, <1>16 DEF vars, world, menu, flags, TypeOK
  <2> QED BY <2>1, <2>2, <2>3, <2>4, <2>5, <2>6, <2>7 DEF TypeOK, MenuInv
<1>17. CASE ClearUpdateEnd
  <2>1. queue' \in Seq({"merged", "hdd"}) /\ UpdateIsQueued'
    BY <1>0, <1>a, <1>17, PutKeepsQueue, HeadTailProperties DEF ClearUpdateEnd,
       vars, world, menu, flags, TypeOK, UpdateIsQueued
  <2>7. ops' \in Seq(Games) /\ subMenu' \in Seq(Games)
    BY <1>0, <1>c, <1>d, <1>e, <1>17 DEF ClearUpdateEnd, vars, world, menu, flags,
       TypeOK
  <2>2. Flags' /\ sorting' \in BOOLEAN /\ severed' \in BOOLEAN
        /\ lost' \subseteq Games /\ ps5MergedSourceUpdateMask' \subseteq Sources
    BY <1>0, <1>b, <1>17 DEF ClearUpdateEnd, vars, world, menu, flags, TypeOK
  <2>3. current' \in Games \cup {NULL} /\ held' \in Games \cup {NULL, Freed}
    BY <1>0, <1>17 DEF ClearUpdateEnd, vars, world, menu, flags, TypeOK
  <2>4. disk' \in [Sources -> SUBSET Games] /\ games' \in [Sources -> SUBSET Games]
    BY <1>0, <1>17 DEF ClearUpdateEnd, vars, world, menu, flags, TypeOK
  <2>5. RenderIsSafe'
    BY <1>0, <1>17 DEF ClearUpdateEnd, vars, world, menu, flags, TypeOK,
       RenderIsSafe, LockFree
  <2>6. /\ pc' \in {"idle", "needs", "lock", "usb", "hdd"}
        /\ phase' \in {"start", "show", "emptied", "drained", "input", "using"}
        /\ asks' \in 0..MaxAsks /\ changes' \in 0..MaxChanges
    BY <1>0, <1>17 DEF ClearUpdateEnd, vars, world, menu, flags, TypeOK
  <2> QED BY <2>1, <2>2, <2>3, <2>4, <2>5, <2>6, <2>7 DEF TypeOK, MenuInv
<1> QED
  BY <1>1, <1>2, <1>3, <1>4, <1>5, <1>6, <1>7, <1>8, <1>9, <1>10, <1>11, <1>12,
     <1>13, <1>14, <1>15, <1>16, <1>17 DEF Next, Gui, Worker

(* What a frame shows is not freed under it, whatever the worker rebuilds  *)
(* (opl.c, clearMenuGameList takes the lock guiMainLoop draws under).      *)
THEOREM RenderStaysSafe == Spec => []RenderIsSafe
<1>1. MenuInv => RenderIsSafe
  BY DEF MenuInv
<1> QED
  BY <1>1, MenuStart, MenuStep, PTL DEF Spec

-----------------------------------------------------------------------------
(* The background music.                                                   *)

(* The pointers go round the ring.                                         *)
LEMMA AdvanceIs ==
    ASSUME NEW p \in Buffers, NEW n \in 0..BGM_RING_BUFFER_COUNT
    PROVE  /\ Advance(p, n) \in Buffers
           /\ Advance(p, n) = IF p + n < BGM_RING_BUFFER_COUNT
                              THEN p + n ELSE p + n - BGM_RING_BUFFER_COUNT
<1> DEFINE N == BGM_RING_BUFFER_COUNT
<1>1. N \in Nat \ {0}
  BY BgmAssumption
<1>2. p \in 0..N - 1 /\ n \in 0..N
  BY DEF Buffers
<1> HIDE DEF N
<1>3. CASE p + n < N
  <2>1. (p + n) % N = p + n
    BY <1>1, <1>2, <1>3
  <2> QED BY <1>1, <1>2, <1>3, <2>1 DEF Advance, Buffers, N
<1>4. CASE p + n >= N
  <2>1. (p + n) % N = p + n - N
    BY <1>1, <1>2, <1>4
  <2> QED BY <1>1, <1>2, <1>4, <2>1 DEF Advance, Buffers, N
<1> QED
  BY <1>1, <1>2, <1>3, <1>4

(* The buffers that are decoded or being played.                           *)
Used == outSema + (IF play = "audio" THEN 1 ELSE 0)

(* A buffer is free, being decoded, or used.                               *)
BuffersAreCounted ==
    /\ play # "none" \/ read # "none" \/ gui = "load" =>
         inSema + parts + Used = BGM_RING_BUFFER_COUNT
    /\ read = "read" => parts >= 1 /\ parts + wrPtr <= BGM_RING_BUFFER_COUNT
    /\ read # "read" => parts = 0
    /\ play \in {"none", "start", "round"} => outSema = 0

(* The used buffers are those from rdPtr up to wrPtr, until the player     *)
(* resets both at its end; then nothing is left to be played when the      *)
(* reader decodes.                                                         *)
RingIsInOrder ==
    /\ play \notin {"last", "ended"} =>
         /\ wrPtr = rdPtr + Used \/ wrPtr = rdPtr + Used - BGM_RING_BUFFER_COUNT
         /\ \A b \in fresh :
              (IF b < rdPtr THEN b + BGM_RING_BUFFER_COUNT ELSE b) < rdPtr + Used
         /\ \A b \in Buffers :
              (IF b < rdPtr THEN b + BGM_RING_BUFFER_COUNT ELSE b) < rdPtr + Used =>
                b \in fresh \cup skipped
    /\ play \in {"stop", "last", "ended"} =>
         terminateFlag /\ (read \in {"start", "wait", "read"} => fresh = {})

(* What bgmStop looks at is where the threads are.                         *)
ThreadsAreTold ==
    /\ bgmThreadRunning <=> play \in {"round", "sleep", "poll", "audio", "stop"}
    /\ bgmIoThreadRunning <=> read \in {"wait", "read", "check"}
    /\ play = "start" \/ read = "start" => gui = "idle"
    /\ gui = "load" => ~deleted /\ play = "none" /\ read = "none"
                       /\ rdPtr = 0 /\ wrPtr = 0 /\ fresh = {}
    /\ gui \in {"stop_play", "quit_play"} => read \in Gone \cup {"exit"}
    /\ play = "none" <=> read = "none"
    /\ gui = "boot" => play = "none"

BgmInv ==
    BgmTypeOK /\ BuffersAreCounted /\ RingIsInOrder /\ ThreadsAreTold /\ StoppedIsQuiet

(* The parts of the type invariant.                                        *)
BgmNumbers ==
    /\ inSema \in 0..BGM_RING_BUFFER_COUNT /\ outSema \in 0..BGM_RING_BUFFER_COUNT
    /\ parts \in 0..BGM_RING_BUFFER_COUNT
    /\ rdPtr \in Buffers /\ wrPtr \in Buffers /\ fresh \subseteq Buffers
    /\ skipped \subseteq Buffers /\ wakeups \in 0..MaxWakeups
BgmBooleans ==
    /\ terminateFlag \in BOOLEAN /\ bgmIsPlaying \in BOOLEAN /\ bgmThreadRunning \in BOOLEAN
    /\ bgmIoThreadRunning \in BOOLEAN /\ deleted \in BOOLEAN /\ gEnableBGM \in BOOLEAN
    /\ audio_initialized \in BOOLEAN
BgmPlaces ==
    /\ play \in Gone \cup {"start", "round", "sleep", "poll", "audio", "stop", "last"}
    /\ read \in Gone \cup {"start", "wait", "read", "check", "exit"}
    /\ gui \in {"boot", "idle", "load", "stop_read", "stop_play", "apply", "quit_read",
                "quit_play", "quit", "clash"}

(* The type invariant of the music is the conjunction of its parts.        *)
LEMMA BgmTypes == BgmTypeOK <=> BgmNumbers /\ BgmBooleans /\ BgmPlaces
  BY Zenon DEF BgmTypeOK, BgmNumbers, BgmBooleans, BgmPlaces

(* The sizes of the ring and of its parts are numbers.                     *)
LEMMA BgmConstants == /\ BGM_RING_BUFFER_COUNT \in Nat /\ BGM_RING_BUFFER_COUNT > 0
                      /\ MaxWakeups \in Nat /\ MaxWakeups > 0
  BY BgmAssumption

(* The invariant gives the property.                                       *)
LEMMA MusicFollows == BgmInv => MusicIsSafe
<1> SUFFICES ASSUME BgmInv PROVE NothingIsOverwritten /\ PlayedWasHandedOver
  BY DEF BgmInv, MusicIsSafe
<1>1. BgmNumbers /\ BuffersAreCounted /\ RingIsInOrder
  BY BgmTypes DEF BgmInv
<1>5. PlayedWasHandedOver
  <2> SUFFICES ASSUME play = "audio" PROVE rdPtr \in fresh \cup skipped
    BY DEF PlayedWasHandedOver
  <2>1. rdPtr \in Buffers /\ Used \in Nat /\ Used >= 1 /\ rdPtr \in Nat
    BY <1>1, BgmConstants DEF BgmNumbers, Used, Buffers
  <2>2. (IF rdPtr < rdPtr THEN rdPtr + BGM_RING_BUFFER_COUNT ELSE rdPtr) < rdPtr + Used
    BY <2>1
  <2> QED BY <1>1, <2>1, <2>2 DEF RingIsInOrder
<1> SUFFICES ASSUME read = "read"
             PROVE  wrPtr \notin fresh /\ (play = "audio" => wrPtr # rdPtr)
  BY <1>5 DEF NothingIsOverwritten
<1>2. /\ Used + parts <= BGM_RING_BUFFER_COUNT /\ parts >= 1 /\ Used \in Nat
      /\ play = "audio" => Used >= 1
  BY <1>1, BgmConstants DEF BgmNumbers, BuffersAreCounted, Used
<1>3. CASE play \in {"last", "ended"}
  BY <1>1, <1>3 DEF RingIsInOrder
<1>4. CASE play \notin {"last", "ended"}
  <2>1. wrPtr \notin fresh
    BY <1>1, <1>2, <1>4, BgmConstants DEF RingIsInOrder, BgmNumbers, Buffers
  <2>2. play = "audio" => wrPtr # rdPtr
    BY <1>1, <1>2, <1>4, BgmConstants DEF RingIsInOrder, BgmNumbers, Buffers
  <2> QED BY <2>1, <2>2
<1> QED
  BY <1>3, <1>4

(* bgmInit sets everything up again.                                       *)
LEMMA StartSetsUp ==
    ASSUME BgmInv, bgmStart, gEnableBGM' \in BOOLEAN, audio_initialized' \in BOOLEAN
    PROVE  BgmInv'
<1> USE BgmConstants
<1>1. BgmBooleans
  BY BgmTypes DEF BgmInv
<1>2. BgmNumbers' /\ BgmPlaces'
  BY DEF bgmStart, BgmNumbers, BgmPlaces, Gone, Buffers
<1>3. BgmBooleans'
  BY <1>1 DEF bgmStart, BgmBooleans
<1>4. BgmTypeOK'
  BY <1>2, <1>3 DEF BgmTypeOK, BgmNumbers, BgmBooleans, BgmPlaces
<1>5. BuffersAreCounted' /\ RingIsInOrder'
  BY DEF bgmStart, BuffersAreCounted, RingIsInOrder, Used, Buffers
<1>6. ThreadsAreTold' /\ StoppedIsQuiet'
  BY DEF bgmStart, ThreadsAreTold, StoppedIsQuiet, Gone
<1> QED
  BY <1>4, <1>5, <1>6 DEF BgmInv

(* The GUI thread goes on without the music.                               *)
LEMMA GuiGoesOn ==
    ASSUME BgmInv, Keep, gEnableBGM' \in BOOLEAN, audio_initialized' \in BOOLEAN,
           gui' \in {"idle", "apply", "quit", "clash"},
           gui' = "idle" \/ (play # "start" /\ read # "start")
    PROVE  BgmInv'
<1>0. BgmNumbers /\ BgmBooleans /\ BgmPlaces
  BY BgmTypes DEF BgmInv
<1>1. BgmNumbers' /\ BgmPlaces'
  BY <1>0 DEF Keep, ringState, BgmNumbers, BgmPlaces
<1>2. BgmBooleans'
  BY <1>0 DEF Keep, ringState, bgmFlags, BgmBooleans
<1>3. BgmTypeOK'
  BY <1>1, <1>2 DEF BgmTypeOK, BgmNumbers, BgmBooleans, BgmPlaces
<1>4. BuffersAreCounted' /\ RingIsInOrder'
  BY DEF BgmInv, Keep, ringState, bgmFlags, BuffersAreCounted, RingIsInOrder, Used
<1>5. ThreadsAreTold' /\ StoppedIsQuiet'
  BY DEF BgmInv, Keep, ringState, bgmFlags, ThreadsAreTold, StoppedIsQuiet
<1> QED
  BY <1>3, <1>4, <1>5 DEF BgmInv

(* bgmStop ends with both threads past their last use of the buffers, or   *)
(* waits for one of them.                                                  *)
LEMMA StopWaits ==
    ASSUME BgmInv, NEW goal \in {ForTheme, ForQuit}, Stops(goal),
           play # "start", read # "start"
    PROVE  /\ gui' \in {"stop_read", "stop_play", "apply", "quit_read", "quit_play", "quit"}
           /\ gui' \in {"stop_play", "quit_play"} => read \in Gone \cup {"exit"}
           /\ deleted' \in BOOLEAN
           /\ deleted' => play \in Gone \cup {"last"} /\ read \in Gone \cup {"exit"}
<1>0. BgmBooleans /\ BgmPlaces /\ ThreadsAreTold /\ StoppedIsQuiet
  BY BgmTypes DEF BgmInv
<1>1. /\ goal.read \in {"stop_read", "quit_read"} /\ goal.play \in {"stop_play", "quit_play"}
      /\ goal.done \in {"apply", "quit"}
  BY DEF ForTheme, ForQuit
<1>2. CASE bgmIoThreadRunning
  BY <1>0, <1>1, <1>2 DEF Stops, StoppedIsQuiet, BgmBooleans
<1>3. CASE ~bgmIoThreadRunning
  <2>1. read \in Gone \cup {"exit"}
    BY <1>0, <1>3 DEF ThreadsAreTold, BgmPlaces
  <2>2. ~bgmThreadRunning => play \in Gone \cup {"last"}
    BY <1>0 DEF ThreadsAreTold, BgmPlaces
  <2> QED BY <1>0, <1>1, <1>3, <2>1, <2>2 DEF Stops, StoppedIsQuiet, BgmBooleans
<1> QED
  BY <1>2, <1>3

(* The three threads keep the ring in order.                               *)
LEMMA BgmStep == BgmInv /\ [BgmNext]_bgmVars => BgmInv'
<1> SUFFICES ASSUME BgmInv, [BgmNext]_bgmVars PROVE BgmInv'
  OBVIOUS
<1> USE BgmConstants
<1>0. /\ BgmNumbers /\ BgmBooleans /\ BgmPlaces /\ BuffersAreCounted /\ RingIsInOrder
      /\ ThreadsAreTold /\ StoppedIsQuiet
  BY BgmTypes DEF BgmInv
<1>1. CASE PlayBegin
  <2>1. BgmNumbers'
    BY <1>0, <1>1 DEF PlayBegin, ringState, bgmFlags, settings, Wakeup,
       BgmNumbers, BuffersAreCounted, Used
  <2>2. BgmBooleans'
    BY <1>0, <1>1 DEF PlayBegin, ringState, bgmFlags, settings, BgmBooleans
  <2>3. BgmPlaces'
    BY <1>0, <1>1 DEF PlayBegin, ringState, bgmFlags, settings, BgmPlaces, Gone
  <2>4. BgmTypeOK'
    BY <2>1, <2>2, <2>3 DEF BgmTypeOK, BgmNumbers, BgmBooleans, BgmPlaces
  <2>5. BuffersAreCounted'
    BY <1>0, <1>1 DEF PlayBegin, ringState, bgmFlags, settings, BgmNumbers,
       BuffersAreCounted, Used, PlayerWaits, ThreadsAreTold, Gone
  <2>6. RingIsInOrder'
    BY <1>0, <1>1 DEF PlayBegin, ringState, bgmFlags, settings, BgmNumbers,
       BgmBooleans, BgmPlaces, BuffersAreCounted, RingIsInOrder, Used, Buffers,
       PlayerWaits, Gone, ThreadsAreTold
  <2>7. ThreadsAreTold' /\ StoppedIsQuiet'
    BY <1>0, <1>1 DEF PlayBegin, ringState, bgmFlags, settings, BgmPlaces,
       ThreadsAreTold, StoppedIsQuiet, Gone, PlayerWaits
  <2> QED BY <2>4, <2>5, <2>6, <2>7 DEF BgmInv
<1>2. CASE PlayRound
  <2>1. BgmNumbers'
    BY <1>0, <1>2 DEF PlayRound, ringState, bgmFlags, settings, Wakeup,
       BgmNumbers, BuffersAreCounted, Used
  <2>2. BgmBooleans'
    BY <1>0, <1>2 DEF PlayRound, ringState, bgmFlags, settings, BgmBooleans
  <2>3. BgmPlaces'
    BY <1>0, <1>2 DEF PlayRound, ringState, bgmFlags, settings, BgmPlaces, Gone
  <2>4. BgmTypeOK'
    BY <2>1, <2>2, <2>3 DEF BgmTypeOK, BgmNumbers, BgmBooleans, BgmPlaces
  <2>5. BuffersAreCounted'
    BY <1>0, <1>2 DEF PlayRound, ringState, bgmFlags, settings, BgmNumbers,
       BuffersAreCounted, Used, PlayerWaits, ThreadsAreTold, Gone
  <2>6. RingIsInOrder'
    BY <1>0, <1>2 DEF PlayRound, ringState, bgmFlags, settings, BgmNumbers,
       BgmBooleans, BgmPlaces, BuffersAreCounted, RingIsInOrder, Used, Buffers,
       PlayerWaits, Gone, ThreadsAreTold
  <2>7. ThreadsAreTold' /\ StoppedIsQuiet'
    BY <1>0, <1>2 DEF PlayRound, ringState, bgmFlags, settings, BgmPlaces,
       ThreadsAreTold, StoppedIsQuiet, Gone, PlayerWaits
  <2> QED BY <2>4, <2>5, <2>6, <2>7 DEF BgmInv
<1>3. CASE PlayWake
  <2>1. BgmNumbers'
    BY <1>0, <1>3 DEF PlayWake, ringState, bgmFlags, settings, Wakeup,
       BgmNumbers, BuffersAreCounted, Used
  <2>2. BgmBooleans'
    BY <1>0, <1>3 DEF PlayWake, ringState, bgmFlags, settings, BgmBooleans
  <2>3. BgmPlaces'
    BY <1>0, <1>3 DEF PlayWake, ringState, bgmFlags, settings, BgmPlaces, Gone
  <2>4. BgmTypeOK'
    BY <2>1, <2>2, <2>3 DEF BgmTypeOK, BgmNumbers, BgmBooleans, BgmPlaces
  <2>5. BuffersAreCounted'
    BY <1>0, <1>3 DEF PlayWake, ringState, bgmFlags, settings, BgmNumbers,
       BuffersAreCounted, Used, PlayerWaits, ThreadsAreTold, Gone
  <2>6. RingIsInOrder'
    BY <1>0, <1>3 DEF PlayWake, ringState, bgmFlags, settings, BgmNumbers,
       BgmBooleans, BgmPlaces, BuffersAreCounted, RingIsInOrder, Used, Buffers,
       PlayerWaits, Gone, ThreadsAreTold
  <2>7. ThreadsAreTold' /\ StoppedIsQuiet'
    BY <1>0, <1>3 DEF PlayWake, ringState, bgmFlags, settings, BgmPlaces,
       ThreadsAreTold, StoppedIsQuiet, Gone, PlayerWaits
  <2> QED BY <2>4, <2>5, <2>6, <2>7 DEF BgmInv
<1>4. CASE PlayPoll
  <2>1. BgmNumbers'
    BY <1>0, <1>4 DEF PlayPoll, ringState, bgmFlags, settings, Wakeup,
       BgmNumbers, BuffersAreCounted, Used
  <2>2. BgmBooleans'
    BY <1>0, <1>4 DEF PlayPoll, ringState, bgmFlags, settings, BgmBooleans
  <2>3. BgmPlaces'
    BY <1>0, <1>4 DEF PlayPoll, ringState, bgmFlags, settings, BgmPlaces, Gone
  <2>4. BgmTypeOK'
    BY <2>1, <2>2, <2>3 DEF BgmTypeOK, BgmNumbers, BgmBooleans, BgmPlaces
  <2>5. BuffersAreCounted'
    BY <1>0, <1>4 DEF PlayPoll, ringState, bgmFlags, settings, BgmNumbers,
       BuffersAreCounted, Used, PlayerWaits, ThreadsAreTold, Gone
  <2>6. RingIsInOrder'
    <3>1. Used' = Used /\ UNCHANGED <<rdPtr, wrPtr, fresh, skipped>>
          /\ play = "poll" /\ play' \in {"audio", "round"}
      BY <1>0, <1>4 DEF PlayPoll, BgmNumbers, Used
    <3> QED BY <1>0, <3>1 DEF RingIsInOrder
  <2>7. ThreadsAreTold' /\ StoppedIsQuiet'
    BY <1>0, <1>4 DEF PlayPoll, ringState, bgmFlags, settings, BgmPlaces,
       ThreadsAreTold, StoppedIsQuiet, Gone, PlayerWaits
  <2> QED BY <2>4, <2>5, <2>6, <2>7 DEF BgmInv
<1>5. CASE PlayAudio
  <2>1. BgmNumbers'
    BY <1>0, <1>5, AdvanceIs DEF PlayAudio, ringState, bgmFlags, settings,
       Wakeup, BgmNumbers, BuffersAreCounted, Used
  <2>2. BgmBooleans'
    BY <1>0, <1>5 DEF PlayAudio, ringState, bgmFlags, settings, BgmBooleans
  <2>3. BgmPlaces'
    BY <1>0, <1>5 DEF PlayAudio, ringState, bgmFlags, settings, BgmPlaces, Gone
  <2>4. BgmTypeOK'
    BY <2>1, <2>2, <2>3 DEF BgmTypeOK, BgmNumbers, BgmBooleans, BgmPlaces
  <2>5. BuffersAreCounted'
    BY <1>0, <1>5, AdvanceIs DEF PlayAudio, ringState, bgmFlags, settings,
       BgmNumbers, BuffersAreCounted, Used, PlayerWaits, ThreadsAreTold, Gone
  <2>6. RingIsInOrder'
    <3>1. /\ Used \in Nat \ {0} /\ Used <= BGM_RING_BUFFER_COUNT /\ Used' = Used - 1 /\ play = "audio"
          /\ play' = "poll" /\ wrPtr' = wrPtr /\ fresh' = fresh \ {rdPtr}
          /\ skipped' = skipped \ {rdPtr}
      BY <1>0, <1>5 DEF PlayAudio, BgmNumbers, BuffersAreCounted, Used
    <3>2. rdPtr' = IF rdPtr + 1 < BGM_RING_BUFFER_COUNT THEN rdPtr + 1 ELSE 0
      <4>1. rdPtr' = Advance(rdPtr, 1) /\ rdPtr \in Buffers /\ 1 \in 0..BGM_RING_BUFFER_COUNT
        BY <1>0, <1>5 DEF PlayAudio, BgmNumbers
      <4>2. rdPtr' = IF rdPtr + 1 < BGM_RING_BUFFER_COUNT
                     THEN rdPtr + 1 ELSE rdPtr + 1 - BGM_RING_BUFFER_COUNT
        BY <4>1, AdvanceIs
      <4> QED BY <4>1, <4>2 DEF Buffers
    <3>3. rdPtr \in Nat /\ rdPtr < BGM_RING_BUFFER_COUNT /\ wrPtr \in Nat /\ wrPtr < BGM_RING_BUFFER_COUNT
          /\ \A b \in fresh : b \in Nat /\ b < BGM_RING_BUFFER_COUNT
      BY <1>0 DEF BgmNumbers, Buffers
    <3>4. wrPtr' = rdPtr' + Used' \/ wrPtr' = rdPtr' + Used' - BGM_RING_BUFFER_COUNT
      BY <1>0, <3>1, <3>2, <3>3 DEF RingIsInOrder
    <3>5. \A b \in fresh' : (IF b < rdPtr' THEN b + BGM_RING_BUFFER_COUNT ELSE b) < rdPtr' + Used'
      <4> SUFFICES ASSUME NEW b \in fresh, b # rdPtr
                   PROVE  (IF b < rdPtr' THEN b + BGM_RING_BUFFER_COUNT ELSE b) < rdPtr' + Used'
        BY <3>1
      <4>1. (IF b < rdPtr THEN b + BGM_RING_BUFFER_COUNT ELSE b) < rdPtr + Used
        BY <1>0, <3>1 DEF RingIsInOrder
      <4> QED BY <3>1, <3>2, <3>3, <4>1
    <3>6. ASSUME NEW b \in Buffers,
                 (IF b < rdPtr' THEN b + BGM_RING_BUFFER_COUNT ELSE b) < rdPtr' + Used'
          PROVE  b \in fresh' \cup skipped'
      <4>1. b \in Nat /\ b < BGM_RING_BUFFER_COUNT
        BY DEF Buffers
      <4>2. b # rdPtr
        BY <3>1, <3>2, <3>3, <3>6, <4>1
      <4>3. (IF b < rdPtr THEN b + BGM_RING_BUFFER_COUNT ELSE b) < rdPtr + Used
        BY <3>1, <3>2, <3>3, <3>6, <4>1, <4>2
      <4>4. b \in fresh \cup skipped
        BY <1>0, <3>1, <4>3 DEF RingIsInOrder
      <4> QED BY <3>1, <4>2, <4>4
    <3> QED BY <3>1, <3>4, <3>5, <3>6 DEF RingIsInOrder
  <2>7. ThreadsAreTold' /\ StoppedIsQuiet'
    BY <1>0, <1>5 DEF PlayAudio, ringState, bgmFlags, settings, BgmPlaces,
       ThreadsAreTold, StoppedIsQuiet, Gone, PlayerWaits
  <2> QED BY <2>4, <2>5, <2>6, <2>7 DEF BgmInv
<1>6. CASE PlayStop
  <2>1. BgmNumbers'
    BY <1>0, <1>6 DEF PlayStop, BgmNumbers, Buffers
  <2>2. BgmBooleans'
    BY <1>0, <1>6 DEF PlayStop, ringState, bgmFlags, settings, BgmBooleans
  <2>3. BgmPlaces'
    BY <1>0, <1>6 DEF PlayStop, ringState, bgmFlags, settings, BgmPlaces, Gone
  <2>4. BgmTypeOK'
    BY <2>1, <2>2, <2>3 DEF BgmTypeOK, BgmNumbers, BgmBooleans, BgmPlaces
  <2>5. BuffersAreCounted'
    BY <1>0, <1>6 DEF PlayStop, ringState, bgmFlags, settings, BgmNumbers,
       BuffersAreCounted, Used, PlayerWaits, ThreadsAreTold, Gone
  <2>6. RingIsInOrder'
    BY <1>0, <1>6 DEF PlayStop, ringState, bgmFlags, settings, BgmNumbers,
       BgmBooleans, BgmPlaces, BuffersAreCounted, RingIsInOrder, Used, Buffers,
       PlayerWaits, Gone, ThreadsAreTold
  <2>7. ThreadsAreTold' /\ StoppedIsQuiet'
    BY <1>0, <1>6 DEF PlayStop, ringState, bgmFlags, settings, BgmPlaces,
       ThreadsAreTold, StoppedIsQuiet, Gone, PlayerWaits
  <2> QED BY <2>4, <2>5, <2>6, <2>7 DEF BgmInv
<1>7. CASE PlayLast
  <2>1. BgmNumbers'
    BY <1>0, <1>7 DEF PlayLast, ringState, bgmFlags, settings, Wakeup,
       BgmNumbers, BuffersAreCounted, Used
  <2>2. BgmBooleans'
    BY <1>0, <1>7 DEF PlayLast, ringState, bgmFlags, settings, BgmBooleans
  <2>3. BgmPlaces'
    BY <1>0, <1>7 DEF PlayLast, ringState, bgmFlags, settings, BgmPlaces, Gone
  <2>4. BgmTypeOK'
    BY <2>1, <2>2, <2>3 DEF BgmTypeOK, BgmNumbers, BgmBooleans, BgmPlaces
  <2>5. BuffersAreCounted'
    BY <1>0, <1>7 DEF PlayLast, ringState, bgmFlags, settings, BgmNumbers,
       BuffersAreCounted, Used, PlayerWaits, ThreadsAreTold, Gone
  <2>6. RingIsInOrder'
    BY <1>0, <1>7 DEF PlayLast, ringState, bgmFlags, settings, BgmNumbers,
       BgmBooleans, BgmPlaces, BuffersAreCounted, RingIsInOrder, Used, Buffers,
       PlayerWaits, Gone, ThreadsAreTold
  <2>7. ThreadsAreTold' /\ StoppedIsQuiet'
    BY <1>0, <1>7 DEF PlayLast, ringState, bgmFlags, settings, BgmPlaces,
       ThreadsAreTold, StoppedIsQuiet, Gone, PlayerWaits
  <2> QED BY <2>4, <2>5, <2>6, <2>7 DEF BgmInv
<1>8. CASE ReadBegin
  <2>1. BgmNumbers'
    BY <1>0, <1>8 DEF ReadBegin, ringState, bgmFlags, settings, Wakeup,
       BgmNumbers, BuffersAreCounted, Used
  <2>2. BgmBooleans'
    BY <1>0, <1>8 DEF ReadBegin, ringState, bgmFlags, settings, BgmBooleans
  <2>3. BgmPlaces'
    BY <1>0, <1>8 DEF ReadBegin, ringState, bgmFlags, settings, BgmPlaces, Gone
  <2>4. BgmTypeOK'
    BY <2>1, <2>2, <2>3 DEF BgmTypeOK, BgmNumbers, BgmBooleans, BgmPlaces
  <2>5. BuffersAreCounted'
    BY <1>0, <1>8 DEF ReadBegin, ringState, bgmFlags, settings, BgmNumbers,
       BuffersAreCounted, Used, PlayerWaits, ThreadsAreTold, Gone
  <2>6. RingIsInOrder'
    BY <1>0, <1>8 DEF ReadBegin, ringState, bgmFlags, settings, BgmNumbers,
       BgmBooleans, BgmPlaces, BuffersAreCounted, RingIsInOrder, Used, Buffers,
       PlayerWaits, Gone, ThreadsAreTold
  <2>7. ThreadsAreTold' /\ StoppedIsQuiet'
    BY <1>0, <1>8 DEF ReadBegin, ringState, bgmFlags, settings, BgmPlaces,
       ThreadsAreTold, StoppedIsQuiet, Gone, PlayerWaits
  <2> QED BY <2>4, <2>5, <2>6, <2>7 DEF BgmInv
<1>9. CASE ReadTake
  <2>0. parts' \in 1..BGM_RING_BUFFER_COUNT /\ parts' <= inSema /\ parts' + wrPtr <= BGM_RING_BUFFER_COUNT
    BY <1>0, <1>9 DEF ReadTake, MaxParts, BgmNumbers, Buffers
  <2>1. BgmNumbers'
    BY <1>0, <1>9, <2>0 DEF ReadTake, BgmNumbers
  <2>2. BgmBooleans'
    BY <1>0, <1>9 DEF ReadTake, MaxParts, ringState, bgmFlags, settings, BgmBooleans
  <2>3. BgmPlaces'
    BY <1>0, <1>9 DEF ReadTake, MaxParts, ringState, bgmFlags, settings,
       BgmPlaces, Gone
  <2>4. BgmTypeOK'
    BY <2>1, <2>2, <2>3 DEF BgmTypeOK, BgmNumbers, BgmBooleans, BgmPlaces
  <2>5. BuffersAreCounted'
    <3>1. /\ inSema' + parts' = inSema /\ parts = 0 /\ Used' = Used /\ UNCHANGED <<wrPtr, play, outSema, gui>>
          /\ read = "wait" /\ read' = "read"
      BY <1>0, <1>9, <2>0 DEF ReadTake, BgmNumbers, BuffersAreCounted, Used
    <3> QED BY <1>0, <2>0, <3>1 DEF BuffersAreCounted, BgmNumbers, Used
  <2>6. RingIsInOrder'
    BY <1>0, <1>9 DEF ReadTake, MaxParts, ringState, bgmFlags, settings,
       BgmNumbers, BgmBooleans, BgmPlaces, BuffersAreCounted, RingIsInOrder,
       Used, Buffers, PlayerWaits, Gone, ThreadsAreTold
  <2>7. ThreadsAreTold' /\ StoppedIsQuiet'
    BY <1>0, <1>9 DEF ReadTake, MaxParts, ringState, bgmFlags, settings,
       BgmPlaces, ThreadsAreTold, StoppedIsQuiet, Gone, PlayerWaits
  <2> QED BY <2>4, <2>5, <2>6, <2>7 DEF BgmInv
<1>10. ASSUME NEW ok \in BOOLEAN, ReadDone(ok) PROVE BgmInv'
  <2>a. /\ wrPtr .. wrPtr + parts - 1 \subseteq Buffers /\ wrPtr \in wrPtr .. wrPtr + parts - 1
        /\ fresh' \subseteq fresh \cup {wrPtr}
        /\ skipped' \subseteq skipped \cup (wrPtr .. wrPtr + parts - 1)
        /\ fresh \cup skipped \cup (wrPtr .. wrPtr + parts - 1) \subseteq fresh' \cup skipped'
    <3>1. wrPtr \in Nat /\ parts \in Nat /\ parts >= 1 /\ parts + wrPtr <= BGM_RING_BUFFER_COUNT
      BY <1>0, <1>10 DEF ReadDone, BgmNumbers, BuffersAreCounted, Buffers
    <3>2. wrPtr .. wrPtr + parts - 1 \subseteq Buffers /\ wrPtr \in wrPtr .. wrPtr + parts - 1
      BY <3>1 DEF Buffers
    <3> QED BY <1>10, <3>2 DEF ReadDone
  <2>1. BgmNumbers'
    BY <1>0, <1>10, <2>a, AdvanceIs DEF ReadDone, Wakeup, BgmNumbers,
       BuffersAreCounted, Used
  <2>2. BgmBooleans'
    BY <1>0, <1>10 DEF ReadDone, ringState, bgmFlags, settings, BgmBooleans
  <2>3. BgmPlaces'
    BY <1>0, <1>10 DEF ReadDone, ringState, bgmFlags, settings, BgmPlaces, Gone
  <2>4. BgmTypeOK'
    BY <2>1, <2>2, <2>3 DEF BgmTypeOK, BgmNumbers, BgmBooleans, BgmPlaces
  <2>0. /\ Used \in Nat /\ Used' = Used + parts /\ UNCHANGED <<play, rdPtr, inSema, gui>>
        /\ parts \in 1..BGM_RING_BUFFER_COUNT /\ parts + wrPtr <= BGM_RING_BUFFER_COUNT /\ parts' = 0
        /\ read = "read" /\ read' = "check" /\ fresh' \subseteq fresh \cup {wrPtr}
        /\ Used + parts <= BGM_RING_BUFFER_COUNT
    BY <1>0, <1>10, <2>a DEF ReadDone, BgmNumbers, BuffersAreCounted, Used
  <2>5. BuffersAreCounted'
    <3>1. play \notin {"none", "start", "round"} \/ play = "none"
      BY <1>10 DEF ReadDone, PlayerWaits, Gone
    <3>2. play # "none"
      BY <1>0, <2>0 DEF ThreadsAreTold
    <3> QED BY <1>0, <2>0, <3>1, <3>2 DEF BuffersAreCounted, BgmNumbers, Used
  <2>6. RingIsInOrder'
    <3>1. rdPtr \in Nat /\ rdPtr < BGM_RING_BUFFER_COUNT /\ wrPtr \in Nat /\ wrPtr < BGM_RING_BUFFER_COUNT
          /\ \A b \in fresh : b \in Nat /\ b < BGM_RING_BUFFER_COUNT
      BY <1>0 DEF BgmNumbers, Buffers
    <3>2. wrPtr' = IF wrPtr + parts < BGM_RING_BUFFER_COUNT THEN wrPtr + parts ELSE 0
      <4>1. wrPtr' = Advance(wrPtr, parts) /\ wrPtr \in Buffers /\ parts \in 0..BGM_RING_BUFFER_COUNT
        BY <1>0, <1>10 DEF ReadDone, BgmNumbers
      <4> QED BY <2>0, <3>1, <4>1, AdvanceIs
    <3>3. ASSUME play \notin {"last", "ended"}
          PROVE  wrPtr' = rdPtr' + Used' \/ wrPtr' = rdPtr' + Used' - BGM_RING_BUFFER_COUNT
      BY <1>0, <2>0, <3>1, <3>2, <3>3 DEF RingIsInOrder
    <3>4. ASSUME play \notin {"last", "ended"}, NEW b \in fresh'
          PROVE  (IF b < rdPtr' THEN b + BGM_RING_BUFFER_COUNT ELSE b) < rdPtr' + Used'
      <4>1. CASE b \in fresh
        <5>1. (IF b < rdPtr THEN b + BGM_RING_BUFFER_COUNT ELSE b) < rdPtr + Used
          BY <1>0, <3>4, <4>1 DEF RingIsInOrder
        <5> QED BY <2>0, <3>1, <4>1, <5>1
      <4>2. CASE b = wrPtr
        BY <1>0, <2>0, <3>1, <3>4, <4>2 DEF RingIsInOrder
      <4> QED BY <2>0, <3>4, <4>1, <4>2
    <3>5. terminateFlag => terminateFlag'
      BY <1>10 DEF ReadDone
    <3>6. ASSUME play \notin {"last", "ended"}, NEW b \in Buffers,
                 (IF b < rdPtr' THEN b + BGM_RING_BUFFER_COUNT ELSE b) < rdPtr' + Used'
          PROVE  b \in fresh' \cup skipped'
      <4>1. b \in Nat /\ b < BGM_RING_BUFFER_COUNT
        BY DEF Buffers
      <4>2. CASE (IF b < rdPtr THEN b + BGM_RING_BUFFER_COUNT ELSE b) < rdPtr + Used
        BY <1>0, <2>a, <3>6, <4>2 DEF RingIsInOrder
      <4>3. CASE ~((IF b < rdPtr THEN b + BGM_RING_BUFFER_COUNT ELSE b) < rdPtr + Used)
        <5>1. wrPtr = rdPtr + Used \/ wrPtr = rdPtr + Used - BGM_RING_BUFFER_COUNT
          BY <1>0, <3>6 DEF RingIsInOrder
        <5>2. b \in wrPtr .. wrPtr + parts - 1
          BY <2>0, <3>1, <3>6, <4>1, <4>3, <5>1
        <5> QED BY <2>a, <5>2
      <4> QED BY <4>2, <4>3
    <3> QED BY <1>0, <2>0, <3>3, <3>4, <3>5, <3>6 DEF RingIsInOrder
  <2>7. ThreadsAreTold' /\ StoppedIsQuiet'
    BY <1>0, <1>10 DEF ReadDone, ringState, bgmFlags, settings, BgmPlaces,
       ThreadsAreTold, StoppedIsQuiet, Gone, PlayerWaits
  <2> QED BY <2>4, <2>5, <2>6, <2>7 DEF BgmInv
<1>11. CASE ReadCheck
  <2>1. BgmNumbers'
    BY <1>0, <1>11 DEF ReadCheck, ringState, bgmFlags, settings, Wakeup,
       BgmNumbers, BuffersAreCounted, Used
  <2>2. BgmBooleans'
    BY <1>0, <1>11 DEF ReadCheck, ringState, bgmFlags, settings, BgmBooleans
  <2>3. BgmPlaces'
    BY <1>0, <1>11 DEF ReadCheck, ringState, bgmFlags, settings, BgmPlaces, Gone
  <2>4. BgmTypeOK'
    BY <2>1, <2>2, <2>3 DEF BgmTypeOK, BgmNumbers, BgmBooleans, BgmPlaces
  <2>5. BuffersAreCounted'
    BY <1>0, <1>11 DEF ReadCheck, ringState, bgmFlags, settings, BgmNumbers,
       BuffersAreCounted, Used, PlayerWaits, ThreadsAreTold, Gone
  <2>6. RingIsInOrder'
    BY <1>0, <1>11 DEF ReadCheck, ringState, bgmFlags, settings, BgmNumbers,
       BgmBooleans, BgmPlaces, BuffersAreCounted, RingIsInOrder, Used, Buffers,
       PlayerWaits, Gone, ThreadsAreTold
  <2>7. ThreadsAreTold' /\ StoppedIsQuiet'
    BY <1>0, <1>11 DEF ReadCheck, ringState, bgmFlags, settings, BgmPlaces,
       ThreadsAreTold, StoppedIsQuiet, Gone, PlayerWaits
  <2> QED BY <2>4, <2>5, <2>6, <2>7 DEF BgmInv
<1>12. CASE ReadExit
  <2>1. BgmNumbers'
    BY <1>0, <1>12 DEF ReadExit, ringState, bgmFlags, settings, Wakeup,
       BgmNumbers, BuffersAreCounted, Used
  <2>2. BgmBooleans'
    BY <1>0, <1>12 DEF ReadExit, ringState, bgmFlags, settings, BgmBooleans
  <2>3. BgmPlaces'
    BY <1>0, <1>12 DEF ReadExit, ringState, bgmFlags, settings, BgmPlaces, Gone
  <2>4. BgmTypeOK'
    BY <2>1, <2>2, <2>3 DEF BgmTypeOK, BgmNumbers, BgmBooleans, BgmPlaces
  <2>5. BuffersAreCounted'
    BY <1>0, <1>12 DEF ReadExit, ringState, bgmFlags, settings, BgmNumbers,
       BuffersAreCounted, Used, PlayerWaits, ThreadsAreTold, Gone
  <2>6. RingIsInOrder'
    BY <1>0, <1>12 DEF ReadExit, ringState, bgmFlags, settings, BgmNumbers,
       BgmBooleans, BgmPlaces, BuffersAreCounted, RingIsInOrder, Used, Buffers,
       PlayerWaits, Gone, ThreadsAreTold
  <2>7. ThreadsAreTold' /\ StoppedIsQuiet'
    BY <1>0, <1>12 DEF ReadExit, ringState, bgmFlags, settings, BgmPlaces,
       ThreadsAreTold, StoppedIsQuiet, Gone, PlayerWaits
  <2> QED BY <2>4, <2>5, <2>6, <2>7 DEF BgmInv
<1>13. CASE LoadDone
  <2>1. BgmNumbers'
    BY <1>0, <1>13 DEF LoadDone, ringState, bgmFlags, settings, Wakeup,
       BgmNumbers, BuffersAreCounted, Used
  <2>2. BgmBooleans'
    BY <1>0, <1>13 DEF LoadDone, ringState, bgmFlags, settings, BgmBooleans
  <2>3. BgmPlaces'
    BY <1>0, <1>13 DEF LoadDone, ringState, bgmFlags, settings, BgmPlaces, Gone
  <2>4. BgmTypeOK'
    BY <2>1, <2>2, <2>3 DEF BgmTypeOK, BgmNumbers, BgmBooleans, BgmPlaces
  <2>5. BuffersAreCounted'
    BY <1>0, <1>13 DEF LoadDone, ringState, bgmFlags, settings, BgmNumbers,
       BuffersAreCounted, Used, PlayerWaits, ThreadsAreTold, Gone
  <2>6. RingIsInOrder'
    BY <1>0, <1>13 DEF LoadDone, ringState, bgmFlags, settings, BgmNumbers,
       BgmBooleans, BgmPlaces, BuffersAreCounted, RingIsInOrder, Used, Buffers,
       PlayerWaits, Gone, ThreadsAreTold
  <2>7. ThreadsAreTold' /\ StoppedIsQuiet'
    BY <1>0, <1>13 DEF LoadDone, ringState, bgmFlags, settings, BgmPlaces,
       ThreadsAreTold, StoppedIsQuiet, Gone, PlayerWaits
  <2> QED BY <2>4, <2>5, <2>6, <2>7 DEF BgmInv
<1>14. CASE LoadFails
  <2>1. BgmNumbers'
    BY <1>0, <1>14 DEF LoadFails, ringState, bgmFlags, settings, Wakeup,
       BgmNumbers, BuffersAreCounted, Used
  <2>2. BgmBooleans'
    BY <1>0, <1>14 DEF LoadFails, ringState, bgmFlags, settings, BgmBooleans
  <2>3. BgmPlaces'
    BY <1>0, <1>14 DEF LoadFails, ringState, bgmFlags, settings, BgmPlaces, Gone
  <2>4. BgmTypeOK'
    BY <2>1, <2>2, <2>3 DEF BgmTypeOK, BgmNumbers, BgmBooleans, BgmPlaces
  <2>5. BuffersAreCounted'
    BY <1>0, <1>14 DEF LoadFails, ringState, bgmFlags, settings, BgmNumbers,
       BuffersAreCounted, Used, PlayerWaits, ThreadsAreTold, Gone
  <2>6. RingIsInOrder'
    BY <1>0, <1>14 DEF LoadFails, ringState, bgmFlags, settings, BgmNumbers,
       BgmBooleans, BgmPlaces, BuffersAreCounted, RingIsInOrder, Used, Buffers,
       PlayerWaits, Gone, ThreadsAreTold
  <2>7. ThreadsAreTold' /\ StoppedIsQuiet'
    BY <1>0, <1>14 DEF LoadFails, ringState, bgmFlags, settings, BgmPlaces,
       ThreadsAreTold, StoppedIsQuiet, Gone, PlayerWaits
  <2> QED BY <2>4, <2>5, <2>6, <2>7 DEF BgmInv
<1>15. ASSUME NEW goal \in {ForTheme, ForQuit}, StopLoops(goal) PROVE BgmInv'
  <2>0. /\ goal.read \in {"stop_read", "quit_read"} /\ goal.play \in {"stop_play", "quit_play"}
        /\ goal.done \in {"apply", "quit"}
    BY DEF ForTheme, ForQuit
  <2>a. play # "start" /\ read # "start"
    BY <1>0, <1>15, <2>0 DEF StopLoops, ThreadsAreTold
  <2>1. /\ gui' \in {"stop_read", "stop_play", "apply", "quit_read", "quit_play", "quit"}
        /\ gui' \in {"stop_play", "quit_play"} => read \in Gone \cup {"exit"}
        /\ deleted' \in BOOLEAN
        /\ deleted' => play \in Gone \cup {"last"} /\ read \in Gone \cup {"exit"}
    <3>1. CASE gui = goal.read
      BY <1>15, <2>a, <3>1, StopWaits DEF StopLoops
    <3>2. CASE gui # goal.read
      BY <1>0, <1>15, <2>0, <2>a, <3>2 DEF StopLoops, ThreadsAreTold, BgmPlaces
    <3> QED BY <3>1, <3>2
  <2>2. /\ UNCHANGED <<inSema, outSema, rdPtr, wrPtr, parts, fresh, skipped, wakeups, play, read>>
        /\ UNCHANGED <<terminateFlag, bgmIsPlaying, bgmThreadRunning, bgmIoThreadRunning>>
        /\ UNCHANGED <<gEnableBGM, audio_initialized>>
    BY <1>15 DEF StopLoops, bgmFlags, settings
  <2>3. BgmNumbers' /\ BgmPlaces'
    BY <1>0, <2>1, <2>2 DEF BgmNumbers, BgmPlaces
  <2>4. BgmBooleans'
    BY <1>0, <2>1, <2>2 DEF BgmBooleans
  <2>5. BgmTypeOK'
    BY <2>3, <2>4 DEF BgmTypeOK, BgmNumbers, BgmBooleans, BgmPlaces
  <2>6. BuffersAreCounted' /\ RingIsInOrder'
    BY <1>0, <2>1, <2>2 DEF BuffersAreCounted, RingIsInOrder, Used
  <2>7. ThreadsAreTold' /\ StoppedIsQuiet'
    BY <1>0, <2>1, <2>2, <2>a DEF ThreadsAreTold, StoppedIsQuiet
  <2> QED BY <2>5, <2>6, <2>7 DEF BgmInv
<1>16. ASSUME NEW goal \in {ForTheme, ForQuit}, AtFrame, bgmStop(goal), UNCHANGED settings PROVE BgmInv'
  <2>a. play # "start" /\ read # "start"
    BY <1>16 DEF AtFrame
  <2>1. /\ gui' \in {"stop_read", "stop_play", "apply", "quit_read", "quit_play", "quit"}
        /\ gui' \in {"stop_play", "quit_play"} => read \in Gone \cup {"exit"}
        /\ deleted' \in BOOLEAN
        /\ deleted' => play \in Gone \cup {"last"} /\ read \in Gone \cup {"exit"}
    BY <1>16, <2>a, StopWaits DEF bgmStop
  <2>2. /\ UNCHANGED <<inSema, outSema, rdPtr, wrPtr, parts, fresh, skipped, play, read>>
        /\ UNCHANGED <<bgmIsPlaying, bgmThreadRunning, bgmIoThreadRunning>>
        /\ UNCHANGED <<gEnableBGM, audio_initialized>> /\ terminateFlag' = TRUE
    BY <1>16 DEF bgmStop, settings
  <2>3. wakeups' \in 0..MaxWakeups
    BY <1>0, <1>16 DEF bgmStop, Wakeup, BgmNumbers
  <2>4. BgmNumbers' /\ BgmPlaces'
    BY <1>0, <2>1, <2>2, <2>3 DEF BgmNumbers, BgmPlaces
  <2>5. BgmBooleans'
    BY <1>0, <2>1, <2>2 DEF BgmBooleans
  <2>6. BgmTypeOK'
    BY <2>4, <2>5 DEF BgmTypeOK, BgmNumbers, BgmBooleans, BgmPlaces
  <2>7. BuffersAreCounted' /\ RingIsInOrder'
    BY <1>0, <2>1, <2>2 DEF BuffersAreCounted, RingIsInOrder, Used
  <2>8. ThreadsAreTold' /\ StoppedIsQuiet'
    BY <1>0, <2>1, <2>2, <2>a DEF ThreadsAreTold, StoppedIsQuiet
  <2> QED BY <2>6, <2>7, <2>8 DEF BgmInv
<1>17. CASE Boot \/ ApplyDone \/ unloadLwnbdSvr
  <2>1. gEnableBGM' \in BOOLEAN /\ audio_initialized' \in BOOLEAN
    BY <1>0, <1>17 DEF Boot, ApplyDone, unloadLwnbdSvr, settings, BgmBooleans
  <2>2. bgmStart \/ (gui' = "idle" /\ Keep)
    BY <1>17 DEF Boot, ApplyDone, unloadLwnbdSvr
  <2> QED BY <2>1, <2>2, StartSetsUp, GuiGoesOn
<1>18. CASE AudsrvQuit
  <2>1. gEnableBGM' \in BOOLEAN /\ audio_initialized' \in BOOLEAN /\ Keep /\ gui' = "quit"
    BY <1>0, <1>18 DEF AudsrvQuit, BgmBooleans
  <2>2. play # "start" /\ read # "start"
    BY <1>0, <1>18 DEF AudsrvQuit, ThreadsAreTold
  <2> QED BY <2>1, <2>2, GuiGoesOn
<1>19. ASSUME NEW b \in BOOLEAN, AudioDialog(b) PROVE BgmInv'
  <2>1. /\ gEnableBGM' \in BOOLEAN /\ audio_initialized' \in BOOLEAN
        /\ play # "start" /\ read # "start" /\ gui = "idle"
    BY <1>0, <1>19 DEF AudioDialog, AtFrame, BgmBooleans
  <2>2. bgmStart \/ (gui' = gui /\ Keep)
    BY <1>19 DEF AudioDialog
  <2> QED BY <2>1, <2>2, StartSetsUp, GuiGoesOn
<1>20. ASSUME NEW b \in BOOLEAN, ThemeDialog(b) PROVE BgmInv'
  <2>1. /\ gEnableBGM' \in BOOLEAN /\ audio_initialized' \in BOOLEAN /\ UNCHANGED settings
        /\ play # "start" /\ read # "start" /\ AtFrame
    BY <1>0, <1>20 DEF ThemeDialog, AtFrame, BgmBooleans, settings
  <2>2. bgmStop(ForTheme) \/ (gui' = "apply" /\ Keep)
    BY <1>20 DEF ThemeDialog
  <2> QED BY <1>16, <2>1, <2>2, GuiGoesOn
<1>21. CASE audioEnd
  <2>1. /\ gEnableBGM' \in BOOLEAN /\ audio_initialized' \in BOOLEAN /\ UNCHANGED settings
        /\ play # "start" /\ read # "start" /\ AtFrame
    BY <1>0, <1>21 DEF audioEnd, AtFrame, BgmBooleans, settings
  <2>2. bgmStop(ForQuit) \/ (gui' = "quit" /\ Keep)
    BY <1>21 DEF audioEnd
  <2> QED BY <1>16, <2>1, <2>2, GuiGoesOn
<1>22. CASE UNCHANGED bgmVars
  BY <1>22
  DEF bgmVars, ringState, bgmFlags, settings, BgmInv, BgmTypeOK, BuffersAreCounted, RingIsInOrder,
      Used, ThreadsAreTold, StoppedIsQuiet
<1> QED
  BY <1>1, <1>2, <1>3, <1>4, <1>5, <1>6, <1>7, <1>8, <1>9, <1>10, <1>11, <1>12,
     <1>13, <1>14, <1>15, <1>17, <1>18, <1>19, <1>20, <1>21, <1>22
  DEF BgmNext, Player, Reader, GuiWorks, UserActs, Clashed

(* Before the music is started nothing is decoded.                         *)
LEMMA BgmStart0 == BgmInit => BgmInv
<1> SUFFICES ASSUME BgmInit PROVE BgmInv
  OBVIOUS
<1> USE BgmConstants
<1>1. BgmNumbers /\ BgmPlaces
  BY DEF BgmInit, BgmNumbers, BgmPlaces, Gone, Buffers
<1>2. BgmBooleans
  BY DEF BgmInit, BgmBooleans
<1>3. BgmTypeOK
  BY <1>1, <1>2, BgmTypes
<1>4. BuffersAreCounted /\ RingIsInOrder /\ ThreadsAreTold /\ StoppedIsQuiet
  BY DEF BgmInit, BuffersAreCounted, RingIsInOrder, Used, Buffers,
     ThreadsAreTold, StoppedIsQuiet, Gone
<1> QED
  BY <1>3, <1>4 DEF BgmInv

(* The reader never decodes over a buffer that is played or still to be    *)
(* played, and after bgmStop neither thread uses what was deleted          *)
(* (sound.c, bgmThread, bgmIoThread and bgmStop), for rings of every size. *)
THEOREM MusicStaysSafe == BgmSpec => []MusicIsSafe
  BY BgmStart0, BgmStep, MusicFollows, PTL DEF BgmSpec
=============================================================================
