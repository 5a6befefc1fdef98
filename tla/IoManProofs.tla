---------------------------- MODULE IoManProofs ----------------------------
(***************************************************************************)
(* Proofs about IoMan, for every set of request types, data pointers and   *)
(* blocks of memory: its inductive invariant, and that it implements the   *)
(* queue of IoQueue.                                                       *)
(***************************************************************************)
EXTENDS IoMan, TLAPS

(* Who holds a semaphore: a thread past its WaitSema, or a waiting thread  *)
(* that it was handed to.                                                  *)
SemaInv ==
    /\ \A t \in Threads : pc[t] \in {"put_link", "put_fill", "rm_walk"} => endSema = t
    /\ pc["io"] \in {"loop", "release"} \/ Serving => procSema = "io"
    /\ pc["gui"] \in {"reg", "rm_end", "rm_walk"} => procSema = "gui"
    /\ procSema = "gui" => pc["gui"] \in {"reg_wait", "reg", "rm_proc", "rm_end", "rm_walk"}

(* What a thread inside ioPutRequest works with.                           *)
PutInv ==
    /\ \A t \in Threads :
          pc[t] \in {"put_lock", "put_link", "put_fill"}
              => arg[t] \in [type: handlers, data: Data]
    /\ \A t \in Threads :
          pc[t] = "put_fill" => fifo # <<>> /\ node[t] = gReqEnd
    /\ pc["gui"] \in {"rm_proc", "rm_end", "rm_walk"} => arg["gui"] \in Pair

(* Every request in the list that is not being filled in has a handler.    *)
FieldsInv ==
    \A n \in live : Filled(n) => rtype[n] \in handlers /\ rdata[n] \in Data

(* Where the list may be non-empty, and that the worker is asleep while    *)
(* the GUI thread fills in the only request of the list: this is where the *)
(* priorities of the threads are needed.                                   *)
WorkInv ==
    /\ Serving => fifo # <<>> /\ served = fifo[1]
    /\ pc["io"] = "put_fill" => Len(fifo) > 1
    /\ pc["gui"] = "put_fill" /\ Len(fifo) = 1 => pc["io"] = "sleep" /\ wakeups = 0
    /\ pc["io"] \in {"top", "release", "drain", "dead"} => fifo = <<>>
    /\ pc["io"] = "sleep" /\ wakeups = 0 /\ fifo # <<>> => pc["gui"] \in {"put_fill", "put_wake"}
    /\ procSema = "gui" => fifo = <<>>

(* The manager is blocked, and ended, by the GUI thread between its other  *)
(* operations.                                                             *)
BlockInv ==
    /\ isIOBlocked => pc["gui"] \notin {"put_lock", "put_link", "put_fill", "put_wake"}
    /\ isIOBlocked /\ pc["gui"] # "blk_wait" => fifo = <<>>
    /\ pc["gui"] = "blk_wait" => isIOBlocked
    /\ gIOTerminate <=> pc["gui"] = "ended"
    /\ gIOTerminate => isIOBlocked
    /\ pc["io"] \in {"drain", "dead"} => gIOTerminate

IInv ==
    /\ TypeOK /\ QueueShape /\ SemaInv /\ PutInv /\ FieldsInv /\ WorkInv /\ BlockInv

----------------------------------------------------------------------------
(* The two ways the list changes, on the pointers alone.                   *)

(* Linking a new request after the last one, as ioPutRequest does.         *)
LEMMA LinkLast ==
    ASSUME NEW s \in Seq(Reqs), NEW first, NEW end, NEW next \in [Reqs -> Reqs \cup {NULL, Garbage}],
           Linked(s, first, end, next), NEW n \in Reqs, n \notin Elements(s)
    PROVE  /\ Elements(Append(s, n)) = Elements(s) \cup {n}
           /\ end = NULL => s = <<>> /\ Linked(Append(s, n), n, n, next)
           /\ end # NULL => Linked(Append(s, n), first, n, [next EXCEPT ![end] = n])
<1> DEFINE t == Append(s, n)
<1>1. /\ t \in Seq(Reqs) /\ Len(t) = Len(s) + 1 /\ Len(s) \in Nat /\ t # <<>>
      /\ \A i \in 1..Len(s) : t[i] = s[i] /\ s[i] \in Reqs /\ s[i] # n
      /\ t[Len(s) + 1] = n
  <2>1. \A i \in 1..Len(s) : s[i] \in Reqs /\ s[i] # n
    BY DEF Elements
  <2>2. /\ t \in Seq(Reqs) /\ Len(t) = Len(s) + 1 /\ Len(s) \in Nat
        /\ \A i \in 1..Len(s) : t[i] = s[i]
        /\ t[Len(s) + 1] = n
    OBVIOUS
  <2>. QED BY <2>1, <2>2
<1>2. s = <<>> <=> Len(s) = 0
  OBVIOUS
<1>3. Elements(t) = Elements(s) \cup {n}
  BY <1>1 DEF Elements
<1>4. \A i, j \in 1..Len(t) : t[i] = t[j] => i = j
  BY <1>1 DEF Linked
<1>5. CASE s = <<>>
  <2>1. end = NULL /\ Len(s) = 0 BY <1>2, <1>5 DEF Linked
  <2>. HIDE DEF t
  <2>2. Linked(t, n, n, next)
    BY <1>1, <1>4, <2>1 DEF Linked
  <2>. QED BY <1>3, <1>5, <2>1, <2>2 DEF t
<1>6. CASE s # <<>>
  <2>1. end = s[Len(s)] /\ end # NULL /\ first = s[1] /\ Len(s) > 0 /\ end \in Reqs
    BY <1>1, <1>2, <1>6, IoManAssumption DEF Linked
  <2>. DEFINE nx == [next EXCEPT ![end] = n]
  <2>2. ASSUME NEW i \in 1..(Len(t) - 1) PROVE nx[t[i]] = t[i + 1]
    <3>1. CASE i = Len(s) BY <1>1, <2>1, <3>1
    <3>2. CASE i < Len(s)
      <4>1. t[i] # end /\ t[i] = s[i] /\ t[i+1] = s[i+1] /\ next[s[i]] = s[i + 1]
        BY <1>1, <2>1, <3>2 DEF Linked
      <4>. QED BY <1>1, <4>1
    <3>. QED BY <1>1, <3>1, <3>2
  <2>. HIDE DEF t, nx
  <2>3. Linked(t, first, n, nx)
    BY <1>1, <1>4, <2>1, <2>2 DEF Linked
  <2>. QED BY <1>3, <1>6, <2>1, <2>3 DEF t, nx
<1>. QED BY <1>5, <1>6

(* Unlinking the first request, as the worker does.                        *)
LEMMA UnlinkFirst ==
    ASSUME NEW s \in Seq(Reqs), NEW first, NEW end, NEW next \in [Reqs -> Reqs \cup {NULL, Garbage}],
           Linked(s, first, end, next), s # <<>>, next[end] = NULL
    PROVE  /\ Elements(Tail(s)) = Elements(s) \ {first}
           /\ Linked(Tail(s), next[first], IF next[first] = NULL THEN NULL ELSE end,
                     [next EXCEPT ![first] = Garbage])
           /\ next[first] # NULL => next[end] = NULL /\ first # end /\ first \in Reqs
<1> DEFINE t == Tail(s)
           nx == [next EXCEPT ![first] = Garbage]
<1>1. /\ t \in Seq(Reqs) /\ Len(t) = Len(s) - 1 /\ Len(s) \in Nat /\ Len(s) > 0
      /\ \A i \in 1..Len(t) : t[i] = s[i + 1]
      /\ \A i \in 1..Len(s) : s[i] \in Reqs
      /\ first = s[1] /\ end = s[Len(s)]
      /\ t = <<>> <=> Len(t) = 0
  <2>1. /\ t \in Seq(Reqs) /\ Len(t) = Len(s) - 1 /\ Len(s) \in Nat /\ Len(s) > 0
        /\ \A i \in 1..(Len(s) - 1) : t[i] = s[i + 1]
        /\ \A i \in 1..Len(s) : s[i] \in Reqs
    OBVIOUS
  <2>2. first = s[1] /\ end = s[Len(s)]
    BY DEF Linked
  <2>. HIDE DEF t
  <2>3. t = <<>> <=> Len(t) = 0
    BY <2>1
  <2>. QED BY <2>1, <2>2, <2>3
<1>2. Elements(t) = Elements(s) \ {first}
  <2>1. \A i \in 2..Len(s) : s[i] # first /\ s[i] = t[i - 1] /\ i - 1 \in 1..Len(t)
    BY <1>1 DEF Linked
  <2>2. \A i \in 1..Len(s) : i = 1 \/ i \in 2..Len(s)
    BY <1>1
  <2>3. \A i \in 1..Len(t) : i + 1 \in 2..Len(s)
    BY <1>1
  <2>. HIDE DEF t
  <2>. QED BY <1>1, <2>1, <2>2, <2>3 DEF Elements
<1>3. \A i, j \in 1..Len(t) : t[i] = t[j] => i = j
  BY <1>1 DEF Linked
<1>4. next[first] = IF t = <<>> THEN NULL ELSE t[1]
  <2>1. CASE Len(s) = 1 BY <1>1, <2>1
  <2>2. CASE Len(s) > 1
    <3>1. next[s[1]] = s[2] BY <1>1, <2>2 DEF Linked
    <3>. QED BY <1>1, <2>2, <3>1
  <2>. QED BY <1>1, <2>1, <2>2
<1>5. t # <<>> => t[1] # NULL /\ t[Len(t)] = end /\ first # end
  BY <1>1, IoManAssumption DEF Linked
<1>6. ASSUME NEW i \in 1..(Len(t) - 1) PROVE nx[t[i]] = t[i + 1]
  <2>1. t[i] = s[i + 1] /\ t[i + 1] = s[i + 2] /\ s[i + 1] # first /\ s[i + 1] \in Reqs
    BY <1>1 DEF Linked
  <2>2. next[s[i + 1]] = s[i + 2]
    <3>1. i + 1 \in 1..(Len(s) - 1) BY <1>1
    <3>. QED BY <3>1 DEF Linked
  <2>. QED BY <2>1, <2>2
<1>. HIDE DEF t, nx
<1>7. Linked(t, next[first], IF next[first] = NULL THEN NULL ELSE end, nx)
  BY <1>3, <1>4, <1>5, <1>6 DEF Linked
<1>8. Elements(Tail(s)) = Elements(s) \ {first} BY <1>2 DEF t
<1>9. Linked(Tail(s), next[first], IF next[first] = NULL THEN NULL ELSE end, [next EXCEPT ![first] = Garbage])
  BY <1>7 DEF t, nx
<1>10. next[first] # NULL => next[end] = NULL /\ first # end /\ first \in Reqs
  BY <1>1, <1>4, <1>5
<1>. QED BY <1>8, <1>9, <1>10

----------------------------------------------------------------------------
(* The invariant is inductive.                                             *)
USE DEF Threads, Free, Serving, Filled, GuiPC, IoPC

(* It holds when ioInit has created the semaphores and the empty list.     *)
LEMMA InitIInv == Init => IInv
<1> SUFFICES ASSUME Init PROVE IInv
  OBVIOUS
<1> USE IoManAssumption DEF Init
<1>1. TypeOK
  <2>1. fifo \in Seq(Reqs) /\ wakeups \in Nat /\ nested \in Nat
    OBVIOUS
  <2>2. pc["gui"] = "idle" /\ pc["io"] = "top" /\ pc \in [Threads -> GuiPC \cup IoPC]
    OBVIOUS
  <2>3. /\ arg \in [Threads -> Pair \cup {NULL}] /\ node \in [Threads -> Reqs \cup {NULL}]
        /\ rtype \in [Reqs -> Types \cup {Garbage}] /\ rdata \in [Reqs -> Data \cup {NULL, Garbage}]
        /\ rnext \in [Reqs -> Reqs \cup {NULL, Garbage}]
    OBVIOUS
  <2>. QED BY <2>1, <2>2, <2>3 DEF TypeOK
<1>2. QueueShape BY DEF QueueShape, Linked, Elements
<1>3. SemaInv /\ PutInv BY DEF SemaInv, PutInv
<1>4. FieldsInv BY DEF FieldsInv
<1>5. WorkInv /\ BlockInv BY DEF WorkInv, BlockInv
<1>. QED BY <1>1, <1>2, <1>3, <1>4, <1>5 DEF IInv

(* Every step of either thread preserves it.                               *)
LEMMA NextIInv == IInv /\ [Next]_vars => IInv'
<1> SUFFICES ASSUME IInv, [Next]_vars PROVE IInv'
  OBVIOUS
<1> USE IoManAssumption DEF IInv, vars, heap, semas, flags, locals,
                            GuiStep, IoStep, Step, Goto, Caller, Other
<1>1. CASE RegisterCall
  <2>1. TypeOK'
    BY <1>1 DEF RegisterCall, TypeOK
  <2>2. QueueShape'
    BY <1>1 DEF RegisterCall, QueueShape
  <2>3. SemaInv'
    BY <1>1 DEF RegisterCall, SemaInv
  <2>4. PutInv'
    BY <1>1 DEF RegisterCall, PutInv
  <2>5. FieldsInv'
    BY <1>1 DEF RegisterCall, FieldsInv
  <2>6. WorkInv'
    BY <1>1 DEF RegisterCall, WorkInv
  <2>7. BlockInv'
    BY <1>1 DEF RegisterCall, BlockInv
  <2>. QED BY <2>1, <2>2, <2>3, <2>4, <2>5, <2>6, <2>7
<1>2. CASE RegisterWait
  <2>1. TypeOK'
    BY <1>2 DEF RegisterWait, TypeOK
  <2>2. QueueShape'
    BY <1>2 DEF RegisterWait, QueueShape
  <2>3. SemaInv'
    BY <1>2 DEF RegisterWait, SemaInv
  <2>4. PutInv'
    BY <1>2 DEF RegisterWait, PutInv
  <2>5. FieldsInv'
    BY <1>2 DEF RegisterWait, FieldsInv
  <2>6. WorkInv'
    BY <1>2 DEF RegisterWait, IoReady, TypeOK, SemaInv, WorkInv
  <2>7. BlockInv'
    BY <1>2 DEF RegisterWait, BlockInv
  <2>. QED BY <2>1, <2>2, <2>3, <2>4, <2>5, <2>6, <2>7
<1>3. ASSUME NEW ty \in Types, RegisterAdd(ty)
      PROVE  IInv'
  <2>1. TypeOK'
    BY <1>3 DEF RegisterAdd, SignalProc, TypeOK
  <2>2. QueueShape'
    BY <1>3 DEF RegisterAdd, QueueShape
  <2>3. SemaInv'
    BY <1>3 DEF RegisterAdd, SignalProc, TypeOK, SemaInv
  <2>4. PutInv'
    BY <1>3 DEF RegisterAdd, PutInv
  <2>5. FieldsInv'
    BY <1>3 DEF RegisterAdd, FieldsInv
  <2>6. WorkInv'
    BY <1>3 DEF RegisterAdd, SemaInv, WorkInv
  <2>7. BlockInv'
    BY <1>3 DEF RegisterAdd, BlockInv
  <2>. QED BY <2>1, <2>2, <2>3, <2>4, <2>5, <2>6, <2>7
<1>4. ASSUME NEW t \in Threads, NEW ty \in Types, NEW d \in Data, PutCheck(t, ty, d)
      PROVE  IInv'
  <2>1. TypeOK'
    BY <1>4 DEF PutCheck, Pair, TypeOK
  <2>2. QueueShape'
    BY <1>4 DEF PutCheck, QueueShape
  <2>3. SemaInv'
    BY <1>4 DEF PutCheck, SemaInv
  <2>4. PutInv'
    BY <1>4 DEF PutCheck, TypeOK, PutInv
  <2>5. FieldsInv'
    BY <1>4 DEF PutCheck, FieldsInv
  <2>6. WorkInv'
    BY <1>4 DEF PutCheck, WorkInv
  <2>7. BlockInv'
    BY <1>4 DEF PutCheck, BlockInv
  <2>. QED BY <2>1, <2>2, <2>3, <2>4, <2>5, <2>6, <2>7
<1>5. ASSUME NEW t \in Threads, PutLock(t)
      PROVE  IInv'
  <2>1. TypeOK'
    BY <1>5 DEF PutLock, TypeOK
  <2>2. QueueShape'
    BY <1>5 DEF PutLock, QueueShape
  <2>3. SemaInv'
    BY <1>5 DEF PutLock, SemaInv
  <2>4. PutInv'
    BY <1>5 DEF PutLock, PutInv
  <2>5. FieldsInv'
    BY <1>5 DEF PutLock, FieldsInv
  <2>6. WorkInv'
    BY <1>5 DEF PutLock, WorkInv
  <2>7. BlockInv'
    BY <1>5 DEF PutLock, BlockInv
  <2>. QED BY <2>1, <2>2, <2>3, <2>4, <2>5, <2>6, <2>7
<1>6. ASSUME NEW t \in Threads, PutDuplicate(t)
      PROVE  IInv'
  <2>1. TypeOK'
    BY <1>6 DEF PutDuplicate, SignalEnd, Pair, TypeOK, PutInv
  <2>2. QueueShape'
    BY <1>6 DEF PutDuplicate, QueueShape
  <2>3. SemaInv'
    BY <1>6 DEF PutDuplicate, TypeOK, SemaInv
  <2>4. PutInv'
    BY <1>6 DEF PutDuplicate, TypeOK, PutInv
  <2>5. FieldsInv'
    BY <1>6 DEF PutDuplicate, FieldsInv
  <2>6. WorkInv'
    BY <1>6 DEF PutDuplicate, WorkInv
  <2>7. BlockInv'
    BY <1>6 DEF PutDuplicate, BlockInv
  <2>. QED BY <2>1, <2>2, <2>3, <2>4, <2>5, <2>6, <2>7
<1>7. ASSUME NEW t \in Threads, NEW n \in Reqs, PutLink(t, n)
      PROVE  IInv'
  <2>1. TypeOK'
    BY <1>7 DEF PutLink, TypeOK
  <2>2. QueueShape'
    <3>1. /\ fifo \in Seq(Reqs) /\ rnext \in [Reqs -> Reqs \cup {NULL, Garbage}]
          /\ Linked(fifo, gReqList, gReqEnd, rnext) /\ n \notin Elements(fifo)
          /\ live = Elements(fifo) /\ fifo' = Append(fifo, n) /\ live' = live \cup {n}
      BY <1>7 DEF PutLink, TypeOK, QueueShape
    <3>2. Linked(fifo', gReqList', gReqEnd', rnext')
      <4>1. CASE gReqEnd = NULL
        <5>1. gReqList' = n /\ gReqEnd' = n /\ rnext' = rnext BY <1>7, <4>1 DEF PutLink
        <5>. QED BY <3>1, <4>1, <5>1, LinkLast
      <4>2. CASE gReqEnd # NULL
        <5>1. gReqList' = gReqList /\ gReqEnd' = n /\ rnext' = [rnext EXCEPT ![gReqEnd] = n]
          BY <1>7, <4>2 DEF PutLink
        <5>. QED BY <3>1, <4>2, <5>1, LinkLast
      <4>. QED BY <4>1, <4>2
    <3>3. live' = Elements(fifo')
      BY <3>1, LinkLast
    <3>4. ~Filled(gReqEnd)'
      BY <1>7 DEF PutLink, TypeOK
    <3>. QED BY <3>2, <3>3, <3>4 DEF QueueShape
  <2>3. SemaInv'
    BY <1>7 DEF PutLink, SemaInv
  <2>4. PutInv'
    BY <1>7 DEF PutLink, TypeOK, SemaInv, PutInv
  <2>5. FieldsInv'
    BY <1>7 DEF PutLink, TypeOK, FieldsInv
  <2>6. WorkInv'
    BY <1>7 DEF PutLink, IoReady, TypeOK, SemaInv, WorkInv, BlockInv
  <2>7. BlockInv'
    BY <1>7 DEF PutLink, WorkInv, BlockInv
  <2>. QED BY <2>1, <2>2, <2>3, <2>4, <2>5, <2>6, <2>7
<1>8. ASSUME NEW t \in Threads, PutFill(t)
      PROVE  IInv'
  <2>1. TypeOK'
    BY <1>8 DEF PutFill, SignalEnd, Pair, TypeOK, PutInv, BlockInv
  <2>2. QueueShape'
    BY <1>8 DEF PutFill, Linked, TypeOK, QueueShape, PutInv
  <2>3. SemaInv'
    BY <1>8 DEF PutFill, TypeOK, SemaInv
  <2>4. PutInv'
    BY <1>8 DEF PutFill, TypeOK, PutInv
  <2>5. FieldsInv'
    BY <1>8 DEF PutFill, TypeOK, PutInv, FieldsInv
  <2>6. WorkInv'
    BY <1>8 DEF PutFill, WorkInv
  <2>7. BlockInv'
    BY <1>8 DEF PutFill, BlockInv
  <2>. QED BY <2>1, <2>2, <2>3, <2>4, <2>5, <2>6, <2>7
<1>9. CASE PutWake
  <2>1. TypeOK'
    BY <1>9 DEF PutWake, TypeOK
  <2>2. QueueShape'
    BY <1>9 DEF PutWake, QueueShape
  <2>3. SemaInv'
    BY <1>9 DEF PutWake, SemaInv
  <2>4. PutInv'
    BY <1>9 DEF PutWake, PutInv
  <2>5. FieldsInv'
    BY <1>9 DEF PutWake, FieldsInv
  <2>6. WorkInv'
    BY <1>9 DEF PutWake, TypeOK, WorkInv
  <2>7. BlockInv'
    BY <1>9 DEF PutWake, BlockInv
  <2>. QED BY <2>1, <2>2, <2>3, <2>4, <2>5, <2>6, <2>7
<1>10. ASSUME NEW ty \in Types, RemoveCall(ty)
      PROVE  IInv'
  <2>1. TypeOK'
    BY <1>10 DEF RemoveCall, Pair, TypeOK
  <2>2. QueueShape'
    BY <1>10 DEF RemoveCall, QueueShape
  <2>3. SemaInv'
    BY <1>10 DEF RemoveCall, SemaInv
  <2>4. PutInv'
    BY <1>10 DEF RemoveCall, Pair, TypeOK, PutInv
  <2>5. FieldsInv'
    BY <1>10 DEF RemoveCall, FieldsInv
  <2>6. WorkInv'
    BY <1>10 DEF RemoveCall, WorkInv
  <2>7. BlockInv'
    BY <1>10 DEF RemoveCall, BlockInv
  <2>. QED BY <2>1, <2>2, <2>3, <2>4, <2>5, <2>6, <2>7
<1>11. CASE RemoveProc
  <2>1. TypeOK'
    BY <1>11 DEF RemoveProc, TypeOK
  <2>2. QueueShape'
    BY <1>11 DEF RemoveProc, QueueShape
  <2>3. SemaInv'
    BY <1>11 DEF RemoveProc, SemaInv
  <2>4. PutInv'
    BY <1>11 DEF RemoveProc, PutInv
  <2>5. FieldsInv'
    BY <1>11 DEF RemoveProc, FieldsInv
  <2>6. WorkInv'
    BY <1>11 DEF RemoveProc, IoReady, TypeOK, SemaInv, WorkInv
  <2>7. BlockInv'
    BY <1>11 DEF RemoveProc, BlockInv
  <2>. QED BY <2>1, <2>2, <2>3, <2>4, <2>5, <2>6, <2>7
<1>12. CASE RemoveEnd
  <2>1. TypeOK'
    BY <1>12 DEF RemoveEnd, TypeOK
  <2>2. QueueShape'
    BY <1>12 DEF RemoveEnd, QueueShape
  <2>3. SemaInv'
    BY <1>12 DEF RemoveEnd, SemaInv
  <2>4. PutInv'
    BY <1>12 DEF RemoveEnd, PutInv
  <2>5. FieldsInv'
    BY <1>12 DEF RemoveEnd, FieldsInv
  <2>6. WorkInv'
    BY <1>12 DEF RemoveEnd, WorkInv
  <2>7. BlockInv'
    BY <1>12 DEF RemoveEnd, BlockInv
  <2>. QED BY <2>1, <2>2, <2>3, <2>4, <2>5, <2>6, <2>7
<1>13. CASE RemoveWalk
  <2>1. TypeOK'
    BY <1>13 DEF RemoveWalk, SignalProc, SignalEnd, Release, Linked, TypeOK,
       QueueShape, SemaInv, WorkInv
  <2>2. QueueShape'
    BY <1>13 DEF RemoveWalk, Release, Linked, QueueShape, SemaInv, WorkInv
  <2>3. SemaInv'
    BY <1>13 DEF RemoveWalk, SignalProc, TypeOK, SemaInv
  <2>4. PutInv'
    BY <1>13 DEF RemoveWalk, TypeOK, SemaInv, PutInv
  <2>5. FieldsInv'
    BY <1>13 DEF RemoveWalk, Release, TypeOK, FieldsInv
  <2>6. WorkInv'
    BY <1>13 DEF RemoveWalk, Linked, QueueShape, SemaInv, WorkInv
  <2>7. BlockInv'
    BY <1>13 DEF RemoveWalk, Linked, QueueShape, SemaInv, WorkInv, BlockInv
  <2>. QED BY <2>1, <2>2, <2>3, <2>4, <2>5, <2>6, <2>7
<1>14. CASE BlockOps
  <2>1. TypeOK'
    BY <1>14 DEF BlockOps, TypeOK
  <2>2. QueueShape'
    BY <1>14 DEF BlockOps, QueueShape
  <2>3. SemaInv'
    BY <1>14 DEF BlockOps, SemaInv
  <2>4. PutInv'
    BY <1>14 DEF BlockOps, PutInv
  <2>5. FieldsInv'
    BY <1>14 DEF BlockOps, FieldsInv
  <2>6. WorkInv'
    BY <1>14 DEF BlockOps, WorkInv
  <2>7. BlockInv'
    BY <1>14 DEF BlockOps, TypeOK, BlockInv
  <2>. QED BY <2>1, <2>2, <2>3, <2>4, <2>5, <2>6, <2>7
<1>15. CASE BlockDone
  <2>1. TypeOK'
    BY <1>15 DEF BlockDone, TypeOK
  <2>2. QueueShape'
    BY <1>15 DEF BlockDone, QueueShape
  <2>3. SemaInv'
    BY <1>15 DEF BlockDone, SemaInv
  <2>4. PutInv'
    BY <1>15 DEF BlockDone, PutInv
  <2>5. FieldsInv'
    BY <1>15 DEF BlockDone, FieldsInv
  <2>6. WorkInv'
    BY <1>15 DEF BlockDone, WorkInv
  <2>7. BlockInv'
    BY <1>15 DEF BlockDone, Linked, TypeOK, QueueShape, BlockInv
  <2>. QED BY <2>1, <2>2, <2>3, <2>4, <2>5, <2>6, <2>7
<1>16. CASE UnblockOps
  <2>1. TypeOK'
    BY <1>16 DEF UnblockOps, TypeOK, WorkInv, BlockInv
  <2>2. QueueShape'
    BY <1>16 DEF UnblockOps, QueueShape
  <2>3. SemaInv'
    BY <1>16 DEF UnblockOps, SemaInv
  <2>4. PutInv'
    BY <1>16 DEF UnblockOps, PutInv
  <2>5. FieldsInv'
    BY <1>16 DEF UnblockOps, FieldsInv
  <2>6. WorkInv'
    BY <1>16 DEF UnblockOps, WorkInv
  <2>7. BlockInv'
    BY <1>16 DEF UnblockOps, BlockInv
  <2>. QED BY <2>1, <2>2, <2>3, <2>4, <2>5, <2>6, <2>7
<1>17. CASE End
  <2>1. TypeOK'
    BY <1>17 DEF End, TypeOK
  <2>2. QueueShape'
    BY <1>17 DEF End, QueueShape
  <2>3. SemaInv'
    BY <1>17 DEF End, SemaInv
  <2>4. PutInv'
    BY <1>17 DEF End, PutInv
  <2>5. FieldsInv'
    BY <1>17 DEF End, FieldsInv
  <2>6. WorkInv'
    BY <1>17 DEF End, WorkInv, BlockInv
  <2>7. BlockInv'
    BY <1>17 DEF End, TypeOK, BlockInv
  <2>. QED BY <2>1, <2>2, <2>3, <2>4, <2>5, <2>6, <2>7
<1>18. CASE WorkerTop
  <2>1. TypeOK'
    BY <1>18 DEF WorkerTop, TypeOK
  <2>2. QueueShape'
    BY <1>18 DEF WorkerTop, QueueShape
  <2>3. SemaInv'
    BY <1>18 DEF WorkerTop, SemaInv
  <2>4. PutInv'
    BY <1>18 DEF WorkerTop, PutInv
  <2>5. FieldsInv'
    BY <1>18 DEF WorkerTop, FieldsInv
  <2>6. WorkInv'
    BY <1>18 DEF WorkerTop, WorkInv
  <2>7. BlockInv'
    BY <1>18 DEF WorkerTop, BlockInv
  <2>. QED BY <2>1, <2>2, <2>3, <2>4, <2>5, <2>6, <2>7
<1>19. CASE WorkerWake
  <2>1. TypeOK'
    BY <1>19 DEF WorkerWake, TypeOK
  <2>2. QueueShape'
    BY <1>19 DEF WorkerWake, QueueShape
  <2>3. SemaInv'
    BY <1>19 DEF WorkerWake, SemaInv
  <2>4. PutInv'
    BY <1>19 DEF WorkerWake, PutInv
  <2>5. FieldsInv'
    BY <1>19 DEF WorkerWake, FieldsInv
  <2>6. WorkInv'
    BY <1>19 DEF WorkerWake, TypeOK, WorkInv, BlockInv
  <2>7. BlockInv'
    BY <1>19 DEF WorkerWake, BlockInv
  <2>. QED BY <2>1, <2>2, <2>3, <2>4, <2>5, <2>6, <2>7
<1>20. CASE WorkerProc
  <2>1. TypeOK'
    BY <1>20 DEF WorkerProc, TypeOK
  <2>2. QueueShape'
    BY <1>20 DEF WorkerProc, QueueShape
  <2>3. SemaInv'
    BY <1>20 DEF WorkerProc, SemaInv
  <2>4. PutInv'
    BY <1>20 DEF WorkerProc, PutInv
  <2>5. FieldsInv'
    BY <1>20 DEF WorkerProc, FieldsInv
  <2>6. WorkInv'
    BY <1>20 DEF WorkerProc, WorkInv
  <2>7. BlockInv'
    BY <1>20 DEF WorkerProc, BlockInv
  <2>. QED BY <2>1, <2>2, <2>3, <2>4, <2>5, <2>6, <2>7
<1>21. CASE WorkerStart
  <2>1. TypeOK'
    BY <1>21 DEF WorkerStart, TypeOK
  <2>2. QueueShape'
    BY <1>21 DEF WorkerStart, QueueShape
  <2>3. SemaInv'
    BY <1>21 DEF WorkerStart, SemaInv
  <2>4. PutInv'
    BY <1>21 DEF WorkerStart, PutInv
  <2>5. FieldsInv'
    BY <1>21 DEF WorkerStart, FieldsInv
  <2>6. WorkInv'
    BY <1>21 DEF WorkerStart, Linked, QueueShape, WorkInv
  <2>7. BlockInv'
    BY <1>21 DEF WorkerStart, BlockInv
  <2>. QED BY <2>1, <2>2, <2>3, <2>4, <2>5, <2>6, <2>7
<1>22. CASE WorkerEmpty
  <2>1. TypeOK'
    BY <1>22 DEF WorkerEmpty, TypeOK
  <2>2. QueueShape'
    BY <1>22 DEF WorkerEmpty, QueueShape
  <2>3. SemaInv'
    BY <1>22 DEF WorkerEmpty, SemaInv
  <2>4. PutInv'
    BY <1>22 DEF WorkerEmpty, PutInv
  <2>5. FieldsInv'
    BY <1>22 DEF WorkerEmpty, FieldsInv
  <2>6. WorkInv'
    BY <1>22 DEF WorkerEmpty, Linked, TypeOK, QueueShape, WorkInv, BlockInv
  <2>7. BlockInv'
    BY <1>22 DEF WorkerEmpty, BlockInv
  <2>. QED BY <2>1, <2>2, <2>3, <2>4, <2>5, <2>6, <2>7
<1>23. CASE HandlerDone
  <2>1. TypeOK'
    BY <1>23 DEF HandlerDone, TypeOK
  <2>2. QueueShape'
    BY <1>23 DEF HandlerDone, QueueShape
  <2>3. SemaInv'
    BY <1>23 DEF HandlerDone, SemaInv
  <2>4. PutInv'
    BY <1>23 DEF HandlerDone, PutInv
  <2>5. FieldsInv'
    BY <1>23 DEF HandlerDone, FieldsInv
  <2>6. WorkInv'
    BY <1>23 DEF HandlerDone, WorkInv
  <2>7. BlockInv'
    BY <1>23 DEF HandlerDone, BlockInv
  <2>. QED BY <2>1, <2>2, <2>3, <2>4, <2>5, <2>6, <2>7
<1>24. CASE WorkerUnlink
  <2>1. TypeOK'
    BY <1>24 DEF WorkerUnlink, SignalEnd, Release, Linked, TypeOK, QueueShape,
       SemaInv, FieldsInv, WorkInv
  <2>2. QueueShape'
    <3>1. \A t \in Threads : pc[t] # "put_fill"
      BY <1>24 DEF WorkerUnlink, SemaInv, TypeOK
    <3>2. gReqEnd # NULL /\ fifo # <<>> /\ gReqList = served
      BY <1>24 DEF WorkerUnlink, WorkInv, QueueShape, Linked, TypeOK
    <3>3. /\ fifo \in Seq(Reqs) /\ rnext \in [Reqs -> Reqs \cup {NULL, Garbage}]
          /\ Linked(fifo, gReqList, gReqEnd, rnext) /\ rnext[gReqEnd] = NULL
          /\ live = Elements(fifo)
      BY <3>1, <3>2 DEF TypeOK, QueueShape
    <3>4. /\ fifo' = Tail(fifo) /\ live' = live \ {gReqList} /\ gReqList' = rnext[gReqList]
          /\ gReqEnd' = IF rnext[gReqList] = NULL THEN NULL ELSE gReqEnd
          /\ rnext' = [rnext EXCEPT ![gReqList] = Garbage]
      BY <1>24, <3>2 DEF WorkerUnlink, Release
    <3>5. /\ Elements(Tail(fifo)) = Elements(fifo) \ {gReqList}
          /\ Linked(Tail(fifo), rnext[gReqList], IF rnext[gReqList] = NULL THEN NULL ELSE gReqEnd,
                    [rnext EXCEPT ![gReqList] = Garbage])
          /\ rnext[gReqList] # NULL => gReqList # gReqEnd
      BY ONLY <3>2, <3>3, UnlinkFirst, Zenon
    <3>6. Linked(fifo', gReqList', gReqEnd', rnext') /\ live' = Elements(fifo')
      BY <3>3, <3>4, <3>5
    <3>7. gReqEnd' # NULL => rnext'[gReqEnd'] = NULL
      BY <3>3, <3>4, <3>5
    <3>. QED BY <3>6, <3>7 DEF QueueShape
  <2>3. SemaInv'
    BY <1>24 DEF WorkerUnlink, SemaInv
  <2>4. PutInv'
    BY <1>24 DEF WorkerUnlink, SemaInv, PutInv
  <2>5. FieldsInv'
    BY <1>24 DEF WorkerUnlink, Release, TypeOK, FieldsInv
  <2>6. WorkInv'
    BY <1>24 DEF WorkerUnlink, TypeOK, SemaInv, WorkInv
  <2>7. BlockInv'
    BY <1>24 DEF WorkerUnlink, BlockInv
  <2>. QED BY <2>1, <2>2, <2>3, <2>4, <2>5, <2>6, <2>7
<1>25. CASE WorkerRelease
  <2>1. TypeOK'
    BY <1>25 DEF WorkerRelease, SignalProc, TypeOK
  <2>2. QueueShape'
    BY <1>25 DEF WorkerRelease, QueueShape
  <2>3. SemaInv'
    BY <1>25 DEF WorkerRelease, SignalProc, TypeOK, SemaInv
  <2>4. PutInv'
    BY <1>25 DEF WorkerRelease, PutInv
  <2>5. FieldsInv'
    BY <1>25 DEF WorkerRelease, FieldsInv
  <2>6. WorkInv'
    BY <1>25 DEF WorkerRelease, WorkInv
  <2>7. BlockInv'
    BY <1>25 DEF WorkerRelease, BlockInv
  <2>. QED BY <2>1, <2>2, <2>3, <2>4, <2>5, <2>6, <2>7
<1>26. CASE WorkerDrain
  <2>1. TypeOK'
    BY <1>26 DEF WorkerDrain, TypeOK, BlockInv
  <2>2. QueueShape'
    BY <1>26 DEF WorkerDrain, Linked, QueueShape, BlockInv
  <2>3. SemaInv'
    BY <1>26 DEF WorkerDrain, SemaInv
  <2>4. PutInv'
    BY <1>26 DEF WorkerDrain, PutInv, BlockInv
  <2>5. FieldsInv'
    BY <1>26 DEF WorkerDrain, FieldsInv
  <2>6. WorkInv'
    BY <1>26 DEF WorkerDrain, WorkInv
  <2>7. BlockInv'
    BY <1>26 DEF WorkerDrain, BlockInv
  <2>. QED BY <2>1, <2>2, <2>3, <2>4, <2>5, <2>6, <2>7
<1>27. CASE UNCHANGED vars
  BY <1>27 DEF TypeOK, QueueShape, Linked, Elements, SemaInv, PutInv, FieldsInv,
     WorkInv, BlockInv
<1>. QED BY <1>1, <1>2, <1>3, <1>4, <1>5, <1>6, <1>7, <1>8, <1>9, <1>10, <1>11, <1>12, <1>13, <1>14, <1>15, <1>16, <1>17, <1>18, <1>19, <1>20, <1>21, <1>22, <1>23, <1>24, <1>25, <1>26, <1>27 DEF Next, GuiNext, IoNext, Ended

----------------------------------------------------------------------------
(* The inductive invariant holds in every reachable state.                 *)
THEOREM Invariance == Spec => []IInv
<1>1. Init => IInv BY InitIInv
<1>2. IInv /\ [Next]_vars => IInv' BY NextIInv
<1>. QED BY <1>1, <1>2, PTL DEF Spec

(* The variables keep their types.                                         *)
THEOREM TypeCorrect == Spec => []TypeOK
<1>1. IInv => TypeOK BY DEF IInv
<1>. QED BY <1>1, Invariance, PTL

(* The pointers of the request list always describe one intact list.       *)
THEOREM QueueIsIntact == Spec => []QueueShape
<1>1. IInv => QueueShape BY DEF IInv
<1>. QED BY <1>1, Invariance, PTL

(* The worker serves a request that is filled in, allocated and at the     *)
(* head of the list.                                                       *)
THEOREM ServesIntactRequests == Spec => []ServedIsIntact
<1>1. IInv => ServedIsIntact
  <2> SUFFICES ASSUME IInv, Serving PROVE /\ served = gReqList /\ served \in live
                                          /\ rtype[served] \in handlers /\ rdata[served] # Garbage
    BY DEF ServedIsIntact
  <2>1. fifo # <<>> /\ served = fifo[1] /\ fifo \in Seq(Reqs) /\ Len(fifo) > 0
    BY DEF IInv, WorkInv, TypeOK
  <2>2. served = gReqList /\ served \in live /\ gReqEnd = fifo[Len(fifo)]
    BY <2>1 DEF IInv, QueueShape, Linked, Elements
  <2>3. Filled(served)
    <3>1. ASSUME NEW t \in Threads, pc[t] = "put_fill", node[t] = served PROVE FALSE
      <4>1. node[t] = fifo[Len(fifo)] BY <2>2, <3>1 DEF IInv, PutInv
      <4>2. \A i, j \in 1..Len(fifo) : fifo[i] = fifo[j] => i = j
        BY DEF IInv, QueueShape, Linked
      <4>3. Len(fifo) \in Nat /\ 1 \in 1..Len(fifo) /\ Len(fifo) \in 1..Len(fifo)
        BY <2>1
      <4>4. Len(fifo) = 1 BY <2>1, <3>1, <4>1, <4>2, <4>3
      <4>. QED BY <3>1, <4>4 DEF IInv, WorkInv
    <3>. QED BY <3>1
  <2>. QED BY <2>2, <2>3, IoManAssumption DEF IInv, FieldsInv
<1>. QED BY <1>1, Invariance, PTL

(* The worker never sleeps on a pending request without a wakeup coming.   *)
THEOREM WakeupsAreNotLost == Spec => []NoLostWakeup
<1>1. IInv => NoLostWakeup
  BY DEF IInv, NoLostWakeup, WorkInv, QueueShape, Linked
<1>. QED BY <1>1, Invariance, PTL

(* Nothing is queued or served while the manager is blocked.               *)
THEOREM BlockingIsEffective == Spec => []BlockedIsQuiet
<1>1. IInv => BlockedIsQuiet
  BY DEF IInv, BlockedIsQuiet, BlockInv, WorkInv, QueueShape, Linked
<1>. QED BY <1>1, Invariance, PTL

(* ioRemoveRequests always walks an empty list.                            *)
THEOREM RemovalIsVacuous == Spec => []RemoveFindsNothing
<1>1. IInv => RemoveFindsNothing
  BY DEF IInv, RemoveFindsNothing, SemaInv, WorkInv, QueueShape, Linked
<1>. QED BY <1>1, Invariance, PTL

----------------------------------------------------------------------------
(* The I/O manager implements the queue of IoQueue.                        *)

(* A request that is being filled in was not in the list when it was       *)
(* linked, and the list has not changed since.                             *)
NewInv ==
    \A t \in Threads :
        pc[t] = "put_fill" /\ arg[t].type \in DedupTypes
            => \A i \in 1..(Len(fifo) - 1) :
                   ~(rtype[fifo[i]] = arg[t].type /\ rdata[fifo[i]] = arg[t].data)

(* A handler that puts a request found the gate open, and it stays open:   *)
(* the worker waits for gEndSemaId only while the GUI thread is inside a   *)
(* call that holds it.                                                     *)
OpenInv ==
    /\ pc["io"] \in {"put_lock", "put_link", "put_fill"} => ~isIOBlocked
    /\ endSema = "gui" => pc["gui"] \in {"put_lock", "put_link", "put_fill", "rm_end", "rm_walk"}

QInv == NewInv /\ OpenInv

(* Every step of either thread preserves them.                             *)
LEMMA NextQInv == IInv /\ QInv /\ [Next]_vars => QInv'
<1> SUFFICES ASSUME IInv, QInv, [Next]_vars PROVE QInv'
  OBVIOUS
<1>0. TypeOK /\ SemaInv /\ PutInv /\ WorkInv /\ BlockInv /\ QueueShape
  BY DEF IInv
<1> USE IoManAssumption DEF QInv, vars, heap, semas, flags, locals,
                            GuiStep, IoStep, Step, Goto, Caller, Other
<1>1. ASSUME RegisterCall
      PROVE  QInv'
  <2>1. NewInv'
    BY <1>0, <1>1 DEF RegisterCall, TypeOK, SemaInv, NewInv
  <2>2. OpenInv'
    BY <1>0, <1>1 DEF RegisterCall, TypeOK, SemaInv, IoReady, OpenInv
  <2>. QED BY <2>1, <2>2
<1>2. ASSUME RegisterWait
      PROVE  QInv'
  <2>1. NewInv'
    BY <1>0, <1>2 DEF RegisterWait, TypeOK, SemaInv, NewInv
  <2>2. OpenInv'
    BY <1>0, <1>2 DEF RegisterWait, TypeOK, SemaInv, IoReady, OpenInv
  <2>. QED BY <2>1, <2>2
<1>3. ASSUME NEW ty \in Types, RegisterAdd(ty)
      PROVE  QInv'
  <2>1. NewInv'
    BY <1>0, <1>3 DEF RegisterAdd, SignalProc, TypeOK, SemaInv, NewInv
  <2>2. OpenInv'
    BY <1>0, <1>3 DEF RegisterAdd, SignalProc, TypeOK, SemaInv, IoReady, OpenInv
  <2>. QED BY <2>1, <2>2
<1>4. ASSUME NEW t \in Threads, NEW ty \in Types, NEW d \in Data, PutCheck(t, ty, d)
      PROVE  QInv'
  <2>1. NewInv'
    BY <1>0, <1>4 DEF PutCheck, TypeOK, SemaInv, NewInv
  <2>2. OpenInv'
    BY <1>0, <1>4 DEF PutCheck, TypeOK, SemaInv, IoReady, OpenInv
  <2>. QED BY <2>1, <2>2
<1>5. ASSUME NEW t \in Threads, PutLock(t)
      PROVE  QInv'
  <2>1. NewInv'
    BY <1>0, <1>5 DEF PutLock, TypeOK, SemaInv, NewInv
  <2>2. OpenInv'
    BY <1>0, <1>5 DEF PutLock, TypeOK, SemaInv, IoReady, OpenInv
  <2>. QED BY <2>1, <2>2
<1>6. ASSUME NEW t \in Threads, PutDuplicate(t)
      PROVE  QInv'
  <2>1. NewInv'
    BY <1>0, <1>6 DEF PutDuplicate, SignalEnd, TypeOK, SemaInv, NewInv
  <2>2. OpenInv'
    BY <1>0, <1>6 DEF PutDuplicate, SignalEnd, TypeOK, SemaInv, IoReady, OpenInv
  <2>. QED BY <2>1, <2>2
<1>7. ASSUME NEW t \in Threads, NEW n \in Reqs, PutLink(t, n)
      PROVE  QInv'
  <2>1. NewInv'
    <3>1. \A u \in Threads : pc'[u] = "put_fill" => u = t
      BY <1>0, <1>7 DEF PutLink, TypeOK, SemaInv
    <3>2. /\ fifo \in Seq(Reqs) /\ fifo' = Append(fifo, n) /\ n \in Reqs
          /\ UNCHANGED <<rtype, rdata, arg>> /\ ~Duplicate(arg[t])
      BY <1>0, <1>7 DEF PutLink, TypeOK
    <3>3. Len(fifo') - 1 = Len(fifo) /\ \A i \in 1..Len(fifo) : fifo'[i] = fifo[i]
      BY <3>2
    <3>. QED BY <3>1, <3>2, <3>3 DEF NewInv, Duplicate
  <2>2. OpenInv'
    BY <1>0, <1>7 DEF PutLink, TypeOK, SemaInv, OpenInv
  <2>. QED BY <2>1, <2>2
<1>8. ASSUME NEW t \in Threads, PutFill(t)
      PROVE  QInv'
  <2>1. NewInv'
    <3>1. \A u \in Threads : pc'[u] # "put_fill"
      BY <1>0, <1>8 DEF PutFill, TypeOK, SemaInv
    <3>. QED BY <3>1 DEF NewInv
  <2>2. OpenInv'
    BY <1>0, <1>8 DEF PutFill, SignalEnd, TypeOK, SemaInv, OpenInv
  <2>. QED BY <2>1, <2>2
<1>9. ASSUME PutWake
      PROVE  QInv'
  <2>1. NewInv'
    BY <1>0, <1>9 DEF PutWake, TypeOK, SemaInv, NewInv
  <2>2. OpenInv'
    BY <1>0, <1>9 DEF PutWake, TypeOK, SemaInv, IoReady, OpenInv
  <2>. QED BY <2>1, <2>2
<1>10. ASSUME NEW ty \in Types, RemoveCall(ty)
      PROVE  QInv'
  <2>1. NewInv'
    BY <1>0, <1>10 DEF RemoveCall, TypeOK, SemaInv, NewInv
  <2>2. OpenInv'
    BY <1>0, <1>10 DEF RemoveCall, TypeOK, SemaInv, IoReady, OpenInv
  <2>. QED BY <2>1, <2>2
<1>11. ASSUME RemoveProc
      PROVE  QInv'
  <2>1. NewInv'
    BY <1>0, <1>11 DEF RemoveProc, TypeOK, SemaInv, NewInv
  <2>2. OpenInv'
    BY <1>0, <1>11 DEF RemoveProc, TypeOK, SemaInv, IoReady, OpenInv
  <2>. QED BY <2>1, <2>2
<1>12. ASSUME RemoveEnd
      PROVE  QInv'
  <2>1. NewInv'
    BY <1>0, <1>12 DEF RemoveEnd, TypeOK, SemaInv, NewInv
  <2>2. OpenInv'
    BY <1>0, <1>12 DEF RemoveEnd, TypeOK, SemaInv, IoReady, OpenInv
  <2>. QED BY <2>1, <2>2
<1>13. ASSUME RemoveWalk
      PROVE  QInv'
  <2>1. NewInv'
    <3>1. \A u \in Threads : pc'[u] # "put_fill"
      BY <1>0, <1>13 DEF RemoveWalk, TypeOK, SemaInv
    <3>. QED BY <3>1 DEF NewInv
  <2>2. OpenInv'
    BY <1>0, <1>13 DEF RemoveWalk, SignalEnd, TypeOK, SemaInv, OpenInv
  <2>. QED BY <2>1, <2>2
<1>14. ASSUME BlockOps
      PROVE  QInv'
  <2>1. NewInv'
    BY <1>0, <1>14 DEF BlockOps, TypeOK, SemaInv, NewInv
  <2>2. OpenInv'
    BY <1>0, <1>14 DEF BlockOps, TypeOK, SemaInv, IoReady, OpenInv
  <2>. QED BY <2>1, <2>2
<1>15. ASSUME BlockDone
      PROVE  QInv'
  <2>1. NewInv'
    BY <1>0, <1>15 DEF BlockDone, TypeOK, SemaInv, NewInv
  <2>2. OpenInv'
    BY <1>0, <1>15 DEF BlockDone, TypeOK, SemaInv, IoReady, OpenInv
  <2>. QED BY <2>1, <2>2
<1>16. ASSUME UnblockOps
      PROVE  QInv'
  <2>1. NewInv'
    BY <1>0, <1>16 DEF UnblockOps, TypeOK, SemaInv, NewInv
  <2>2. OpenInv'
    BY <1>0, <1>16 DEF UnblockOps, TypeOK, SemaInv, IoReady, OpenInv
  <2>. QED BY <2>1, <2>2
<1>17. ASSUME End
      PROVE  QInv'
  <2>1. NewInv'
    BY <1>0, <1>17 DEF End, TypeOK, SemaInv, NewInv
  <2>2. OpenInv'
    BY <1>0, <1>17 DEF End, TypeOK, SemaInv, IoReady, OpenInv
  <2>. QED BY <2>1, <2>2
<1>18. ASSUME WorkerTop
      PROVE  QInv'
  <2>1. NewInv'
    BY <1>0, <1>18 DEF WorkerTop, TypeOK, SemaInv, NewInv
  <2>2. OpenInv'
    BY <1>0, <1>18 DEF WorkerTop, TypeOK, SemaInv, IoReady, OpenInv
  <2>. QED BY <2>1, <2>2
<1>19. ASSUME WorkerWake
      PROVE  QInv'
  <2>1. NewInv'
    BY <1>0, <1>19 DEF WorkerWake, TypeOK, SemaInv, NewInv
  <2>2. OpenInv'
    BY <1>0, <1>19 DEF WorkerWake, TypeOK, SemaInv, IoReady, OpenInv
  <2>. QED BY <2>1, <2>2
<1>20. ASSUME WorkerProc
      PROVE  QInv'
  <2>1. NewInv'
    BY <1>0, <1>20 DEF WorkerProc, TypeOK, SemaInv, NewInv
  <2>2. OpenInv'
    BY <1>0, <1>20 DEF WorkerProc, TypeOK, SemaInv, IoReady, OpenInv
  <2>. QED BY <2>1, <2>2
<1>21. ASSUME WorkerStart
      PROVE  QInv'
  <2>1. NewInv'
    BY <1>0, <1>21 DEF WorkerStart, TypeOK, SemaInv, NewInv
  <2>2. OpenInv'
    BY <1>0, <1>21 DEF WorkerStart, TypeOK, SemaInv, IoReady, OpenInv
  <2>. QED BY <2>1, <2>2
<1>22. ASSUME WorkerEmpty
      PROVE  QInv'
  <2>1. NewInv'
    BY <1>0, <1>22 DEF WorkerEmpty, TypeOK, SemaInv, NewInv
  <2>2. OpenInv'
    BY <1>0, <1>22 DEF WorkerEmpty, TypeOK, SemaInv, IoReady, OpenInv
  <2>. QED BY <2>1, <2>2
<1>23. ASSUME HandlerDone
      PROVE  QInv'
  <2>1. NewInv'
    BY <1>0, <1>23 DEF HandlerDone, TypeOK, SemaInv, NewInv
  <2>2. OpenInv'
    BY <1>0, <1>23 DEF HandlerDone, TypeOK, SemaInv, IoReady, OpenInv
  <2>. QED BY <2>1, <2>2
<1>24. ASSUME WorkerUnlink
      PROVE  QInv'
  <2>1. NewInv'
    <3>1. \A u \in Threads : pc'[u] # "put_fill"
      BY <1>0, <1>24 DEF WorkerUnlink, TypeOK, SemaInv
    <3>. QED BY <3>1 DEF NewInv
  <2>2. OpenInv'
    BY <1>0, <1>24 DEF WorkerUnlink, SignalEnd, TypeOK, SemaInv, OpenInv
  <2>. QED BY <2>1, <2>2
<1>25. ASSUME WorkerRelease
      PROVE  QInv'
  <2>1. NewInv'
    BY <1>0, <1>25 DEF WorkerRelease, SignalProc, TypeOK, SemaInv, NewInv
  <2>2. OpenInv'
    BY <1>0, <1>25 DEF WorkerRelease, SignalProc, TypeOK, SemaInv, IoReady, OpenInv
  <2>. QED BY <2>1, <2>2
<1>26. ASSUME WorkerDrain
      PROVE  QInv'
  <2>1. NewInv'
    BY <1>0, <1>26 DEF WorkerDrain, TypeOK, SemaInv, NewInv
  <2>2. OpenInv'
    BY <1>0, <1>26 DEF WorkerDrain, TypeOK, SemaInv, IoReady, OpenInv
  <2>. QED BY <2>1, <2>2
<1>27. ASSUME UNCHANGED vars
      PROVE  QInv'
  <2>1. NewInv'
    BY <1>0, <1>27 DEF TypeOK, SemaInv, NewInv
  <2>2. OpenInv'
    BY <1>0, <1>27 DEF TypeOK, SemaInv, IoReady, OpenInv
  <2>. QED BY <2>1, <2>2
<1>. QED BY <1>1, <1>2, <1>3, <1>4, <1>5, <1>6, <1>7, <1>8, <1>9, <1>10, <1>11, <1>12, <1>13, <1>14, <1>15, <1>16, <1>17, <1>18, <1>19, <1>20, <1>21, <1>22, <1>23, <1>24, <1>25, <1>26, <1>27
     DEF Next, GuiNext, IoNext, Ended

(* What a caller sees of a request, and the queue and the gate that the    *)
(* list and the flags stand for.                                           *)
Seen(n) == [type |-> rtype[n], data |-> rdata[n]]
QueueOf == [i \in 1..Visible |-> Seen(fifo[i])]
GateOf == IF gIOTerminate THEN "ended" ELSE IF ~isIOBlocked THEN "open"
          ELSE IF pc["gui"] = "blk_wait" THEN "closing" ELSE "closed"

(* The list without the request that is being filled in.                   *)
LEMMA VisibleIs ==
    ASSUME TypeOK
    PROVE  /\ Len(fifo) \in Nat
           /\ (\A t \in Threads : pc[t] # "put_fill") => Visible = Len(fifo)
           /\ (\E t \in Threads : pc[t] = "put_fill") => Visible = Len(fifo) - 1
<1>1. Len(fifo) \in Nat
  BY DEF TypeOK
<1>2. ASSUME \A t \in Threads : pc[t] # "put_fill" PROVE Visible = Len(fifo)
  BY <1>1, <1>2 DEF Visible
<1>3. ASSUME \E t \in Threads : pc[t] = "put_fill" PROVE Visible = Len(fifo) - 1
  BY <1>1, <1>3 DEF Visible
<1>. QED BY <1>1, <1>2, <1>3

(* A step that leaves the list, its requests and the flags alone is no     *)
(* step of the queue.                                                      *)
Same ==
    /\ UNCHANGED <<fifo, rtype, rdata, gIOTerminate, isIOBlocked>>
    /\ (\E t \in Threads : pc'[t] = "put_fill") <=> (\E t \in Threads : pc[t] = "put_fill")
    /\ Serving' <=> Serving
    /\ pc'["gui"] = "blk_wait" <=> pc["gui"] = "blk_wait"

(* What the queue does, in terms of what the list stands for.              *)
LEMMA QueueSteps ==
    /\ QueueOf' = QueueOf /\ Serving' = Serving /\ GateOf' = GateOf => UNCHANGED Queue!vars
    /\ \A p \in [type : Types, data : Data] :
          /\ GateOf = "open" /\ QueueOf' = Append(QueueOf, p)
          /\ p.type \in DedupTypes => \A i \in DOMAIN QueueOf : QueueOf[i] # p
          /\ Serving' = Serving /\ GateOf' = GateOf
          => Queue!Next
    /\ ~Serving /\ Serving' /\ QueueOf # <<>> /\ GateOf # "ended"
          /\ QueueOf' = QueueOf /\ GateOf' = GateOf
          => Queue!Next
    /\ Serving /\ ~Serving' /\ QueueOf' = Tail(QueueOf) /\ GateOf' = GateOf => Queue!Next
    /\ QueueOf' = QueueOf /\ Serving' = Serving
          /\ \/ GateOf = "open" /\ GateOf' = "closing"
             \/ GateOf = "closing" /\ QueueOf = <<>> /\ ~Serving /\ GateOf' = "closed"
             \/ GateOf = "closed" /\ GateOf' \in {"open", "ended"}
          => Queue!Next
<1>. USE DEF QueueOf, GateOf, Seen
<1>1. QueueOf' = QueueOf /\ Serving' = Serving /\ GateOf' = GateOf => UNCHANGED Queue!vars
  BY DEF Queue!vars
<1>2. ASSUME NEW p \in [type : Types, data : Data],
             GateOf = "open", QueueOf' = Append(QueueOf, p),
             p.type \in DedupTypes => \A i \in DOMAIN QueueOf : QueueOf[i] # p,
             Serving' = Serving, GateOf' = GateOf
      PROVE  Queue!Next
  <2>1. Queue!Put(p)
    BY <1>2 DEF Queue!Put
  <2>. QED BY <2>1 DEF Queue!Next, Queue!Request
<1>3. ASSUME ~Serving, Serving', QueueOf # <<>>, GateOf # "ended", QueueOf' = QueueOf, GateOf' = GateOf
      PROVE  Queue!Next
  <2>1. Queue!Start
    BY <1>3 DEF Queue!Start
  <2>. QED BY <2>1 DEF Queue!Next
<1>4. ASSUME Serving, ~Serving', QueueOf' = Tail(QueueOf), GateOf' = GateOf
      PROVE  Queue!Next
  <2>1. Serving' = FALSE
    BY <1>4
  <2>2. Queue!Finish
    BY <1>4, <2>1, Zenon DEF Queue!Finish
  <2>. QED BY <2>2 DEF Queue!Next
<1>5. ASSUME QueueOf' = QueueOf, Serving' = Serving, GateOf = "open", GateOf' = "closing"
      PROVE  Queue!Next
  <2>1. Queue!Close
    BY <1>5 DEF Queue!Close
  <2>. QED BY <2>1 DEF Queue!Next
<1>6. ASSUME QueueOf' = QueueOf, Serving' = Serving, GateOf = "closing", QueueOf = <<>>, ~Serving, GateOf' = "closed"
      PROVE  Queue!Next
  <2>1. Queue!Closed
    BY <1>6 DEF Queue!Closed
  <2>. QED BY <2>1 DEF Queue!Next
<1>7. ASSUME QueueOf' = QueueOf, Serving' = Serving, GateOf = "closed", GateOf' = "open"
      PROVE  Queue!Next
  <2>1. Queue!Open
    BY <1>7 DEF Queue!Open
  <2>. QED BY <2>1 DEF Queue!Next
<1>8. ASSUME QueueOf' = QueueOf, Serving' = Serving, GateOf = "closed", GateOf' = "ended"
      PROVE  Queue!Next
  <2>1. Queue!End
    BY <1>8 DEF Queue!End
  <2>. QED BY <2>1 DEF Queue!Next
<1>. HIDE DEF QueueOf, GateOf, Seen
<1>. QED BY <1>1, <1>2, <1>3, <1>4, <1>5, <1>6, <1>7, <1>8

(* Such a step stutters.                                                   *)
LEMMA StepIsSame == Same => [Queue!Next]_(Queue!vars)
<1> SUFFICES ASSUME Same PROVE UNCHANGED Queue!vars
  OBVIOUS
<1>1. Visible' = Visible
  BY DEF Same, Visible
<1>2. QueueOf' = QueueOf /\ Serving' = Serving /\ GateOf' = GateOf
  BY <1>1 DEF Same, QueueOf, Seen, GateOf
<1>. QED BY <1>2, QueueSteps

(* Every step of either thread is a step of the queue, or none.            *)
LEMMA NextImplements == IInv /\ QInv /\ IInv' /\ [Next]_vars => [Queue!Next]_(Queue!vars)
<1> SUFFICES ASSUME IInv, QInv, IInv', [Next]_vars PROVE [Queue!Next]_(Queue!vars)
  OBVIOUS
<1>0. TypeOK /\ SemaInv /\ PutInv /\ FieldsInv /\ WorkInv /\ BlockInv /\ QueueShape /\ NewInv /\ OpenInv /\ TypeOK'
  BY DEF IInv, QInv
<1> USE IoManAssumption DEF vars, heap, semas, flags, locals,
                            GuiStep, IoStep, Step, Goto, Caller, Other
<1>1. ASSUME RegisterCall
      PROVE  [Queue!Next]_(Queue!vars)
  <2>1. Same
    BY <1>0, <1>1 DEF RegisterCall, TypeOK, Same
  <2>. QED BY <2>1, StepIsSame
<1>2. ASSUME RegisterWait
      PROVE  [Queue!Next]_(Queue!vars)
  <2>1. Same
    BY <1>0, <1>2 DEF RegisterWait, TypeOK, Same
  <2>. QED BY <2>1, StepIsSame
<1>3. ASSUME NEW ty \in Types, RegisterAdd(ty)
      PROVE  [Queue!Next]_(Queue!vars)
  <2>1. Same
    BY <1>0, <1>3 DEF RegisterAdd, SignalProc, TypeOK, Same
  <2>. QED BY <2>1, StepIsSame
<1>4. ASSUME NEW t \in Threads, NEW ty \in Types, NEW d \in Data, PutCheck(t, ty, d)
      PROVE  [Queue!Next]_(Queue!vars)
  <2>1. Same
    BY <1>0, <1>4 DEF PutCheck, TypeOK, Same
  <2>. QED BY <2>1, StepIsSame
<1>5. ASSUME NEW t \in Threads, PutLock(t)
      PROVE  [Queue!Next]_(Queue!vars)
  <2>1. Same
    BY <1>0, <1>5 DEF PutLock, TypeOK, Same
  <2>. QED BY <2>1, StepIsSame
<1>6. ASSUME NEW t \in Threads, PutDuplicate(t)
      PROVE  [Queue!Next]_(Queue!vars)
  <2>1. Same
    BY <1>0, <1>6 DEF PutDuplicate, SignalEnd, TypeOK, Same
  <2>. QED BY <2>1, StepIsSame
<1>7. ASSUME NEW t \in Threads, NEW n \in Reqs, PutLink(t, n)
      PROVE  [Queue!Next]_(Queue!vars)
  <2>1. /\ \A u \in Threads : pc[u] # "put_fill"
        /\ pc'[t] = "put_fill"
    BY <1>0, <1>7 DEF PutLink, TypeOK, SemaInv
  <2>2. /\ fifo \in Seq(Reqs) /\ fifo' = Append(fifo, n) /\ UNCHANGED <<rtype, rdata, gIOTerminate, isIOBlocked>>
        /\ Serving' = Serving /\ (pc'["gui"] = "blk_wait" <=> pc["gui"] = "blk_wait")
    BY <1>0, <1>7 DEF PutLink, TypeOK
  <2>3. Len(fifo') = Len(fifo) + 1 /\ Len(fifo) \in Nat /\ \A i \in 1..Len(fifo) : fifo'[i] = fifo[i]
    BY <2>2
  <2>4. Visible = Len(fifo) /\ Visible' = Len(fifo)
    BY <2>1, <2>3 DEF Visible
  <2>5. QueueOf' = QueueOf /\ GateOf' = GateOf
    BY <2>2, <2>3, <2>4 DEF QueueOf, GateOf, Seen
  <2>. QED BY <2>2, <2>5, QueueSteps
<1>8. ASSUME NEW t \in Threads, PutFill(t)
      PROVE  [Queue!Next]_(Queue!vars)
  <2>. DEFINE p == [type |-> arg[t].type, data |-> arg[t].data]
  <2>1. pc[t] = "put_fill" /\ \A u \in Threads : pc'[u] # "put_fill"
    BY <1>0, <1>8 DEF PutFill, TypeOK, SemaInv
  <2>2. /\ fifo \in Seq(Reqs) /\ fifo' = fifo /\ fifo # <<>> /\ node[t] = fifo[Len(fifo)]
        /\ arg[t] \in [type : Types, data : Data]
        /\ rtype' = [rtype EXCEPT ![node[t]] = arg[t].type]
        /\ rdata' = [rdata EXCEPT ![node[t]] = arg[t].data]
        /\ rtype \in [Reqs -> Types \cup {Garbage}] /\ rdata \in [Reqs -> Data \cup {NULL, Garbage}]
        /\ UNCHANGED <<gIOTerminate, isIOBlocked>>
    BY <1>0, <1>8 DEF PutFill, TypeOK, PutInv, QueueShape, Linked
  <2>3. Serving' = Serving /\ (pc'["gui"] = "blk_wait" <=> pc["gui"] = "blk_wait") /\ ~isIOBlocked /\ ~gIOTerminate
    BY <1>0, <1>8 DEF PutFill, TypeOK, BlockInv, OpenInv
  <2>4. GateOf = "open" /\ GateOf' = "open"
    BY <2>2, <2>3 DEF GateOf
  <2>5. Len(fifo) \in Nat /\ Len(fifo) > 0 /\ Visible = Len(fifo) - 1 /\ Visible' = Len(fifo)
    BY <2>1, <2>2 DEF Visible
  <2>6. \A i \in 1..Len(fifo) - 1 : fifo[i] \in Reqs /\ fifo[i] # node[t]
    BY <1>0, <2>2, <2>5 DEF QueueShape, Linked
  <2>7. p \in [type : Types, data : Data] /\ node[t] \in Reqs
    BY <2>2, <2>5
  <2>8. \A i \in 1..Len(fifo) - 1 : Seen(fifo[i])' = Seen(fifo[i])
    BY <2>2, <2>6 DEF Seen
  <2>9. Seen(fifo[Len(fifo)])' = p
    BY <2>2, <2>7 DEF Seen
  <2>10. QueueOf' = Append(QueueOf, p)
    <3>. DEFINE S == [type : Types \cup {Garbage}, data : Data \cup {NULL, Garbage}]
    <3>. HIDE DEF p
    <3>1. QueueOf = [i \in 1..Len(fifo) - 1 |-> Seen(fifo[i])] /\ QueueOf' = [i \in 1..Len(fifo) |-> Seen(fifo[i])']
      BY <2>2, <2>5 DEF QueueOf
    <3>2. \A x \in Reqs : Seen(x) \in S
      BY <2>2 DEF Seen
    <3>3. QueueOf \in Seq(S) /\ Len(QueueOf) = Len(fifo) - 1 /\ p \in S
      <4>1. p \in S
        BY <2>7
      <4>. HIDE DEF S
      <4>. QED BY <2>5, <2>6, <3>1, <3>2, <4>1
    <3>4. ASSUME NEW T, NEW s \in Seq(T), NEW x \in T, NEW m \in Nat, Len(s) = m - 1
          PROVE  Append(s, x) = [i \in 1..m |-> IF i = m THEN x ELSE s[i]]
      <4>1. Len(s) + 1 = m /\ Len(s) \in Nat
        BY <3>4
      <4>2. /\ Append(s, x) \in Seq(T) /\ Len(Append(s, x)) = m /\ Append(s, x)[m] = x
            /\ \A i \in 1..m : i # m => Append(s, x)[i] = s[i]
        BY <4>1, <3>4
      <4>3. DOMAIN Append(s, x) = 1..m /\ Append(s, x) = [i \in DOMAIN Append(s, x) |-> Append(s, x)[i]]
        <5>. DEFINE a == Append(s, x)
        <5>1. a \in Seq(T) /\ Len(a) = m
          BY <4>2
        <5>. HIDE DEF a
        <5>2. DOMAIN a = 1..m /\ a = [i \in DOMAIN a |-> a[i]]
          BY <5>1
        <5>. QED BY <5>2 DEF a
      <4>. QED BY <4>2, <4>3
    <3>5. Append(QueueOf, p) = [i \in 1..Len(fifo) |-> IF i = Len(fifo) THEN p ELSE QueueOf[i]]
      <4>. HIDE DEF S
      <4>. QED BY <2>5, <3>3, <3>4
    <3>6. \A i \in 1..Len(fifo) : Seen(fifo[i])' = IF i = Len(fifo) THEN p ELSE QueueOf[i]
      <4>1. \A i \in 1..Len(fifo) : i = Len(fifo) \/ (i # Len(fifo) /\ i \in 1..Len(fifo) - 1)
        BY <2>5
      <4>2. \A i \in 1..Len(fifo) - 1 : QueueOf[i] = Seen(fifo[i])
        BY <3>1
      <4>3. \A i \in 1..Len(fifo) : i # Len(fifo) => Seen(fifo[i])' = QueueOf[i]
        BY <2>8, <4>1, <4>2
      <4>4. \A i \in 1..Len(fifo) : i = Len(fifo) => Seen(fifo[i])' = p
        BY <2>2, <2>9
      <4>. QED BY <4>3, <4>4
    <3>. QED BY <3>1, <3>5, <3>6
  <2>11. p.type \in DedupTypes => \A i \in DOMAIN QueueOf : QueueOf[i] # p
    BY <1>0, <2>1, <2>5 DEF NewInv, QueueOf, Seen
  <2>. HIDE DEF p
  <2>. QED BY <2>3, <2>4, <2>7, <2>10, <2>11, QueueSteps
<1>9. ASSUME PutWake
      PROVE  [Queue!Next]_(Queue!vars)
  <2>1. Same
    BY <1>0, <1>9 DEF PutWake, TypeOK, Same
  <2>. QED BY <2>1, StepIsSame
<1>10. ASSUME NEW ty \in Types, RemoveCall(ty)
      PROVE  [Queue!Next]_(Queue!vars)
  <2>1. Same
    BY <1>0, <1>10 DEF RemoveCall, TypeOK, Same
  <2>. QED BY <2>1, StepIsSame
<1>11. ASSUME RemoveProc
      PROVE  [Queue!Next]_(Queue!vars)
  <2>1. Same
    BY <1>0, <1>11 DEF RemoveProc, TypeOK, Same
  <2>. QED BY <2>1, StepIsSame
<1>12. ASSUME RemoveEnd
      PROVE  [Queue!Next]_(Queue!vars)
  <2>1. Same
    BY <1>0, <1>12 DEF RemoveEnd, TypeOK, Same
  <2>. QED BY <2>1, StepIsSame
<1>13. ASSUME RemoveWalk
      PROVE  [Queue!Next]_(Queue!vars)
  <2>1. fifo = <<>> /\ gReqList = NULL /\ fifo' = <<>>
    BY <1>0, <1>13 DEF RemoveWalk, SemaInv, WorkInv, QueueShape, Linked
  <2>2. /\ \A u \in Threads : pc'[u] # "put_fill" /\ pc[u] # "put_fill"
        /\ Serving' = Serving /\ UNCHANGED <<gIOTerminate, isIOBlocked>>
        /\ (pc'["gui"] = "blk_wait" <=> pc["gui"] = "blk_wait")
    <3>1. pc["gui"] = "rm_walk" /\ pc' = [pc EXCEPT !["gui"] = "idle"] /\ UNCHANGED <<gIOTerminate, isIOBlocked>>
      BY <1>13 DEF RemoveWalk
    <3>. QED BY <1>0, <3>1 DEF TypeOK, SemaInv
  <2>3. Visible = 0 /\ Visible' = 0
    BY <2>1, <2>2 DEF Visible
  <2>4. QueueOf' = QueueOf /\ GateOf' = GateOf
    BY <2>2, <2>3 DEF QueueOf, GateOf
  <2>. QED BY <2>2, <2>4, QueueSteps
<1>14. ASSUME BlockOps
      PROVE  [Queue!Next]_(Queue!vars)
  <2>1. /\ UNCHANGED <<fifo, rtype, rdata, gIOTerminate>> /\ ~isIOBlocked /\ isIOBlocked'
        /\ Serving' = Serving /\ ~gIOTerminate /\ pc'["gui"] = "blk_wait"
        /\ (\E u \in Threads : pc'[u] = "put_fill") <=> (\E u \in Threads : pc[u] = "put_fill")
    BY <1>0, <1>14 DEF BlockOps, TypeOK, BlockInv
  <2>2. QueueOf' = QueueOf /\ GateOf = "open" /\ GateOf' = "closing"
    BY <2>1 DEF QueueOf, Visible, Seen, GateOf
  <2>. QED BY <2>1, <2>2, QueueSteps
<1>15. ASSUME BlockDone
      PROVE  [Queue!Next]_(Queue!vars)
  <2>1. /\ UNCHANGED <<fifo, rtype, rdata, gIOTerminate, isIOBlocked>> /\ isIOBlocked /\ fifo = <<>>
        /\ ~Serving /\ ~Serving' /\ ~gIOTerminate /\ pc["gui"] = "blk_wait" /\ pc'["gui"] = "idle"
        /\ \A u \in Threads : pc'[u] # "put_fill" /\ pc[u] # "put_fill"
    BY <1>0, <1>15 DEF BlockDone, TypeOK, BlockInv, WorkInv, PutInv, QueueShape,
       Linked
  <2>2. Visible = 0 /\ Visible' = 0
    BY <2>1 DEF Visible
  <2>3. QueueOf' = QueueOf /\ QueueOf = <<>> /\ GateOf = "closing" /\ GateOf' = "closed"
    BY <2>1, <2>2 DEF QueueOf, Seen, GateOf
  <2>. QED BY <2>1, <2>3, QueueSteps
<1>16. ASSUME UnblockOps
      PROVE  [Queue!Next]_(Queue!vars)
  <2>1. /\ UNCHANGED <<fifo, rtype, rdata, gIOTerminate, pc>> /\ isIOBlocked /\ ~isIOBlocked'
        /\ Serving' = Serving /\ ~gIOTerminate /\ pc["gui"] = "idle"
    BY <1>0, <1>16 DEF UnblockOps, TypeOK, BlockInv
  <2>2. QueueOf' = QueueOf /\ GateOf = "closed" /\ GateOf' = "open"
    BY <2>1 DEF QueueOf, Visible, Seen, GateOf
  <2>. QED BY <2>1, <2>2, QueueSteps
<1>17. ASSUME End
      PROVE  [Queue!Next]_(Queue!vars)
  <2>1. /\ UNCHANGED <<fifo, rtype, rdata, isIOBlocked>> /\ isIOBlocked /\ gIOTerminate'
        /\ Serving' = Serving /\ ~gIOTerminate /\ pc["gui"] = "idle"
        /\ (\E u \in Threads : pc'[u] = "put_fill") <=> (\E u \in Threads : pc[u] = "put_fill")
    BY <1>0, <1>17 DEF End, TypeOK, BlockInv
  <2>2. QueueOf' = QueueOf /\ GateOf = "closed" /\ GateOf' = "ended"
    BY <2>1 DEF QueueOf, Visible, Seen, GateOf
  <2>. QED BY <2>1, <2>2, QueueSteps
<1>18. ASSUME WorkerTop
      PROVE  [Queue!Next]_(Queue!vars)
  <2>1. Same
    BY <1>0, <1>18 DEF WorkerTop, TypeOK, Same
  <2>. QED BY <2>1, StepIsSame
<1>19. ASSUME WorkerWake
      PROVE  [Queue!Next]_(Queue!vars)
  <2>1. Same
    BY <1>0, <1>19 DEF WorkerWake, TypeOK, Same
  <2>. QED BY <2>1, StepIsSame
<1>20. ASSUME WorkerProc
      PROVE  [Queue!Next]_(Queue!vars)
  <2>1. Same
    BY <1>0, <1>20 DEF WorkerProc, TypeOK, Same
  <2>. QED BY <2>1, StepIsSame
<1>21. ASSUME WorkerStart
      PROVE  [Queue!Next]_(Queue!vars)
  <2>1. /\ UNCHANGED <<fifo, rtype, rdata, isIOBlocked, gIOTerminate>> /\ ~gIOTerminate
        /\ ~Serving /\ Serving' /\ fifo # <<>> /\ fifo \in Seq(Reqs)
        /\ (\E u \in Threads : pc'[u] = "put_fill") <=> (\E u \in Threads : pc[u] = "put_fill")
        /\ (pc'["gui"] = "blk_wait" <=> pc["gui"] = "blk_wait")
    BY <1>0, <1>21 DEF WorkerStart, TypeOK, QueueShape, Linked
  <2>2. QueueOf' = QueueOf /\ GateOf # "ended" /\ GateOf' = GateOf
    BY <2>1 DEF QueueOf, Visible, Seen, GateOf
  <2>3. Visible \in Nat /\ Visible > 0
    <3>1. Len(fifo) \in Nat /\ Len(fifo) > 0
      BY <2>1
    <3>2. (\E u \in Threads : pc[u] = "put_fill") => Len(fifo) # 1
      BY <1>0, <1>21 DEF WorkerStart, WorkInv
    <3>3. CASE \E u \in Threads : pc[u] = "put_fill"
      <4>1. Visible = Len(fifo) - 1
        BY <1>0, <3>3, VisibleIs
      <4>. QED BY <3>1, <3>2, <3>3, <4>1
    <3>4. CASE \A u \in Threads : pc[u] # "put_fill"
      <4>1. Visible = Len(fifo)
        BY <1>0, <3>4, VisibleIs
      <4>. QED BY <3>1, <4>1
    <3>. QED BY <3>3, <3>4
  <2>4. QueueOf # <<>>
    BY <2>3 DEF QueueOf
  <2>. QED BY <2>1, <2>2, <2>4, QueueSteps
<1>22. ASSUME WorkerEmpty
      PROVE  [Queue!Next]_(Queue!vars)
  <2>1. Same
    BY <1>0, <1>22 DEF WorkerEmpty, TypeOK, Same
  <2>. QED BY <2>1, StepIsSame
<1>23. ASSUME HandlerDone
      PROVE  [Queue!Next]_(Queue!vars)
  <2>1. Same
    BY <1>0, <1>23 DEF HandlerDone, TypeOK, Same
  <2>. QED BY <2>1, StepIsSame
<1>24. ASSUME WorkerUnlink
      PROVE  [Queue!Next]_(Queue!vars)
  <2>1. /\ UNCHANGED <<isIOBlocked, gIOTerminate>> /\ Serving /\ ~Serving'
        /\ (pc'["gui"] = "blk_wait" <=> pc["gui"] = "blk_wait")
        /\ \A u \in Threads : pc'[u] # "put_fill" /\ pc[u] # "put_fill"
    BY <1>0, <1>24 DEF WorkerUnlink, TypeOK, SemaInv
  <2>2. /\ fifo \in Seq(Reqs) /\ fifo # <<>> /\ fifo' = Tail(fifo) /\ served = fifo[1]
        /\ rtype' = [n \in Reqs |-> IF n \in {served} THEN Garbage ELSE rtype[n]]
        /\ rdata' = [n \in Reqs |-> IF n \in {served} THEN Garbage ELSE rdata[n]]
    BY <1>0, <1>24 DEF WorkerUnlink, Release, TypeOK, WorkInv
  <2>3. GateOf' = GateOf
    BY <2>1 DEF GateOf
  <2>4. /\ Len(fifo) \in Nat /\ Len(fifo) > 0 /\ Len(fifo') = Len(fifo) - 1
        /\ \A i \in 1..Len(fifo) - 1 : fifo'[i] = fifo[i + 1]
    BY <2>2
  <2>5. Visible = Len(fifo) /\ Visible' = Len(fifo) - 1
    BY <2>1, <2>4 DEF Visible
  <2>6. \A i \in 1..Len(fifo) - 1 : fifo[i + 1] \in Reqs /\ fifo[i + 1] # served
    <3>1. \A i, j \in 1..Len(fifo) : fifo[i] = fifo[j] => i = j
      BY <1>0 DEF QueueShape, Linked
    <3>2. \A i \in 1..Len(fifo) - 1 : i + 1 \in 1..Len(fifo) /\ 1 \in 1..Len(fifo) /\ i + 1 # 1
      BY <2>4
    <3>. QED BY <2>2, <3>1, <3>2
  <2>7. \A i \in 1..Len(fifo) - 1 : Seen(fifo[i])' = Seen(fifo[i + 1])
    <3>1. \A n \in Reqs : n # served => rtype'[n] = rtype[n] /\ rdata'[n] = rdata[n]
      BY <2>2
    <3>. QED BY <2>4, <2>6, <3>1 DEF Seen
  <2>8. QueueOf' = Tail(QueueOf)
    <3>1. QueueOf = [i \in 1..Len(fifo) |-> Seen(fifo[i])] /\ QueueOf' = [i \in 1..Len(fifo) - 1 |-> Seen(fifo[i])']
      BY <2>5 DEF QueueOf
    <3>. QED BY <2>4, <2>7, <3>1
  <2>. QED BY <2>1, <2>3, <2>8, QueueSteps
<1>25. ASSUME WorkerRelease
      PROVE  [Queue!Next]_(Queue!vars)
  <2>1. Same
    BY <1>0, <1>25 DEF WorkerRelease, SignalProc, TypeOK, Same
  <2>. QED BY <2>1, StepIsSame
<1>26. ASSUME WorkerDrain
      PROVE  [Queue!Next]_(Queue!vars)
  <2>1. /\ UNCHANGED <<fifo, rtype, rdata, gIOTerminate, isIOBlocked>> /\ Serving' = Serving
        /\ (\E u \in Threads : pc'[u] = "put_fill") <=> (\E u \in Threads : pc[u] = "put_fill")
        /\ (pc'["gui"] = "blk_wait" <=> pc["gui"] = "blk_wait")
    BY <1>0, <1>26 DEF WorkerDrain, TypeOK, WorkInv
  <2>. QED BY <2>1, StepIsSame DEF Same
<1>27. ASSUME UNCHANGED vars
      PROVE  [Queue!Next]_(Queue!vars)
  <2>1. Same
    BY <1>0, <1>27 DEF TypeOK, Same
  <2>. QED BY <2>1, StepIsSame
<1>. QED BY <1>1, <1>2, <1>3, <1>4, <1>5, <1>6, <1>7, <1>8, <1>9, <1>10, <1>11, <1>12, <1>13, <1>14, <1>15, <1>16, <1>17, <1>18, <1>19, <1>20, <1>21, <1>22, <1>23, <1>24, <1>25, <1>26, <1>27
     DEF Next, GuiNext, IoNext, Ended

(* The linked list, its semaphores and the flags implement the queue with  *)
(* a gate that the callers of ioman.h rely on, for any request types, data *)
(* and amount of memory: requests are served in the order they were put,   *)
(* a put queues one request or is merged with an equal one, and nothing    *)
(* enters once ioBlockOps(1) was called.                                   *)
THEOREM ManagerIsQueue == Spec => ImplementsQueue
<1>1. Init => Queue!Init
  <2> SUFFICES ASSUME Init PROVE Queue!Init
    OBVIOUS
  <2>1. Visible = 0 /\ ~Serving /\ GateOf = "open"
    BY DEF Init, Visible, GateOf
  <2>2. QueueOf = <<>>
    BY <2>1 DEF QueueOf
  <2>. QED BY <2>1, <2>2 DEF Queue!Init, QueueOf, GateOf, Seen
<1>2. Init => QInv
  BY DEF Init, QInv, NewInv, OpenInv
<1>3. IInv /\ QInv /\ [Next]_vars => QInv'
  BY NextQInv
<1>4. IInv /\ QInv /\ IInv' /\ [Next]_vars => [Queue!Next]_(Queue!vars)
  BY NextImplements
<1>. QED BY <1>1, <1>2, <1>3, <1>4, Invariance, PTL DEF Spec, ImplementsQueue, Queue!Spec
=============================================================================
