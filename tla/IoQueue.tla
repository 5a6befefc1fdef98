------------------------------ MODULE IoQueue ------------------------------
(***************************************************************************)
(* What the I/O manager promises to its callers (src/include/ioman.h): a   *)
(* first-in first-out queue of (type, data) requests that one worker       *)
(* serves.  A deferred update that is already in the queue is merged with  *)
(* it.  ioBlockOps(1) shuts a gate, waits until the queue has been worked  *)
(* off, and from then on nothing is queued or served until the gate opens. *)
(***************************************************************************)
EXTENDS Naturals, Sequences

CONSTANTS Types, DedupTypes, Data

VARIABLES
    queue,  \* the requests that are pending, the one being served first
    busy,   \* whether the first request is being served
    gate    \* "open", "closing" (ioBlockOps waits), "closed" or "ended"

vars == <<queue, busy, gate>>

Request == [type: Types, data: Data]

TypeOK ==
    /\ queue \in Seq(Request)
    /\ busy \in BOOLEAN
    /\ gate \in {"open", "closing", "closed", "ended"}

Init == queue = <<>> /\ busy = FALSE /\ gate = "open"

Put(p) ==
    /\ gate = "open"
    /\ p.type \in DedupTypes => \A i \in DOMAIN queue : queue[i] # p
    /\ queue' = Append(queue, p)
    /\ UNCHANGED <<busy, gate>>

Start ==
    /\ ~busy /\ queue # <<>> /\ gate # "ended"
    /\ busy' = TRUE
    /\ UNCHANGED <<queue, gate>>

Finish ==
    /\ busy
    /\ busy' = FALSE
    /\ queue' = Tail(queue)
    /\ UNCHANGED gate

Close == gate = "open" /\ gate' = "closing" /\ UNCHANGED <<queue, busy>>

Closed ==
    /\ gate = "closing"
    /\ queue = <<>> /\ ~busy
    /\ gate' = "closed"
    /\ UNCHANGED <<queue, busy>>

Open == gate = "closed" /\ gate' = "open" /\ UNCHANGED <<queue, busy>>

End == gate = "closed" /\ gate' = "ended" /\ UNCHANGED <<queue, busy>>

Next ==
    \/ \E p \in Request : Put(p)
    \/ Start \/ Finish \/ Close \/ Closed \/ Open \/ End

Spec == Init /\ [][Next]_vars
=============================================================================
