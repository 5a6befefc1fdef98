------------------------------- MODULE Ds34Bt -------------------------------
(***************************************************************************)
(* The driver of wireless controllers, modules/ds34bt/iop/ds34bt.c: two    *)
(* slots (ds34pad), the callbacks of the adapter's two endpoints (HCI      *)
(* events and L2CAP packets) and the thread that serves the launcher's     *)
(* calls.  ds34bt_reset is called by deinit and miniDeinit before every    *)
(* game is started, and waits until no slot is running.                    *)
(*                                                                         *)
(* The adapter, the radio links and the controllers are outside the        *)
(* repository.  Both endpoints deliver in order, and in any order with     *)
(* respect to each other.  Commands leave in order.  Answers that only     *)
(* acknowledge (configuration and disconnection responses, the pending     *)
(* connection response, the change of the packet type) and the rumble and  *)
(* LED reports change no state of either side and are left out, as are     *)
(* the identifiers of the commands and the bytes of a report.              *)
(*                                                                         *)
(* The callbacks run in one thread of usbd, one after the other.  They     *)
(* only poll hid_sema and go on without it, and their thread comes before  *)
(* the one that serves the calls: a callback may come between any two      *)
(* steps of a call, in the middle of pad_status_set too.                   *)
(***************************************************************************)
EXTENDS Naturals, Sequences

CONSTANTS BtPads,       \* MAX_PADS
          BtEnabled,    \* the slots the module's argument enables; without one, all
          BtCtls,       \* the controllers, by address
          BtDs4,        \* those whose name is "Wireless Controller"
          BtFake,       \* those whose address is not a genuine one
          NoCtl,        \* the address of a cleared slot
          BtHandles,    \* the handles the adapter gives its links
          MaxBtCalls,   \* bound: calls of the launcher
          MaxBtConnects,\* bound: connections the controllers ask for
          MaxBtFaults   \* bound: failures, losses and departures

Slots == 1 .. BtPads
NoHandle == 0                                    \* 0x0FFF
Channels == {"control", "interrupt"}

ASSUME BtAssumption == /\ BtPads \in Nat \ {0} /\ BtEnabled \subseteq 1 .. BtPads
                       /\ BtDs4 \subseteq BtCtls /\ BtFake \subseteq BtCtls
                       /\ NoCtl \notin BtCtls
                       /\ BtHandles \subseteq Nat \ {NoHandle}
                       /\ {MaxBtCalls, MaxBtConnects, MaxBtFaults} \subseteq Nat

VARIABLES pads,    \* ds34pad
          usb,     \* bt_dev: "out", "authorized", "set" or "configured"
          call,    \* the call the launcher's thread serves
          events,  \* what the interrupt endpoint will deliver
          packets, \* what the bulk endpoint will deliver
          orders,  \* the connections the adapter is making and ending
          links,   \* the adapter's links: the controller of each handle
          ctls,    \* the controllers: [at, chan]
          left,    \* what is left of the bounds
          crossed, \* history: a packet was handled for a slot that is not of its
                   \* link, or a packet or a disconnection of the driver was lost,
                   \* or a status was written back over a newer one
          torn     \* history: the slots whose status was written back so

btVars == <<pads, usb, call, events, packets, orders, links, ctls, left,
            crossed, torn>>
btMarks == <<crossed, torn>>
btAir == <<links, ctls>>

Flags == {"connected", "running", "disconnecting", "request"}
ClearPad == [addr |-> NoCtl, handle |-> NoHandle, scid |-> {}, type |-> "ds3",
             fake |-> FALSE, status |-> {}]
\* The channel numbers the driver gives: 0x70 for a slot of type DS4, else 0x40.
Family == {0, 40, 70}
Dcid(p) == IF pads[p].type = "ds4" THEN 70 ELSE 40

Event(k, c, h) == [k |-> k, ctl |-> c, handle |-> h]
Packet(h, k, ch, d) == [handle |-> h, k |-> k, chan |-> ch, dcid |-> d]
\* A call: what it does next, for which slot, and the status it has read.
Call(op, p, st) == [op |-> op, pad |-> p, status |-> st]
Idle == Call("none", 1, {})
OffCtl == [at |-> "off", chan |-> [ch \in Channels |-> 0]]

BtTypeOK ==
  /\ pads \in [Slots -> [addr : BtCtls \cup {NoCtl}, handle : BtHandles \cup {NoHandle},
                         scid : SUBSET Channels, type : {"ds3", "ds4"},
                         fake : BOOLEAN, status : SUBSET Flags]]
  /\ usb \in {"out", "authorized", "set", "configured"}
  /\ call \in [op : {"none", "flag", "store", "poll"}, pad : Slots, status : SUBSET Flags]
  /\ links \in [BtHandles -> BtCtls \cup {NoCtl}]
  /\ ctls \in [BtCtls -> [at : {"off", "asking", "linked", "leaving"},
                          chan : [Channels -> Family]]]
  /\ left \in [calls : 0 .. MaxBtCalls, connects : 0 .. MaxBtConnects,
               faults : 0 .. MaxBtFaults]
  /\ crossed \in BOOLEAN /\ torn \subseteq Slots

BtInit ==
  /\ pads = [p \in Slots |-> ClearPad]
  /\ usb = "out" /\ call = Idle
  /\ events = <<>> /\ packets = <<>> /\ orders = {}
  /\ links = [h \in BtHandles |-> NoCtl]
  /\ ctls = [c \in BtCtls |-> OffCtl]
  /\ left = [calls |-> MaxBtCalls, connects |-> MaxBtConnects, faults |-> MaxBtFaults]
  /\ crossed = FALSE /\ torn = {}

Spend(what) == left[what] > 0 /\ left' = [left EXCEPT ![what] = @ - 1]

\* The first of the slots a loop over ds34pad looks for; none: BtPads + 1.
First(wanted) ==
  IF wanted = {} THEN BtPads + 1 ELSE CHOOSE p \in wanted : \A q \in wanted : p <= q

-----------------------------------------------------------------------------
(* The adapter is plugged, configured and pulled out.                      *)

\* bt_connect.
BtConnect ==
  /\ usb = "out"
  /\ usb' = "authorized"
  /\ UNCHANGED <<btMarks, pads, call, events, packets, orders, btAir, left>>

\* bt_config_set: the endpoints are served, the slots cleared, the adapter reset.
BtConfigSet ==
  /\ usb = "authorized"
  /\ usb' = "set"
  /\ pads' = [p \in Slots |-> ClearPad]
  /\ events' = <<Event("reset", NoCtl, NoHandle)>>
  /\ UNCHANGED <<btMarks, call, packets, orders, btAir, left>>

\* bt_disconnect.
BtDisconnect ==
  /\ usb # "out" /\ Spend("faults")
  /\ usb' = "out"
  /\ pads' = [p \in Slots |-> ClearPad]
  /\ events' = <<>> /\ packets' = <<>> /\ orders' = {}
  /\ links' = [h \in BtHandles |-> NoCtl]
  /\ ctls' = [c \in BtCtls |-> OffCtl]
  /\ UNCHANGED <<btMarks, call>>

-----------------------------------------------------------------------------
(* External: what a controller does with the packets the driver sends, and *)
(* what it answers.  A packet for a link that has ended is lost.           *)

HearOne(r, m) ==
  LET c == links[m.handle]
      open == r.ctls[c].chan[m.chan]
      Chan(d) == [r.ctls EXCEPT ![c].chan[m.chan] = d]
      Answer(k, d) == Append(r.packets, Packet(m.handle, k, m.chan, d))
  IN IF m.handle \notin BtHandles \/ c = NoCtl \/ ctls[c].at = "leaving"
     THEN r
     ELSE CASE m.k = "connreq" ->
                 [ctls |-> Chan(m.dcid), packets |-> Answer("connrsp", m.dcid)]
            [] m.k = "connrsp" -> [r EXCEPT !.ctls = Chan(m.dcid)]
            [] m.k = "cfgreq" /\ open # 0 -> [r EXCEPT !.packets = Answer("cfgrsp", open)]
            [] m.k = "discreq" /\ open # 0 ->
                 [ctls |-> Chan(0), packets |-> Answer("discrsp", open)]
            [] OTHER -> r

Arrives(in, out) ==
  LET after[i \in 0 .. Len(out)] == IF i = 0 THEN [ctls |-> ctls, packets |-> in]
                                    ELSE HearOne(after[i - 1], out[i])
  IN ctls' = after[Len(out)].ctls /\ packets' = after[Len(out)].packets

Says(out) == Arrives(packets, out)
Hears(out) == Arrives(Tail(packets), out)
Silent == UNCHANGED <<ctls, packets>>

-----------------------------------------------------------------------------
(* HCI_event_task, called by hci_event_cb.                                 *)

HciEvent(k, answer) ==
  /\ usb \in {"set", "configured"}
  /\ events # <<>> /\ Head(events).k = k
  /\ events' = Tail(events) \o answer
  /\ UNCHANGED <<call, links, torn>>

Accept(c) == Event("accept", c, NoHandle)
Disconnect(h) == Event("disconnect", NoCtl, h)

\* Every command is built in hci_cmd_buf, whose transfer nobody waits for: a
\* disconnection that has not left yet goes out with the bytes of the next
\* command, which loses it.  An acceptance lost so is one that fails.
Commands(new) ==
  \E lost \in SUBSET {o \in orders : o.k = "disconnect"} :
    /\ orders' = (orders \ lost) \cup new
    /\ crossed' = (crossed \/ lost # {})
NoCommand == UNCHANGED <<orders, crossed>>

\* The commands that configure the adapter, in their order; "read" stands for the
\* three that read its address, version and features, which go alike.
AfterCommand == [reset |-> "read", read |-> "scan"]

\* A command that fails is followed by another reset.
CommandComplete ==
  /\ \/ \E k \in DOMAIN AfterCommand :
          /\ HciEvent(k, <<Event(AfterCommand[k], NoCtl, NoHandle)>>)
          /\ UNCHANGED <<usb, left>>
     \/ HciEvent("scan", <<>>) /\ usb' = "configured" /\ UNCHANGED left
     \/ \E k \in DOMAIN AfterCommand \cup {"scan"} :
          /\ HciEvent(k, <<Event("reset", NoCtl, NoHandle)>>)
          /\ Spend("faults") /\ UNCHANGED usb
  /\ UNCHANGED pads /\ NoCommand /\ Silent

\* The name that is asked for may be lost, or come with an error.
ConnectComplete ==
  \E named \in BOOLEAN :
    LET e == Head(events)
        i == First({p \in Slots : pads[p].addr = e.ctl})
        answered == i <= BtPads /\ links[e.handle] = e.ctl
    IN /\ HciEvent("complete", IF named THEN <<Event("name", e.ctl, NoHandle)>> ELSE <<>>)
       /\ named => answered
       /\ IF answered /\ ~named THEN Spend("faults") ELSE UNCHANGED left
       /\ IF i > BtPads THEN UNCHANGED pads /\ NoCommand
          ELSE /\ pads' = [pads EXCEPT ![i].handle = e.handle,
                                       ![i].status = @ \cup {"connected"}]
               /\ Commands({})
       /\ UNCHANGED usb /\ Silent

DisconnComplete ==
  /\ HciEvent("disc", <<>>)
  /\ LET i == First({p \in Slots : pads[p].handle = Head(events).handle})
     IN pads' = IF i > BtPads THEN pads ELSE [pads EXCEPT ![i] = ClearPad]
  /\ UNCHANGED <<usb, left>> /\ NoCommand /\ Silent

RemoteNameComplete ==
  /\ HciEvent("name", <<>>)
  /\ LET c == Head(events).ctl
         i == First({p \in Slots : pads[p].addr = c})
     IN IF i > BtPads
        THEN UNCHANGED <<pads, left>> /\ NoCommand /\ Silent
        ELSE /\ Commands({})
             /\ IF c \in BtDs4
                THEN /\ pads' = [pads EXCEPT ![i].type = "ds4", ![i].fake = FALSE]
                     /\ \/ /\ Says(<<Packet(pads[i].handle, "connreq", "control", 70)>>)
                           /\ UNCHANGED left
                        \/ Silent /\ Spend("faults")
                ELSE /\ pads' = [pads EXCEPT ![i].type = "ds3"]
                     /\ Silent /\ UNCHANGED left
  /\ UNCHANGED usb

\* The slot a new controller is given: not running, and not waiting for the
\* end of a link it is disconnecting.
IsFree(p) == /\ "running" \notin pads[p].status /\ p \in BtEnabled
             /\ ~({"connected", "disconnecting"} \subseteq pads[p].status)

\* A mutant of Taken: the slot stays connected.
TakenConnected(p, c) == [pads EXCEPT ![p].addr = c, ![p].fake = (c \in BtFake)]

\* The slot is its new controller's, and between two links.
Taken(p, c) == [pads EXCEPT ![p].addr = c, ![p].fake = (c \in BtFake),
                            ![p].status = @ \cap {"request"}]

\* hci_accept_connection may overwrite the command of hci_disconnect before it.
ConnectRequest ==
  /\ HciEvent("request", <<>>)
  /\ LET c == Head(events).ctl
         i == First({p \in Slots : IsFree(p)})
     IN IF i > BtPads
        THEN ctls' = [ctls EXCEPT ![c].at = "off"] /\ Commands({}) /\ UNCHANGED pads
        ELSE /\ \E cut \in {{}, {Disconnect(pads[i].handle)}} :
                  /\ cut # {} => "connected" \in pads[i].status
                  /\ Commands(cut \cup {Accept(c)})
             /\ pads' = Taken(i, c)
             /\ UNCHANGED ctls
  /\ UNCHANGED <<usb, packets, left>>

HciEvents == \/ CommandComplete \/ ConnectComplete \/ DisconnComplete
             \/ RemoteNameComplete \/ ConnectRequest

-----------------------------------------------------------------------------
(* L2CAP_event_task, and what l2cap_event_cb does after it with the slot   *)
(* it names: the first whose handle is the packet's.                       *)

\* The end of the link of this handle is on its way to HCI_event_task.
Announced(h) == \E i \in DOMAIN events : events[i] = Event("disc", NoCtl, h)

\* For the history: the packets to come with the handle of this slot are of the
\* slot's own link, which may have ended without another having its handle.
IsOwn(p) ==
  LET h == pads[p].handle
  IN /\ "connected" \in pads[p].status
     /\ links[h] = NoCtl \/ (links[h] = pads[p].addr /\ ~Announced(h))

PacketPad == First({p \in Slots : pads[p].handle = Head(packets).handle})

\* The answer of the task: the slot and the packets it sends.
Unchanged(p) == [pad |-> pads[p], out |-> <<>>, cut |-> FALSE]
With(p, pad, out) == [Unchanged(p) EXCEPT !.pad = pad, !.out = out]

L2capTask(p, m) ==
  LET ours == m.dcid = Dcid(p)
      q == pads[p]
      Say(k, ch) == Packet(q.handle, k, ch, Dcid(p))
      Gains(flag) == [q EXCEPT !.status = @ \cup {flag}]
      opened == [q EXCEPT !.scid = @ \cup {m.chan}]
  IN CASE m.k = "connreq" ->
            With(p, opened, <<Say("connrsp", m.chan), Say("cfgreq", m.chan)>>)
       [] m.k = "connrsp" /\ ours -> With(p, opened, <<Say("cfgreq", m.chan)>>)
       [] m.k = "cfgrsp" /\ ours /\ m.chan = "control" ->
            With(p, q, <<Say("connreq", "interrupt")>>)
       [] m.k = "cfgrsp" /\ ours /\ m.chan = "interrupt" -> With(p, Gains("running"), <<>>)
       [] m.k = "discreq" /\ ours -> With(p, Gains("disconnecting"), <<>>)
       [] m.k = "discrsp" /\ m.chan = "control" /\ m.chan \in q.scid ->
            [With(p, Gains("disconnecting"), <<>>) EXCEPT !.cut = TRUE]
       [] m.k = "discrsp" /\ m.chan = "interrupt" /\ m.chan \in q.scid ->
            With(p, Gains("disconnecting"), <<Say("discreq", "control")>>)
       [] OTHER -> Unchanged(p)

\* A mutant of Requested: the request is forgotten and nothing is sent.
RequestedForgets(r, p) == [r EXCEPT !.pad.status = @ \ {"request"}]

\* The launcher's request to disconnect is carried out by the next packet of a
\* slot that runs: over L2CAP, or at once if the controller is a fake one.
Requested(r, p) ==
  LET due == {"running", "request"} \subseteq r.pad.status
  IN IF ~due THEN r
     ELSE [pad |-> [r.pad EXCEPT !.status = @ \ {"request"}],
           out |-> IF r.pad.fake THEN r.out
                   ELSE Append(r.out, Packet(r.pad.handle, "discreq", "interrupt", Dcid(p))),
           cut |-> r.cut \/ r.pad.fake]

\* The packets without the one that was lost: they are built in l2cap_cmd_buf,
\* and nobody waits for its transfer either.
Without(out, i) == [j \in 1 .. Len(out) - 1 |-> IF j < i THEN out[j] ELSE out[j + 1]]

L2capEvent ==
  /\ usb \in {"set", "configured"}
  /\ packets # <<>>
  /\ LET p == PacketPad
     IN IF p > BtPads
        THEN Hears(<<>>) /\ NoCommand /\ UNCHANGED <<pads, left>>
        ELSE LET r == Requested(L2capTask(p, Head(packets)), p)
                 cut == IF r.cut THEN {Disconnect(r.pad.handle)} ELSE {}
             IN /\ pads' = [pads EXCEPT ![p] = r.pad]
                /\ \E lost \in SUBSET {o \in orders : r.cut /\ o.k = "disconnect"} :
                     /\ orders' = (orders \ lost) \cup cut
                     /\ \/ /\ Hears(r.out) /\ UNCHANGED left
                           /\ crossed' = (crossed \/ ~IsOwn(p) \/ lost # {})
                        \/ /\ \E i \in DOMAIN r.out : Hears(Without(r.out, i))
                           /\ Spend("faults") /\ crossed' = TRUE
  /\ UNCHANGED <<usb, call, events, links, torn>>

-----------------------------------------------------------------------------
(* ds34bt_reset asks each slot in turn to disconnect and waits until it    *)
(* does not run.                                                           *)

\* Served only while the adapter is plugged in.
BtCall ==
  /\ call.op = "none" /\ usb # "out" /\ Spend("calls")
  /\ call' = Call("flag", 1, {})
  /\ UNCHANGED <<btMarks, pads, usb, events, packets, orders, btAir>>

Serves(op) ==
  /\ call.op = op
  /\ UNCHANGED <<usb, events, packets, orders, btAir, left>>

\* pad_status_set: the status is read, and written back with the request.  What a
\* callback did to it in between is undone: a slot whose link has ended runs again.
ResetRequest ==
  /\ Serves("flag")
  /\ call' = Call("store", call.pad, pads[call.pad].status)
  /\ UNCHANGED <<btMarks, pads>>

\* For the history: a callback changed more than the request.
IsStale == pads[call.pad].status \ {"request"} # call.status \ {"request"}

ResetStore ==
  /\ Serves("store")
  /\ pads' = [pads EXCEPT ![call.pad].status = call.status \cup {"request"}]
  /\ call' = Call("poll", call.pad, {})
  /\ crossed' = (crossed \/ IsStale)
  /\ torn' = IF IsStale THEN torn \cup {call.pad} ELSE torn

ResetPoll ==
  /\ Serves("poll")
  /\ "running" \notin pads[call.pad].status
  /\ call' = IF call.pad < BtPads THEN Call("flag", call.pad + 1, {}) ELSE Idle
  /\ UNCHANGED <<btMarks, pads>>

BtServes == ResetRequest \/ ResetStore \/ ResetPoll

-----------------------------------------------------------------------------
(* External: the adapter.                                                  *)

\* A link ends: the adapter forgets it and says so.
Cut(h) ==
  /\ links' = [links EXCEPT ![h] = NoCtl]
  /\ ctls' = [ctls EXCEPT ![links[h]] = OffCtl]
  /\ events' = Append(events, Event("disc", NoCtl, h))

\* A handle is not given again while packets of its last link are to come.
FreeHandle(h) == links[h] = NoCtl /\ \A i \in DOMAIN packets : packets[i].handle # h

Order(o) == /\ o \in orders
            /\ orders' = orders \ {o}
            /\ UNCHANGED <<btMarks, pads, usb, call>>

\* ds34bt_reset polls every half millisecond; a link takes many.
PollDue == call.op = "poll" /\ "running" \notin pads[call.pad].status

\* A DualShock 3 opens the control channel; a DualShock 4 waits for the driver.
AdapterAccepts(c) ==
  /\ ~PollDue
  /\ Order(Accept(c))
  /\ \/ /\ \E h \in BtHandles :
             /\ FreeHandle(h) /\ \A g \in BtHandles : FreeHandle(g) => h <= g
             /\ links' = [links EXCEPT ![h] = c]
             /\ events' = Append(events, Event("complete", c, h))
             /\ packets' = IF c \in BtDs4 THEN packets
                           ELSE Append(packets, Packet(h, "connreq", "control", 0))
        /\ ctls' = [ctls EXCEPT ![c].at = "linked"]
        /\ UNCHANGED left
     \/ /\ Spend("faults")
        /\ ctls' = [ctls EXCEPT ![c].at = "off"]
        /\ UNCHANGED <<links, events, packets>>

\* It refuses a handle that is none, or has no link.
AdapterDisconnects(h) ==
  /\ Order(Disconnect(h))
  /\ IF h \in BtHandles /\ links[h] # NoCtl THEN Cut(h) ELSE UNCHANGED <<btAir, events>>
  /\ UNCHANGED <<packets, left>>

Adapter == \/ \E c \in BtCtls : AdapterAccepts(c)
           \/ \E h \in BtHandles \cup {NoHandle} : AdapterDisconnects(h)

-----------------------------------------------------------------------------
(* External: the controllers.                                              *)

CtlAsks ==
  /\ usb = "configured" /\ Spend("connects")
  /\ \E c \in BtCtls :
       /\ ctls[c].at = "off"
       /\ ctls' = [ctls EXCEPT ![c].at = "asking"]
       /\ events' = Append(events, Event("request", c, NoHandle))
  /\ UNCHANGED <<btMarks, pads, usb, call, packets, orders, links>>

CtlSends == UNCHANGED <<btMarks, pads, usb, call, events, orders, links>>

\* A controller reports as long as its interrupt channel is open.
CtlReports(h) ==
  /\ links[h] # NoCtl /\ ctls[links[h]].chan["interrupt"] # 0
  /\ LET r == Packet(h, "report", "interrupt", ctls[links[h]].chan["interrupt"])
     IN /\ \A i \in DOMAIN packets : packets[i] # r
        /\ packets' = Append(packets, r)
  /\ CtlSends /\ UNCHANGED <<ctls, left>>

\* A controller switched off closes its channel and then its link.
CtlLeaves ==
  /\ Spend("faults")
  /\ \E h \in BtHandles, ch \in Channels :
       /\ links[h] # NoCtl /\ ctls[links[h]].chan[ch] # 0
       /\ ctls' = [ctls EXCEPT ![links[h]] = [OffCtl EXCEPT !.at = "leaving"]]
       /\ packets' = Append(packets, Packet(h, "discreq", ch, ctls[links[h]].chan[ch]))
  /\ CtlSends

CtlIsGone ==
  /\ \E h \in BtHandles : links[h] # NoCtl /\ ctls[links[h]].at = "leaving" /\ Cut(h)
  /\ UNCHANGED <<btMarks, pads, usb, call, packets, orders, left>>

\* A link is lost.
LinkLost ==
  /\ Spend("faults")
  /\ \E h \in BtHandles : links[h] # NoCtl /\ Cut(h)
  /\ UNCHANGED <<btMarks, pads, usb, call, packets, orders>>

-----------------------------------------------------------------------------

BtNext ==
  \/ BtConnect \/ BtConfigSet \/ BtDisconnect
  \/ HciEvents \/ L2capEvent
  \/ BtCall \/ BtServes
  \/ Adapter
  \/ CtlAsks \/ (\E h \in BtHandles : CtlReports(h)) \/ CtlLeaves \/ CtlIsGone \/ LinkLost

BtSpec == BtInit /\ [][BtNext]_btVars

-----------------------------------------------------------------------------

\* A slot that is connected holds the handle of the link to its own controller,
\* or the end of that link is on its way to HCI_event_task: what the driver
\* sends for a slot, and the packets it takes for the slot's, are never those
\* of another controller, though a slot being set up is given to the next
\* controller that asks and the adapter uses its handles again.  The exception
\* is a slot whose status ds34bt_reset wrote back over a callback's (torn).
ConnectedIsLinked ==
  \A p \in Slots \ torn :
    "connected" \in pads[p].status =>
      \/ pads[p].handle \in BtHandles /\ links[pads[p].handle] = pads[p].addr
      \/ Announced(pads[p].handle)

\* No two slots hold one handle: L2CAP_event_task and the disconnection event
\* take the first slot that matches.
OneSlotPerHandle ==
  \A p, q \in Slots : p # q /\ pads[p].handle # NoHandle => pads[p].handle # pads[q].handle

\* A slot ds34bt_reset waits for is about to stop: its request is set and its
\* controller still sends the packet that makes the driver look at it, or the
\* answer to the disconnection, the command to the adapter or the end of the
\* link is under way.  Otherwise the launcher would wait for ever before it
\* starts the game.  It holds until a packet is handled for a slot that has
\* another link or none (the packets are told apart by their handle only, and
\* the endpoints do not order them with the events), until a packet or a
\* disconnection is overwritten in its buffer before it has left, and until the
\* request is stored over a callback's change (crossed): nothing is sent again.
ResetIsHeard ==
  LET p == call.pad
      h == pads[p].handle
  IN (call.op = "poll" /\ "running" \in pads[p].status /\ ~crossed) =>
       \/ Announced(h) \/ Disconnect(h) \in orders
       \/ ctls[links[h]].at = "leaving"
       \/ \E i \in DOMAIN packets : packets[i].handle = h /\ packets[i].k = "discrsp"
       \/ "request" \in pads[p].status /\ ctls[links[h]].chan["interrupt"] # 0

\* The slots follow the links of the adapter, whichever controllers ask for a
\* connection at the same time and in whichever order the events come, and a
\* reset of all of them is not left waiting.
SlotsFollowLinks == ConnectedIsLinked /\ OneSlotPerHandle /\ ResetIsHeard
=============================================================================
