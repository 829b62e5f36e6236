-------------------------------- MODULE Xhci --------------------------------
(***************************************************************************)
(* The USB host controller driver, kernel/drivers/usb/xhci.c: xhci_init    *)
(* enumerates the ports one after the other, each with a fixed series of   *)
(* commands and control transfers, and usb_poll then turns the reports of  *)
(* keyboards and mice into input.                                          *)
(*                                                                         *)
(* All answers of the controller, for commands, control transfers, port    *)
(* changes and reports, arrive in one event ring.  The driver waits for an *)
(* event of a given TYPE and drops the others (wait_event).  The rings are *)
(* queues here: their layout in memory is left out.                        *)
(* Contexts and descriptors are reduced to what they decide: whether the   *)
(* device is a keyboard, a mouse, or of no interest.                       *)
(***************************************************************************)
EXTENDS Integers, Sequences, FiniteSets

CONSTANTS
    MAX_DEV,     \* entries of the device table
    PORTS,       \* maxports
    SLOTS,       \* maxslots
    Machines,    \* machines considered, see Machine
    MaxReports   \* bound on the reports of a behaviour

(* attached: what is plugged into each port.  slow: an answer may come     *)
(* after wait_event has given up, or never.  faulty: a port, command or    *)
(* control transfer may fail.  early: devices may be used while others are *)
(* still enumerated.  Interrupt transfers do not fail.                     *)
Machine == [attached : [1 .. PORTS -> {"none", "kbd", "mouse", "other"}],
            slow : BOOLEAN, faulty : BOOLEAN, early : BOOLEAN]

ASSUME XhciAssumption ==
    /\ MAX_DEV \in Nat \ {0} /\ PORTS \in Nat /\ SLOTS \in Nat
    /\ MaxReports \in Nat
    /\ Machines \subseteq Machine

Devs == 0 .. MAX_DEV - 1

(* The requests of enumerate, in order, after the No-Op of xhci_init.      *)
NoOp == 0
EnableSlot == 1
AddressDev == 2
GetDevice == 3
GetConfigHead == 4
GetConfig == 5
SetConfig == 6
SetProtocol == 7
ConfigEp == 8

Steps == NoOp .. ConfigEp

\* Requests made by cmd_submit; the others are made by control_xfer.
Commands == {NoOp, EnableSlot, AddressDev, ConfigEp}

VARIABLES
    machine,      \* (never changes)
    pc,           \* where the driver stands
    port, idx,    \* locals of xhci_init and enumerate
    step,         \* the request being made
    ticket,       \* history: serial number of that request
    devs,         \* the device table: used, slot, port, hid (ep_dci # 0), kbd
    hid_buf,      \* per device, the key of its report buffer is down
    prev,         \* per device, the key was down in the last report handled
    cmdq, ctlq,   \* commands and control transfers not yet completed
    enabled,      \* slots the controller has enabled
    configured,   \* slots with a working interrupt endpoint
    armed,        \* per device, interrupt transfers waiting for a report
    evq,          \* the event ring
    down,         \* per device, the key as last reported
    owed,         \* history: presses reported minus characters injected
    reports       \* history: reports so far

table == <<devs, hid_buf, prev>>
ctrl  == <<cmdq, ctlq, enabled, configured>>
user  == <<down, owed, reports>>
xhciVars == <<machine, pc, port, idx, step, ticket, devs, hid_buf, prev, cmdq,
             ctlq, enabled, configured, armed, evq, down, owed, reports>>

XhciInit ==
    /\ machine \in Machines
    /\ pc = "init" /\ port = 0 /\ idx = 0 /\ step = NoOp /\ ticket = 0
    /\ devs = [i \in Devs |-> [used |-> FALSE, slot |-> 0, port |-> 0,
                               hid |-> FALSE, kbd |-> FALSE]]
    /\ hid_buf = [i \in Devs |-> FALSE] /\ prev = [i \in Devs |-> FALSE]
    /\ cmdq = <<>> /\ ctlq = {} /\ enabled = {} /\ configured = {}
    /\ armed = [i \in Devs |-> 0]
    /\ evq = <<>>
    /\ down = [i \in Devs |-> FALSE] /\ owed = [i \in Devs |-> 0] /\ reports = 0

Event(type, ok, slot, t) == [type |-> type, ok |-> ok, slot |-> slot, ticket |-> t]

Outcomes == IF machine.faulty THEN BOOLEAN ELSE {TRUE}

----------------------------------------------------------------------------
(* The driver.                                                             *)

\* Discovery and reset up to the No-Op, which fail for want of a controller.
xhci_init ==
    /\ pc = "init"
    /\ \/ pc' = "send"
       \/ machine.faulty /\ pc' = "off"
    /\ UNCHANGED <<machine, port, idx, step, ticket, table, ctrl, armed, evq, user>>

\* On to the next connected port after p, or to the input loops.
next_port(p) ==
    LET rest == {q \in p + 1 .. PORTS : machine.attached[q] # "none"}
    IN IF rest = {} THEN pc' = "poll" /\ port' = PORTS + 1
       ELSE /\ pc' = "reset"
            /\ port' = CHOOSE q \in rest : \A r \in rest : q <= r

FreeDevs == {i \in Devs : ~devs[i].used}

\* The start of enumerate: an entry of the table, and port_reset, which makes
\* the controller report a port change.
port_reset ==
    /\ pc = "reset"
    /\ \/ /\ FreeDevs = {}
          /\ next_port(port)
          /\ UNCHANGED <<idx, step, evq>>
       \/ \E i \in FreeDevs, on \in Outcomes :
             /\ \A j \in FreeDevs : i <= j
             /\ idx' = i
             /\ step' = EnableSlot
             /\ evq' = Append(evq, Event("port", TRUE, 0, 0))
             /\ IF on THEN pc' = "send" /\ UNCHANGED port ELSE next_port(port)
    /\ UNCHANGED <<machine, ticket, table, ctrl, armed, user>>

\* cmd_submit and control_xfer up to the doorbell.
send ==
    /\ pc = "send"
    /\ pc' = "wait"
    /\ ticket' = ticket + 1
    /\ LET r == [ticket |-> ticket', step |-> step, slot |-> devs[idx].slot]
       IN IF step \in Commands
          THEN cmdq' = Append(cmdq, r) /\ UNCHANGED ctlq
          ELSE ctlq' = ctlq \cup {r} /\ UNCHANGED cmdq
    /\ UNCHANGED <<machine, port, idx, step, table, enabled, configured, armed,
                   evq, user>>

\* A doorbell for an endpoint that is not configured does nothing.
Armed(i) == IF devs[i].slot \in configured
            THEN [armed EXCEPT ![i] = @ + 1] ELSE armed

\* Definitions named Mut_... are faults seeded to show that a property can
\* fail; nothing else uses them.
Mut_Dropped_KeepsEntry(d) == d

\* `d->used = 0; return': the slot stays enabled.
Dropped(d) == [d EXCEPT !.used = FALSE]

abandon ==
    /\ devs' = [devs EXCEPT ![idx] = Dropped(@)]
    /\ next_port(port)
    /\ UNCHANGED step

proceed == step' = step + 1 /\ pc' = "send" /\ UNCHANGED port

\* What GET_DESCRIPTOR brought: the interfaces of the device at this port or,
\* if the answer was that of another request, whatever the buffer held.
Descriptors(own) ==
    IF own THEN {[hid |-> machine.attached[port] # "other",
                  kbd |-> machine.attached[port] = "kbd"]}
    ELSE [hid : BOOLEAN, kbd : BOOLEAN]

SlotGranted(ok, slot) == ok /\ slot # 0

\* What xhci_init and enumerate do with an answer; slot is that of the event.
answered(ok, slot, own) ==
    \/ /\ step = NoOp
       /\ IF ok THEN next_port(0) ELSE pc' = "off" /\ UNCHANGED port
       /\ UNCHANGED <<step, devs, armed>>
    \/ /\ step = EnableSlot
       /\ IF SlotGranted(ok, slot)
          THEN /\ devs' = [devs EXCEPT ![idx].used = TRUE, ![idx].slot = slot,
                                       ![idx].port = port]
               /\ proceed
          ELSE next_port(port) /\ UNCHANGED <<devs, step>>
       /\ UNCHANGED armed
    \/ /\ step = GetConfig /\ ok
       /\ \E d \in Descriptors(own) :
             IF d.hid
             THEN /\ devs' = [devs EXCEPT ![idx].hid = TRUE, ![idx].kbd = d.kbd]
                  /\ proceed
             ELSE /\ devs' = [devs EXCEPT ![idx] = [Dropped(@) EXCEPT !.hid = FALSE,
                                                                     !.kbd = FALSE]]
                  /\ next_port(port)
                  /\ UNCHANGED step
       /\ UNCHANGED armed
    \/ /\ step = SetProtocol
       /\ proceed
       /\ UNCHANGED <<devs, armed>>
    \/ /\ step = ConfigEp /\ ok
       /\ armed' = Armed(idx)
       /\ next_port(port)
       /\ UNCHANGED <<devs, step>>
    \/ /\ step \in {AddressDev, GetDevice, GetConfigHead, SetConfig} /\ ok
       /\ proceed
       /\ UNCHANGED <<devs, armed>>
    \/ /\ step \in Steps \ {NoOp, EnableSlot, SetProtocol} /\ ~ok
       /\ abandon
       /\ UNCHANGED armed

Mut_Wanted_Any(e) == TRUE

\* wait_event tells events apart by type alone.
Wanted(e) == e.type = IF step \in Commands THEN "cmd" ELSE "xfer"

\* One event taken by wait_event.
wait_event ==
    /\ pc = "wait" /\ evq # <<>>
    /\ evq' = Tail(evq)
    /\ IF Wanted(Head(evq))
       THEN answered(Head(evq).ok, Head(evq).slot, Head(evq).ticket = ticket)
       ELSE UNCHANGED <<pc, port, step, devs, armed>>
    /\ UNCHANGED <<machine, idx, ticket, hid_buf, prev, ctrl, user>>

Mut_wait_timeout_Endless ==
    /\ machine.slow
    /\ pc = "wait"
    /\ UNCHANGED xhciVars

\* The turns of wait_event's loop are used up, though an event may have come
\* since it last looked; cmd_submit and control_xfer return 0.
wait_timeout ==
    /\ machine.slow
    /\ pc = "wait"
    /\ answered(FALSE, 0, FALSE)
    /\ UNCHANGED <<machine, idx, ticket, hid_buf, prev, ctrl, evq, user>>

Mut_hid_handle_NoPrev(i) ==
    /\ owed' = [owed EXCEPT ![i] = IF devs[i].kbd /\ hid_buf[i] THEN @ - 1 ELSE @]
    /\ UNCHANGED prev

\* A key that was not down in the report before goes to keyboard_inject.
hid_handle(i) ==
    IF devs[i].kbd
    THEN /\ owed' = [owed EXCEPT ![i] = IF hid_buf[i] /\ ~prev[i] THEN @ - 1 ELSE @]
         /\ prev' = [prev EXCEPT ![i] = hid_buf[i]]
    ELSE UNCHANGED <<owed, prev>>

\* The device a transfer event is attributed to: the first with its slot.
Sources(e) == {i \in Devs : /\ e.type = "xfer" /\ devs[i].used
                            /\ devs[i].slot = e.slot /\ devs[i].hid}

Mut_Rearmed_Never(i) == armed

Rearmed(i) == Armed(i)

\* One event taken by usb_poll; it goes on while there are any, 64 at most,
\* and is called again at once by the input loop.
usb_poll ==
    /\ pc = "poll" /\ evq # <<>>
    /\ evq' = Tail(evq)
    /\ \/ /\ Sources(Head(evq)) = {}
          /\ UNCHANGED <<armed, prev, owed>>
       \/ \E i \in Sources(Head(evq)) :
             /\ \A j \in Sources(Head(evq)) : i <= j
             /\ hid_handle(i)
             /\ armed' = Rearmed(i)
    /\ UNCHANGED <<machine, pc, port, idx, step, ticket, devs, hid_buf, ctrl,
                   down, reports>>

----------------------------------------------------------------------------
(* The controller and the devices.                                         *)

hc_command ==
    /\ cmdq # <<>>
    /\ LET c == Head(cmdq)
           spare == (1 .. SLOTS) \ enabled
       IN \E ok \in Outcomes :
            LET done == ok /\ (c.step = EnableSlot => spare # {})
                slot == IF c.step = EnableSlot /\ done
                        THEN CHOOSE s \in spare : \A t \in spare : s <= t
                        ELSE IF c.step = EnableSlot THEN 0 ELSE c.slot
            IN /\ enabled' = enabled \cup (IF c.step = EnableSlot /\ done
                                           THEN {slot} ELSE {})
               /\ configured' = configured \cup (IF c.step = ConfigEp /\ done
                                                 THEN {slot} ELSE {})
               /\ evq' = Append(evq, Event("cmd", done, slot, c.ticket))
    /\ cmdq' = Tail(cmdq)
    /\ UNCHANGED <<machine, pc, port, idx, step, ticket, table, ctlq, armed, user>>

hc_control ==
    \E r \in ctlq, ok \in Outcomes :
        /\ ctlq' = ctlq \ {r}
        /\ evq' = Append(evq, Event("xfer", ok, r.slot, r.ticket))
        /\ UNCHANGED <<machine, pc, port, idx, step, ticket, table, cmdq,
                       enabled, configured, armed, user>>

\* A report, written to the buffer of an armed transfer.  A device may repeat
\* a report when nothing has changed.  A transfer that fails is not modelled:
\* usb_poll does not look at its completion code.
usb_report(i, d) ==
    /\ armed[i] > 0 /\ reports < MaxReports
    /\ machine.early \/ pc = "poll"
    /\ armed' = [armed EXCEPT ![i] = @ - 1]
    /\ hid_buf' = [hid_buf EXCEPT ![i] = d]
    /\ down' = [down EXCEPT ![i] = d]
    /\ owed' = [owed EXCEPT ![i] = IF devs[i].kbd /\ d /\ ~down[i] THEN @ + 1 ELSE @]
    /\ reports' = reports + 1
    /\ evq' = Append(evq, Event("xfer", TRUE, devs[i].slot, 0))
    /\ UNCHANGED <<machine, pc, port, idx, step, ticket, devs, prev, ctrl>>

Controller == hc_command \/ hc_control

Driver == xhci_init \/ port_reset \/ send \/ wait_event \/ usb_poll

\* The input loop goes on for ever when there is nothing to do.
idle ==
    /\ pc = "off" \/ (pc = "poll" /\ evq = <<>>)
    /\ UNCHANGED xhciVars

XhciNext == \/ Controller \/ Driver \/ wait_timeout \/ idle
        \/ \E i \in Devs, d \in BOOLEAN : usb_report(i, d)

XhciSpec == XhciInit /\ [][XhciNext]_xhciVars

\* The main context runs, and the loop of wait_event is bounded.  A controller
\* that is not slow answers what it is given; a slow one may be silent.
XhciFairSpec ==
    /\ XhciSpec
    /\ WF_xhciVars(Driver) /\ WF_xhciVars(wait_timeout)
    /\ WF_xhciVars(~machine.slow /\ Controller)

----------------------------------------------------------------------------
(* Properties.                                                             *)

XhciTypeOK ==
    /\ machine \in Machines
    /\ pc \in {"init", "reset", "send", "wait", "poll", "off"}
    /\ port \in 0 .. PORTS + 1 /\ idx \in Devs /\ step \in Steps
    /\ ticket \in Nat
    /\ devs \in [Devs -> [used : BOOLEAN, slot : 0 .. SLOTS, port : 0 .. PORTS,
                          hid : BOOLEAN, kbd : BOOLEAN]]
    /\ hid_buf \in [Devs -> BOOLEAN] /\ prev \in [Devs -> BOOLEAN]
    /\ enabled \subseteq 1 .. SLOTS /\ configured \subseteq enabled
    /\ armed \in [Devs -> Nat]
    /\ down \in [Devs -> BOOLEAN] /\ owed \in [Devs -> Int]
    /\ reports \in 0 .. MaxReports

\* Devices whose enumeration has succeeded.
ReadyDevs == {i \in Devs : devs[i].used /\ (i # idx \/ pc = "poll")}

\* Reports of device i waiting in the event ring.
Waiting(i) == {k \in 1 .. Len(evq) : /\ evq[k].type = "xfer" /\ evq[k].ticket = 0
                                     /\ evq[k].slot = devs[i].slot}

\* Answers come in time and devices are left alone during bring-up.
Orderly == ~machine.slow /\ ~machine.early

\* xhci.c:188, "Submit a TRB on the command ring and wait for its Command
\* Completion": on an orderly machine the event that ends a wait answers the
\* request that was made, although wait_event looks at its type only.
AnswersAreOwn ==
    [][Orderly /\ pc = "wait" /\ pc' # "wait" => Head(evq).ticket = ticket]_xhciVars

\* xhci.h:16-17, "deliver HID keyboard/mouse reports ... and re-arm the
\* interrupt transfers": a device that is ready always has exactly one
\* transfer outstanding or one report waiting, so it neither goes dead nor
\* overwrites a report that has not been read.
OneTransferEach ==
    \A i \in ReadyDevs : armed[i] + Cardinality(Waiting(i)) = 1

\* The same for an orderly machine, whichever requests of bring-up fail.
ReadyIsArmed == Orderly => OneTransferEach

\* On an orderly machine, once the reports of a keyboard are handled, every
\* press has been typed exactly once, repeated reports included.
PressesTyped ==
    Orderly /\ pc = "poll" => \A i \in ReadyDevs : Waiting(i) = {} => owed[i] = 0

\* Without faults, every keyboard and mouse is ready when the input loops
\* start, as many as the table holds, whatever else is plugged in.
HidFound ==
    pc = "poll" /\ ~machine.faulty /\ Orderly =>
        LET hids == {p \in 1 .. PORTS : machine.attached[p] \in {"kbd", "mouse"}}
        IN \/ \A p \in hids : \E i \in ReadyDevs : devs[i].port = p
           \/ \A i \in Devs : devs[i].used /\ devs[i].port \in hids

\* Bring-up ends whatever fails, is late, is never answered or is typed
\* meanwhile: the bound of wait_event's loop sees to it (xhci.c:173), and the
\* kernel starts its shell or desktop after xhci_init.
BringUpEnds == <>(pc \in {"poll", "off"})
=============================================================================
