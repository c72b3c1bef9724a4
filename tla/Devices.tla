------------------------------ MODULE Devices ------------------------------
(***************************************************************************)
(* The simulated devices of USLOSS (devices.c, dev_alarm.c, dev_clock.c,   *)
(* dev_disk.c, dev_term.c).                                                *)
(*                                                                         *)
(* Every second timer signal is a clock interrupt; the others advance      *)
(* through a ring of event slots, one slot a tick, and whatever event the  *)
(* slot holds completes then.  The alarm and the disks put their events in *)
(* the ring, and an event of a more important device takes the slot of a   *)
(* less important one, which moves on to a later slot.  The terminals own  *)
(* every slot nobody else has taken: it polls the next terminal.           *)
(*                                                                         *)
(* The operating system's calls happen between two timer signals.  Those   *)
(* that only read (the alarm's and the clock's status) change nothing and  *)
(* have no action here; nor has a call the device refuses as invalid.      *)
(***************************************************************************)
EXTENDS Integers, FiniteSets

CONSTANTS
    QSize,         \* slots of the ring, 256 in the source
    Disks,         \* units that have a usable disk file
    Tracks,        \* Tracks[u] is the number of tracks of disk u
    TrackSize,     \* USLOSS_DISK_TRACK_SIZE, sectors in a track
    DiskRequests,  \* the requests the operating system makes of a disk
    NumTerms,      \* USLOSS_TERM_UNITS, 4 in the source
    Enables,       \* the interrupts it enables in a terminal's control word
    AlarmTimes,    \* the delays it asks of the alarm
    Polite,        \* whether it checks that the alarm is READY before arming it
    Handlers       \* the devices that have a handler in USLOSS_IntVec

(* USLOSS_DeviceRequest: reg1 is a track or a sector; a request of no known *)
(* operation is illegal.                                                   *)
Operations == {"SEEK", "READ", "WRITE", "TRACKS", "illegal"}
MaxDelay   == 3

ASSUME RingAssumption == QSize \in Nat /\ QSize > MaxDelay

ASSUME UnitsAssumption ==
    /\ Disks \subseteq Nat
    /\ Tracks \in [Disks -> Nat \ {0}]
    /\ TrackSize \in Nat \ {0}
    /\ NumTerms \in Nat \ {0}

ASSUME RequestsAssumption ==
    /\ DiskRequests \subseteq [op : Operations, reg1 : Int]
    /\ Enables \subseteq SUBSET {"RECV_INT", "XMIT_INT"}
    /\ AlarmTimes \subseteq Int
    /\ Polite \in BOOLEAN

Slots == 0 .. QSize - 1
Terms == 0 .. NumTerms - 1

(* Priorities are device numbers, and the lower is the more important.     *)
CLOCK_DEV   == 0
ALARM_DEV   == 1
DISK_DEV    == 2
TERM_DEV    == 3
LOW_PRI_DEV == TERM_DEV

Idle         == [device |-> LOW_PRI_DEV, arg |-> 0]
AlarmEvent   == [device |-> ALARM_DEV, arg |-> 0]
DiskEvent(u) == [device |-> DISK_DEV, arg |-> u]
Events       == {Idle, AlarmEvent} \cup {DiskEvent(u) : u \in Disks}

Quiet == [device |-> -1, unit |-> 0]

VARIABLES
    queue,     \* dev_event_queue
    ptr,       \* dev_event_ptr, the slot of the last device tick
    tick,      \* whether the last timer signal was a clock interrupt
    armed,     \* the alarm's only register
    status,    \* of each disk
    track,     \* currentTrack of each disk
    request,   \* the request each disk is working on, or worked on last
    xmit,      \* the sending half of each terminal's status register
    recv,      \* the receiving half
    control,   \* the interrupts each terminal's control register enables
    poll,      \* the terminal polled last, -1 before the first poll
    intr,      \* the interrupt the last step delivered, if any
    fate       \* "running", or how the simulator ended

ring  == <<queue, ptr>>
disk  == <<status, track, request>>
term  == <<xmit, recv, control, poll>>
vars  == <<queue, ptr, tick, armed, status, track, request, xmit, recv,
           control, poll, intr, fate>>

Running == fate = "running"

Init ==
    /\ queue = [i \in Slots |-> Idle]
    /\ ptr = 0
    /\ tick = FALSE
    /\ armed = FALSE
    /\ status = [u \in Disks |-> "READY"]
    /\ track = [u \in Disks |-> 0]
    /\ request \in [Disks -> {[op |-> "SEEK", reg1 |-> 0]}]
    /\ xmit = [t \in Terms |-> "READY"]
    /\ recv = [t \in Terms |-> "READY"]
    /\ control = [t \in Terms |-> {}]
    /\ poll = -1
    /\ intr = Quiet
    /\ fate = "running"

-----------------------------------------------------------------------------
(* The ring.                                                               *)

(* How many slots index has to be advanced from i to reach j; an unsigned  *)
(* char wraps by itself.                                                   *)
Ahead(i, j) == (j - i) % QSize

(* Mutants: an event displaces its equals; or anything that is not one.    *)
BugFirstBelow(q, i, device) ==
    CHOOSE j \in Slots :
        /\ q[j].device >= device
        /\ \A k \in Slots : Ahead(i, k) < Ahead(i, j) => q[k].device < device

BugFirstOther(q, i, device) ==
    CHOOSE j \in Slots :
        /\ q[j].device # device
        /\ \A k \in Slots : Ahead(i, k) < Ahead(i, j) => q[k].device = device

(* The first slot from i on whose event is less important than device.     *)
FirstBelow(q, i, device) ==
    CHOOSE j \in Slots :
        /\ q[j].device > device
        /\ \A k \in Slots : Ahead(i, k) < Ahead(i, j) => q[k].device <= device

(* Mutants: the displaced event is lost; or looks for a slot from the next *)
(* tick on.                                                                *)
BugEnqueue(q, i, e) == [q EXCEPT ![FirstBelow(q, i, e.device)] = e]

BugEnqueueAhead(q, i, e) ==
    LET j == FirstBelow(q, i, e.device)
        k == FirstBelow(q, (ptr + 1) % QSize, q[j].device)
    IN IF q[j].device = LOW_PRI_DEV
         THEN [q EXCEPT ![j] = e]
         ELSE [q EXCEPT ![j] = e, ![k] = q[j]]

(* What the ring holds after event e asked for slot i.  The code loops     *)
(* until it displaces a terminal slot; as only the alarm and the disks ask *)
(* for slots, a displaced event displaces nothing but a terminal.          *)

Enqueue(q, i, e) ==
    LET j == FirstBelow(q, i, e.device)
        k == FirstBelow(q, j, q[j].device)
    IN IF q[j].device = LOW_PRI_DEV
         THEN [q EXCEPT ![j] = e]
         ELSE [q EXCEPT ![j] = e, ![k] = q[j]]

Full(q) == \A i \in Slots : q[i].device # LOW_PRI_DEV

(* With no terminal slot left the code never finds where to stop.          *)
schedule_int(e, future_time) ==
    /\ UNCHANGED ptr
    /\ IF Full(queue)
         THEN fate' = "hung" /\ UNCHANGED queue
         ELSE /\ queue' = Enqueue(queue, (ptr + future_time) % QSize, e)
              /\ UNCHANGED fate

-----------------------------------------------------------------------------
(* The alarm.                                                              *)

(* The code accepts any request; whether it is made while the alarm is     *)
(* BUSY is up to the operating system.                                     *)
MayArm == Polite => ~armed

alarm_request(time) ==
    /\ Running
    /\ MayArm
    /\ armed' = TRUE
    /\ intr' = Quiet
    /\ schedule_int(AlarmEvent, time)
    /\ UNCHANGED <<tick, disk, term>>

-----------------------------------------------------------------------------
(* The disks.                                                              *)

Distance(a, b) == IF a < b THEN b - a ELSE a - b

(* Mutant: a long seek takes as long as it takes.                          *)
BugDelay(u, r) ==
    IF r.op # "SEEK" THEN 1 ELSE 1 + (Distance(track[u], r.reg1) % 10)

Delay(u, r) ==
    LET seek == 1 + (Distance(track[u], r.reg1) % 10)
    IN IF r.op # "SEEK" THEN 1 ELSE IF seek > MaxDelay THEN MaxDelay ELSE seek

(* A disk that is BUSY refuses a request.                                  *)
Refused(u) == status[u] = "BUSY"

disk_request(u, r) ==
    /\ Running
    /\ ~Refused(u)
    /\ status' = [status EXCEPT ![u] = "BUSY"]
    /\ request' = [request EXCEPT ![u] = r]
    /\ intr' = Quiet
    /\ schedule_int(DiskEvent(u), Delay(u, r))
    /\ UNCHANGED <<tick, armed, track, term>>

(* Reading the status acknowledges an error.                               *)
disk_get_status(u) ==
    /\ Running
    /\ status[u] = "ERROR"
    /\ status' = [status EXCEPT ![u] = "READY"]
    /\ intr' = Quiet
    /\ UNCHANGED <<ring, tick, armed, track, request, term, fate>>

(* What disk_action makes of the request.                                  *)
Seeks(u)     == request[u].op = "SEEK"
Transfers(u) == request[u].op \in {"READ", "WRITE"}

(* Mutant: tracks of one sector.                                           *)
BugSector(u) == track[u] + request[u].reg1

Sector(u) == track[u] * TrackSize + request[u].reg1

(* Mutants: the track after the last one is taken for a track; or any      *)
(* before the first one.                                                   *)
BugImpossible(u) ==
    \/ Seeks(u) /\ (request[u].reg1 > Tracks[u] \/ request[u].reg1 < 0)
    \/ Transfers(u) /\ request[u].reg1 >= TrackSize

BugImpossibleBelow(u) ==
    \/ Seeks(u) /\ request[u].reg1 >= Tracks[u]
    \/ Transfers(u) /\ request[u].reg1 >= TrackSize

Impossible(u) ==
    \/ Seeks(u) /\ (request[u].reg1 >= Tracks[u] \/ request[u].reg1 < 0)
    \/ Transfers(u) /\ request[u].reg1 >= TrackSize

(* A sector before the start of the file fails in lseek, an illegal        *)
(* operation traps: both abort.                                            *)
Aborts(u) ==
    \/ request[u].op = "illegal"
    \/ Transfers(u) /\ ~Impossible(u) /\ Sector(u) < 0

-----------------------------------------------------------------------------
(* The terminals.                                                          *)

(* The control word replaces the register even if the unit is BUSY with a  *)
(* character and the request to send another is refused.                   *)
term_request(t, send, enable) ==
    /\ Running
    /\ control' = [control EXCEPT ![t] = enable]
    /\ xmit' = IF send THEN [xmit EXCEPT ![t] = "BUSY"] ELSE xmit
    /\ intr' = Quiet
    /\ UNCHANGED <<ring, tick, armed, disk, recv, poll, fate>>

(* Reading the status forgets the character received.                      *)
term_get_status(t) ==
    /\ Running
    /\ recv[t] = "BUSY"
    /\ recv' = [recv EXCEPT ![t] = "READY"]
    /\ intr' = Quiet
    /\ UNCHANGED <<ring, tick, armed, disk, xmit, control, poll, fate>>

-----------------------------------------------------------------------------
(* The timer signal.                                                       *)

(* The device's interrupt handler runs, or the simulator traps on NULL.    *)
Deliver(device, unit) ==
    IF device \in Handlers
      THEN intr' = [device |-> device, unit |-> unit] /\ UNCHANGED fate
      ELSE intr' = Quiet /\ fate' = "trapped"

clock_tick ==
    /\ Running
    /\ ~tick
    /\ tick' = TRUE
    /\ Deliver(CLOCK_DEV, 0)
    /\ UNCHANGED <<ring, armed, disk, term>>

NextSlot == (ptr + 1) % QSize

(* The next slot is taken out of the ring.                                 *)
Advance ==
    /\ Running
    /\ tick
    /\ tick' = FALSE
    /\ ptr' = NextSlot
    /\ queue' = [queue EXCEPT ![NextSlot] = Idle]

alarm_action ==
    /\ Advance
    /\ queue[NextSlot].device = ALARM_DEV
    /\ armed' = FALSE
    /\ Deliver(ALARM_DEV, 0)
    /\ UNCHANGED <<disk, term>>

disk_action(u) ==
    /\ Advance
    /\ queue[NextSlot] = DiskEvent(u)
    /\ IF Aborts(u)
         THEN /\ fate' = "aborted"
              /\ intr' = Quiet
              /\ UNCHANGED <<status, track>>
         ELSE /\ status' = [status EXCEPT ![u] =
                               IF Impossible(u) THEN "ERROR" ELSE "READY"]
              /\ track' = IF Seeks(u) /\ ~Impossible(u)
                            THEN [track EXCEPT ![u] = request[u].reg1]
                            ELSE track
              /\ Deliver(DISK_DEV, u)
    /\ UNCHANGED <<armed, request, term>>

(* Mutants: the last unit is never polled; a unit that has sent a          *)
(* character does not announce the one that arrived.                       *)
BugNextTerm == (poll + 1) % (NumTerms - 1)

BugAnnounces(t, arrives) ==
    IF xmit[t] = "BUSY" THEN "XMIT_INT" \in control[t]
    ELSE arrives /\ "RECV_INT" \in control[t]

NextTerm == (poll + 1) % NumTerms

(* A slot of nobody's polls the next terminal: arrives says whether there  *)
(* is a character to read (at the end of the input, and at an '@', there   *)
(* is none).  The unit interrupts for the character and for the one sent.  *)
Announces(t, arrives) ==
    \/ arrives /\ "RECV_INT" \in control[t]
    \/ xmit[t] = "BUSY" /\ "XMIT_INT" \in control[t]

term_action(arrives) ==
    /\ Advance
    /\ queue[NextSlot].device = TERM_DEV
    /\ poll' = NextTerm
    /\ recv' = [recv EXCEPT ![NextTerm] = IF arrives THEN "BUSY" ELSE "READY"]
    /\ xmit' = [xmit EXCEPT ![NextTerm] = "READY"]
    /\ IF Announces(NextTerm, arrives)
         THEN Deliver(TERM_DEV, NextTerm)
         ELSE intr' = Quiet /\ UNCHANGED fate
    /\ UNCHANGED <<armed, disk, control>>

dispatch_int ==
    \/ clock_tick
    \/ alarm_action
    \/ \E u \in Disks : disk_action(u)
    \/ \E arrives \in BOOLEAN : term_action(arrives)

-----------------------------------------------------------------------------

DeviceCall ==
    \/ \E time \in AlarmTimes : alarm_request(time)
    \/ \E u \in Disks, r \in DiskRequests : disk_request(u, r)
    \/ \E u \in Disks : disk_get_status(u)
    \/ \E t \in Terms, send \in BOOLEAN, enable \in Enables :
           term_request(t, send, enable)
    \/ \E t \in Terms : term_get_status(t)

Ended == ~Running /\ UNCHANGED vars

Next == dispatch_int \/ DeviceCall \/ Ended

Spec == Init /\ [][Next]_vars

(* The host's interval timer never stops, so signals keep coming for as    *)
(* long as the operating system lets interrupts in.                        *)
FairSpec == Spec /\ WF_vars(dispatch_int)
============================================================================
