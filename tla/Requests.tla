------------------------------ MODULE Requests ------------------------------
(***************************************************************************)
(* A request of the alarm or of a disk as USLOSS_DeviceOutput really runs  *)
(* it: schedule_int loops over the ring, slot by slot, and puts an event   *)
(* down in two stores.  It does not mask the signals, as                   *)
(* USLOSS_ContextInit and USLOSS_Clock do, so that with interrupts enabled *)
(* a timer signal may come between any two of its steps, advance the ring  *)
(* and take out events, and the handler may make requests of its own.      *)
(*                                                                         *)
(* Devices makes every request a single step.  With the signals masked,    *)
(* and inside a handler, that is what the steps amount to.                 *)
(***************************************************************************)
EXTENDS DevicesProperties

CONSTANT Masked  \* whether requests are made with the signals blocked

ASSUME MaskedAssumption == Masked \in BOOLEAN

VARIABLES
    pc,           \* where the request in progress is, "none" if there is none
    event,        \* device and arg of schedule_int: the event in hand
    future_time,
    index,
    low,          \* low_pri_dev and low_pri_arg: the event just displaced
    asked,        \* auxiliary: the event the request is about
    found         \* auxiliary: the ring as the request found it

local    == <<pc, event, future_time, index, low, asked, found>>
stepVars == <<vars, local>>

Empty == [i \in Slots |-> Idle]

StepInit ==
    /\ Init
    /\ pc = "none"
    /\ event = Idle /\ low = Idle /\ asked = Idle
    /\ future_time = 0
    /\ index = 0
    /\ found = Empty

(* The arguments are checked and the device's status is set.               *)
Begin(e, delay) ==
    /\ Running /\ pc = "none"
    /\ pc' = "start"
    /\ event' = e /\ asked' = e
    /\ future_time' = delay
    /\ found' = queue
    /\ intr' = Quiet
    /\ UNCHANGED <<ring, tick, track, term, fate, index, low>>

BeginAlarm(time) ==
    /\ Begin(AlarmEvent, time)
    /\ MayArm
    /\ armed' = TRUE
    /\ UNCHANGED <<status, request>>

BeginDisk(u, r) ==
    /\ Begin(DiskEvent(u), Delay(u, r))
    /\ ~Refused(u)
    /\ status' = [status EXCEPT ![u] = "BUSY"]
    /\ request' = [request EXCEPT ![u] = r]
    /\ UNCHANGED armed

Doing(point) == Running /\ pc = point

SetIndex ==
    /\ Doing("start")
    /\ pc' = "search"
    /\ index' = (ptr + future_time) % QSize
    /\ UNCHANGED <<vars, event, future_time, low, asked, found>>

(* Mutant: the events of equal devices displace each other.                *)
BugSearch ==
    /\ Doing("search")
    /\ IF queue[index].device < event.device
         THEN index' = (index + 1) % QSize /\ UNCHANGED pc
         ELSE pc' = "take" /\ UNCHANGED index
    /\ UNCHANGED <<vars, event, future_time, low, asked, found>>

Search ==
    /\ Doing("search")
    /\ IF queue[index].device <= event.device
         THEN index' = (index + 1) % QSize /\ UNCHANGED pc
         ELSE pc' = "take" /\ UNCHANGED index
    /\ UNCHANGED <<vars, event, future_time, low, asked, found>>

(* Mutant: an event displaced by an alarm takes the alarm's argument.      *)
BugTake ==
    /\ Doing("take")
    /\ pc' = "device"
    /\ low' = [queue[index] EXCEPT !.arg = event.arg]
    /\ UNCHANGED <<vars, event, future_time, index, asked, found>>

Take ==
    /\ Doing("take")
    /\ pc' = "device"
    /\ low' = queue[index]
    /\ UNCHANGED <<vars, event, future_time, index, asked, found>>

PutDevice ==
    /\ Doing("device")
    /\ pc' = "arg"
    /\ queue' = [queue EXCEPT ![index].device = event.device]
    /\ UNCHANGED <<ptr, tick, armed, disk, term, intr, fate>>
    /\ UNCHANGED <<event, future_time, index, low, asked, found>>

Return ==
    /\ pc' = "none"
    /\ event' = Idle /\ low' = Idle /\ asked' = Idle
    /\ future_time' = 0
    /\ index' = 0
    /\ found' = Empty

(* Mutant: the request is over when its own event is in the ring.          *)
BugPutArg ==
    /\ Doing("arg")
    /\ queue' = [queue EXCEPT ![index].arg = event.arg]
    /\ Return
    /\ UNCHANGED <<ptr, tick, armed, disk, term, intr, fate>>

(* The event displaced, if it is not a terminal's, goes on looking for a   *)
(* slot where it was.                                                      *)
PutArg ==
    /\ Doing("arg")
    /\ queue' = [queue EXCEPT ![index].arg = event.arg]
    /\ IF low.device = LOW_PRI_DEV
         THEN Return
         ELSE /\ pc' = "search"
              /\ event' = low
              /\ UNCHANGED <<future_time, index, low, asked, found>>
    /\ UNCHANGED <<ptr, tick, armed, disk, term, intr, fate>>

(* The calls that have nothing to do with the ring.                        *)
ShortCall ==
    /\ pc = "none"
    /\ \/ \E u \in Disks : disk_get_status(u)
       \/ \E t \in Terms, send \in BOOLEAN, enable \in Enables :
              term_request(t, send, enable)
       \/ \E t \in Terms : term_get_status(t)
    /\ UNCHANGED local

(* A timer signal, and what the handler it calls may ask for.              *)
SignalsComeIn == Masked => pc = "none"

Signal  == SignalsComeIn /\ dispatch_int /\ UNCHANGED local
Handler == SignalsComeIn /\ intr # Quiet /\ DeviceCall /\ UNCHANGED local

StepNext ==
    \/ \E time \in AlarmTimes : BeginAlarm(time)
    \/ \E u \in Disks, r \in DiskRequests : BeginDisk(u, r)
    \/ SetIndex \/ Search \/ Take \/ PutDevice \/ PutArg
    \/ ShortCall
    \/ Signal
    \/ Handler
    \/ ~Running /\ UNCHANGED stepVars

StepSpec == StepInit /\ [][StepNext]_stepVars

-----------------------------------------------------------------------------

(* devices.c:40, "Schedule an interrupt for a given number of clock        *)
(* ticks": once the call that requests it has returned, the interrupt of   *)
(* every disk that is BUSY is in the ring.                                 *)
ScheduledStays ==
    Running /\ pc = "none" =>
        \A u \in Disks : status[u] = "BUSY" => SlotsOf(DiskEvent(u)) # {}

(* To the devices a request is over when it begins: the ring is what       *)
(* schedule_int will have made of it, or the simulator hangs because it    *)
(* never comes to an end.                                                  *)
Hopeless == pc # "none" /\ Full(found)

Ring == IF pc = "none" THEN queue
        ELSE IF Hopeless THEN found
        ELSE Enqueue(found, (ptr + future_time) % QSize, asked)

Fate == IF Hopeless THEN "hung" ELSE fate

Atomic == INSTANCE DevicesProperties WITH queue <- Ring, fate <- Fate

(* How much schedule_int has left to do: for the event in hand the way to  *)
(* its slot and what is done there, and for an alarm as much again, since  *)
(* it may displace the event of a disk, which displaces none.              *)
Left ==
    LET more == IF event.device = ALARM_DEV THEN QSize + 5 ELSE 0
    IN  CASE pc = "none"   -> 0
          [] pc = "start"  -> more + QSize + 4
          [] pc = "search" ->
               more + 4 + Ahead(index, FirstBelow(queue, index, event.device))
          [] pc = "take"   -> more + 3
          [] pc = "device" -> more + 2
          [] pc = "arg"    -> more + 1

(* Events that displace each other do not do so for ever: unless it found  *)
(* no room in the ring, a request made with the signals masked has less    *)
(* left to do with every step, so that it returns.                         *)
RequestsEnd == [][pc # "none" /\ ~Hopeless => Left' < Left]_stepVars

(* With the signals masked, the loop of schedule_int, its search and its   *)
(* two stores for every event it puts down are one step of the ring, which *)
(* loses, copies and mixes up nothing.                                     *)
ImplementsDevices == Atomic!Spec
============================================================================
