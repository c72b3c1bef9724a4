--------------------------- MODULE DevicesProofs ---------------------------
(***************************************************************************)
(* Theorems about the devices, for a ring of any size, any disks, any      *)
(* number of terminals and any requests.                                   *)
(***************************************************************************)
EXTENDS DevicesProperties, WellFoundedInduction, TLAPS

(* A set of numbers that is not empty has a least element.                 *)
LEMMA LeastNumber ==
    ASSUME NEW T, T \subseteq Nat, T # {}
    PROVE  \E x \in T : \A y \in T : ~(y < x)
  <1> DEFINE R == OpToRel(<, Nat)
  <1>1. PICK x \in T : \A y \in T : ~(<<y, x>> \in R)
    <2>1. IsWellFoundedOn(R, Nat)
      BY NatLessThanWellFounded
    <2> HIDE DEF R
    <2> QED
      BY <2>1, WFMin
  <1>2. ASSUME NEW y \in T, y < x
        PROVE  <<y, x>> \in R
    BY <1>2 DEF OpToRel
  <1> QED
    BY <1>1, <1>2

(* Slot arithmetic.                                                        *)
LEMMA Wraps == \A n \in Int : n % QSize \in Slots
  <1> SUFFICES ASSUME NEW n \in Int
               PROVE  n % QSize \in 0 .. QSize - 1
    BY DEF Slots
  <1>1. QSize \in Nat /\ QSize > 0
    BY RingAssumption DEF MaxDelay
  <1> QED
    BY <1>1

LEMMA SlotIsInt == \A i \in Slots : i \in Int /\ Ahead(i, i) \in Nat
  BY RingAssumption DEF Slots, Ahead

(* The search of schedule_int finds a slot if there is one to find.        *)
LEMMA FirstBelowFinds ==
    ASSUME NEW q, \A j \in Slots : q[j].device \in Int,
           NEW i \in Slots, NEW device \in Int,
           \E j \in Slots : q[j].device > device
    PROVE  /\ FirstBelow(q, i, device) \in Slots
           /\ q[FirstBelow(q, i, device)].device > device
           /\ \A k \in Slots : Ahead(i, k) < Ahead(i, FirstBelow(q, i, device)) =>
                 q[k].device <= device
  <1> DEFINE C == {j \in Slots : q[j].device > device}
             T == {Ahead(i, j) : j \in C}
  <1>1. T # {} /\ T \subseteq Nat
    BY RingAssumption DEF Ahead, Slots
  <1>2. PICK x \in T : \A y \in T : ~(y < x)
    BY <1>1, LeastNumber
  <1>3. PICK j \in C : x = Ahead(i, j)
    BY <1>2
  <1>4. \A k \in Slots : Ahead(i, k) < Ahead(i, j) => q[k].device <= device
    BY <1>2, <1>3
  <1> QED
    BY <1>3, <1>4 DEF FirstBelow

Scheduled == {AlarmEvent} \cup {DiskEvent(u) : u \in Disks}

LEMMA EventFacts ==
    /\ \A e \in Events : e.device \in {1, 2, 3}
    /\ \A e \in Events : e.device = LOW_PRI_DEV => e = Idle
    /\ \A e \in Events : e.device = ALARM_DEV => e = AlarmEvent
    /\ \A e \in Events : e.device = DISK_DEV => \E u \in Disks : e = DiskEvent(u)
    /\ \A e \in Scheduled : e \in Events /\ e.device < LOW_PRI_DEV
    /\ \A u, v \in Disks : DiskEvent(u) = DiskEvent(v) => u = v
    /\ \A u \in Disks : DiskEvent(u) # Idle /\ DiskEvent(u) # AlarmEvent
    /\ Idle # AlarmEvent
  BY DEF Events, Scheduled, Idle, AlarmEvent, DiskEvent, LOW_PRI_DEV, TERM_DEV,
     ALARM_DEV, DISK_DEV

(* An event takes slot j, the first of a less important device; if that    *)
(* was a disk's, its event, intact, moves to k, the next of a terminal.    *)
Takes(q, i, e, j, k) ==
    /\ q[j].device > e.device
    /\ \A s \in Slots : Ahead(i, s) < Ahead(i, j) => q[s].device <= e.device
    /\ \/ q[j] = Idle /\ Enqueue(q, i, e) = [q EXCEPT ![j] = e]
       \/ /\ q[j] # Idle /\ q[k] = Idle /\ j # k
          /\ \A s \in Slots : Ahead(j, s) < Ahead(j, k) => q[s] # Idle
          /\ Enqueue(q, i, e) = [q EXCEPT ![j] = e, ![k] = q[j]]

(* While a terminal has a slot, that is what schedule_int does.            *)
LEMMA EnqueuePlaces ==
    ASSUME NEW q \in [Slots -> Events], ~Full(q), NEW i \in Slots, NEW e \in Scheduled
    PROVE  \E j, k \in Slots : Takes(q, i, e, j, k)
  <1> DEFINE j == FirstBelow(q, i, e.device)
             k == FirstBelow(q, j, q[j].device)
  <1>1. PICK idle \in Slots : q[idle] = Idle
    BY EventFacts DEF Full
  <1>2. \A s \in Slots : q[s] \in Events /\ q[s].device \in Int
    BY EventFacts
  <1>3. e.device \in Int /\ q[idle].device > e.device
    BY <1>1, EventFacts DEF Idle, LOW_PRI_DEV, TERM_DEV
  <1>4. /\ j \in Slots /\ q[j].device > e.device
        /\ \A s \in Slots : Ahead(i, s) < Ahead(i, j) => q[s].device <= e.device
    BY <1>2, <1>3, FirstBelowFinds
  <1>5. q[j].device \in {1, 2, 3}
    BY <1>2, <1>4, EventFacts
  <1>6. CASE q[j].device = LOW_PRI_DEV
    BY <1>2, <1>4, <1>6, EventFacts DEF Enqueue, Takes
  <1>7. CASE q[j].device # LOW_PRI_DEV
    <2>1. q[idle].device > q[j].device /\ q[j].device \in Int
      BY <1>1, <1>5, <1>7 DEF Idle, LOW_PRI_DEV, TERM_DEV
    <2>2. /\ k \in Slots /\ q[k].device > q[j].device
          /\ \A s \in Slots : Ahead(j, s) < Ahead(j, k) => q[s].device <= q[j].device
      BY <1>2, <1>4, <2>1, FirstBelowFinds
    <2>3. q[j].device > 1
      BY <1>2, <1>4, <1>3, EventFacts
    <2>4. q[k].device = LOW_PRI_DEV
      BY <1>2, <1>5, <2>2, <2>3, EventFacts DEF LOW_PRI_DEV, TERM_DEV
    <2>5. q[k] = Idle /\ q[j] # Idle /\ j # k
      BY <1>2, <1>7, <2>2, <2>4, EventFacts DEF Idle
    <2>6. Enqueue(q, i, e) = [q EXCEPT ![j] = e, ![k] = q[j]]
      BY <1>7 DEF Enqueue
    <2> HIDE DEF j, k
    <2>7. \A s \in Slots : Ahead(j, s) < Ahead(j, k) => q[s] # Idle
      <3> SUFFICES ASSUME NEW s \in Slots, q[s].device <= q[j].device, q[s] = Idle
                   PROVE  FALSE
        BY <2>2
      <3>1. q[s].device > q[j].device
        BY <1>1, <2>1
      <3> QED
        BY <1>2, <1>4, <3>1
    <2> QED
      BY <1>4, <2>2, <2>5, <2>6, <2>7 DEF Takes
  <1> QED
    BY <1>6, <1>7

Once(q, d)   == \E i \in Slots : \A s \in Slots : q[s] = d <=> s = i
Absent(q, d) == \A s \in Slots : q[s] # d

(* Scheduling adds one event and conserves all others.                     *)
LEMMA EnqueueConserves ==
    ASSUME NEW q \in [Slots -> Events], ~Full(q), NEW i \in Slots, NEW e \in Scheduled
    PROVE  /\ Enqueue(q, i, e) \in [Slots -> Events]
           /\ \A s \in Slots : q[s] = AlarmEvent => Enqueue(q, i, e)[s] = AlarmEvent
           /\ \A d \in Scheduled \ {e} :
                 /\ Once(q, d) => Once(Enqueue(q, i, e), d)
                 /\ Absent(q, d) => Absent(Enqueue(q, i, e), d)
           /\ Absent(q, e) => Once(Enqueue(q, i, e), e)
  <1> DEFINE r == Enqueue(q, i, e)
  <1>1. PICK j, k \in Slots :
             /\ q[j].device > e.device
             /\ \/ q[j] = Idle /\ r = [q EXCEPT ![j] = e]
                \/ /\ q[j] # Idle /\ q[k] = Idle /\ j # k
                   /\ r = [q EXCEPT ![j] = e, ![k] = q[j]]
    BY EnqueuePlaces DEF Takes
  <1> HIDE DEF r
  <1>2. e \in Events /\ e # Idle /\ \A d \in Scheduled : d # Idle
    BY EventFacts DEF Idle, LOW_PRI_DEV, TERM_DEV
  <1>3. r \in [Slots -> Events]
    BY <1>1, <1>2
  <1>4. q[j] # AlarmEvent /\ q[j] # e
    BY <1>1, EventFacts DEF AlarmEvent, ALARM_DEV
  <1>5. \A s \in Slots : q[s] = AlarmEvent => r[s] = AlarmEvent
    BY <1>1, <1>4, EventFacts
  <1>6. ASSUME NEW d \in Scheduled \ {e}, Absent(q, d)
        PROVE  Absent(r, d)
    BY <1>1, <1>6 DEF Absent
  <1>7. ASSUME NEW d \in Scheduled \ {e}, Once(q, d)
        PROVE  Once(r, d)
    <2>1. PICK p \in Slots : \A s \in Slots : q[s] = d <=> s = p
      BY <1>7 DEF Once
    <2>2. CASE q[j] = Idle
      <3>1. \A s \in Slots : r[s] = d <=> s = p
        BY <1>1, <1>2, <2>1, <2>2
      <3> QED
        BY <3>1 DEF Once
    <2>3. CASE q[j] # Idle /\ p = j
      <3>1. \A s \in Slots : r[s] = d <=> s = k
        BY <1>1, <1>2, <2>1, <2>3
      <3> QED
        BY <3>1 DEF Once
    <2>4. CASE q[j] # Idle /\ p # j
      <3>1. \A s \in Slots : r[s] = d <=> s = p
        BY <1>1, <1>2, <2>1, <2>4
      <3> QED
        BY <3>1 DEF Once
    <2> QED
      BY <2>2, <2>3, <2>4
  <1>8. ASSUME Absent(q, e)
        PROVE  Once(r, e)
    <2>1. \A s \in Slots : r[s] = e <=> s = j
      BY <1>1, <1>2, <1>4, <1>8 DEF Absent
    <2> QED
      BY <2>1 DEF Once
  <1> QED
    BY <1>3, <1>5, <1>6, <1>7, <1>8 DEF r

(* Taking an event out of its slot leaves the others where they are.       *)
LEMMA ClearConserves ==
    ASSUME NEW q \in [Slots -> Events], NEW i \in Slots
    PROVE  LET r == [q EXCEPT ![i] = Idle]
           IN /\ r \in [Slots -> Events]
              /\ \A s \in Slots : s # i => r[s] = q[s]
              /\ \A d \in Scheduled \ {q[i]} :
                    /\ Once(q, d) => Once(r, d)
                    /\ Absent(q, d) => Absent(r, d)
              /\ q[i] \in Scheduled /\ Once(q, q[i]) => Absent(r, q[i])
  <1>1. Idle \in Events /\ \A d \in Scheduled : d # Idle
    BY EventFacts DEF Events, Idle, LOW_PRI_DEV, TERM_DEV
  <1> QED
    BY <1>1 DEF Once, Absent

-----------------------------------------------------------------------------

(* What schedule_int does to the types.                                    *)
LEMMA ScheduleTypes ==
    ASSUME TypeOK, NEW e \in Scheduled, NEW t \in Int, schedule_int(e, t)
    PROVE  /\ queue' \in [Slots -> Events]
           /\ ptr' = ptr
           /\ fate' \in {"running", "hung", "trapped", "aborted"}
  <1>1. ptr + t \in Int
    BY SlotIsInt DEF TypeOK
  <1>2. (ptr + t) % QSize \in Slots
    BY <1>1, Wraps
  <1> QED
    BY <1>2, EnqueueConserves DEF schedule_int, TypeOK

LEMMA DelayIsInt ==
    ASSUME TypeOK, NEW u \in Disks, NEW r \in DiskRequests
    PROVE  Delay(u, r) \in Int
  <1>1. r.reg1 \in Int /\ track[u] \in Int
    BY RequestsAssumption DEF TypeOK
  <1>2. Distance(track[u], r.reg1) \in Int
    BY <1>1 DEF Distance
  <1>3. Distance(track[u], r.reg1) % 10 \in Int
    BY <1>2
  <1> QED
    BY <1>3 DEF Delay, MaxDelay

LEMMA DeliverTypes ==
    ASSUME TypeOK, NEW d \in {CLOCK_DEV, ALARM_DEV, DISK_DEV, TERM_DEV},
           NEW unit \in Nat, Deliver(d, unit)
    PROVE  /\ intr' \in [device : -1 .. 3, unit : Nat]
           /\ fate' \in {"running", "hung", "trapped", "aborted"}
  BY DEF Deliver, TypeOK, Quiet, CLOCK_DEV, ALARM_DEV, DISK_DEV, TERM_DEV

LEMMA QuietType == Quiet \in [device : -1 .. 3, unit : Nat]
  BY DEF Quiet

LEMMA AdvanceTypes ==
    ASSUME TypeOK, Advance
    PROVE  /\ NextSlot \in Slots
           /\ ptr' \in Slots
           /\ tick' \in BOOLEAN
           /\ queue' \in [Slots -> Events]
  <1>1. NextSlot \in Slots
    BY Wraps, SlotIsInt DEF NextSlot, TypeOK
  <1> QED
    BY <1>1, ClearConserves DEF Advance, TypeOK

LEMMA TypeInit == Init => TypeOK
  <1>1. 0 \in Slots /\ Idle \in Events
    BY RingAssumption DEF Slots, Events, MaxDelay
  <1>2. [op |-> "SEEK", reg1 |-> 0] \in [op : Operations, reg1 : Int]
    BY DEF Operations
  <1> SUFFICES ASSUME Init
               PROVE  TypeOK
    OBVIOUS
  <1>3. request \in [Disks -> [op : Operations, reg1 : Int]]
    BY <1>2 DEF Init
  <1>4. queue \in [Slots -> Events] /\ ptr \in Slots
    BY <1>1 DEF Init
  <1>5. /\ status \in [Disks -> {"READY", "BUSY", "ERROR"}]
        /\ track \in [Disks -> Nat]
        /\ xmit \in [Terms -> {"READY", "BUSY"}]
        /\ recv \in [Terms -> {"READY", "BUSY"}]
        /\ control \in [Terms -> SUBSET {"RECV_INT", "XMIT_INT"}]
    BY DEF Init
  <1>6. /\ tick \in BOOLEAN /\ armed \in BOOLEAN /\ poll \in Terms \cup {-1}
        /\ fate \in {"running", "hung", "trapped", "aborted"}
    BY DEF Init
  <1>7. intr \in [device : -1 .. 3, unit : Nat]
    BY QuietType DEF Init
  <1> QED
    BY <1>3, <1>4, <1>5, <1>6, <1>7 DEF TypeOK
LEMMA CallTypes == TypeOK /\ DeviceCall => TypeOK'
  <1> SUFFICES ASSUME TypeOK, DeviceCall
               PROVE  TypeOK'
    OBVIOUS
  <1> USE QuietType
  <1>1. ASSUME NEW time \in AlarmTimes, alarm_request(time)
        PROVE  TypeOK'
    <2>1. AlarmEvent \in Scheduled /\ time \in Int
      BY RequestsAssumption DEF Scheduled
    <2> QED
      BY <1>1, <2>1, ScheduleTypes DEF TypeOK, alarm_request, disk, term
  <1>2. ASSUME NEW u \in Disks, NEW r \in DiskRequests, disk_request(u, r)
        PROVE  TypeOK'
    <2>1. DiskEvent(u) \in Scheduled /\ Delay(u, r) \in Int
      BY DelayIsInt DEF Scheduled
    <2>2. r \in [op : Operations, reg1 : Int]
      BY RequestsAssumption
    <2>3. /\ queue' \in [Slots -> Events]
          /\ ptr' = ptr
          /\ fate' \in {"running", "hung", "trapped", "aborted"}
      BY <1>2, <2>1, ScheduleTypes DEF disk_request
    <2> QED
      BY <1>2, <2>2, <2>3 DEF TypeOK, disk_request, term
  <1>3. ASSUME NEW u \in Disks, disk_get_status(u)
        PROVE  TypeOK'
    BY <1>3 DEF TypeOK, disk_get_status, ring, term
  <1>4. ASSUME NEW t \in Terms, NEW send \in BOOLEAN, NEW enable \in Enables,
               term_request(t, send, enable)
        PROVE  TypeOK'
    BY <1>4, RequestsAssumption DEF TypeOK, term_request, ring, disk
  <1>5. ASSUME NEW t \in Terms, term_get_status(t)
        PROVE  TypeOK'
    BY <1>5 DEF TypeOK, term_get_status, ring, disk
  <1> QED
    BY <1>1, <1>2, <1>3, <1>4, <1>5 DEF DeviceCall

LEMMA DispatchTypes == TypeOK /\ dispatch_int => TypeOK'
  <1> SUFFICES ASSUME TypeOK, dispatch_int
               PROVE  TypeOK'
    OBVIOUS
  <1> USE QuietType
  <1>1. CASE clock_tick
    BY <1>1, DeliverTypes DEF TypeOK, clock_tick, ring, disk, term
  <1>2. CASE alarm_action
    BY <1>2, AdvanceTypes, DeliverTypes DEF TypeOK, alarm_action, disk, term
  <1>3. ASSUME NEW u \in Disks, disk_action(u)
        PROVE  TypeOK'
    <2>1. u \in Nat
      BY UnitsAssumption
    <2>2. CASE Aborts(u)
      BY <1>3, <2>2, AdvanceTypes DEF TypeOK, disk_action, term
    <2>3. CASE ~Aborts(u)
      <3>1. /\ intr' \in [device : -1 .. 3, unit : Nat]
            /\ fate' \in {"running", "hung", "trapped", "aborted"}
        BY <1>3, <2>1, <2>3, DeliverTypes DEF disk_action
      <3>2. track' \in [Disks -> Nat]
        <4>1. Seeks(u) /\ ~Impossible(u) => request[u].reg1 \in Nat
          BY DEF Impossible, TypeOK
        <4> QED
          BY <1>3, <2>3, <4>1 DEF disk_action, TypeOK
      <3> QED
        BY <1>3, <2>3, <3>1, <3>2, AdvanceTypes DEF TypeOK, disk_action, term
    <2> QED
      BY <2>2, <2>3
  <1>4. ASSUME NEW arrives \in BOOLEAN, term_action(arrives)
        PROVE  TypeOK'
    <2>1. NextTerm \in Terms
      <3>1. poll + 1 \in Int /\ NumTerms \in Nat /\ NumTerms > 0
        BY UnitsAssumption DEF TypeOK, Terms
      <3>2. (poll + 1) % NumTerms \in 0 .. NumTerms - 1
        BY <3>1
      <3> QED
        BY <3>2 DEF NextTerm, Terms
    <2>2. NextTerm \in Nat
      BY <2>1, UnitsAssumption DEF Terms
    <2>3. /\ intr' \in [device : -1 .. 3, unit : Nat]
          /\ fate' \in {"running", "hung", "trapped", "aborted"}
      <3>1. CASE Announces(NextTerm, arrives)
        BY <1>4, <2>2, <3>1, DeliverTypes DEF term_action
      <3>2. CASE ~Announces(NextTerm, arrives)
        BY <1>4, <3>2 DEF term_action, TypeOK
      <3> QED
        BY <3>1, <3>2
    <2> QED
      BY <1>4, <2>1, <2>3, AdvanceTypes DEF TypeOK, term_action, disk
  <1> QED
    BY <1>1, <1>2, <1>3, <1>4 DEF dispatch_int

LEMMA TypeStep == TypeOK /\ [Next]_vars => TypeOK'
  <1>1. TypeOK /\ UNCHANGED vars => TypeOK'
    BY DEF TypeOK, vars
  <1> QED
    BY <1>1, CallTypes, DispatchTypes DEF Next, Ended

(* The variables of the devices keep their types; in particular the head   *)
(* of a disk never gets a negative track.                                  *)
THEOREM TypeCorrect == Spec => []TypeOK
  BY TypeInit, TypeStep, PTL DEF Spec

-----------------------------------------------------------------------------
(* The head of every disk stays on the disk, whatever is asked for.        *)

LEMMA HeadStep == TypeOK /\ HeadOnDisk /\ [Next]_vars => HeadOnDisk'
  <1> SUFFICES ASSUME TypeOK, HeadOnDisk, [Next]_vars
               PROVE  HeadOnDisk'
    OBVIOUS
  <1>1. ASSUME NEW u \in Disks, disk_action(u)
        PROVE  HeadOnDisk'
    <2>1. Seeks(u) /\ ~Impossible(u) => request[u].reg1 < Tracks[u]
      BY UnitsAssumption DEF Impossible, TypeOK
    <2>2. track' = track \/ (/\ Seeks(u) /\ ~Impossible(u)
                             /\ track' = [track EXCEPT ![u] = request[u].reg1])
      BY <1>1 DEF disk_action
    <2> QED
      BY <2>1, <2>2 DEF HeadOnDisk, TypeOK
  <1>2. CASE DeviceCall
    <2>1. UNCHANGED track
      BY <1>2 DEF DeviceCall, alarm_request, disk_request, disk_get_status,
         term_request, term_get_status, disk
    <2> QED
      BY <2>1 DEF HeadOnDisk
  <1>3. CASE \/ clock_tick
             \/ alarm_action
             \/ \E arrives \in BOOLEAN : term_action(arrives)
             \/ UNCHANGED vars
    <2>1. UNCHANGED track
      BY <1>3 DEF clock_tick, alarm_action, term_action, disk, vars
    <2> QED
      BY <2>1 DEF HeadOnDisk
  <1> QED
    BY <1>1, <1>2, <1>3 DEF Next, dispatch_int, Ended

THEOREM HeadsStay == Spec => []HeadOnDisk
  <1>1. Init => HeadOnDisk
    BY UnitsAssumption DEF Init, HeadOnDisk
  <1> QED
    BY <1>1, HeadStep, TypeCorrect, PTL DEF Spec

-----------------------------------------------------------------------------
(* The ring holds one event for every disk that is BUSY, and none for any  *)
(* other.  A request that found no slot hangs, so the statement is about   *)
(* the running simulator.                                                  *)

EventInv ==
    Running => \A u \in Disks :
        IF status[u] = "BUSY" THEN Once(queue, DiskEvent(u))
                              ELSE Absent(queue, DiskEvent(u))

LEMMA DiskEventsScheduled == \A u \in Disks : DiskEvent(u) \in Scheduled
  BY DEF Scheduled

LEMMA EventsInit == Init => EventInv
  BY EventFacts DEF Init, EventInv, Absent

LEMMA EventsCall == TypeOK /\ EventInv /\ DeviceCall => EventInv'
  <1> SUFFICES ASSUME TypeOK, EventInv, DeviceCall, Running'
               PROVE  \A u \in Disks :
                         IF status'[u] = "BUSY" THEN Once(queue', DiskEvent(u))
                                                ELSE Absent(queue', DiskEvent(u))
    BY DEF EventInv, Running
  <1>1. queue \in [Slots -> Events] /\ status \in [Disks -> {"READY", "BUSY", "ERROR"}]
    BY DEF TypeOK
  <1>2. ASSUME NEW e \in Scheduled, NEW t \in Int, schedule_int(e, t)
        PROVE  /\ \A d \in Scheduled \ {e} :
                     /\ Once(queue, d) => Once(queue', d)
                     /\ Absent(queue, d) => Absent(queue', d)
               /\ Absent(queue, e) => Once(queue', e)
    <2>1. (ptr + t) % QSize \in Slots
      BY Wraps, SlotIsInt DEF TypeOK
    <2>2. ~Full(queue)
      BY <1>2 DEF schedule_int, Running
    <2>3. queue' = Enqueue(queue, (ptr + t) % QSize, e)
      BY <1>2, <2>2 DEF schedule_int
    <2> QED
      BY <1>1, <2>1, <2>2, <2>3, EnqueueConserves
  <1>3. ASSUME NEW time \in AlarmTimes, alarm_request(time)
        PROVE  \A u \in Disks :
                  IF status'[u] = "BUSY" THEN Once(queue', DiskEvent(u))
                                         ELSE Absent(queue', DiskEvent(u))
    <2>1. AlarmEvent \in Scheduled /\ time \in Int
      BY RequestsAssumption DEF Scheduled
    <2>2. UNCHANGED status /\ Running
      BY <1>3 DEF alarm_request, disk
    <2> QED
      BY <1>2, <1>3, <2>1, <2>2, DiskEventsScheduled, EventFacts DEF alarm_request, EventInv
  <1>4. ASSUME NEW d \in Disks, NEW r \in DiskRequests, disk_request(d, r)
        PROVE  \A u \in Disks :
                  IF status'[u] = "BUSY" THEN Once(queue', DiskEvent(u))
                                         ELSE Absent(queue', DiskEvent(u))
    <2>1. DiskEvent(d) \in Scheduled /\ Delay(d, r) \in Int
      BY DelayIsInt DEF Scheduled
    <2>2. Running /\ status[d] # "BUSY" /\ status' = [status EXCEPT ![d] = "BUSY"]
      BY <1>4 DEF disk_request, Refused
    <2>3. Absent(queue, DiskEvent(d))
      BY <2>2 DEF EventInv
    <2>4. Once(queue', DiskEvent(d))
      BY <1>2, <1>4, <2>1, <2>3 DEF disk_request
    <2>5. ASSUME NEW u \in Disks, u # d
          PROVE  IF status'[u] = "BUSY" THEN Once(queue', DiskEvent(u))
                                        ELSE Absent(queue', DiskEvent(u))
      <3>1. DiskEvent(u) \in Scheduled \ {DiskEvent(d)}
        BY <2>5, DiskEventsScheduled, EventFacts
      <3> QED
        BY <1>1, <1>2, <1>4, <2>1, <2>2, <2>5, <3>1 DEF disk_request, EventInv
    <2> QED
      BY <1>1, <2>2, <2>4, <2>5
  <1>5. ASSUME NEW d \in Disks, disk_get_status(d)
        PROVE  \A u \in Disks :
                  IF status'[u] = "BUSY" THEN Once(queue', DiskEvent(u))
                                         ELSE Absent(queue', DiskEvent(u))
    BY <1>1, <1>5 DEF disk_get_status, ring, EventInv
  <1>6. CASE \/ \E t \in Terms, send \in BOOLEAN, enable \in Enables :
                  term_request(t, send, enable)
             \/ \E t \in Terms : term_get_status(t)
    BY <1>6 DEF term_request, term_get_status, ring, disk, EventInv
  <1> QED
    BY <1>3, <1>4, <1>5, <1>6 DEF DeviceCall

LEMMA EventsDispatch == TypeOK /\ EventInv /\ dispatch_int => EventInv'
  <1> SUFFICES ASSUME TypeOK, EventInv, dispatch_int, Running', NEW u \in Disks
               PROVE  IF status'[u] = "BUSY" THEN Once(queue', DiskEvent(u))
                                             ELSE Absent(queue', DiskEvent(u))
    BY DEF EventInv, Running
  <1>1. queue \in [Slots -> Events] /\ status \in [Disks -> {"READY", "BUSY", "ERROR"}]
    BY DEF TypeOK
  <1>2. /\ status[u] = "BUSY" => Once(queue, DiskEvent(u))
        /\ status[u] # "BUSY" => Absent(queue, DiskEvent(u))
    BY DEF EventInv, dispatch_int, clock_tick, alarm_action, disk_action,
       term_action, Advance
  <1>3. DiskEvent(u) \in Scheduled
    BY DiskEventsScheduled
  <1>4. ASSUME Advance, queue[NextSlot] # DiskEvent(u)
        PROVE  /\ Once(queue, DiskEvent(u)) => Once(queue', DiskEvent(u))
               /\ Absent(queue, DiskEvent(u)) => Absent(queue', DiskEvent(u))
    BY <1>1, <1>3, <1>4, AdvanceTypes, ClearConserves DEF Advance
  <1>5. CASE clock_tick
    BY <1>2, <1>5 DEF clock_tick, ring, disk
  <1>6. CASE alarm_action \/ \E arrives \in BOOLEAN : term_action(arrives)
    <2>1. Advance /\ UNCHANGED status
      BY <1>6 DEF alarm_action, term_action, disk
    <2>2. queue[NextSlot] # DiskEvent(u)
      BY <1>6 DEF alarm_action, term_action, DiskEvent, ALARM_DEV, TERM_DEV, DISK_DEV
    <2> QED
      BY <1>2, <1>4, <2>1, <2>2
  <1>7. ASSUME NEW d \in Disks, disk_action(d)
        PROVE  IF status'[u] = "BUSY" THEN Once(queue', DiskEvent(u))
                                      ELSE Absent(queue', DiskEvent(u))
    <2>1. Advance /\ queue[NextSlot] = DiskEvent(d)
      BY <1>7 DEF disk_action
    <2>2. status' = [status EXCEPT ![d] = IF Impossible(d) THEN "ERROR" ELSE "READY"]
      BY <1>7 DEF disk_action, Running
    <2>3. CASE u = d
      <3>1. status[u] = "BUSY"
        BY <1>2, <2>1, <2>3, AdvanceTypes DEF Absent
      <3>2. Absent(queue', DiskEvent(u))
        <4>1. NextSlot \in Slots /\ queue' = [queue EXCEPT ![NextSlot] = Idle]
          BY <2>1, AdvanceTypes DEF Advance
        <4>2. queue[NextSlot] \in Scheduled /\ Once(queue, queue[NextSlot])
          BY <1>2, <1>3, <2>1, <2>3, <3>1
        <4>3. Absent(queue', queue[NextSlot])
          BY <1>1, <4>1, <4>2, ClearConserves
        <4> QED
          BY <2>1, <2>3, <4>3
      <3> QED
        BY <1>1, <2>2, <2>3, <3>2
    <2>4. CASE u # d
      <3>1. queue[NextSlot] # DiskEvent(u)
        BY <2>1, <2>4, EventFacts
      <3> QED
        BY <1>1, <1>2, <1>4, <2>1, <2>2, <2>4, <3>1
    <2> QED
      BY <2>3, <2>4
  <1> QED
    BY <1>5, <1>6, <1>7 DEF dispatch_int

LEMMA EventsStay == Spec => []EventInv
  <1>1. TypeOK /\ EventInv /\ [Next]_vars => EventInv'
    <2>1. EventInv /\ UNCHANGED vars => EventInv'
      BY DEF EventInv, Running, vars
    <2> QED
      BY <2>1, EventsCall, EventsDispatch DEF Next, Ended
  <1> QED
    BY <1>1, EventsInit, TypeCorrect, PTL DEF Spec

(* A disk is BUSY exactly as long as its one event is in the ring.         *)
THEOREM EventsMatchRequests == Spec => []OneEventPerRequest
  <1>1. EventInv => OneEventPerRequest
    <2> SUFFICES ASSUME EventInv, Running, NEW u \in Disks
                 PROVE  /\ status[u] = "BUSY" =>
                              \E i \in Slots : SlotsOf(DiskEvent(u)) = {i}
                        /\ status[u] # "BUSY" => SlotsOf(DiskEvent(u)) = {}
      BY DEF OneEventPerRequest
    <2>1. Once(queue, DiskEvent(u)) => \E i \in Slots : SlotsOf(DiskEvent(u)) = {i}
      <3> SUFFICES ASSUME NEW i \in Slots, \A s \in Slots : queue[s] = DiskEvent(u) <=> s = i
                   PROVE  SlotsOf(DiskEvent(u)) = {i}
        BY DEF Once
      <3> QED
        BY DEF SlotsOf
    <2>2. Absent(queue, DiskEvent(u)) => SlotsOf(DiskEvent(u)) = {}
      BY DEF Absent, SlotsOf
    <2> QED
      BY <2>1, <2>2 DEF EventInv
  <1> QED
    BY <1>1, EventsStay, PTL

-----------------------------------------------------------------------------
(* Interrupts are for the unit that has finished or has something to say.  *)

DiskAnnounced(u) ==
    intr' = [device |-> DISK_DEV, unit |-> u] <=> status[u] = "BUSY" /\ status'[u] # "BUSY"

TermAnnounced(t) ==
    (\/ xmit[t] = "BUSY" /\ xmit'[t] = "READY" /\ "XMIT_INT" \in control[t]
     \/ recv[t] = "READY" /\ recv'[t] = "BUSY" /\ "RECV_INT" \in control[t])
    => intr' = [device |-> TERM_DEV, unit |-> t]

LEMMA DevicesDiffer ==
    ASSUME NEW u, NEW v
    PROVE  /\ Quiet # [device |-> DISK_DEV, unit |-> u]
           /\ [device |-> CLOCK_DEV, unit |-> v] # [device |-> DISK_DEV, unit |-> u]
           /\ [device |-> ALARM_DEV, unit |-> v] # [device |-> DISK_DEV, unit |-> u]
           /\ [device |-> TERM_DEV, unit |-> v] # [device |-> DISK_DEV, unit |-> u]
           /\ [device |-> DISK_DEV, unit |-> v] = [device |-> DISK_DEV, unit |-> u] <=> v = u
  BY DEF Quiet, CLOCK_DEV, ALARM_DEV, DISK_DEV, TERM_DEV

(* The operating system's calls interrupt for nothing.                     *)
LEMMA CallAnnounces ==
    ASSUME TypeOK, DeviceCall
    PROVE  /\ \A u \in Disks : DiskAnnounced(u)
           /\ \A t \in Terms : TermAnnounced(t)
  <1> USE DevicesDiffer DEF TypeOK, DiskAnnounced, TermAnnounced, disk, term
  <1>1. ASSUME NEW time \in AlarmTimes, alarm_request(time)
        PROVE  /\ \A u \in Disks : DiskAnnounced(u)
               /\ \A t \in Terms : TermAnnounced(t)
    BY <1>1 DEF alarm_request
  <1>2. ASSUME NEW d \in Disks, NEW r \in DiskRequests, disk_request(d, r)
        PROVE  /\ \A u \in Disks : DiskAnnounced(u)
               /\ \A t \in Terms : TermAnnounced(t)
    BY <1>2 DEF disk_request, Refused
  <1>3. ASSUME NEW d \in Disks, disk_get_status(d)
        PROVE  /\ \A u \in Disks : DiskAnnounced(u)
               /\ \A t \in Terms : TermAnnounced(t)
    BY <1>3 DEF disk_get_status
  <1>4. ASSUME NEW w \in Terms, NEW send \in BOOLEAN, NEW enable \in Enables,
               term_request(w, send, enable)
        PROVE  /\ \A u \in Disks : DiskAnnounced(u)
               /\ \A t \in Terms : TermAnnounced(t)
    BY <1>4 DEF term_request
  <1>5. ASSUME NEW w \in Terms, term_get_status(w)
        PROVE  /\ \A u \in Disks : DiskAnnounced(u)
               /\ \A t \in Terms : TermAnnounced(t)
    BY <1>5 DEF term_get_status
  <1> QED
    BY <1>1, <1>2, <1>3, <1>4, <1>5 DEF DeviceCall

LEMMA DispatchAnnounces ==
    ASSUME TypeOK, EventInv, dispatch_int, Running'
    PROVE  /\ \A u \in Disks : DiskAnnounced(u)
           /\ \A t \in Terms : TermAnnounced(t)
  <1> USE DevicesDiffer DEF disk, term
  <1>1. CASE clock_tick \/ alarm_action
    <2>1. /\ intr' \in {[device |-> CLOCK_DEV, unit |-> 0], [device |-> ALARM_DEV, unit |-> 0], Quiet}
          /\ UNCHANGED <<disk, term>>
      BY <1>1 DEF clock_tick, alarm_action, Deliver
    <2> QED
      BY <2>1 DEF DiskAnnounced, TermAnnounced
  <1>2. ASSUME NEW d \in Disks, disk_action(d)
        PROVE  /\ \A u \in Disks : DiskAnnounced(u)
               /\ \A t \in Terms : TermAnnounced(t)
    <2>1. /\ Advance /\ queue[NextSlot] = DiskEvent(d) /\ Running
          /\ status' = [status EXCEPT ![d] = IF Impossible(d) THEN "ERROR" ELSE "READY"]
          /\ intr' = [device |-> DISK_DEV, unit |-> d]
          /\ UNCHANGED term
      BY <1>2 DEF disk_action, Running, Deliver, Advance
    <2>2. status[d] = "BUSY"
      BY <2>1, AdvanceTypes DEF EventInv, Absent
    <2> QED
      BY <2>1, <2>2 DEF TypeOK, DiskAnnounced, TermAnnounced
  <1>3. ASSUME NEW arrives \in BOOLEAN, term_action(arrives)
        PROVE  /\ \A u \in Disks : DiskAnnounced(u)
               /\ \A t \in Terms : TermAnnounced(t)
    <2>1. /\ intr' \in {[device |-> TERM_DEV, unit |-> NextTerm], Quiet}
          /\ UNCHANGED status
      BY <1>3 DEF term_action, Deliver
    <2>2. ASSUME NEW t \in Terms, t # NextTerm
          PROVE  TermAnnounced(t)
      BY <1>3, <2>2 DEF term_action, TermAnnounced, TypeOK
    <2>3. ASSUME NextTerm \in Terms
          PROVE  TermAnnounced(NextTerm)
      <3>1. CASE Announces(NextTerm, arrives)
        BY <1>3, <3>1 DEF term_action, Deliver, Running, TermAnnounced
      <3>2. CASE ~Announces(NextTerm, arrives)
        BY <1>3, <2>3, <3>2 DEF term_action, Announces, TermAnnounced, TypeOK
      <3> QED
        BY <3>1, <3>2
    <2> QED
      BY <2>1, <2>2, <2>3 DEF DiskAnnounced
  <1> QED
    BY <1>1, <1>2, <1>3 DEF dispatch_int

(* A disk interrupts when it has finished, and only then; a terminal when  *)
(* an enabled interrupt is due, also when two are due at the same poll.    *)
THEOREM UnitsAnnounce == Spec => Announcements
  <1>1. TypeOK /\ EventInv /\ [Next]_vars =>
          [fate' = "running" => /\ \A u \in Disks : DiskAnnounced(u)
                                /\ \A t \in Terms : TermAnnounced(t)]_vars
    BY CallAnnounces, DispatchAnnounces DEF Next, Ended, Running
  <1> QED
    BY <1>1, TypeCorrect, EventsStay, PTL
    DEF Spec, Announcements, DiskAnnounced, TermAnnounced

-----------------------------------------------------------------------------
(* An alarm stays in the slot it was put in until that slot's tick comes.  *)
THEOREM AlarmsStay == Spec => AlarmsKeepTheirSlot
  <1>1. TypeOK /\ [Next]_vars => SlotsOf(AlarmEvent) \subseteq SlotsOf(AlarmEvent)' \cup {ptr'}
    <2> SUFFICES ASSUME TypeOK, [Next]_vars, NEW s \in Slots, queue[s] = AlarmEvent
                 PROVE  queue'[s] = AlarmEvent \/ s = ptr'
      BY DEF SlotsOf
    <2>1. ASSUME NEW e \in Scheduled, NEW t \in Int, schedule_int(e, t)
          PROVE  queue'[s] = AlarmEvent
      <3>1. (ptr + t) % QSize \in Slots
        BY Wraps, SlotIsInt DEF TypeOK
      <3> QED
        BY <2>1, <3>1, EnqueueConserves DEF schedule_int, TypeOK
    <2>2. ASSUME NEW time \in AlarmTimes, alarm_request(time)
          PROVE  queue'[s] = AlarmEvent
      BY <2>1, <2>2, RequestsAssumption DEF alarm_request, Scheduled
    <2>3. ASSUME NEW u \in Disks, NEW r \in DiskRequests, disk_request(u, r)
          PROVE  queue'[s] = AlarmEvent
      BY <2>1, <2>3, DelayIsInt, DiskEventsScheduled DEF disk_request
    <2>4. CASE Advance
      BY <2>4, AdvanceTypes DEF Advance, TypeOK
    <2>5. CASE UNCHANGED queue
      BY <2>5
    <2> QED
      BY <2>2, <2>3, <2>4, <2>5
      DEF Next, DeviceCall, dispatch_int, Ended, disk_get_status, term_request,
          term_get_status, clock_tick, alarm_action, disk_action, term_action, ring, vars
  <1> QED
    BY <1>1, TypeCorrect, PTL DEF Spec, AlarmsKeepTheirSlot
-----------------------------------------------------------------------------
(* With an operating system that asks before it arms the alarm, the        *)
(* alarm's status tells whether an alarm is outstanding.                   *)

ArmedInv ==
    Running => IF armed THEN Once(queue, AlarmEvent) ELSE Absent(queue, AlarmEvent)

LEMMA ArmedStep ==
    ASSUME Polite, TypeOK, ArmedInv, Next, Running'
    PROVE  IF armed' THEN Once(queue', AlarmEvent) ELSE Absent(queue', AlarmEvent)
  <1>1. queue \in [Slots -> Events] /\ armed \in BOOLEAN /\ AlarmEvent \in Scheduled
    BY DEF TypeOK, Scheduled
  <1>2. ASSUME NEW e \in Scheduled, NEW t \in Int, schedule_int(e, t)
        PROVE  /\ e # AlarmEvent =>
                     /\ Once(queue, AlarmEvent) => Once(queue', AlarmEvent)
                     /\ Absent(queue, AlarmEvent) => Absent(queue', AlarmEvent)
               /\ Absent(queue, e) => Once(queue', e)
    <2>1. (ptr + t) % QSize \in Slots
      BY Wraps, SlotIsInt DEF TypeOK
    <2>2. ~Full(queue) /\ queue' = Enqueue(queue, (ptr + t) % QSize, e)
      BY <1>2 DEF schedule_int, Running
    <2> QED
      BY <1>1, <2>1, <2>2, EnqueueConserves
  <1>3. ASSUME NEW time \in AlarmTimes, alarm_request(time)
        PROVE  armed' /\ Once(queue', AlarmEvent)
    <2>1. time \in Int /\ ~armed /\ Running /\ armed'
      BY <1>3, RequestsAssumption DEF alarm_request, MayArm
    <2>2. Absent(queue, AlarmEvent)
      BY <2>1 DEF ArmedInv
    <2> QED
      BY <1>1, <1>2, <1>3, <2>1, <2>2 DEF alarm_request
  <1>4. ASSUME NEW u \in Disks, NEW r \in DiskRequests, disk_request(u, r)
        PROVE  IF armed' THEN Once(queue', AlarmEvent) ELSE Absent(queue', AlarmEvent)
    <2>1. DiskEvent(u) \in Scheduled /\ DiskEvent(u) # AlarmEvent
      BY DiskEventsScheduled, EventFacts
    <2>2. Delay(u, r) \in Int /\ Running /\ UNCHANGED armed
      BY <1>4, DelayIsInt DEF disk_request
    <2> QED
      BY <1>2, <1>4, <2>1, <2>2 DEF disk_request, ArmedInv
  <1>5. CASE alarm_action
    <2>1. NextSlot \in Slots /\ queue' = [queue EXCEPT ![NextSlot] = Idle] /\ Running
      BY <1>5, AdvanceTypes DEF alarm_action, Advance
    <2>2. queue[NextSlot] = AlarmEvent
      BY <1>1, <1>5, <2>1, EventFacts DEF alarm_action
    <2>3. Once(queue, AlarmEvent)
      BY <2>1, <2>2 DEF ArmedInv, Absent
    <2>4. Absent(queue', AlarmEvent)
      BY <1>1, <2>1, <2>2, <2>3, ClearConserves
    <2> QED
      BY <1>5, <2>4 DEF alarm_action
  <1>6. ASSUME Advance, UNCHANGED armed, queue[NextSlot].device # ALARM_DEV
        PROVE  IF armed' THEN Once(queue', AlarmEvent) ELSE Absent(queue', AlarmEvent)
    <2>1. NextSlot \in Slots /\ queue' = [queue EXCEPT ![NextSlot] = Idle] /\ Running
      BY <1>6, AdvanceTypes DEF Advance
    <2>2. queue[NextSlot] # AlarmEvent
      BY <1>6 DEF AlarmEvent
    <2> QED
      BY <1>1, <1>6, <2>1, <2>2, ClearConserves DEF ArmedInv
  <1>7. ASSUME NEW u \in Disks, disk_action(u)
        PROVE  Advance /\ UNCHANGED armed /\ queue[NextSlot].device # ALARM_DEV
    BY <1>7 DEF disk_action, DiskEvent, ALARM_DEV, DISK_DEV
  <1>8. ASSUME NEW arrives \in BOOLEAN, term_action(arrives)
        PROVE  Advance /\ UNCHANGED armed /\ queue[NextSlot].device # ALARM_DEV
    BY <1>8 DEF term_action, ALARM_DEV, TERM_DEV
  <1>9. CASE UNCHANGED <<queue, armed, fate>>
    BY <1>9 DEF ArmedInv, Running
  <1>10. CASE DeviceCall
    <2>1. \/ \E time \in AlarmTimes : alarm_request(time)
          \/ \E u \in Disks, r \in DiskRequests : disk_request(u, r)
          \/ UNCHANGED <<queue, armed, fate>>
      BY <1>10
      DEF DeviceCall, disk_get_status, term_request, term_get_status, ring
    <2> QED
      BY <1>3, <1>4, <1>9, <2>1
  <1>11. CASE clock_tick
    <2>1. Running /\ queue' = queue /\ armed' = armed
      BY <1>11 DEF clock_tick, ring
    <2> QED
      BY <2>1 DEF ArmedInv
  <1> QED
    BY <1>5, <1>6, <1>7, <1>8, <1>9, <1>10, <1>11 DEF Next, dispatch_int, Ended, vars

LEMMA ArmedStays == Polite => (Spec => []ArmedInv)
  <1> SUFFICES ASSUME Polite
               PROVE  Spec => []ArmedInv
    OBVIOUS
  <1>1. Init => ArmedInv
    BY EventFacts DEF Init, ArmedInv, Absent
  <1>2. TypeOK /\ ArmedInv /\ [Next]_vars => ArmedInv'
    <2>1. ArmedInv /\ UNCHANGED vars => ArmedInv'
      BY DEF ArmedInv, Running, vars
    <2> QED
      BY <2>1, ArmedStep DEF ArmedInv, Running
  <1> QED
    BY <1>1, <1>2, TypeCorrect, PTL DEF Spec

(* Under that discipline the alarm is BUSY exactly while one alarm is      *)
(* outstanding, and never are two.                                         *)
THEOREM AlarmStatus == Polite => (Spec => []AlarmStatusTrue)
  <1> SUFFICES ASSUME Polite
               PROVE  Spec => []AlarmStatusTrue
    OBVIOUS
  <1>1. ArmedInv => AlarmStatusTrue
    <2> SUFFICES ASSUME ArmedInv, Running
                 PROVE  IF armed THEN \E i \in Slots : SlotsOf(AlarmEvent) = {i}
                                 ELSE SlotsOf(AlarmEvent) = {}
      BY DEF AlarmStatusTrue
    <2>1. Once(queue, AlarmEvent) => \E i \in Slots : SlotsOf(AlarmEvent) = {i}
      <3> SUFFICES ASSUME NEW i \in Slots, \A s \in Slots : queue[s] = AlarmEvent <=> s = i
                   PROVE  SlotsOf(AlarmEvent) = {i}
        BY DEF Once
      <3> QED
        BY DEF SlotsOf
    <2>2. Absent(queue, AlarmEvent) => SlotsOf(AlarmEvent) = {}
      BY DEF Absent, SlotsOf
    <2> QED
      BY <2>1, <2>2 DEF ArmedInv
  <1> QED
    BY <1>1, ArmedStays, PTL

-----------------------------------------------------------------------------
(* Transfers are of sectors some request named.                            *)

RequestedInv == \A u \in Disks : Transfers(u) => request[u] \in DiskRequests

LEMMA RequestedStays == Spec => []RequestedInv
  <1>1. Init => RequestedInv
    BY DEF Init, RequestedInv, Transfers
  <1>2. TypeOK /\ RequestedInv /\ [Next]_vars => RequestedInv'
    <2> SUFFICES ASSUME TypeOK, RequestedInv, [Next]_vars
                 PROVE  RequestedInv'
      OBVIOUS
    <2>1. ASSUME NEW d \in Disks, NEW r \in DiskRequests, disk_request(d, r)
          PROVE  RequestedInv'
      BY <2>1 DEF disk_request, RequestedInv, Transfers, TypeOK
    <2>2. CASE UNCHANGED request
      BY <2>2 DEF RequestedInv, Transfers
    <2> QED
      BY <2>1, <2>2
      DEF Next, DeviceCall, dispatch_int, Ended, alarm_request, disk_get_status,
          term_request, term_get_status, clock_tick, alarm_action, disk_action,
          term_action, disk, vars
  <1> QED
    BY <1>1, <1>2, TypeCorrect, PTL DEF Spec

(* What dev_disk.c:114 says of impossible requests is true of every sector *)
(* that is not negative, of whatever the disks are asked besides.          *)
THEOREM ImpossibleRejected ==
    ASSUME \A r \in DiskRequests : r.op \in {"READ", "WRITE"} => r.reg1 >= 0
    PROVE  Spec => ImpossibleIsError
  <1> DEFINE Rejected(u) ==
               /\ Transfers(u) /\ request[u].reg1 \notin 0 .. TrackSize - 1
               /\ SlotsOf(DiskEvent(u)) # {} /\ SlotsOf(DiskEvent(u))' = {}
               => status'[u] = "ERROR"
  <1>1. ASSUME TypeOK, EventInv, RequestedInv, Next, NEW u \in Disks,
               Transfers(u), request[u].reg1 \notin 0 .. TrackSize - 1,
               SlotsOf(DiskEvent(u)) # {}, SlotsOf(DiskEvent(u))' = {}
        PROVE  status'[u] = "ERROR"
    <2>1. /\ queue \in [Slots -> Events] /\ ~Absent(queue, DiskEvent(u))
          /\ Absent(queue', DiskEvent(u))
      BY <1>1 DEF TypeOK, SlotsOf, Absent
    <2>2. PICK at \in Slots : queue[at] = DiskEvent(u)
      BY <2>1 DEF Absent
    <2>3. ASSUME UNCHANGED queue
          PROVE  FALSE
      BY <2>1, <2>3
    <2>4. ASSUME NEW e \in Scheduled, NEW t \in Int, schedule_int(e, t), e # DiskEvent(u)
          PROVE  Running /\ Once(queue, DiskEvent(u)) => FALSE
      <3>1. (ptr + t) % QSize \in Slots
        BY <1>1, Wraps, SlotIsInt DEF TypeOK
      <3>2. CASE Full(queue)
        BY <2>3, <2>4, <3>2 DEF schedule_int
      <3>3. CASE ~Full(queue)
        <4>1. queue' = Enqueue(queue, (ptr + t) % QSize, e)
          BY <2>4, <3>3 DEF schedule_int
        <4>2. DiskEvent(u) \in Scheduled \ {e}
          BY <2>4, DiskEventsScheduled
        <4>3. Once(queue, DiskEvent(u)) => Once(queue', DiskEvent(u))
          BY <2>1, <2>4, <3>1, <3>3, <4>1, <4>2, EnqueueConserves
        <4> QED
          BY <2>1, <4>3 DEF Once, Absent
      <3> QED
        BY <3>2, <3>3
    <2>5. Running => status[u] = "BUSY" /\ Once(queue, DiskEvent(u))
      BY <1>1, <2>1 DEF EventInv
    <2>6. ASSUME NEW time \in AlarmTimes, alarm_request(time)
          PROVE  FALSE
      <3>1. AlarmEvent \in Scheduled /\ AlarmEvent # DiskEvent(u) /\ time \in Int
        BY RequestsAssumption, EventFacts DEF Scheduled
      <3> QED
        BY <2>4, <2>5, <2>6, <3>1 DEF alarm_request
    <2>7. ASSUME NEW d \in Disks, NEW r \in DiskRequests, disk_request(d, r)
          PROVE  FALSE
      <3>1. Running /\ d # u
        BY <2>5, <2>7 DEF disk_request, Refused
      <3>2. /\ DiskEvent(d) \in Scheduled /\ DiskEvent(d) # DiskEvent(u)
            /\ Delay(d, r) \in Int /\ schedule_int(DiskEvent(d), Delay(d, r))
        BY <1>1, <2>7, <3>1, DiskEventsScheduled, EventFacts, DelayIsInt DEF disk_request
      <3> QED
        BY <2>4, <2>5, <3>1, <3>2
    <2>8. ASSUME Advance
          PROVE  queue[NextSlot] = DiskEvent(u)
      BY <1>1, <2>1, <2>2, <2>8, AdvanceTypes DEF Advance, Absent
    <2>9. ASSUME NEW d \in Disks, disk_action(d)
          PROVE  status'[u] = "ERROR"
      <3>1. d = u
        BY <2>8, <2>9, EventFacts DEF disk_action
      <3>2. request[u].reg1 >= TrackSize /\ ~Seeks(u) /\ request[u].op # "illegal"
        <4>1. request[u] \in DiskRequests /\ request[u].op \in {"READ", "WRITE"}
          BY <1>1 DEF RequestedInv, Transfers
        <4>2. request[u].reg1 \in Int /\ request[u].reg1 >= 0 /\ TrackSize \in Nat
          BY <4>1, RequestsAssumption, UnitsAssumption
        <4> QED
          BY <1>1, <4>1, <4>2 DEF Seeks
      <3>3. Impossible(u) /\ ~Aborts(u)
        BY <1>1, <3>2 DEF Impossible, Aborts
      <3> QED
        BY <1>1, <2>9, <3>1, <3>3 DEF disk_action, TypeOK
    <2>10. ASSUME Advance, queue[NextSlot].device # DISK_DEV
           PROVE  FALSE
      BY <2>8, <2>10 DEF DiskEvent
    <2> QED
      BY <1>1, <2>3, <2>6, <2>7, <2>9, <2>10
      DEF Next, DeviceCall, dispatch_int, Ended, disk_get_status, term_request,
          term_get_status, clock_tick, alarm_action, term_action, ring, vars,
          ALARM_DEV, TERM_DEV, DISK_DEV
  <1>2. TypeOK /\ EventInv /\ RequestedInv /\ [Next]_vars => [\A u \in Disks : Rejected(u)]_vars
    BY <1>1
  <1> QED
    BY <1>2, TypeCorrect, EventsStay, RequestedStays, PTL DEF Spec, ImpossibleIsError
============================================================================
