--------------------------- MODULE RequestsProofs ---------------------------
(***************************************************************************)
(* A request made with the signals blocked is one step of the devices: the *)
(* loop of schedule_int does what Devices says of it, for a ring of any    *)
(* size and any requests, and it ends.                                     *)
(***************************************************************************)
EXTENDS Requests, DelayProofs

-----------------------------------------------------------------------------
(* The search of schedule_int, a slot at a time.                           *)

(* How far round the ring another slot is, from a slot and from the next.  *)
LEMMA AheadFacts ==
    ASSUME NEW i \in Slots
    PROVE  /\ \A k \in Slots : Ahead(i, k) \in 0 .. QSize - 1
           /\ \A k \in Slots : Ahead(i, k) = 0 <=> k = i
           /\ \A j, k \in Slots : Ahead(i, j) = Ahead(i, k) => j = k
  <1>1. QSize \in Nat /\ Slots = 0 .. QSize - 1 /\ i \in 0 .. QSize - 1
    BY RingAssumption DEF Slots
  <1>2. ASSUME NEW k \in Slots
        PROVE  /\ Ahead(i, k) \in 0 .. QSize - 1
               /\ Ahead(i, k) = 0 <=> k = i
    <2>1. k \in 0 .. QSize - 1
      BY <1>1, <1>2
    <2>2. Ahead(i, k) = IF k >= i THEN k - i ELSE k - i + QSize
      BY <1>2, AheadIs
    <2> QED
      BY <1>1, <2>1, <2>2
  <1>3. ASSUME NEW j \in Slots, NEW k \in Slots, Ahead(i, j) = Ahead(i, k)
        PROVE  j = k
    <2>1. j \in 0 .. QSize - 1 /\ k \in 0 .. QSize - 1
      BY <1>1, <1>3
    <2>2. /\ Ahead(i, j) = IF j >= i THEN j - i ELSE j - i + QSize
          /\ Ahead(i, k) = IF k >= i THEN k - i ELSE k - i + QSize
      BY <1>3, AheadIs
    <2>3. (IF j >= i THEN j - i ELSE j - i + QSize) = IF k >= i THEN k - i ELSE k - i + QSize
      BY <1>3, <2>2
    <2> QED
      BY <1>1, <2>1, <2>3
  <1> QED
    BY <1>2, <1>3

LEMMA AheadNext ==
    ASSUME NEW i \in Slots
    PROVE  LET n == (i + 1) % QSize
           IN /\ n \in Slots
              /\ \A k \in Slots : k # i => Ahead(i, k) = Ahead(n, k) + 1
              /\ Ahead(n, i) = QSize - 1
  <1> DEFINE n == (i + 1) % QSize
  <1>1. QSize \in Nat /\ QSize > 3 /\ Slots = 0 .. QSize - 1 /\ i \in 0 .. QSize - 1
    BY RingAssumption DEF MaxDelay, Slots
  <1>2. n = IF i + 1 < QSize THEN i + 1 ELSE 0
    <2>1. CASE i + 1 < QSize
      <3>1. i + 1 \in 0 .. QSize - 1
        BY <1>1, <2>1
      <3> QED
        BY <2>1, <3>1, Modulo
    <2>2. CASE ~(i + 1 < QSize)
      <3>1. i + 1 = QSize /\ i + 1 \in QSize .. 2 * QSize - 1
        BY <1>1, <2>2
      <3>2. (i + 1) % QSize = i + 1 - QSize
        BY <1>1, <3>1, Modulo
      <3> QED
        BY <1>1, <2>2, <3>1, <3>2
    <2> QED
      BY <2>1, <2>2
  <1> HIDE DEF n
  <1>3. n \in Slots /\ n \in 0 .. QSize - 1
    BY <1>1, <1>2
  <1>4. ASSUME NEW k \in Slots
        PROVE  IF k = i THEN Ahead(n, k) = QSize - 1 ELSE Ahead(i, k) = Ahead(n, k) + 1
    <2>1. k \in 0 .. QSize - 1
      BY <1>1, <1>4
    <2>2. /\ Ahead(i, k) = IF k >= i THEN k - i ELSE k - i + QSize
          /\ Ahead(n, k) = IF k >= n THEN k - n ELSE k - n + QSize
      BY <1>3, <1>4, AheadIs
    <2> QED
      BY <1>1, <1>2, <1>3, <2>1, <2>2
  <1> QED
    BY <1>3, <1>4 DEF n

(* There is only one first slot of a less important event.                 *)
LEMMA FirstBelowIs ==
    ASSUME NEW q, \A s \in Slots : q[s].device \in Int,
           NEW i \in Slots, NEW device \in Int, NEW j \in Slots,
           q[j].device > device,
           \A k \in Slots : Ahead(i, k) < Ahead(i, j) => q[k].device <= device
    PROVE  FirstBelow(q, i, device) = j
  <1> DEFINE f == FirstBelow(q, i, device)
  <1>1. /\ f \in Slots /\ q[f].device > device
        /\ \A k \in Slots : Ahead(i, k) < Ahead(i, f) => q[k].device <= device
    BY FirstBelowFinds
  <1> HIDE DEF f
  <1>2. ~(Ahead(i, f) < Ahead(i, j)) /\ ~(Ahead(i, j) < Ahead(i, f))
    BY <1>1
  <1>3. Ahead(i, f) \in 0 .. QSize - 1 /\ Ahead(i, j) \in 0 .. QSize - 1
    BY <1>1, AheadFacts
  <1>4. Ahead(i, f) = Ahead(i, j)
    BY <1>2, <1>3, RingAssumption
  <1>5. f = j
    BY <1>1, <1>4, AheadFacts
  <1> QED
    BY <1>5 DEF f

(* The search stops where it stands if the event there is less important.  *)
LEMMA FirstBelowStops ==
    ASSUME NEW q, \A s \in Slots : q[s].device \in Int,
           NEW i \in Slots, NEW device \in Int, q[i].device > device
    PROVE  FirstBelow(q, i, device) = i
  <1>1. \A k \in Slots : ~(Ahead(i, k) < Ahead(i, i))
    BY AheadFacts, RingAssumption
  <1> QED
    BY <1>1, FirstBelowIs

(* Otherwise it goes on from the next slot, round the end of the ring.     *)
LEMMA FirstBelowGoesOn ==
    ASSUME NEW q, \A s \in Slots : q[s].device \in Int,
           NEW i \in Slots, NEW device \in Int, q[i].device <= device,
           \E j \in Slots : q[j].device > device
    PROVE  /\ (i + 1) % QSize \in Slots
           /\ FirstBelow(q, (i + 1) % QSize, device) = FirstBelow(q, i, device)
  <1> DEFINE n == (i + 1) % QSize
             j == FirstBelow(q, i, device)
  <1>3. n \in Slots
    BY AheadNext
  <1>4. /\ j \in Slots /\ q[j].device > device
        /\ \A k \in Slots : Ahead(i, k) < Ahead(i, j) => q[k].device <= device
    BY FirstBelowFinds
  <1> HIDE DEF n, j
  <1>5. ASSUME NEW k \in Slots, Ahead(n, k) < Ahead(n, j), k # i
        PROVE  Ahead(i, k) < Ahead(i, j)
    <2>1. j # i
      BY <1>4
    <2>2. Ahead(i, k) = Ahead(n, k) + 1 /\ Ahead(i, j) = Ahead(n, j) + 1
      BY <1>4, <1>5, <2>1, AheadNext DEF n
    <2>3. Ahead(n, k) \in 0 .. QSize - 1 /\ Ahead(n, j) \in 0 .. QSize - 1
      BY <1>3, <1>4, <1>5, AheadFacts
    <2> QED
      BY <1>5, <2>2, <2>3, RingAssumption
  <1>6. \A k \in Slots : Ahead(n, k) < Ahead(n, j) => q[k].device <= device
    BY <1>4, <1>5
  <1>7. FirstBelow(q, n, device) = j
    BY <1>3, <1>4, <1>6, FirstBelowIs
  <1> QED
    BY <1>3, <1>7 DEF n, j

LEMMA EnqueueGoesOn ==
    ASSUME NEW q \in [Slots -> Events], ~Full(q), NEW i \in Slots,
           NEW e \in Scheduled, q[i].device <= e.device
    PROVE  Enqueue(q, (i + 1) % QSize, e) = Enqueue(q, i, e)
  <1>1. \A s \in Slots : q[s].device \in Int
    BY EventFacts
  <1>2. e.device \in Int /\ \E j \in Slots : q[j].device > e.device
    BY EventFacts DEF Full, Idle, LOW_PRI_DEV, TERM_DEV
  <1>3. FirstBelow(q, (i + 1) % QSize, e.device) = FirstBelow(q, i, e.device)
    BY <1>1, <1>2, FirstBelowGoesOn
  <1> QED
    BY <1>3 DEF Enqueue

(* An event that takes the slot it asks for leaves the rest to the event   *)
(* that had it.                                                            *)
LEMMA EnqueueDisplaces ==
    ASSUME NEW q \in [Slots -> Events], ~Full(q), NEW i \in Slots,
           NEW e \in Scheduled, q[i].device > e.device
    PROVE  Enqueue(q, i, e) = IF q[i] = Idle THEN [q EXCEPT ![i] = e]
                              ELSE Enqueue([q EXCEPT ![i] = e], i, q[i])
  <1> DEFINE r == [q EXCEPT ![i] = e]
             d == q[i].device
             k == FirstBelow(q, i, d)
             m == FirstBelow(r, i, d)
  <1>1. /\ \A s \in Slots : q[s] \in Events /\ q[s].device \in {1, 2, 3}
        /\ e \in Events /\ e.device \in {1, 2, 3} /\ e.device < 3
    BY EventFacts DEF LOW_PRI_DEV, TERM_DEV
  <1>2. FirstBelow(q, i, e.device) = i
    BY <1>1, FirstBelowStops
  <1>3. Enqueue(q, i, e) = IF d = LOW_PRI_DEV THEN r ELSE [q EXCEPT ![i] = e, ![k] = q[i]]
    BY <1>2 DEF Enqueue
  <1>4. q[i] = Idle <=> d = LOW_PRI_DEV
    BY <1>1, EventFacts DEF Idle
  <1>5. CASE q[i] # Idle
    <2>1. d = 2 /\ d \in Int /\ e.device = 1
      BY <1>1, <1>4, <1>5 DEF LOW_PRI_DEV, TERM_DEV
    <2>2. PICK idle \in Slots : q[idle].device = 3
      BY <1>1 DEF Full, LOW_PRI_DEV, TERM_DEV
    <2>3. /\ k \in Slots /\ q[k].device > d
          /\ \A s \in Slots : Ahead(i, s) < Ahead(i, k) => q[s].device <= d
      BY <1>1, <2>1, <2>2, FirstBelowFinds
    <2>4. k # i /\ q[k].device = 3
      BY <1>1, <2>1, <2>3
    <2> HIDE DEF k, m
    <2>5. /\ r[i] = e /\ \A s \in Slots : s # i => r[s] = q[s]
          /\ \A s \in Slots : r[s].device \in Int
      BY <1>1
    <2>6. /\ r[k].device > d
          /\ \A s \in Slots : Ahead(i, s) < Ahead(i, k) => r[s].device <= d
      BY <2>1, <2>3, <2>4, <2>5
    <2> HIDE DEF r
    <2>7. m = k
      BY <2>1, <2>3, <2>5, <2>6, FirstBelowIs DEF m
    <2>8. r[k].device = LOW_PRI_DEV
      BY <2>3, <2>4, <2>5 DEF LOW_PRI_DEV, TERM_DEV
    <2>9. Enqueue(r, i, q[i]) = [r EXCEPT ![k] = q[i]]
      BY <2>7, <2>8 DEF Enqueue, m
    <2>10. Enqueue(r, i, q[i]) = Enqueue(q, i, e)
      BY <1>3, <1>4, <1>5, <2>9 DEF r
    <2> QED
      BY <1>5, <2>10 DEF r
  <1>6. CASE q[i] = Idle
    BY <1>3, <1>4, <1>6
  <1> QED
    BY <1>5, <1>6
-----------------------------------------------------------------------------
(* The invariant of a request made with the signals blocked.               *)

Points == {"none", "start", "search", "take", "device", "arg"}

(* TypeOK but for the ring, which is between two of its states while an    *)
(* event is being put down.                                                *)
OthersTyped ==
    /\ ptr \in Slots
    /\ tick \in BOOLEAN
    /\ armed \in BOOLEAN
    /\ status \in [Disks -> {"READY", "BUSY", "ERROR"}]
    /\ track \in [Disks -> Nat]
    /\ request \in [Disks -> [op : Operations, reg1 : Int]]
    /\ xmit \in [Terms -> {"READY", "BUSY"}]
    /\ recv \in [Terms -> {"READY", "BUSY"}]
    /\ control \in [Terms -> SUBSET {"RECV_INT", "XMIT_INT"}]
    /\ poll \in Terms \cup {-1}
    /\ intr \in [device : -1 .. 3, unit : Nat]
    /\ fate \in {"running", "hung", "trapped", "aborted"}

StepTypes ==
    /\ pc \in Points
    /\ OthersTyped
    /\ pc = "none" => queue \in [Slots -> Events]
    /\ pc # "none" => /\ Running
                      /\ event \in Scheduled /\ asked \in Scheduled
                      /\ found \in [Slots -> Events]
                      /\ future_time \in Int
    /\ pc \notin {"none", "start"} => index \in Slots

(* The ring the request is to leave, if it found room.                     *)
Result == Enqueue(found, (ptr + future_time) % QSize, asked)

(* For event e, looking for a slot of ring q from i on, the rest of the    *)
(* request is what the whole of it was for the ring it found.              *)
Sought(q, i, e) ==
    /\ q \in [Slots -> Events]
    /\ Full(q) <=> Full(found)
    /\ ~Full(q) => Enqueue(q, i, e) = Result

(* The ring once the event has both its device and its argument there.     *)
Whole == [queue EXCEPT ![index] = event]

RingInv ==
    /\ pc = "start" => queue = found /\ event = asked
    /\ pc \in {"search", "take", "device"} => Sought(queue, index, event)
    /\ pc \in {"take", "device"} => queue[index].device > event.device
    /\ pc = "device" => low = queue[index]
    /\ pc = "arg" =>
         /\ event.device < low.device
         /\ queue = [Whole EXCEPT ![index] = [event EXCEPT !.arg = low.arg]]
         /\ IF low.device = LOW_PRI_DEV
              THEN ~Full(found) /\ Whole = Result
              ELSE low \in Scheduled /\ Sought(Whole, index, low)

LEMMA TypeOKIs == TypeOK <=> OthersTyped /\ queue \in [Slots -> Events]
  BY DEF TypeOK, OthersTyped

LEMMA StepInvInit == StepInit => StepTypes /\ RingInv
  BY TypeInit, TypeOKIs DEF StepInit, StepTypes, Points, RingInv

LEMMA BeginStep ==
    ASSUME StepTypes, NEW e \in Scheduled, NEW t \in Int, Begin(e, t),
           armed' \in BOOLEAN,
           status' \in [Disks -> {"READY", "BUSY", "ERROR"}],
           request' \in [Disks -> [op : Operations, reg1 : Int]]
    PROVE  StepTypes' /\ RingInv'
  <1>1. OthersTyped'
    BY QuietType DEF Begin, StepTypes, OthersTyped, ring, term
  <1>2. StepTypes'
    BY <1>1 DEF Begin, StepTypes, Points, ring, Running
  <1>3. RingInv'
    BY DEF Begin, RingInv, ring
  <1> QED
    BY <1>2, <1>3

(* The steps in between leave everything but the ring alone.               *)
LEMMA InnerStep ==
    ASSUME StepTypes, SetIndex \/ Search \/ Take \/ PutDevice \/ PutArg
    PROVE  /\ OthersTyped'
           /\ UNCHANGED <<ptr, tick, armed, status, track, request, xmit, recv,
                          control, poll, intr, fate>>
           /\ pc' # "none" => /\ UNCHANGED <<future_time, asked, found>>
                              /\ Result' = Result
  <1>1. UNCHANGED <<ptr, tick, armed, status, track, request, xmit, recv,
                    control, poll, intr, fate>>
    BY DEF SetIndex, Search, Take, PutDevice, PutArg, vars, disk, term
  <1>2. OthersTyped'
    BY <1>1 DEF StepTypes, OthersTyped
  <1>3. pc' # "none" => UNCHANGED <<future_time, asked, found>>
    BY DEF SetIndex, Search, Take, PutDevice, PutArg, Return
  <1> QED
    BY <1>1, <1>2, <1>3 DEF Result

LEMMA SetIndexStep == StepTypes /\ RingInv /\ SetIndex => StepTypes' /\ RingInv'
  <1> SUFFICES ASSUME StepTypes, RingInv, SetIndex
               PROVE  StepTypes' /\ RingInv'
    OBVIOUS
  <1>1. pc = "start" /\ pc' = "search" /\ UNCHANGED <<queue, event>>
    BY DEF SetIndex, Doing, vars
  <1>2. index' \in Slots /\ index' = (ptr + future_time) % QSize
    BY <1>1, Wraps, SlotIsInt DEF SetIndex, StepTypes, OthersTyped
  <1>3. StepTypes'
    BY <1>1, <1>2, InnerStep DEF StepTypes, Points, Running
  <1>4. Sought(queue', index', event')
    BY <1>1, <1>2, InnerStep DEF Sought, StepTypes, RingInv, Result
  <1>5. Sought(queue, index, event)'
    BY <1>1, <1>4, InnerStep DEF Sought
  <1> QED
    BY <1>1, <1>3, <1>5 DEF RingInv

LEMMA SearchStep == StepTypes /\ RingInv /\ Search => StepTypes' /\ RingInv'
  <1> SUFFICES ASSUME StepTypes, RingInv, Search
               PROVE  StepTypes' /\ RingInv'
    OBVIOUS
  <1>1. /\ pc = "search" /\ pc' \in {"search", "take"}
        /\ UNCHANGED <<queue, event, low>>
        /\ index \in Slots /\ event \in Scheduled
        /\ Sought(queue, index, event)
    BY DEF Search, Doing, vars, StepTypes, RingInv
  <1>2. CASE queue[index].device <= event.device
    <2>1. index' = (index + 1) % QSize /\ pc' = "search"
      BY <1>1, <1>2 DEF Search
    <2>2. index' \in Slots
      BY <1>1, <2>1, AheadNext
    <2>3. Sought(queue, index', event)
      BY <1>1, <1>2, <2>1, EnqueueGoesOn DEF Sought
    <2>4. Sought(queue, index, event)'
      BY <1>1, <2>1, <2>3, InnerStep DEF Sought
    <2>5. StepTypes'
      BY <1>1, <2>1, <2>2, InnerStep DEF StepTypes, Points, Running
    <2> QED
      BY <2>1, <2>4, <2>5 DEF RingInv
  <1>3. CASE ~(queue[index].device <= event.device)
    <2>1. index' = index /\ pc' = "take"
      BY <1>1, <1>3 DEF Search
    <2>2. queue[index].device > event.device
      BY <1>1, <1>3, EventFacts DEF Sought
    <2>3. Sought(queue, index, event)'
      BY <1>1, <2>1, InnerStep DEF Sought
    <2>4. StepTypes'
      BY <1>1, <2>1, InnerStep DEF StepTypes, Points, Running
    <2> QED
      BY <1>1, <2>1, <2>2, <2>3, <2>4 DEF RingInv
  <1> QED
    BY <1>2, <1>3

LEMMA TakeStep == StepTypes /\ RingInv /\ Take => StepTypes' /\ RingInv'
  <1> SUFFICES ASSUME StepTypes, RingInv, Take
               PROVE  StepTypes' /\ RingInv'
    OBVIOUS
  <1>1. /\ pc = "take" /\ pc' = "device" /\ low' = queue[index]
        /\ UNCHANGED <<queue, event, index>>
    BY DEF Take, Doing, vars
  <1>2. StepTypes'
    BY <1>1, InnerStep DEF StepTypes, Points, Running
  <1>3. Sought(queue, index, event)'
    BY <1>1, InnerStep DEF Sought, RingInv
  <1> QED
    BY <1>1, <1>2, <1>3 DEF RingInv

(* The event in hand takes the slot: if it was a terminal's, the request   *)
(* is as good as done, and else the event displaced has the rest to do.    *)
LEMMA PutDeviceStep == StepTypes /\ RingInv /\ PutDevice => StepTypes' /\ RingInv'
  <1> SUFFICES ASSUME StepTypes, RingInv, PutDevice
               PROVE  StepTypes' /\ RingInv'
    OBVIOUS
  <1>1. /\ pc = "device" /\ pc' = "arg" /\ UNCHANGED <<event, index, low>>
        /\ queue' = [queue EXCEPT ![index].device = event.device]
    BY DEF PutDevice, Doing
  <1>2. /\ Sought(queue, index, event) /\ queue[index].device > event.device
        /\ low = queue[index]
        /\ index \in Slots /\ event \in Scheduled
    BY <1>1 DEF RingInv, StepTypes
  <1>3. queue \in [Slots -> Events] /\ low \in Events
    BY <1>2 DEF Sought
  <1>4. /\ low = [device |-> low.device, arg |-> low.arg]
        /\ event = [device |-> event.device, arg |-> event.arg]
        /\ event \in Events
    BY <1>2, <1>3 DEF Events, Scheduled, Idle, AlarmEvent, DiskEvent
  <1>5. /\ [queue' EXCEPT ![index] = event] = [queue EXCEPT ![index] = event]
        /\ Whole' = Whole
    BY <1>1, <1>2, <1>3 DEF Whole
  <1>6. queue' = [Whole EXCEPT ![index] = [event EXCEPT !.arg = low.arg]]
    BY <1>1, <1>2, <1>3, <1>4 DEF Whole
  <1> event.device < low.device
    BY <1>2, <1>3, <1>4, EventFacts
  <1>7. CASE low.device = LOW_PRI_DEV
    <2>1. low = Idle /\ ~Full(queue)
      BY <1>2, <1>3, <1>7, EventFacts DEF Full
    <2>2. ~Full(found) /\ Whole = Result
      BY <1>2, <1>3, <2>1, EnqueueDisplaces DEF Sought, Whole
    <2> QED
      BY <1>1, <1>5, <1>6, <1>7, <2>2, InnerStep
      DEF StepTypes, RingInv, Points, Running
  <1>8. CASE low.device # LOW_PRI_DEV
    <2>1. low \in Scheduled /\ low # Idle
      BY <1>3, <1>8 DEF Events, Scheduled, Idle
    <2>2. Whole \in [Slots -> Events]
      BY <1>3, <1>4 DEF Whole
    <2>3. Full(Whole) <=> Full(queue)
      <3>1. Whole[index].device # LOW_PRI_DEV /\ queue[index].device # LOW_PRI_DEV
        BY <1>2, <1>3, <1>8, EventFacts DEF Whole
      <3>2. \A s \in Slots : s # index => Whole[s] = queue[s]
        BY <1>3 DEF Whole
      <3> QED
        BY <3>1, <3>2 DEF Full
    <2>4. ~Full(queue) => Enqueue(Whole, index, low) = Enqueue(queue, index, event)
      BY <1>2, <1>3, <2>1, EnqueueDisplaces DEF Whole
    <2>5. Sought(Whole, index, low)
      BY <1>2, <2>2, <2>3, <2>4 DEF Sought
    <2>6. Sought(Whole, index, low)'
      BY <1>1, <1>5, <2>5, InnerStep DEF Sought
    <2> QED
      BY <1>1, <1>5, <1>6, <1>8, <2>1, <2>6, InnerStep
      DEF StepTypes, RingInv, Points, Running
  <1> QED
    BY <1>7, <1>8

LEMMA PutArgWhole ==
    ASSUME StepTypes, RingInv, PutArg
    PROVE  /\ queue' = Whole
           /\ pc' = "none" => ~Full(found) /\ queue' = Result
           /\ pc' = "none" <=> low.device = LOW_PRI_DEV
  <1>1. /\ pc = "arg" /\ queue' = [queue EXCEPT ![index].arg = event.arg]
        /\ pc' = "none" <=> low.device = LOW_PRI_DEV
    BY DEF PutArg, Doing, Return
  <1>2. /\ index \in Slots /\ event \in Scheduled
        /\ queue = [Whole EXCEPT ![index] = [event EXCEPT !.arg = low.arg]]
        /\ low.device = LOW_PRI_DEV => ~Full(found) /\ Whole = Result
        /\ low.device # LOW_PRI_DEV => Whole \in [Slots -> Events]
    BY <1>1 DEF StepTypes, RingInv, Sought
  <1>3. event = [device |-> event.device, arg |-> event.arg]
    BY <1>2 DEF Scheduled, AlarmEvent, DiskEvent
  <1>4. Whole = [queue EXCEPT ![index] = event]
    BY DEF Whole
  <1> QED
    BY <1>1, <1>2, <1>3, <1>4

LEMMA PutArgStep == StepTypes /\ RingInv /\ PutArg => StepTypes' /\ RingInv'
  <1> SUFFICES ASSUME StepTypes, RingInv, PutArg
               PROVE  StepTypes' /\ RingInv'
    OBVIOUS
  <1>1. pc = "arg" /\ fate' = fate
    BY DEF PutArg, Doing
  <1>2. CASE low.device = LOW_PRI_DEV
    <2>1. pc' = "none" /\ queue' = Result /\ ~Full(found)
      BY <1>2, PutArgWhole
    <2>2. Result \in [Slots -> Events]
      <3>1. ptr + future_time \in Int
        BY <1>1, SlotIsInt DEF StepTypes, OthersTyped
      <3> QED
        BY <1>1, <2>1, <3>1, Wraps, EnqueueConserves DEF Result, StepTypes
    <2> QED
      BY <2>1, <2>2, InnerStep DEF StepTypes, RingInv, Points
  <1>3. CASE low.device # LOW_PRI_DEV
    <2>1. /\ pc' = "search" /\ event' = low /\ index' = index
          /\ low \in Scheduled /\ Sought(Whole, index, low)
      BY <1>1, <1>3 DEF PutArg, RingInv
    <2>2. Sought(queue, index, event)'
      BY <1>3, <2>1, PutArgWhole, InnerStep DEF Sought
    <2>3. StepTypes'
      BY <1>1, <2>1, InnerStep DEF StepTypes, Points, Running
    <2> QED
      BY <2>1, <2>2, <2>3 DEF RingInv
  <1> QED
    BY <1>2, <1>3

(* With the signals blocked nothing else happens while a request is made.  *)
LEMMA StepInvStep ==
    ASSUME Masked, StepTypes, RingInv, [StepNext]_stepVars
    PROVE  StepTypes' /\ RingInv'
  <1>1. ASSUME NEW time \in AlarmTimes, BeginAlarm(time)
        PROVE  StepTypes' /\ RingInv'
    <2>1. time \in Int /\ AlarmEvent \in Scheduled
      BY RequestsAssumption DEF Scheduled
    <2> QED
      BY <1>1, <2>1, BeginStep DEF BeginAlarm, StepTypes, OthersTyped
  <1>2. ASSUME NEW u \in Disks, NEW r \in DiskRequests, BeginDisk(u, r)
        PROVE  StepTypes' /\ RingInv'
    <2>1. TypeOK
      BY <1>2, TypeOKIs DEF BeginDisk, Begin, StepTypes
    <2>2. DiskEvent(u) \in Scheduled /\ Delay(u, r) \in Int
      BY <2>1, DiskEventsScheduled, DelayIsInt
    <2>3. r \in [op : Operations, reg1 : Int]
      BY RequestsAssumption
    <2>4. /\ Begin(DiskEvent(u), Delay(u, r))
          /\ armed' \in BOOLEAN
          /\ status' \in [Disks -> {"READY", "BUSY", "ERROR"}]
          /\ request' \in [Disks -> [op : Operations, reg1 : Int]]
      BY <1>2, <2>1, <2>3 DEF BeginDisk, TypeOK
    <2> QED
      BY <2>2, <2>4, BeginStep
  <1>3. ASSUME pc = "none", UNCHANGED local, DeviceCall \/ dispatch_int \/ UNCHANGED vars
        PROVE  StepTypes' /\ RingInv'
    <2>1. TypeOK'
      <3>1. TypeOK /\ [Next]_vars
        BY <1>3, TypeOKIs DEF StepTypes, Next
      <3> QED
        BY <3>1, TypeStep
    <2>2. OthersTyped' /\ queue' \in [Slots -> Events]
      BY <2>1 DEF TypeOK, OthersTyped
    <2>3. pc' = "none"
      BY <1>3 DEF local
    <2> QED
      BY <2>2, <2>3 DEF StepTypes, RingInv, Points
  <1>4. CASE ShortCall \/ Signal \/ Handler
    <2>1. pc = "none" /\ UNCHANGED local
      BY <1>4 DEF ShortCall, Signal, Handler, SignalsComeIn
    <2>2. DeviceCall \/ dispatch_int
      BY <1>4 DEF ShortCall, Signal, Handler, DeviceCall
    <2> QED
      BY <1>3, <2>1, <2>2
  <1>5. CASE UNCHANGED stepVars
    <2>1. UNCHANGED vars /\ UNCHANGED local
      BY <1>5 DEF stepVars
    <2>2. CASE pc = "none"
      BY <1>3, <2>1, <2>2
    <2>3. CASE pc # "none"
      <3> USE <2>1 DEF vars, local
      <3>1. StepTypes'
        BY DEF StepTypes, OthersTyped, Running
      <3>2. RingInv'
        BY DEF RingInv, Sought, Result, Whole
      <3> QED
        BY <3>1, <3>2
    <2> QED
      BY <2>2, <2>3
  <1> QED
    BY <1>1, <1>2, <1>4, <1>5, SetIndexStep, SearchStep, TakeStep, PutDeviceStep, PutArgStep
    DEF StepNext

LEMMA StepInvStays == Masked => (StepSpec => [](StepTypes /\ RingInv))
  <1> SUFFICES ASSUME Masked
               PROVE  StepSpec => [](StepTypes /\ RingInv)
    OBVIOUS
  <1>1. StepTypes /\ RingInv /\ [StepNext]_stepVars => (StepTypes /\ RingInv)'
    BY StepInvStep
  <1> QED
    BY <1>1, StepInvInit, PTL DEF StepSpec

-----------------------------------------------------------------------------
(* The request is the step of Devices it stands for.                       *)

LEMMA RingBetween ==
    pc = "none" => Ring = queue /\ Fate = fate
  BY DEF Ring, Fate, Hopeless

LEMMA RingDuring ==
    pc # "none" => /\ Ring = IF Full(found) THEN found ELSE Result
                   /\ Fate = IF Full(found) THEN "hung" ELSE fate
  BY DEF Ring, Fate, Hopeless, Result

(* The operators on rings are the same on both sides.                      *)
LEMMA SameRing ==
    /\ \A q : Full(q) <=> Atomic!Full(q)
    /\ \A q, i, e : Enqueue(q, i, e) = Atomic!Enqueue(q, i, e)
  BY DEF Full, Atomic!Full, Enqueue, Atomic!Enqueue, FirstBelow, Atomic!FirstBelow,
     Ahead, Atomic!Ahead, Slots, Atomic!Slots, LOW_PRI_DEV, Atomic!LOW_PRI_DEV,
     TERM_DEV, Atomic!TERM_DEV

(* It takes effect when it begins ...                                      *)
LEMMA BeginSchedules ==
    ASSUME NEW e, NEW t, Begin(e, t)
    PROVE  /\ Atomic!schedule_int(e, t)
           /\ Atomic!Running
           /\ intr' = Atomic!Quiet
           /\ UNCHANGED <<tick, track, xmit, recv, control, poll>>
  <1>1. /\ pc = "none" /\ pc' = "start" /\ fate = "running" /\ fate' = fate
        /\ found' = queue /\ asked' = e /\ future_time' = t /\ ptr' = ptr
        /\ intr' = Quiet
        /\ UNCHANGED <<tick, track, xmit, recv, control, poll>>
    BY DEF Begin, Running, ring, term
  <1>2. Ring = queue /\ Fate = fate
    BY <1>1, RingBetween
  <1>3. Ring' = IF Full(queue) THEN queue ELSE Enqueue(queue, (ptr + t) % QSize, e)
    BY <1>1 DEF Ring, Hopeless, Full, Enqueue, FirstBelow, Ahead
  <1>4. Fate' = IF Full(queue) THEN "hung" ELSE fate
    BY <1>1 DEF Fate, Hopeless, Full
  <1>5. Full(queue) <=> Atomic!Full(queue)
    BY SameRing
  <1>6. \A i : Enqueue(queue, i, e) = Atomic!Enqueue(queue, i, e)
    BY SameRing
  <1>7. Atomic!schedule_int(e, t)
    BY <1>1, <1>2, <1>3, <1>4, <1>5, <1>6 DEF Atomic!schedule_int
  <1> QED
    BY <1>1, <1>2, <1>7 DEF Atomic!Running, Quiet, Atomic!Quiet

(* ... and the steps that follow change nothing more.                      *)
LEMMA InnerStutters ==
    ASSUME StepTypes, RingInv, SetIndex \/ Search \/ Take \/ PutDevice \/ PutArg
    PROVE  UNCHANGED Atomic!vars
  <1>1. pc # "none" /\ (pc' = "none" => PutArg)
    BY DEF SetIndex, Search, Take, PutDevice, PutArg, Doing
  <1>2. CASE pc' # "none"
    BY <1>1, <1>2, InnerStep, RingDuring
    DEF Atomic!vars, Ring, Fate, Hopeless, Result
  <1>3. CASE pc' = "none"
    <2>1. ~Full(found) /\ queue' = Result
      BY <1>1, <1>3, PutArgWhole
    <2>2. Ring = Result /\ Fate = fate
      BY <1>1, <2>1, RingDuring
    <2>3. Ring' = queue' /\ Fate' = fate'
      BY <1>3 DEF Ring, Fate, Hopeless
    <2> QED
      BY <2>1, <2>2, <2>3, InnerStep DEF Atomic!vars
  <1> QED
    BY <1>2, <1>3

(* Between requests the steps are those of Devices as they are.            *)
LEMMA BetweenDispatch ==
    ASSUME Ring = queue, Ring' = queue', Fate = fate, Fate' = fate', dispatch_int
    PROVE  Atomic!dispatch_int
  <1> USE DEF Running, Atomic!Running, Advance, Atomic!Advance, NextSlot, Atomic!NextSlot,
              Deliver, Atomic!Deliver, Quiet, Atomic!Quiet, Idle, Atomic!Idle,
              LOW_PRI_DEV, Atomic!LOW_PRI_DEV, TERM_DEV, Atomic!TERM_DEV,
              ring, Atomic!ring, disk, Atomic!disk, term, Atomic!term
  <1>1. clock_tick => Atomic!clock_tick
    BY DEF clock_tick, Atomic!clock_tick, CLOCK_DEV, Atomic!CLOCK_DEV
  <1>2. alarm_action => Atomic!alarm_action
    BY DEF alarm_action, Atomic!alarm_action, ALARM_DEV, Atomic!ALARM_DEV
  <1>3. ASSUME NEW u \in Disks, disk_action(u)
        PROVE  Atomic!disk_action(u)
    BY <1>3 DEF disk_action, Atomic!disk_action, DiskEvent, Atomic!DiskEvent,
       DISK_DEV, Atomic!DISK_DEV, Aborts, Atomic!Aborts, Seeks, Atomic!Seeks,
       Transfers, Atomic!Transfers, Impossible, Atomic!Impossible, Sector, Atomic!Sector
  <1>4. ASSUME NEW arrives \in BOOLEAN, term_action(arrives)
        PROVE  Atomic!term_action(arrives)
    BY <1>4 DEF term_action, Atomic!term_action, NextTerm, Atomic!NextTerm,
       Announces, Atomic!Announces
  <1> QED
    BY <1>1, <1>2, <1>3, <1>4 DEF dispatch_int, Atomic!dispatch_int

LEMMA BetweenSchedule ==
    ASSUME Ring = queue, Ring' = queue', Fate = fate, Fate' = fate',
           NEW e, NEW t, schedule_int(e, t)
    PROVE  Atomic!schedule_int(e, t)
  <1>1. CASE Full(queue)
    BY <1>1, SameRing DEF schedule_int, Atomic!schedule_int
  <1>2. CASE ~Full(queue)
    BY <1>2, SameRing DEF schedule_int, Atomic!schedule_int
  <1> QED
    BY <1>1, <1>2

LEMMA BetweenCall ==
    ASSUME Ring = queue, Ring' = queue', Fate = fate, Fate' = fate', DeviceCall
    PROVE  Atomic!DeviceCall
  <1> USE DEF Running, Atomic!Running, Quiet, Atomic!Quiet, Terms, Atomic!Terms,
              ring, Atomic!ring, disk, Atomic!disk, term, Atomic!term
  <1>1. ASSUME NEW time \in AlarmTimes, alarm_request(time)
        PROVE  Atomic!alarm_request(time)
    <2>1. Atomic!schedule_int(AlarmEvent, time)
      BY <1>1, BetweenSchedule DEF alarm_request
    <2> QED
      BY <1>1, <2>1 DEF alarm_request, Atomic!alarm_request, MayArm, Atomic!MayArm,
         AlarmEvent, Atomic!AlarmEvent, ALARM_DEV, Atomic!ALARM_DEV
  <1>2. ASSUME NEW u \in Disks, NEW r \in DiskRequests, disk_request(u, r)
        PROVE  Atomic!disk_request(u, r)
    <2>1. Atomic!schedule_int(DiskEvent(u), Delay(u, r))
      BY <1>2, BetweenSchedule DEF disk_request
    <2> QED
      BY <1>2, <2>1 DEF disk_request, Atomic!disk_request, Refused, Atomic!Refused,
         DiskEvent, Atomic!DiskEvent, DISK_DEV, Atomic!DISK_DEV, Delay, Atomic!Delay,
         Distance, Atomic!Distance, MaxDelay, Atomic!MaxDelay
  <1>3. ASSUME NEW u \in Disks, disk_get_status(u)
        PROVE  Atomic!disk_get_status(u)
    BY <1>3 DEF disk_get_status, Atomic!disk_get_status
  <1>4. ASSUME NEW t \in Terms, NEW send \in BOOLEAN, NEW enable \in Enables,
               term_request(t, send, enable)
        PROVE  Atomic!term_request(t, send, enable)
    BY <1>4 DEF term_request, Atomic!term_request
  <1>5. ASSUME NEW t \in Terms, term_get_status(t)
        PROVE  Atomic!term_get_status(t)
    BY <1>5 DEF term_get_status, Atomic!term_get_status
  <1> QED
    BY <1>1, <1>2, <1>3, <1>4, <1>5 DEF DeviceCall, Atomic!DeviceCall

LEMMA StepRefines ==
    ASSUME Masked, StepTypes, RingInv, [StepNext]_stepVars
    PROVE  [Atomic!Next]_(Atomic!vars)
  <1>1. ASSUME NEW time \in AlarmTimes, BeginAlarm(time)
        PROVE  Atomic!alarm_request(time)
    <2>1. Atomic!AlarmEvent = AlarmEvent
      BY DEF AlarmEvent, Atomic!AlarmEvent, ALARM_DEV, Atomic!ALARM_DEV
    <2> QED
      BY <1>1, <2>1, BeginSchedules
      DEF BeginAlarm, Atomic!alarm_request, MayArm, Atomic!MayArm, Atomic!disk, Atomic!term
  <1>2. ASSUME NEW u \in Disks, NEW r \in DiskRequests, BeginDisk(u, r)
        PROVE  Atomic!disk_request(u, r)
    <2>1. Atomic!DiskEvent(u) = DiskEvent(u)
      BY DEF DiskEvent, Atomic!DiskEvent, DISK_DEV, Atomic!DISK_DEV
    <2>2. Atomic!Delay(u, r) = Delay(u, r)
      BY DEF Delay, Atomic!Delay, Distance, Atomic!Distance, MaxDelay, Atomic!MaxDelay
    <2> QED
      BY <1>2, <2>1, <2>2, BeginSchedules
      DEF BeginDisk, Atomic!disk_request, Refused, Atomic!Refused, Atomic!term
  <1>3. CASE ShortCall \/ Signal \/ Handler
    <2>1. pc = "none" /\ pc' = "none"
      BY <1>3 DEF ShortCall, Signal, Handler, SignalsComeIn, local
    <2>2. Ring = queue /\ Ring' = queue' /\ Fate = fate /\ Fate' = fate'
      BY <2>1 DEF Ring, Fate, Hopeless
    <2>3. DeviceCall \/ dispatch_int
      BY <1>3 DEF ShortCall, Signal, Handler, DeviceCall
    <2> QED
      BY <2>2, <2>3, BetweenCall, BetweenDispatch DEF Atomic!Next
  <1>4. CASE UNCHANGED stepVars
    BY <1>4 DEF stepVars, vars, local, Atomic!vars, Ring, Fate, Hopeless, Full,
       Enqueue, FirstBelow, Ahead
  <1> QED
    BY <1>1, <1>2, <1>3, <1>4, InnerStutters DEF StepNext, Atomic!Next, Atomic!DeviceCall

(* The steps that a request made with the signals blocked consists of are  *)
(* together one step of the devices: nothing is lost, copied or mixed up   *)
(* on the way round the ring, and a request hangs exactly if it found no   *)
(* slot of a terminal's.                                                   *)
THEOREM RequestsAreAtomic == Masked => (StepSpec => ImplementsDevices)
  <1> SUFFICES ASSUME Masked
               PROVE  StepSpec => ImplementsDevices
    OBVIOUS
  <1>1. StepInit => Atomic!Init
    <2> SUFFICES ASSUME StepInit
                 PROVE  Atomic!Init
      OBVIOUS
    <2>1. Ring = queue /\ Fate = fate /\ Init
      BY RingBetween DEF StepInit
    <2> QED
      BY <2>1 DEF Init, Atomic!Init, Slots, Atomic!Slots, Idle, Atomic!Idle, Terms,
         Atomic!Terms, Quiet, Atomic!Quiet, LOW_PRI_DEV, Atomic!LOW_PRI_DEV, TERM_DEV,
         Atomic!TERM_DEV
  <1>2. StepTypes /\ RingInv /\ [StepNext]_stepVars => [Atomic!Next]_(Atomic!vars)
    BY StepRefines
  <1> QED
    BY <1>1, <1>2, StepInvStays, PTL DEF StepSpec, ImplementsDevices, Atomic!Spec

-----------------------------------------------------------------------------
(* While a request is made its disk, and every other that is BUSY, has one *)
(* event in the ring the request is to leave.                              *)

MatchedBy(q) ==
    \A u \in Disks : IF status[u] = "BUSY" THEN Once(q, DiskEvent(u))
                                           ELSE Absent(q, DiskEvent(u))

EventsMatched ==
    /\ pc = "none" => EventInv
    /\ pc # "none" /\ ~Full(found) => MatchedBy(Result)

(* Every event but e is as often in ring r as it is in ring q.             *)
Keeps(q, r, e) ==
    \A d \in Scheduled \ {e} :
       /\ Once(q, d) => Once(r, d)
       /\ Absent(q, d) => Absent(r, d)

LEMMA Kept ==
    ASSUME NEW q, NEW r, NEW e, NEW d \in Scheduled, d # e, Keeps(q, r, e)
    PROVE  /\ Once(q, d) => Once(r, d)
           /\ Absent(q, d) => Absent(r, d)
  BY DEF Keeps

LEMMA BeginMatched ==
    ASSUME StepTypes, EventsMatched, NEW e \in Scheduled, NEW t \in Int, Begin(e, t)
    PROVE  /\ pc' = "start" /\ pc = "none" /\ found' = queue
           /\ MatchedBy(queue)
           /\ ~Full(queue) =>
                /\ Absent(queue, e) => Once(Result', e)
                /\ Keeps(queue, Result', e)
  <1>1. /\ pc' = "start" /\ pc = "none" /\ Running
        /\ found' = queue /\ asked' = e /\ future_time' = t /\ ptr' = ptr
    BY DEF Begin, ring
  <1>2. queue \in [Slots -> Events] /\ (ptr + t) % QSize \in Slots
    BY <1>1, Wraps, SlotIsInt DEF StepTypes, OthersTyped
  <1>3. Result' = Enqueue(queue, (ptr + t) % QSize, e)
    BY <1>1 DEF Result, Enqueue, FirstBelow, Ahead
  <1>4. MatchedBy(queue)
    BY <1>1 DEF EventsMatched, EventInv, MatchedBy
  <1> QED
    BY <1>1, <1>2, <1>3, <1>4, EnqueueConserves DEF Keeps

LEMMA MatchedStep ==
    ASSUME Masked, StepTypes, RingInv, EventsMatched, [StepNext]_stepVars
    PROVE  EventsMatched'
  <1>1. ASSUME NEW time \in AlarmTimes, BeginAlarm(time)
        PROVE  EventsMatched'
    <2>1. time \in Int /\ AlarmEvent \in Scheduled
      BY RequestsAssumption DEF Scheduled
    <2>2. Begin(AlarmEvent, time) /\ status' = status
      BY <1>1 DEF BeginAlarm
    <2>3. \A u \in Disks : DiskEvent(u) \in Scheduled /\ DiskEvent(u) # AlarmEvent
      BY DiskEventsScheduled, EventFacts
    <2>4. ~Full(queue) => MatchedBy(Result)'
      <3> SUFFICES ASSUME ~Full(queue), NEW u \in Disks
                   PROVE  IF status'[u] = "BUSY" THEN Once(Result', DiskEvent(u))
                                                 ELSE Absent(Result', DiskEvent(u))
        BY DEF MatchedBy
      <3>1. IF status[u] = "BUSY" THEN Once(queue, DiskEvent(u))
                                  ELSE Absent(queue, DiskEvent(u))
        BY <2>1, <2>2, BeginMatched DEF MatchedBy
      <3>2. Keeps(queue, Result', AlarmEvent)
        BY <2>1, <2>2, BeginMatched
      <3>3. /\ Once(queue, DiskEvent(u)) => Once(Result', DiskEvent(u))
            /\ Absent(queue, DiskEvent(u)) => Absent(Result', DiskEvent(u))
        BY <2>3, <3>2, Kept
      <3> QED
        BY <2>2, <3>1, <3>3
    <2> QED
      BY <2>1, <2>2, <2>4, BeginMatched DEF EventsMatched, Full
  <1>2. ASSUME NEW d \in Disks, NEW r \in DiskRequests, BeginDisk(d, r)
        PROVE  EventsMatched'
    <2>1. /\ Begin(DiskEvent(d), Delay(d, r)) /\ status[d] # "BUSY"
          /\ status' = [status EXCEPT ![d] = "BUSY"]
      BY <1>2 DEF BeginDisk, Refused
    <2>2. status \in [Disks -> {"READY", "BUSY", "ERROR"}]
      BY DEF StepTypes, OthersTyped
    <2>3. DiskEvent(d) \in Scheduled /\ Delay(d, r) \in Int
      <3>1. TypeOK
        BY <2>1, TypeOKIs DEF Begin, StepTypes
      <3> QED
        BY <3>1, DiskEventsScheduled, DelayIsInt
    <2>4. ASSUME NEW u \in Disks, ~Full(queue)
          PROVE  IF status'[u] = "BUSY" THEN Once(Result', DiskEvent(u))
                                        ELSE Absent(Result', DiskEvent(u))
      <3>1. CASE u = d
        BY <2>1, <2>2, <2>3, <2>4, <3>1, BeginMatched DEF MatchedBy
      <3>2. CASE u # d
        <4>1. DiskEvent(u) \in Scheduled \ {DiskEvent(d)}
          BY <3>2, DiskEventsScheduled, EventFacts
        <4>2. IF status[u] = "BUSY" THEN Once(queue, DiskEvent(u))
                                    ELSE Absent(queue, DiskEvent(u))
          BY <2>1, <2>3, BeginMatched DEF MatchedBy
        <4>3. Keeps(queue, Result', DiskEvent(d))
          BY <2>1, <2>3, <2>4, BeginMatched
        <4>4. /\ Once(queue, DiskEvent(u)) => Once(Result', DiskEvent(u))
              /\ Absent(queue, DiskEvent(u)) => Absent(Result', DiskEvent(u))
          BY <4>1, <4>3, Kept
        <4> QED
          BY <2>1, <2>2, <3>2, <4>2, <4>4
      <3> QED
        BY <3>1, <3>2
    <2>5. ~Full(queue) => MatchedBy(Result)'
      BY <2>4 DEF MatchedBy
    <2> QED
      BY <2>1, <2>3, <2>5, BeginMatched DEF EventsMatched, Full
  <1>3. CASE SetIndex \/ Search \/ Take \/ PutDevice \/ PutArg
    <2>1. pc # "none" /\ (pc' = "none" => PutArg) /\ status' = status
      BY <1>3, InnerStep DEF SetIndex, Search, Take, PutDevice, PutArg, Doing
    <2>2. CASE pc' # "none"
      <3>1. MatchedBy(Result) => MatchedBy(Result)'
        BY <1>3, <2>1, <2>2, InnerStep DEF MatchedBy
      <3>2. found' = found
        BY <1>3, <2>2, InnerStep
      <3> QED
        BY <2>1, <2>2, <3>1, <3>2 DEF EventsMatched, Full
    <2>3. CASE pc' = "none"
      BY <2>1, <2>3, PutArgWhole DEF EventsMatched, EventInv, MatchedBy
    <2> QED
      BY <2>2, <2>3
  <1>4. CASE ShortCall \/ Signal \/ Handler
    <2>1. pc = "none" /\ pc' = "none" /\ EventInv
      BY <1>4 DEF ShortCall, Signal, Handler, SignalsComeIn, local, EventsMatched
    <2>2. TypeOK
      BY <2>1, TypeOKIs DEF StepTypes
    <2>3. DeviceCall \/ dispatch_int
      BY <1>4 DEF ShortCall, Signal, Handler, DeviceCall
    <2> QED
      BY <2>1, <2>2, <2>3, EventsCall, EventsDispatch DEF EventsMatched
  <1>5. CASE UNCHANGED stepVars
    BY <1>5 DEF stepVars, vars, local, EventsMatched, EventInv, Running, MatchedBy,
       Result, Full, Enqueue, FirstBelow, Ahead
  <1> QED
    BY <1>1, <1>2, <1>3, <1>4, <1>5 DEF StepNext

(* What devices.c says of schedule_int holds of an operating system that   *)
(* makes its requests with the signals blocked: when a request has been    *)
(* made, every disk that is BUSY has its interrupt coming.                 *)
THEOREM ScheduledWhenMasked == Masked => (StepSpec => []ScheduledStays)
  <1> SUFFICES ASSUME Masked
               PROVE  StepSpec => []ScheduledStays
    OBVIOUS
  <1>1. StepInit => EventsMatched
    BY EventsInit DEF StepInit, EventsMatched
  <1>2. StepTypes /\ RingInv /\ EventsMatched /\ [StepNext]_stepVars => EventsMatched'
    BY MatchedStep
  <1>3. EventsMatched => ScheduledStays
    BY DEF EventsMatched, EventInv, Once, ScheduledStays, SlotsOf
  <1> QED
    BY <1>1, <1>2, <1>3, StepInvStays, PTL DEF StepSpec
-----------------------------------------------------------------------------
(* A request made with the signals blocked returns.                        *)

(* The slot that the event in hand is to have is the one it has reached,   *)
(* or it comes nearer with the next slot.                                  *)
LEMMA WayToSlot ==
    ASSUME NEW q \in [Slots -> Events], ~Full(q), NEW i \in Slots, NEW e \in Scheduled
    PROVE  LET way(k) == Ahead(k, FirstBelow(q, k, e.device))
               next   == (i + 1) % QSize
           IN /\ way(i) \in 0 .. QSize - 1
              /\ q[i].device <= e.device => way(next) \in Int /\ way(i) = way(next) + 1
  <1> DEFINE j == FirstBelow(q, i, e.device)
             n == (i + 1) % QSize
  <1>1. /\ \A s \in Slots : q[s].device \in Int
        /\ e.device \in Int /\ \E k \in Slots : q[k].device > e.device
    BY EventFacts DEF Full, Idle, LOW_PRI_DEV, TERM_DEV
  <1>2. j \in Slots /\ q[j].device > e.device
    BY <1>1, FirstBelowFinds
  <1>3. Ahead(i, j) \in 0 .. QSize - 1
    BY <1>2, AheadFacts
  <1>4. ASSUME q[i].device <= e.device
        PROVE  /\ FirstBelow(q, n, e.device) = j
               /\ Ahead(i, j) = Ahead(n, j) + 1
               /\ Ahead(n, j) \in Int
    <2>1. n \in Slots /\ FirstBelow(q, n, e.device) = j
      BY <1>1, <1>4, FirstBelowGoesOn
    <2> HIDE DEF j
    <2>2. j # i
      BY <1>1, <1>2, <1>4
    <2>3. Ahead(i, j) = Ahead(n, j) + 1
      BY <1>2, <2>2, AheadNext
    <2>4. Ahead(n, j) \in 0 .. QSize - 1
      BY <1>2, <2>1, AheadFacts
    <2> QED
      BY <2>1, <2>3, <2>4
  <1> QED
    BY <1>3, <1>4

(* What an event in hand may still displace.                               *)
More == IF event.device = ALARM_DEV THEN QSize + 5 ELSE 0

LEMMA LeftIs ==
    ASSUME StepTypes
    PROVE  /\ pc = "none"   => Left = 0
           /\ pc = "start"  => Left = More + QSize + 4
           /\ pc = "search" =>
                Left = More + 4 + Ahead(index, FirstBelow(queue, index, event.device))
           /\ pc = "take"   => Left = More + 3
           /\ pc = "device" => Left = More + 2
           /\ pc = "arg"    => Left = More + 1
           /\ More \in {0, QSize + 5}
           /\ QSize \in Nat
  BY RingAssumption DEF Left, More

LEMMA LeftStep ==
    ASSUME Masked, StepTypes, RingInv, [StepNext]_stepVars, StepTypes', RingInv',
           pc # "none", ~Hopeless, ~UNCHANGED stepVars
    PROVE  Left' < Left
  <1>1. SetIndex \/ Search \/ Take \/ PutDevice \/ PutArg
    BY DEF StepNext, BeginAlarm, BeginDisk, Begin, ShortCall, Signal, Handler,
       SignalsComeIn, StepTypes
  <1>2. ~Full(found) /\ (pc' # "none" => found' = found)
    BY <1>1, InnerStep DEF Hopeless
  <1>3. ~Full(found) /\ QSize \in Nat /\ More \in {0, QSize + 5}
    BY <1>2, LeftIs
  <1> DEFINE way == Ahead(index, FirstBelow(queue, index, event.device))
  <1>4. ASSUME pc = "search"
        PROVE  way \in 0 .. QSize - 1
    BY <1>2, <1>4, WayToSlot DEF StepTypes, RingInv, Sought
  <1>5. ASSUME pc' = "search"
        PROVE  way' \in 0 .. QSize - 1
    <2>1. /\ queue' \in [Slots -> Events] /\ ~Full(queue') /\ index' \in Slots
          /\ event' \in Scheduled
      BY <1>2, <1>5 DEF StepTypes, RingInv, Sought, Full
    <2>2. way' = Ahead(index', FirstBelow(queue', index', event'.device))
      BY DEF Ahead, FirstBelow
    <2> QED
      BY <2>1, <2>2, WayToSlot
  <1>6. /\ pc' = "none"   => Left' = 0
        /\ pc' = "search" => Left' = More' + 4 + way'
        /\ pc' = "take"   => Left' = More' + 3
        /\ pc' = "device" => Left' = More' + 2
        /\ pc' = "arg"    => Left' = More' + 1
    BY DEF Left, More
  <1>7. event' = event => More' = More
    BY DEF More
  <1> HIDE DEF way
  <1>8. CASE SetIndex
    <2>1. pc = "start" /\ pc' = "search" /\ event' = event
      BY <1>8 DEF SetIndex, Doing
    <2> QED
      BY <1>3, <1>5, <1>6, <1>7, <2>1, LeftIs
  <1>9. CASE Search
    <2>1. /\ pc = "search" /\ event' = event /\ queue' = queue
          /\ \/ /\ queue[index].device <= event.device
                /\ pc' = "search" /\ index' = (index + 1) % QSize
             \/ pc' = "take"
      BY <1>9 DEF Search, Doing, vars
    <2>2. CASE pc' = "take"
      BY <1>3, <1>4, <1>6, <1>7, <2>1, <2>2, LeftIs DEF way
    <2>3. CASE pc' # "take"
      <3>1. queue \in [Slots -> Events] /\ ~Full(queue) /\ index \in Slots /\ event \in Scheduled
        BY <1>2, <2>1 DEF StepTypes, RingInv, Sought
      <3>2. way' = Ahead((index + 1) % QSize, FirstBelow(queue, (index + 1) % QSize, event.device))
        BY <2>1, <2>3 DEF way, Ahead, FirstBelow
      <3>3. way' \in Int /\ way = way' + 1
        BY <2>1, <2>3, <3>1, <3>2, WayToSlot DEF way
      <3>4. Left = More + 4 + way /\ Left' = More + 4 + way'
        BY <1>6, <1>7, <2>1, <2>3, LeftIs DEF way
      <3>5. \A m, w, v \in Int : w = v + 1 => m + 4 + v < m + 4 + w
        OBVIOUS
      <3>6. More \in Int /\ way \in Int
        BY <1>3, <3>3
      <3>7. More + 4 + way' < More + 4 + way
        BY <3>3, <3>5, <3>6
      <3> QED
        BY <3>4, <3>7
    <2> QED
      BY <2>2, <2>3
  <1>10. CASE Take
    <2>1. pc = "take" /\ pc' = "device" /\ event' = event
      BY <1>10 DEF Take, Doing
    <2> QED
      BY <1>3, <1>6, <1>7, <2>1, LeftIs
  <1>11. CASE PutDevice
    <2>1. pc = "device" /\ pc' = "arg" /\ event' = event
      BY <1>11 DEF PutDevice, Doing
    <2> QED
      BY <1>3, <1>6, <1>7, <2>1, LeftIs
  <1>12. CASE PutArg
    <2>1. pc = "arg" /\ Left = More + 1
      BY <1>12, LeftIs DEF PutArg, Doing
    <2>2. CASE pc' = "none"
      BY <1>3, <1>6, <2>1, <2>2
    <2>3. CASE pc' # "none"
      <3>1. pc' = "search" /\ event' = low /\ low.device # LOW_PRI_DEV
        BY <1>12, <2>3 DEF PutArg, Return
      <3>2. event.device = ALARM_DEV /\ event'.device # ALARM_DEV
        <4>1. /\ event \in Scheduled /\ low \in Scheduled
              /\ event.device < low.device
          BY <1>12, <3>1 DEF PutArg, Doing, StepTypes, RingInv
        <4>2. /\ event.device \in {1, 2, 3} /\ low.device \in {1, 2, 3}
              /\ low.device < 3
          BY <4>1, EventFacts DEF LOW_PRI_DEV, TERM_DEV
        <4> QED
          BY <3>1, <4>1, <4>2 DEF ALARM_DEV
      <3>3. More = QSize + 5 /\ More' = 0
        BY <3>2 DEF More
      <3> QED
        BY <1>3, <1>5, <1>6, <2>1, <3>1, <3>3
    <2> QED
      BY <2>2, <2>3
  <1> QED
    BY <1>1, <1>8, <1>9, <1>10, <1>11, <1>12

(* The loop of schedule_int comes to an end, if there is an end to come    *)
(* to: with the signals blocked a request that found a free slot returns,  *)
(* after so many steps at most as Left says when it begins.                *)
THEOREM RequestsReturn == Masked => (StepSpec => RequestsEnd)
  <1> SUFFICES ASSUME Masked
               PROVE  StepSpec => RequestsEnd
    OBVIOUS
  <1>1. ASSUME StepTypes, RingInv, [StepNext]_stepVars
        PROVE  [pc # "none" /\ ~Hopeless => Left' < Left]_stepVars
    BY <1>1, StepInvStep, LeftStep
  <1> QED
    BY <1>1, StepInvStays, PTL DEF StepSpec, RequestsEnd

============================================================================
