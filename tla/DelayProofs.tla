---------------------------- MODULE DelayProofs ----------------------------
(***************************************************************************)
(* How long the requests of the disks stay in the ring, for a ring of any  *)
(* size, any disks and any requests.                                       *)
(***************************************************************************)
EXTENDS DevicesProofs, FiniteSetTheorems

LEMMA Modulo ==
    /\ \A n \in 0 .. QSize - 1 : n % QSize = n
    /\ \A n \in -QSize .. -1 : n % QSize = n + QSize
    /\ \A n \in QSize .. 2 * QSize - 1 : n % QSize = n - QSize
  <1>1. QSize \in Nat /\ QSize > 0
    BY RingAssumption DEF MaxDelay
  <1>2. ASSUME NEW n \in 0 .. QSize - 1 PROVE n % QSize = n
    BY <1>1, <1>2
  <1>3. ASSUME NEW n \in -QSize .. -1 PROVE n % QSize = n + QSize
    BY <1>1, <1>3
  <1>4. ASSUME NEW n \in QSize .. 2 * QSize - 1 PROVE n % QSize = n - QSize
    BY <1>1, <1>4
  <1> QED
    BY <1>2, <1>3, <1>4

(* The slots, in the order in which they are reached.                      *)
LEMMA WaitIs ==
    ASSUME ptr \in Slots
    PROVE  \A s \in Slots : Wait(s) = IF s > ptr THEN s - ptr ELSE s - ptr + QSize
  <1> SUFFICES ASSUME NEW s \in Slots
               PROVE  Wait(s) = IF s > ptr THEN s - ptr ELSE s - ptr + QSize
    OBVIOUS
  <1>1. QSize \in Nat /\ QSize > 3 /\ s \in 0 .. QSize - 1 /\ ptr \in 0 .. QSize - 1
    BY RingAssumption DEF MaxDelay, Slots
  <1>2. Wait(s) = 1 + ((s - 1 - ptr) % QSize)
    BY DEF Wait, Ahead
  <1>3. CASE s > ptr
    <2>1. s - 1 - ptr \in 0 .. QSize - 1
      BY <1>1, <1>3
    <2>2. (s - 1 - ptr) % QSize = s - 1 - ptr
      BY <2>1, Modulo
    <2> QED
      BY <1>1, <1>2, <1>3, <2>2
  <1>4. CASE ~(s > ptr)
    <2>1. s - 1 - ptr \in -QSize .. -1
      BY <1>1, <1>4
    <2>2. (s - 1 - ptr) % QSize = s - 1 - ptr + QSize
      BY <2>1, Modulo
    <2> QED
      BY <1>1, <1>2, <1>4, <2>2
  <1> QED
    BY <1>3, <1>4

LEMMA AheadIs ==
    \A i, j \in Slots : Ahead(i, j) = IF j >= i THEN j - i ELSE j - i + QSize
  <1> SUFFICES ASSUME NEW i \in Slots, NEW j \in Slots
               PROVE  Ahead(i, j) = IF j >= i THEN j - i ELSE j - i + QSize
    OBVIOUS
  <1>1. QSize \in Nat /\ i \in 0 .. QSize - 1 /\ j \in 0 .. QSize - 1
    BY RingAssumption DEF Slots
  <1>2. IF j >= i THEN j - i \in 0 .. QSize - 1 ELSE j - i \in -QSize .. -1
    BY <1>1
  <1> QED
    BY <1>1, <1>2, Modulo DEF Ahead

(* Between two slots the distance round the ring is the difference of the  *)
(* waits, unless the pointer is passed on the way.                         *)
LEMMA Waits ==
    ASSUME ptr \in Slots
    PROVE  /\ \A s \in Slots : Wait(s) \in 1 .. QSize
           /\ \A i, j \in Slots :
                 /\ Wait(i) = Wait(j) => i = j
                 /\ Ahead(i, j) = IF Wait(j) >= Wait(i)
                                    THEN Wait(j) - Wait(i)
                                    ELSE Wait(j) - Wait(i) + QSize
           /\ \A n \in 1 .. QSize : \E s \in Slots : Wait(s) = n
  <1>1. QSize \in Nat /\ QSize > 3 /\ ptr \in 0 .. QSize - 1 /\ Slots = 0 .. QSize - 1
    BY RingAssumption DEF MaxDelay, Slots
  <1>2. \A s \in 0 .. QSize - 1 : s \in Int /\ Wait(s) \in 1 .. QSize
    BY <1>1, WaitIs
  <1>3. ASSUME NEW i \in Slots, NEW j \in Slots
        PROVE  /\ Wait(i) = Wait(j) => i = j
               /\ Ahead(i, j) = IF Wait(j) >= Wait(i)
                                  THEN Wait(j) - Wait(i)
                                  ELSE Wait(j) - Wait(i) + QSize
    <2>1. /\ Wait(i) = IF i > ptr THEN i - ptr ELSE i - ptr + QSize
          /\ Wait(j) = IF j > ptr THEN j - ptr ELSE j - ptr + QSize
          /\ Ahead(i, j) = IF j >= i THEN j - i ELSE j - i + QSize
          /\ i \in 0 .. QSize - 1 /\ j \in 0 .. QSize - 1
      BY <1>1, WaitIs, AheadIs
    <2> QED
      BY <1>1, <2>1
  <1>4. ASSUME NEW n \in 1 .. QSize
        PROVE  \E s \in Slots : Wait(s) = n
    <2> DEFINE s == IF ptr + n < QSize THEN ptr + n ELSE ptr + n - QSize
    <2>1. s \in 0 .. QSize - 1 /\ (IF s > ptr THEN s - ptr ELSE s - ptr + QSize) = n
      BY <1>1
    <2> QED
      BY <1>1, <2>1, WaitIs
  <1> QED
    BY <1>1, <1>2, <1>3, <1>4

(* A tick brings every slot one nearer but the one it takes out, which     *)
(* comes last.                                                             *)
LEMMA TickNearer ==
    ASSUME ptr \in Slots, ptr' = NextSlot
    PROVE  /\ NextSlot \in Slots /\ NextSlot # ptr
           /\ \A s \in Slots : Wait(s)' = IF s = NextSlot THEN QSize ELSE Wait(s) - 1
  <1>1. QSize \in Nat /\ QSize > 3 /\ ptr \in 0 .. QSize - 1 /\ Slots = 0 .. QSize - 1
    BY RingAssumption DEF MaxDelay, Slots
  <1>2. NextSlot = IF ptr + 1 < QSize THEN ptr + 1 ELSE 0
    <2>1. IF ptr + 1 < QSize THEN ptr + 1 \in 0 .. QSize - 1
                             ELSE ptr + 1 \in QSize .. 2 * QSize - 1
      BY <1>1
    <2> QED
      BY <1>1, <2>1, Modulo DEF NextSlot
  <1>3. NextSlot \in Slots /\ NextSlot # ptr
    BY <1>1, <1>2
  <1>4. /\ (ptr \in Slots)'
        /\ \A s \in Slots : Wait(s)' = 1 + ((s - 1 - ptr') % QSize)
    BY <1>3 DEF Wait, Ahead
  <1>5. \A s \in Slots : Wait(s)' = IF s > ptr' THEN s - ptr' ELSE s - ptr' + QSize
    <2>1. ASSUME NEW s \in Slots, NEW p \in Slots
          PROVE  1 + ((s - 1 - p) % QSize) = IF s > p THEN s - p ELSE s - p + QSize
      <3>1. p \in 0 .. QSize - 1 /\ s \in 0 .. QSize - 1
        BY <1>1
      <3>2. IF s > p THEN s - 1 - p \in 0 .. QSize - 1 ELSE s - 1 - p \in -QSize .. -1
        BY <1>1, <3>1
      <3>3. (s - 1 - p) % QSize = IF s > p THEN s - 1 - p ELSE s - 1 - p + QSize
        BY <3>2, Modulo
      <3> QED
        BY <1>1, <3>1, <3>3
    <2> QED
      BY <1>4, <2>1
  <1>6. ASSUME NEW s \in Slots
        PROVE  Wait(s)' = IF s = NextSlot THEN QSize ELSE Wait(s) - 1
    <2>1. /\ Wait(s)' = IF s > ptr' THEN s - ptr' ELSE s - ptr' + QSize
          /\ Wait(s) = IF s > ptr THEN s - ptr ELSE s - ptr + QSize
          /\ s \in 0 .. QSize - 1
      BY <1>1, <1>5, WaitIs
    <2> QED
      BY <1>1, <1>2, <2>1
  <1> QED
    BY <1>3, <1>6

-----------------------------------------------------------------------------
(* Nothing but the ring's slots that are taken keeps a request of a disk   *)
(* further away than the longest delay: every slot between that delay and  *)
(* the request has an event.                                               *)
NearInv ==
    \A u \in Disks, i, s \in Slots :
        queue[i] = DiskEvent(u) /\ MaxDelay <= Wait(s) /\ Wait(s) <= Wait(i) =>
            queue[s] # Idle

(* A disk answers after one to three ticks.                                *)
LEMMA DelayBounds ==
    ASSUME TypeOK, NEW u \in Disks, NEW r \in DiskRequests
    PROVE  Delay(u, r) \in 1 .. MaxDelay
  <1>1. r.reg1 \in Int /\ track[u] \in Int
    BY RequestsAssumption DEF TypeOK
  <1>2. Distance(track[u], r.reg1) \in Int
    BY <1>1 DEF Distance
  <1>3. Distance(track[u], r.reg1) % 10 \in 0 .. 9
    BY <1>2
  <1> QED
    BY <1>3 DEF Delay, MaxDelay

(* A slot asked for within the longest delay is that many ticks away.      *)
LEMMA AskedSlot ==
    ASSUME ptr \in Slots, NEW t \in 1 .. MaxDelay
    PROVE  (ptr + t) % QSize \in Slots /\ Wait((ptr + t) % QSize) = t
  <1>1. QSize \in Nat /\ QSize > 3 /\ ptr \in 0 .. QSize - 1 /\ t \in 1 .. 3
    BY RingAssumption DEF MaxDelay, Slots
  <1>2. (ptr + t) % QSize = IF ptr + t < QSize THEN ptr + t ELSE ptr + t - QSize
    <2>1. IF ptr + t < QSize THEN ptr + t \in 0 .. QSize - 1
                             ELSE ptr + t \in QSize .. 2 * QSize - 1
      BY <1>1
    <2> QED
      BY <1>1, <2>1, Modulo
  <1>3. (ptr + t) % QSize \in Slots
    BY <1>1, <1>2 DEF Slots
  <1> QED
    BY <1>1, <1>2, <1>3, WaitIs

(* What schedule_int does, seen from the pointer: the slots asked for and  *)
(* displaced from are passed over only if they are taken.                  *)
LEMMA NearSchedule ==
    ASSUME TypeOK, NearInv, NEW e \in Scheduled, NEW t \in Int, schedule_int(e, t),
           e.device = DISK_DEV => t \in 1 .. MaxDelay
    PROVE  NearInv'
  <1> DEFINE asked == (ptr + t) % QSize
  <1>1. asked \in Slots /\ ptr \in Slots /\ queue \in [Slots -> Events]
    BY Wraps, SlotIsInt DEF TypeOK
  <1>2. \A s \in Slots : Wait(s)' = Wait(s)
    BY DEF schedule_int, Wait, Ahead
  <1>3. CASE Full(queue)
    BY <1>2, <1>3 DEF schedule_int, NearInv
  <1>4. CASE ~Full(queue)
    <2>1. PICK j, k \in Slots : Takes(queue, asked, e, j, k)
      BY <1>1, <1>4, EnqueuePlaces
    <2>2. /\ queue[j].device > e.device
          /\ \A s \in Slots : Ahead(asked, s) < Ahead(asked, j) =>
                 queue[s].device <= e.device
          /\ \/ queue[j] = Idle /\ queue' = [queue EXCEPT ![j] = e]
             \/ /\ queue[j] # Idle /\ queue[k] = Idle /\ j # k
                /\ \A s \in Slots : Ahead(j, s) < Ahead(j, k) => queue[s] # Idle
                /\ queue' = [queue EXCEPT ![j] = e, ![k] = queue[j]]
      BY <1>4, <2>1 DEF schedule_int, Takes
    <2> HIDE DEF asked
    <2>3. e # Idle /\ e \in Events
      BY EventFacts DEF Idle, LOW_PRI_DEV, TERM_DEV
    <2>4. \A s \in Slots : queue[s] # Idle => queue'[s] # Idle
      BY <1>1, <2>2, <2>3
    <2> SUFFICES ASSUME NEW u \in Disks, NEW i \in Slots, NEW s \in Slots,
                        queue'[i] = DiskEvent(u),
                        MaxDelay <= Wait(s), Wait(s) <= Wait(i)
                 PROVE  queue'[s] # Idle
      BY <1>2 DEF NearInv
    <2>5. CASE queue[i] = DiskEvent(u)
      BY <2>4, <2>5 DEF NearInv
    <2>6. CASE queue[i] # DiskEvent(u) /\ i = j
      <3>1. e = DiskEvent(u)
        BY <1>1, <2>2, <2>6
      <3>2. t \in 1 .. MaxDelay /\ e.device = 2
        BY <3>1 DEF DiskEvent, DISK_DEV
      <3>3. Wait(asked) = t
        BY <1>1, <3>2, AskedSlot DEF asked
      <3>4. CASE s = j
        BY <1>1, <2>2, <2>3, <3>4
      <3>5. CASE s # j
        <4>1. /\ Wait(asked) \in 1 .. QSize /\ Wait(s) \in 1 .. QSize
              /\ Wait(j) \in 1 .. QSize /\ Wait(s) # Wait(j)
              /\ Ahead(asked, s) = IF Wait(s) >= Wait(asked)
                                     THEN Wait(s) - Wait(asked)
                                     ELSE Wait(s) - Wait(asked) + QSize
              /\ Ahead(asked, j) = IF Wait(j) >= Wait(asked)
                                     THEN Wait(j) - Wait(asked)
                                     ELSE Wait(j) - Wait(asked) + QSize
          BY <1>1, <3>5, Waits
        <4>2. Ahead(asked, s) < Ahead(asked, j)
          BY <2>6, <3>2, <3>3, <4>1, RingAssumption DEF MaxDelay
        <4>3. queue[s].device <= 2
          BY <2>2, <3>2, <4>2
        <4>4. queue[s] # Idle
          BY <4>3 DEF Idle, LOW_PRI_DEV, TERM_DEV
        <4> QED
          BY <2>4, <4>4
      <3> QED
        BY <3>4, <3>5
    <2>7. CASE queue[i] # DiskEvent(u) /\ i # j
      <3>1. /\ i = k /\ queue[j] = DiskEvent(u)
            /\ \A x \in Slots : Ahead(j, x) < Ahead(j, k) => queue[x] # Idle
        BY <1>1, <2>2, <2>7
      <3>2. CASE s = k
        BY <3>1, <3>2, EventFacts
      <3>3. CASE s # k
        <4>1. /\ Wait(j) \in 1 .. QSize /\ Wait(s) \in 1 .. QSize
              /\ Wait(k) \in 1 .. QSize /\ Wait(s) # Wait(k)
              /\ Ahead(j, s) = IF Wait(s) >= Wait(j) THEN Wait(s) - Wait(j)
                                                     ELSE Wait(s) - Wait(j) + QSize
              /\ Ahead(j, k) = IF Wait(k) >= Wait(j) THEN Wait(k) - Wait(j)
                                                     ELSE Wait(k) - Wait(j) + QSize
          BY <1>1, <3>3, Waits
        <4>2. CASE Wait(s) <= Wait(j)
          BY <2>4, <3>1, <4>2 DEF NearInv
        <4>3. CASE Wait(s) > Wait(j)
          <5>1. Ahead(j, s) < Ahead(j, k)
            BY <3>1, <4>1, <4>3
          <5> QED
            BY <2>4, <3>1, <5>1
        <4> QED
          BY <4>1, <4>2, <4>3
      <3> QED
        BY <3>2, <3>3
    <2> QED
      BY <2>5, <2>6, <2>7
  <1> QED
    BY <1>3, <1>4

LEMMA NearTick == TypeOK /\ NearInv /\ Advance => NearInv'
  <1> SUFFICES ASSUME TypeOK, NearInv, Advance,
                      NEW u \in Disks, NEW i \in Slots, NEW s \in Slots,
                      queue'[i] = DiskEvent(u),
                      MaxDelay <= Wait(s)', Wait(s)' <= Wait(i)'
               PROVE  queue'[s] # Idle
    BY DEF NearInv
  <1>1. /\ ptr \in Slots /\ queue \in [Slots -> Events]
        /\ queue' = [queue EXCEPT ![NextSlot] = Idle]
        /\ \A x \in Slots : Wait(x)' = IF x = NextSlot THEN QSize ELSE Wait(x) - 1
    BY TickNearer DEF TypeOK, Advance
  <1>2. i # NextSlot /\ queue[i] = DiskEvent(u)
    BY <1>1, EventFacts
  <1>3. Wait(i) \in 1 .. QSize /\ Wait(s) \in 1 .. QSize
    BY <1>1, Waits
  <1>4. s # NextSlot
    BY <1>1, <1>2, <1>3, RingAssumption
  <1>5. MaxDelay <= Wait(s) /\ Wait(s) <= Wait(i)
    BY <1>1, <1>2, <1>3, <1>4 DEF MaxDelay
  <1> QED
    BY <1>1, <1>2, <1>4, <1>5 DEF NearInv

LEMMA NearStep == TypeOK /\ NearInv /\ [Next]_vars => NearInv'
  <1> SUFFICES ASSUME TypeOK, NearInv, [Next]_vars
               PROVE  NearInv'
    OBVIOUS
  <1>1. ASSUME NEW time \in AlarmTimes, alarm_request(time)
        PROVE  NearInv'
    <2>1. time \in Int /\ AlarmEvent \in Scheduled /\ AlarmEvent.device # DISK_DEV
      BY RequestsAssumption DEF Scheduled, AlarmEvent, ALARM_DEV, DISK_DEV
    <2> QED
      BY <1>1, <2>1, NearSchedule DEF alarm_request
  <1>2. ASSUME NEW u \in Disks, NEW r \in DiskRequests, disk_request(u, r)
        PROVE  NearInv'
    BY <1>2, DelayBounds, DelayIsInt, DiskEventsScheduled, NearSchedule DEF disk_request
  <1>3. CASE Advance
    BY <1>3, NearTick
  <1>4. CASE UNCHANGED ring
    BY <1>4 DEF NearInv, ring, Wait, Ahead
  <1> QED
    BY <1>1, <1>2, <1>3, <1>4
    DEF Next, DeviceCall, dispatch_int, Ended, disk_get_status, term_request,
        term_get_status, clock_tick, alarm_action, disk_action, term_action, ring, vars

LEMMA NearStays == Spec => []NearInv
  <1>1. Init => NearInv
    BY EventFacts DEF Init, NearInv
  <1> QED
    BY <1>1, NearStep, TypeCorrect, PTL DEF Spec

(* A request of a disk is as far away as its own delay and one tick for    *)
(* every other event: the slots in between all have one.                   *)
THEOREM DisksNear == Spec => []DisksStayNear
  <1>1. TypeOK /\ NearInv => DisksStayNear
    <2> SUFFICES ASSUME TypeOK, NearInv, NEW u \in Disks, NEW i \in Slots,
                        queue[i] = DiskEvent(u)
                 PROVE  Wait(i) <= MaxDelay
                                   + Cardinality({j \in Slots : queue[j] # Idle}) - 1
      BY DEF DisksStayNear
    <2> DEFINE Taken == {j \in Slots : queue[j] # Idle}
               W     == Wait(i)
    <2>1. ptr \in Slots /\ QSize \in Nat
      BY RingAssumption DEF TypeOK
    <2>2. IsFiniteSet(Taken) /\ Cardinality(Taken) \in Nat
      <3>1. IsFiniteSet(0 .. QSize - 1)
        BY <2>1, FS_Interval
      <3>2. Taken \in SUBSET (0 .. QSize - 1)
        BY DEF Slots
      <3> HIDE DEF Taken
      <3>3. IsFiniteSet(Taken)
        BY <3>1, <3>2, FS_Subset
      <3> QED
        BY <3>3, FS_CardinalityType
    <2>3. W \in 1 .. QSize
      BY <2>1, Waits
    <2>4. CASE W <= MaxDelay
      <3>1. i \in Taken
        BY EventFacts
      <3>2. Cardinality(Taken) # 0
        BY <2>2, <3>1, FS_EmptySet
      <3> HIDE DEF Taken, W
      <3>3. W <= MaxDelay + Cardinality(Taken) - 1
        BY <2>2, <2>3, <2>4, <3>2 DEF MaxDelay
      <3> QED
        BY <3>3 DEF Taken, W
    <2>5. CASE W > MaxDelay
      <3> DEFINE Far == MaxDelay .. W
                 at  == [n \in Far |-> CHOOSE s \in Slots : Wait(s) = n]
      <3>1. \A n \in Far : n \in 1 .. QSize
        BY <2>1, <2>3 DEF MaxDelay
      <3>2. \A n \in Far : at[n] \in Slots /\ Wait(at[n]) = n
        BY <2>1, <3>1, Waits
      <3>3. \A n \in Far : MaxDelay <= n /\ n <= W
        BY <2>3 DEF MaxDelay
      <3>4. \A n \in Far : at[n] \in Taken
        BY <3>2, <3>3 DEF NearInv
      <3>5. at \in Injection(Far, Taken)
        <4>1. at \in [Far -> Taken]
          BY <3>4
        <4>2. \A m, n \in Far : at[m] = at[n] => m = n
          BY <3>2
        <4> QED
          BY <4>1, <4>2 DEF Injection, IsInjective
      <3> HIDE DEF at, Taken
      <3>6. Cardinality(Far) <= Cardinality(Taken)
        BY <2>2, <3>5, FS_Injection
      <3>7. Cardinality(Far) = W - MaxDelay + 1
        <4>1. MaxDelay \in Int /\ W \in Int /\ ~(MaxDelay > W)
          BY <2>3, <2>5 DEF MaxDelay
        <4> HIDE DEF W
        <4> QED
          BY <4>1, FS_Interval
      <3> HIDE DEF W, Far
      <3>8. W <= MaxDelay + Cardinality(Taken) - 1
        BY <2>2, <2>3, <3>6, <3>7 DEF MaxDelay
      <3> QED
        BY <3>8 DEF Taken, W
    <2> QED
      BY <2>3, <2>4, <2>5 DEF MaxDelay
  <1> QED
    BY <1>1, NearStays, TypeCorrect, PTL DEF Spec

-----------------------------------------------------------------------------
(* A ring with more slots than there can be events.  schedule_int looks on *)
(* round the ring, so that an event that finds no slot before the pointer  *)
(* would come out too early.                                               *)
RoomForAll == IsFiniteSet(Disks) /\ Cardinality(Disks) + MaxDelay < QSize

LEMMA FewEvents ==
    ASSUME IsFiniteSet(Disks)
    PROVE  /\ IsFiniteSet(Scheduled)
           /\ Cardinality(Scheduled) <= Cardinality(Disks) + 1
           /\ Cardinality(Scheduled) \in Nat /\ Cardinality(Disks) \in Nat
  <1> DEFINE DiskEvents == {DiskEvent(u) : u \in Disks}
             f == [u \in Disks |-> DiskEvent(u)]
  <1>1. f \in Surjection(Disks, DiskEvents)
    BY DEF Surjection
  <1> HIDE DEF f, DiskEvents
  <1>2. IsFiniteSet(DiskEvents) /\ Cardinality(DiskEvents) <= Cardinality(Disks)
    BY <1>1, FS_Surjection
  <1>3. Scheduled = DiskEvents \cup {AlarmEvent}
    BY DEF Scheduled, DiskEvents
  <1>4. Cardinality(Disks) \in Nat /\ Cardinality(DiskEvents) \in Nat
    BY <1>2, FS_CardinalityType
  <1>5. /\ IsFiniteSet(Scheduled)
        /\ Cardinality(Scheduled) = IF AlarmEvent \in DiskEvents
                                      THEN Cardinality(DiskEvents)
                                      ELSE Cardinality(DiskEvents) + 1
    BY <1>2, <1>3, FS_AddElement
  <1> QED
    BY <1>2, <1>4, <1>5

(* No event is in the ring twice, however the simulator has ended.         *)
NoTwins == \A e \in Scheduled : Once(queue, e) \/ Absent(queue, e)

(* If no event is in the ring twice, some slot beyond the longest delay is *)
(* free.                                                                   *)
LEMMA RoomBeyond ==
    ASSUME RoomForAll, ptr \in Slots, queue \in [Slots -> Events], NoTwins
    PROVE  \E s \in Slots : MaxDelay <= Wait(s) /\ queue[s] = Idle
  <1> SUFFICES ASSUME \A s \in Slots : MaxDelay <= Wait(s) => queue[s] # Idle
               PROVE  FALSE
    OBVIOUS
  <1> DEFINE Far  == MaxDelay .. QSize
             at   == [n \in Far |-> CHOOSE s \in Slots : Wait(s) = n]
             what == [n \in Far |-> queue[at[n]]]
  <1>1. QSize \in Nat /\ QSize > MaxDelay /\ MaxDelay = 3
    BY RingAssumption DEF MaxDelay
  <1>2. \A n \in Far : n \in 1 .. QSize /\ MaxDelay <= n
    BY <1>1
  <1>3. \A n \in Far : at[n] \in Slots /\ Wait(at[n]) = n
    BY <1>2, Waits
  <1>4. \A n \in Far : queue[at[n]] \in Scheduled
    BY <1>2, <1>3 DEF Scheduled, Events
  <1>5. ASSUME NEW m \in Far, NEW n \in Far, what[m] = what[n]
        PROVE  m = n
    <2>1. queue[at[m]] = queue[at[n]] /\ at[m] \in Slots /\ at[n] \in Slots
      BY <1>3, <1>5
    <2>2. at[m] = at[n]
      BY <1>4, <2>1 DEF NoTwins, Once, Absent
    <2> QED
      BY <1>3, <2>2
  <1>6. what \in Injection(Far, Scheduled)
    BY <1>4, <1>5 DEF Injection, IsInjective
  <1> HIDE DEF what, at
  <1>7. Cardinality(Far) <= Cardinality(Scheduled)
    BY <1>6, FewEvents, FS_Injection DEF RoomForAll
  <1>8. Cardinality(Far) = QSize - MaxDelay + 1
    BY <1>1, FS_Interval
  <1> HIDE DEF Far
  <1> QED
    BY <1>1, <1>7, <1>8, FewEvents DEF RoomForAll

LEMMA PutOffSchedule ==
    ASSUME RoomForAll, TypeOK, NearInv, NoTwins,
           NEW e \in Scheduled, NEW t \in Int, schedule_int(e, t),
           NEW u \in Disks, NEW i \in Slots, NEW j \in Slots,
           e # DiskEvent(u), queue[i] = DiskEvent(u), queue'[j] = DiskEvent(u)
    PROVE  ptr' = ptr /\ Wait(j)' >= Wait(i)
  <1> DEFINE asked == (ptr + t) % QSize
  <1>1. asked \in Slots /\ ptr \in Slots /\ queue \in [Slots -> Events]
    BY Wraps, SlotIsInt DEF TypeOK
  <1>2. ptr' = ptr /\ Wait(j)' = Wait(j)
    BY DEF schedule_int, Wait, Ahead
  <1>3. Wait(i) \in 1 .. QSize /\ Wait(j) \in 1 .. QSize
    BY <1>1, Waits
  <1>4. \A s \in Slots : queue[s] = DiskEvent(u) => s = i
    BY DiskEventsScheduled DEF NoTwins, Once, Absent
  <1>5. CASE i = j
    BY <1>2, <1>3, <1>5
  <1>6. CASE i # j
    <2>1. ~Full(queue)
      BY <1>4, <1>6 DEF schedule_int
    <2>2. PICK a, b \in Slots : Takes(queue, asked, e, a, b)
      BY <1>1, <2>1, EnqueuePlaces
    <2>3. \/ queue' = [queue EXCEPT ![a] = e]
          \/ /\ \A s \in Slots : Ahead(a, s) < Ahead(a, b) => queue[s] # Idle
             /\ queue' = [queue EXCEPT ![a] = e, ![b] = queue[a]]
      BY <2>1, <2>2 DEF schedule_int, Takes
    <2>4. /\ a = i /\ b = j
          /\ \A s \in Slots : Ahead(i, s) < Ahead(i, j) => queue[s] # Idle
      BY <1>1, <1>4, <1>6, <2>3
    <2>5. PICK s \in Slots : MaxDelay <= Wait(s) /\ queue[s] = Idle
      BY <1>1, RoomBeyond
    <2>6. Wait(s) > Wait(i)
      BY <1>1, <1>3, <2>5, Waits DEF NearInv
    <2>7. ~(Ahead(i, s) < Ahead(i, j))
      BY <2>4, <2>5
    <2>8. /\ Wait(s) \in 1 .. QSize /\ QSize \in Nat
          /\ Ahead(i, s) = Wait(s) - Wait(i)
          /\ Ahead(i, j) = IF Wait(j) >= Wait(i) THEN Wait(j) - Wait(i)
                                                 ELSE Wait(j) - Wait(i) + QSize
      BY <1>1, <1>3, <2>6, Waits, RingAssumption
    <2> QED
      BY <1>2, <1>3, <2>6, <2>7, <2>8
  <1> QED
    BY <1>5, <1>6

LEMMA NoTwinsStep ==
    ASSUME TypeOK, NoTwins, EventInv', ArmedInv', [Next]_vars
    PROVE  NoTwins'
  <1>1. CASE Running'
    <2>1. \A v \in Disks : Once(queue', DiskEvent(v)) \/ Absent(queue', DiskEvent(v))
      BY <1>1 DEF EventInv
    <2>2. Once(queue', AlarmEvent) \/ Absent(queue', AlarmEvent)
      BY <1>1 DEF ArmedInv
    <2> QED
      BY <2>1, <2>2 DEF NoTwins, Scheduled
  <1>2. CASE UNCHANGED queue
    BY <1>2 DEF NoTwins, Once, Absent
  <1>3. CASE Advance
    <2>1. /\ queue \in [Slots -> Events] /\ NextSlot \in Slots
          /\ queue' = [queue EXCEPT ![NextSlot] = Idle]
      BY <1>3, AdvanceTypes DEF Advance, TypeOK
    <2> SUFFICES ASSUME NEW e \in Scheduled
                 PROVE  Once(queue', e) \/ Absent(queue', e)
      BY DEF NoTwins
    <2>2. Once(queue, e) \/ Absent(queue, e)
      BY DEF NoTwins
    <2>3. CASE e = queue[NextSlot]
      BY <2>1, <2>2, <2>3, ClearConserves DEF Absent
    <2>4. CASE e # queue[NextSlot]
      BY <2>1, <2>2, <2>4, ClearConserves
    <2> QED
      BY <2>3, <2>4
  <1>4. ASSUME NEW e, NEW t, Running, schedule_int(e, t)
        PROVE  Running' \/ UNCHANGED queue
    BY <1>4 DEF schedule_int, Running
  <1> QED
    BY <1>1, <1>2, <1>3, <1>4
    DEF Next, DeviceCall, dispatch_int, Ended, alarm_request, disk_request,
        disk_get_status, term_request, term_get_status, clock_tick, alarm_action,
        disk_action, term_action, ring, vars

LEMMA PutOffStep ==
    ASSUME RoomForAll, TypeOK, NearInv, EventInv, NoTwins, [Next]_vars,
           NEW u \in Disks, NEW i \in Slots, NEW j \in Slots,
           queue[i] = DiskEvent(u), queue'[j] = DiskEvent(u)
    PROVE  Wait(j)' >= (IF ptr' = ptr THEN Wait(i) ELSE Wait(i) - 1)
  <1>1. ptr \in Slots /\ queue \in [Slots -> Events]
    BY DEF TypeOK
  <1>2. \A s \in Slots : Wait(s) \in 1 .. QSize
    BY <1>1, Waits
  <1>3. \A s \in Slots : queue[s] = DiskEvent(u) => s = i
    BY DiskEventsScheduled DEF NoTwins, Once, Absent
  <1>4. ASSUME NEW time \in AlarmTimes, alarm_request(time)
        PROVE  ptr' = ptr /\ Wait(j)' >= Wait(i)
    <2>1. /\ time \in Int /\ AlarmEvent \in Scheduled /\ AlarmEvent # DiskEvent(u)
          /\ Running /\ schedule_int(AlarmEvent, time)
      BY <1>4, EventFacts, RequestsAssumption DEF Scheduled, alarm_request
    <2> QED
      BY <1>3, <2>1, PutOffSchedule
  <1>5. ASSUME NEW v \in Disks, NEW r \in DiskRequests, disk_request(v, r)
        PROVE  ptr' = ptr /\ Wait(j)' >= Wait(i)
    <2>1. /\ Running /\ status[v] # "BUSY" /\ schedule_int(DiskEvent(v), Delay(v, r))
          /\ Delay(v, r) \in Int /\ DiskEvent(v) \in Scheduled
      BY <1>5, DelayIsInt, DiskEventsScheduled DEF disk_request, Refused
    <2>2. DiskEvent(v) # DiskEvent(u)
      BY <2>1 DEF EventInv, Absent
    <2> QED
      BY <1>3, <2>1, <2>2, PutOffSchedule
  <1>6. CASE Advance
    <2>1. /\ Running /\ ptr' = NextSlot /\ queue' = [queue EXCEPT ![NextSlot] = Idle]
          /\ NextSlot \in Slots /\ NextSlot # ptr
          /\ \A s \in Slots : Wait(s)' = IF s = NextSlot THEN QSize ELSE Wait(s) - 1
      BY <1>1, <1>6, TickNearer DEF Advance
    <2>2. j # NextSlot /\ queue[j] = DiskEvent(u)
      BY <1>1, <2>1, EventFacts
    <2>3. j = i
      BY <1>3, <2>1, <2>2
    <2> QED
      BY <1>2, <2>1, <2>2, <2>3
  <1>7. CASE UNCHANGED ring
    <2>1. ptr' = ptr /\ j = i /\ Wait(j)' = Wait(j)
      BY <1>3, <1>7 DEF ring, Wait, Ahead
    <2> QED
      BY <1>2, <2>1
  <1> QED
    BY <1>2, <1>4, <1>5, <1>6, <1>7
    DEF Next, DeviceCall, dispatch_int, Ended, disk_get_status, term_request,
        term_get_status, clock_tick, alarm_action, disk_action, term_action, ring, vars

(* With one alarm at a time and room for all events, no request of a disk  *)
(* is ever brought forward: whatever is asked for later, it comes at the   *)
(* tick it was expected or after it.                                       *)
THEOREM DisksPutOff == Polite /\ RoomForAll => (Spec => OnlyPutOff)
  <1> SUFFICES ASSUME Polite, RoomForAll
               PROVE  Spec => OnlyPutOff
    OBVIOUS
  <1>1. Init => NoTwins
    BY EventFacts DEF Init, NoTwins, Absent, Idle, LOW_PRI_DEV, TERM_DEV
  <1>2. Spec => []NoTwins
    BY <1>1, NoTwinsStep, EventsStay, ArmedStays, TypeCorrect, PTL DEF Spec
  <1>3. TypeOK /\ NearInv /\ EventInv /\ NoTwins /\ [Next]_vars =>
           [\A u \in Disks, i, j \in Slots :
              queue[i] = DiskEvent(u) /\ queue'[j] = DiskEvent(u) =>
                 Wait(j)' >= (IF ptr' = ptr THEN Wait(i) ELSE Wait(i) - 1)]_vars
    BY PutOffStep
  <1> QED
    BY <1>2, <1>3, NearStays, EventsStay, TypeCorrect, PTL DEF Spec, OnlyPutOff
=============================================================================
