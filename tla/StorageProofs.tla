--------------------------- MODULE StorageProofs ---------------------------
(***************************************************************************)
(* The simulated disks implement the abstract ones, for any number of      *)
(* disks of any sizes, any buffers and contents, and any other devices.    *)
(***************************************************************************)
EXTENDS StorageProperties, DevicesProofs

(* The three layers of what a reachable state satisfies: the devices', the *)
(* shape of the files, and the requests in progress.                       *)
DevicesInv == TypeOK /\ HeadOnDisk /\ EventInv

FilesInv ==
    /\ file = [u \in Disks |-> file[u]]
    /\ \A u \in Disks : file[u] = [i \in Sectors(u) |-> file[u][i]]

RequestsInv ==
    /\ buffer \in [Disks -> Buffers]
    /\ \A u \in Disks : Transfers(u) => request[u].reg1 >= 0

StInv == DevicesInv /\ FilesInv /\ RequestsInv

(* Starting again is starting.                                             *)
LEMMA BootIsInit == Boot => Init'
  BY DEF Boot, Init

LEMMA InitDevices == Init => DevicesInv
  BY TypeInit, EventsInit, UnitsAssumption DEF Init, HeadOnDisk, DevicesInv

LEMMA BootDevices == Boot => DevicesInv'
  <1>1. (Init => DevicesInv)'
    BY InitDevices, PTL
  <1> QED
    BY <1>1, BootIsInit

(* The steps of Storage are steps of the devices, but for Fill.            *)
LEMMA StepOfDevices ==
    StorageNext => \/ DeviceCall \/ dispatch_int
                   \/ \E b \in Buffers, v \in Contents : Fill(b, v)
                   \/ Boot
  BY DEF StorageNext, Request, Complete, OtherStep, Restart, DeviceCall, dispatch_int

LEMMA FillKeepsDevices ==
    ASSUME DevicesInv, NEW b, NEW v, Fill(b, v)
    PROVE  DevicesInv'
  <1>1. UNCHANGED <<queue, ptr, tick, armed, status, track, request, xmit, recv,
                    control, poll, fate>> /\ intr' = Quiet
    BY DEF Fill, ring, disk, term
  <1>2. TypeOK'
    BY <1>1, QuietType DEF DevicesInv, TypeOK
  <1>3. HeadOnDisk' /\ EventInv'
    BY <1>1 DEF DevicesInv, HeadOnDisk, EventInv, Running, Once, Absent
  <1> QED
    BY <1>2, <1>3 DEF DevicesInv

LEMMA StepKeepsDevices == DevicesInv /\ [StorageNext]_allVars => DevicesInv'
  <1> SUFFICES ASSUME DevicesInv, [StorageNext]_allVars
               PROVE  DevicesInv'
    OBVIOUS
  <1>1. CASE DeviceCall
    BY <1>1, CallTypes, HeadStep, EventsCall DEF DevicesInv, Next
  <1>2. CASE dispatch_int
    BY <1>2, DispatchTypes, HeadStep, EventsDispatch DEF DevicesInv, Next
  <1>3. CASE UNCHANGED allVars
    BY <1>3 DEF DevicesInv, TypeOK, HeadOnDisk, EventInv, Running, Once, Absent,
                allVars, vars
  <1> QED
    BY <1>1, <1>2, <1>3, FillKeepsDevices, BootDevices, StepOfDevices

LEMMA StepKeepsFiles == FilesInv /\ [StorageNext]_allVars => FilesInv'
  <1> SUFFICES ASSUME FilesInv, [StorageNext]_allVars
               PROVE  FilesInv'
    OBVIOUS
  <1>1. CASE UNCHANGED file
    BY <1>1 DEF FilesInv
  <1>2. ASSUME NEW u \in Disks, file' = Written(u)
        PROVE  FilesInv'
    BY <1>2 DEF FilesInv, Written
  <1>3. ASSUME NEW created, Restart(created)
        PROVE  FilesInv'
    BY <1>3 DEF FilesInv, Restart, BlankFile
  <1> QED
    BY <1>1, <1>2, <1>3
    DEF StorageNext, Request, Complete, OtherStep, Fill, allVars, storage

LEMMA StepKeepsRequests == RequestsInv /\ [StorageNext]_allVars => RequestsInv'
  <1> SUFFICES ASSUME RequestsInv, [StorageNext]_allVars
               PROVE  RequestsInv'
    OBVIOUS
  <1>1. CASE UNCHANGED <<request, buffer>>
    BY <1>1 DEF RequestsInv, Transfers
  <1>2. ASSUME NEW u \in Disks, NEW r \in DiskRequests, NEW b \in Buffers, Request(u, r, b)
        PROVE  RequestsInv'
    <2>1. request' = [request EXCEPT ![u] = r] /\ buffer' = [buffer EXCEPT ![u] = b]
      BY <1>2 DEF Request, disk_request
    <2>2. r.op \in {"READ", "WRITE"} => r.reg1 >= 0
      BY SectorsAssumption
    <2> QED
      BY <2>1, <2>2 DEF RequestsInv, Transfers
  <1>3. ASSUME NEW created, Restart(created)
        PROVE  RequestsInv'
    BY <1>3 DEF Restart, Boot, RequestsInv, Transfers
  <1>4. CASE OtherStep
    BY <1>1, <1>4 DEF OtherStep, clock_tick, alarm_action, term_action, alarm_request,
                 disk_get_status, term_request, term_get_status, Advance, disk, storage
  <1> QED
    BY <1>1, <1>2, <1>3, <1>4
    DEF StorageNext, Complete, disk_action, Fill, disk, allVars, vars, storage

LEMMA StorageInvariant == StorageSpec => []StInv
  <1>1. StorageInit => StInv
    BY InitDevices DEF StorageInit, Init, StInv, FilesInv, RequestsInv, BlankFile, Transfers
  <1>2. StInv /\ [StorageNext]_allVars => StInv'
    BY StepKeepsDevices, StepKeepsFiles, StepKeepsRequests DEF StInv
  <1> QED
    BY <1>1, <1>2, PTL DEF StorageSpec

-----------------------------------------------------------------------------
(* The sectors of a disk are apart in its file.                            *)

LEMMA MultiplesGrow ==
    ASSUME NEW k \in Nat, NEW a \in Int, NEW b \in Int, a <= b
    PROVE  a * k <= b * k
  <1>1. (b - a) * k >= 0
    BY SMT
  <1>2. (b - a) * k = b * k - a * k
    BY SMT
  <1> QED
    BY <1>1, <1>2, SMT

LEMMA SectorsApart ==
    ASSUME NEW t1 \in Int, NEW s1 \in 0 .. TrackSize - 1,
           NEW t2 \in Int, NEW s2 \in 0 .. TrackSize - 1,
           t1 * TrackSize + s1 = t2 * TrackSize + s2
    PROVE  t1 = t2 /\ s1 = s2
  <1>1. TrackSize \in Nat
    BY UnitsAssumption
  <1>2. ASSUME NEW a \in Int, NEW r \in 0 .. TrackSize - 1,
               NEW b \in Int, NEW s \in 0 .. TrackSize - 1, a < b
        PROVE  a * TrackSize + r < b * TrackSize + s
    <2>1. (a + 1) * TrackSize <= b * TrackSize
      BY <1>1, <1>2, MultiplesGrow
    <2>2. (a + 1) * TrackSize = a * TrackSize + TrackSize
      BY <1>1, SMT
    <2>3. a * TrackSize \in Int /\ b * TrackSize \in Int
      BY <1>1, SMT
    <2> QED
      BY <1>1, <2>1, <2>2, <2>3
  <1>3. ~(t1 < t2) /\ ~(t2 < t1)
    <2>1. t1 * TrackSize \in Int /\ t2 * TrackSize \in Int
      BY <1>1, SMT
    <2> QED
      BY <1>1, <1>2, <2>1
  <1>4. t1 * TrackSize \in Int
    BY <1>1, SMT
  <1> QED
    BY <1>1, <1>3, <1>4

LEMMA SectorOnDisk ==
    ASSUME NEW u \in Disks, NEW t \in 0 .. Tracks[u] - 1, NEW s \in 0 .. TrackSize - 1
    PROVE  t * TrackSize + s \in Sectors(u)
  <1>1. TrackSize \in Nat /\ Tracks[u] \in Nat
    BY UnitsAssumption
  <1>2. (t + 1) * TrackSize <= Tracks[u] * TrackSize
    BY <1>1, MultiplesGrow
  <1>3. (t + 1) * TrackSize = t * TrackSize + TrackSize
    BY <1>1, SMT
  <1>4. 0 * TrackSize <= t * TrackSize
    BY <1>1, MultiplesGrow
  <1>5. 0 * TrackSize = 0 /\ t * TrackSize \in Int /\ Tracks[u] * TrackSize \in Int
    BY <1>1, SMT
  <1> QED
    BY <1>1, <1>2, <1>3, <1>4, <1>5 DEF Sectors

FileWrite(u, i, v)    == file' = [file EXCEPT ![u][i] = v]
DataWrite(u, t, s, v) == Data' = [Data EXCEPT ![u][t][s] = v]

(* A write to the file is a write to that sector of that track.            *)
LEMMA WriteIsSector ==
    ASSUME FilesInv, NEW u \in Disks, NEW t \in 0 .. Tracks[u] - 1,
           NEW s \in 0 .. TrackSize - 1, NEW v,
           FileWrite(u, t * TrackSize + s, v)
    PROVE  DataWrite(u, t, s, v)
  <1>1. ASSUME NEW w \in Disks, w # u
        PROVE  file'[w] = file[w]
    BY <1>1 DEF FilesInv, FileWrite
  <1>2. file'[u] = [file[u] EXCEPT ![t * TrackSize + s] = v]
    BY DEF FilesInv, FileWrite
  <1>3. ASSUME NEW a \in 0 .. Tracks[u] - 1, NEW b \in 0 .. TrackSize - 1
        PROVE  file'[u][a * TrackSize + b] =
                 IF a = t /\ b = s THEN v ELSE file[u][a * TrackSize + b]
    <2>1. Tracks[u] \in Nat /\ TrackSize \in Nat
      BY UnitsAssumption
    <2>2. a * TrackSize + b = t * TrackSize + s => a = t /\ b = s
      BY <2>1, SectorsApart
    <2>3. a * TrackSize + b \in Sectors(u)
      BY SectorOnDisk
    <2>4. file[u] = [i \in Sectors(u) |-> file[u][i]]
      BY DEF FilesInv
    <2> QED
      BY <1>2, <2>2, <2>3, <2>4
  <1> DEFINE Row(w, a) == [b \in 0 .. TrackSize - 1 |-> file[w][a * TrackSize + b]]
             Whole(w)  == [a \in 0 .. Tracks[w] - 1 |-> Row(w, a)]
             NewRow    == [b \in 0 .. TrackSize - 1 |->
                             IF b = s THEN v ELSE file[u][t * TrackSize + b]]
             NewDisk   == [a \in 0 .. Tracks[u] - 1 |-> IF a = t THEN NewRow ELSE Row(u, a)]
  <1>4. Row(u, t)' = NewRow
    BY <1>3
  <1>5. ASSUME NEW a \in 0 .. Tracks[u] - 1, a # t
        PROVE  Row(u, a)' = Row(u, a)
    BY <1>3, <1>5
  <1>6. Whole(u)' = NewDisk
    <2> HIDE DEF Row, NewRow
    <2> QED
      BY <1>4, <1>5
  <1>7. ASSUME NEW w \in Disks, w # u
        PROVE  Whole(w)' = Whole(w)
    BY <1>1, <1>7
  <1>8. Data = [w \in Disks |-> Whole(w)] /\ Data' = [w \in Disks |-> Whole(w)']
    BY DEF Data
  <1>9. Data' = [Data EXCEPT ![u] = NewDisk]
    <2> HIDE DEF Whole, NewDisk
    <2> QED
      BY <1>6, <1>7, <1>8
  <1>10. Data[u] = Whole(u) /\ Whole(u)[t] = Row(u, t)
    BY DEF Data
  <1>11. NewDisk = [Whole(u) EXCEPT ![t] = NewRow]
    <2> HIDE DEF Row, NewRow
    <2> QED
      OBVIOUS
  <1>12. NewRow = [Row(u, t) EXCEPT ![s] = v]
    OBVIOUS
  <1>13. Data' = [Data EXCEPT ![u] = [Data[u] EXCEPT ![t] = [Data[u][t] EXCEPT ![s] = v]]]
    <2> HIDE DEF Row, Whole, NewRow, NewDisk
    <2> QED
      BY <1>9, <1>10, <1>11, <1>12
  <1> QED
    BY <1>13 DEF DataWrite

-----------------------------------------------------------------------------
(* The refinement, one abstract action at a time.                          *)

LEMMA NoNews ==
    ASSUME NEW device, NEW unit, device # DISK_DEV,
           intr' = Quiet \/ Deliver(device, unit)
    PROVE  Finished' = {}
  BY DEF Finished, Deliver, Quiet, DISK_DEV

LEMMA UpOrNot == Running' \in BOOLEAN
  BY DEF Running

(* A step that only the abstract disks do not see.                         *)
LEMMA OtherRefines ==
    ASSUME Running, Finished' = {}, UNCHANGED <<status, track, request, storage>>
    PROVE  Abstract!Next
  <1>1. UNCHANGED <<Data, Working>>
    BY DEF Data, Working, storage
  <1>2. Abstract!Other
    BY <1>1 DEF Abstract!Other, storage
  <1> QED
    BY <1>2, UpOrNot DEF Abstract!Next, Abstract!Work

LEMMA AcknowledgeRefines ==
    ASSUME DevicesInv, NEW u \in Disks, disk_get_status(u), UNCHANGED storage
    PROVE  Abstract!Next
  <1>1. UNCHANGED Data
    BY DEF Data, storage
  <1>2. UNCHANGED Working
    BY DEF Working, disk_get_status, storage, DevicesInv, TypeOK
  <1>3. Finished' = {}
    BY DEF Finished, disk_get_status, Quiet, DISK_DEV
  <1>4. Abstract!Acknowledge(u)
    BY <1>1, <1>2, <1>3 DEF Abstract!Acknowledge, disk_get_status, storage
  <1> QED
    BY <1>4, UpOrNot DEF Abstract!Next, Abstract!Work, disk_get_status

LEMMA OtherStepRefines ==
    ASSUME DevicesInv, OtherStep
    PROVE  Abstract!Next
  <1> USE DEF CLOCK_DEV, ALARM_DEV, TERM_DEV, DISK_DEV
  <1>1. CASE clock_tick
    BY <1>1, NoNews, OtherRefines DEF OtherStep, clock_tick, disk
  <1>2. CASE alarm_action
    BY <1>2, NoNews, OtherRefines DEF OtherStep, alarm_action, Advance, disk
  <1>3. ASSUME NEW arrives \in BOOLEAN, term_action(arrives)
        PROVE  Abstract!Next
    <2>1. intr' = Quiet \/ Deliver(TERM_DEV, NextTerm)
      BY <1>3 DEF term_action
    <2> QED
      BY <1>3, <2>1, NoNews, OtherRefines DEF OtherStep, term_action, Advance, disk
  <1>4. ASSUME NEW time \in AlarmTimes, alarm_request(time)
        PROVE  Abstract!Next
    <2>1. Finished' = {}
      BY <1>4 DEF alarm_request, Finished, Quiet
    <2> QED
      BY <1>4, <2>1, OtherRefines DEF OtherStep, alarm_request, disk
  <1>5. ASSUME NEW t \in Terms, NEW send \in BOOLEAN, NEW enable \in Enables,
               term_request(t, send, enable)
        PROVE  Abstract!Next
    <2>1. Finished' = {}
      BY <1>5 DEF term_request, Finished, Quiet
    <2> QED
      BY <1>5, <2>1, OtherRefines DEF OtherStep, term_request, disk
  <1>6. ASSUME NEW t \in Terms, term_get_status(t)
        PROVE  Abstract!Next
    <2>1. Finished' = {}
      BY <1>6 DEF term_get_status, Finished, Quiet
    <2> QED
      BY <1>6, <2>1, OtherRefines DEF OtherStep, term_get_status, disk
  <1>7. ASSUME NEW u \in Disks, disk_get_status(u)
        PROVE  Abstract!Next
    BY <1>7, AcknowledgeRefines DEF OtherStep
  <1> QED
    BY <1>1, <1>2, <1>3, <1>4, <1>5, <1>6, <1>7 DEF OtherStep

LEMMA RequestRefines ==
    ASSUME StInv, NEW u \in Disks, NEW r \in DiskRequests, NEW b \in Buffers, Request(u, r, b)
    PROVE  Abstract!Next
  <1>1. /\ status[u] # "BUSY" /\ Running
        /\ status' = [status EXCEPT ![u] = "BUSY"]
        /\ request' = [request EXCEPT ![u] = r]
        /\ buffer' = [buffer EXCEPT ![u] = b]
        /\ UNCHANGED <<track, file, memory>>
        /\ intr' = Quiet
    BY DEF Request, disk_request, Refused
  <1>2. Job(r, b) \in Jobs
    BY DEF Jobs
  <1>3. Working' = [Working EXCEPT ![u] = Job(r, b)]
    <2>1. /\ status \in [Disks -> {"READY", "BUSY", "ERROR"}]
          /\ DOMAIN request = Disks /\ DOMAIN buffer = Disks
      BY DEF StInv, DevicesInv, TypeOK, RequestsInv
    <2>2. \A w \in Disks : Working'[w] = IF w = u THEN Job(r, b) ELSE Working[w]
      BY <1>1, <2>1 DEF Working
    <2> QED
      BY <2>2 DEF Working
  <1>4. Working[u] = Abstract!NoJob
    BY <1>1 DEF Working, Abstract!NoJob
  <1>5. UNCHANGED Data
    BY <1>1 DEF Data
  <1>6. Finished' = {}
    BY <1>1 DEF Finished, Quiet, DISK_DEV
  <1>7. Abstract!Request(u, Job(r, b))
    BY <1>1, <1>3, <1>4, <1>5, <1>6 DEF Abstract!Request
  <1> QED
    BY <1>1, <1>2, <1>7, UpOrNot DEF Abstract!Next, Abstract!Work

LEMMA FillRefines ==
    ASSUME NEW b \in Buffers, NEW v \in Contents, Fill(b, v)
    PROVE  Abstract!Next
  <1>1. UNCHANGED <<Data, Working>>
    BY DEF Data, Working, Fill, disk
  <1>2. Finished' = {}
    BY DEF Finished, Fill, Quiet, DISK_DEV
  <1>3. Abstract!Fill(b, v)
    BY <1>1, <1>2 DEF Abstract!Fill, Fill, disk
  <1> QED
    BY <1>3, UpOrNot DEF Abstract!Next, Abstract!Work, Fill

LEMMA RestartRefines ==
    ASSUME StInv, NEW created \in SUBSET Disks, Restart(created)
    PROVE  Abstract!Next
  <1>1. Working' = [u \in Disks |-> Abstract!NoJob]
    BY DEF Restart, Boot, Working, Abstract!NoJob
  <1>2. Data' = [u \in Disks |-> IF u \in created THEN Abstract!BlankDisk(u) ELSE Data[u]]
    <2>1. \A u \in created : \A t \in 0 .. Tracks[u] - 1, s \in 0 .. TrackSize - 1 :
              file'[u][t * TrackSize + s] = Zero
      BY SectorOnDisk DEF Restart, BlankFile
    <2>2. \A u \in Disks \ created : file'[u] = file[u]
      BY DEF Restart
    <2>3. \A u \in created : Data'[u] = Abstract!BlankDisk(u)
      BY <2>1 DEF Data, Abstract!BlankDisk
    <2>4. \A u \in Disks \ created : Data'[u] = Data[u]
      BY <2>2 DEF Data
    <2>5. Data' = [u \in Disks |-> Data'[u]]
      BY DEF Data
    <2> QED
      BY <2>3, <2>4, <2>5
  <1>3. Finished' = {}
    BY DEF Finished, Restart, Boot, Quiet, DISK_DEV
  <1>4. Abstract!Restart(created)
    BY <1>1, <1>2, <1>3
    DEF Abstract!Restart, Abstract!BlankMemory, Restart, Boot, BlankMemory, Running
  <1> QED
    BY <1>4 DEF Abstract!Next

-----------------------------------------------------------------------------
(* The completion of a request.                                            *)

(* The event in the ring is of a disk that is working.                     *)
LEMMA CompleteIsBusy ==
    ASSUME StInv, NEW u \in Disks, disk_action(u)
    PROVE  status[u] = "BUSY" /\ Running
  <1>1. Running /\ queue[NextSlot] = DiskEvent(u)
    BY DEF disk_action, Advance
  <1>2. NextSlot \in Slots
    <2>1. ptr + 1 \in Int
      BY DEF StInv, DevicesInv, TypeOK, Slots
    <2> QED
      BY <2>1, Wraps DEF NextSlot
  <1> QED
    BY <1>1, <1>2 DEF StInv, DevicesInv, EventInv, Absent

LEMMA DoneRefines ==
    ASSUME StInv, NEW u \in Disks, disk_action(u), ~Aborts(u), UNCHANGED <<request, buffer>>
    PROVE  /\ Working[u] # Abstract!NoJob
           /\ Working' = [Working EXCEPT ![u] = Abstract!NoJob]
           /\ status' = [status EXCEPT ![u] = IF Impossible(u) THEN "ERROR" ELSE "READY"]
           /\ Abstract!Tell(u)
           /\ Working[u].op = request[u].op
           /\ Working[u].at = request[u].reg1
           /\ Working[u].buffer = buffer[u]
  <1>1. status[u] = "BUSY" /\ Running
    BY CompleteIsBusy
  <1>2. /\ status' = [status EXCEPT ![u] = IF Impossible(u) THEN "ERROR" ELSE "READY"]
        /\ Deliver(DISK_DEV, u)
    BY DEF disk_action
  <1>3. status \in [Disks -> {"READY", "BUSY", "ERROR"}]
    BY DEF StInv, DevicesInv, TypeOK
  <1>4. Working[u] = Job(request[u], buffer[u])
    BY <1>1 DEF Working
  <1>5. Working' = [Working EXCEPT ![u] = Abstract!NoJob]
    <2>1. \A w \in Disks : Working'[w] = IF w = u THEN Abstract!NoJob ELSE Working[w]
      BY <1>2, <1>3 DEF Working, Abstract!NoJob
    <2> QED
      BY <2>1 DEF Working
  <1>6. Working[u] # Abstract!NoJob
    <2>1. request[u].op \in Operations
      BY DEF StInv, DevicesInv, TypeOK
    <2>2. Job(request[u], buffer[u]).op = request[u].op
      BY DEF Job
    <2>3. Abstract!NoJob.op = "none"
      BY DEF Abstract!NoJob
    <2> QED
      BY <1>4, <2>1, <2>2, <2>3 DEF Operations
  <1>7. Abstract!Tell(u)
    BY <1>1, <1>2 DEF Deliver, Finished, Abstract!Tell, DISK_DEV, Quiet, Running
  <1> QED
    BY <1>2, <1>4, <1>5, <1>6, <1>7 DEF Job

LEMMA FinishRefines ==
    ASSUME StInv, NEW u \in Disks, Complete(u), ~Aborts(u)
    PROVE  Abstract!Finish(u)
  <1>1. disk_action(u) /\ UNCHANGED <<request, buffer>>
    BY DEF Complete, disk_action
  <1>2. /\ Working[u] # Abstract!NoJob
        /\ Working' = [Working EXCEPT ![u] = Abstract!NoJob]
        /\ status' = [status EXCEPT ![u] = IF Impossible(u) THEN "ERROR" ELSE "READY"]
        /\ Working[u].op = request[u].op
        /\ Working[u].at = request[u].reg1
        /\ Working[u].buffer = buffer[u]
    BY <1>1, DoneRefines
  <1>3. /\ request[u].op \in {"SEEK", "READ", "WRITE", "TRACKS"}
        /\ request[u].reg1 \in Int
        /\ track[u] \in 0 .. Tracks[u] - 1
        /\ TrackSize \in Nat /\ Tracks[u] \in Nat
    <2>1. request[u].op # "illegal"
      BY DEF Aborts
    <2>2. track[u] \in Nat /\ track[u] < Tracks[u]
      BY DEF StInv, DevicesInv, TypeOK, HeadOnDisk
    <2> QED
      BY <2>1, <2>2, UnitsAssumption DEF StInv, DevicesInv, TypeOK, Operations
  <1>4. track' = IF Seeks(u) /\ ~Impossible(u) THEN [track EXCEPT ![u] = request[u].reg1]
                                               ELSE track
    BY DEF Complete, disk_action
  <1>5. ~Completes(u) => UNCHANGED <<Data, memory>>
    BY DEF Complete, Data
  <1>6. CASE Impossible(u)
    <2>1. ~Completes(u)
      BY <1>6 DEF Completes
    <2>2. Abstract!Fail(u)
      BY <1>2, <1>3, <1>4, <1>5, <1>6, <2>1
      DEF Abstract!Fail, Abstract!OnTrack, Abstract!InTrack, Impossible, Seeks, Transfers
    <2> QED
      BY <1>2, <1>6, <2>2 DEF Abstract!Finish
  <1>7. CASE ~Impossible(u) /\ Seeks(u)
    <2>1. ~Completes(u)
      BY <1>7 DEF Completes, Seeks, Transfers
    <2>2. Abstract!Seek(u)
      BY <1>2, <1>3, <1>4, <1>5, <1>7, <2>1
      DEF Abstract!Seek, Abstract!OnTrack, Impossible, Seeks
    <2> QED
      BY <1>2, <1>7, <2>2 DEF Abstract!Finish
  <1>8. CASE ~Impossible(u) /\ request[u].op = "TRACKS"
    <2>1. ~Completes(u) /\ ~Seeks(u)
      BY <1>8 DEF Completes, Seeks, Transfers
    <2>2. Abstract!CountTracks(u)
      BY <1>2, <1>4, <1>5, <1>8, <2>1 DEF Abstract!CountTracks
    <2> QED
      BY <1>2, <1>8, <2>2 DEF Abstract!Finish
  <1>9. CASE ~Impossible(u) /\ Transfers(u)
    <2>1. Completes(u) /\ UNCHANGED track
      BY <1>4, <1>9 DEF Completes, Seeks, Transfers
    <2>2. request[u].reg1 \in 0 .. TrackSize - 1
      BY <1>3, <1>9 DEF Impossible, StInv, RequestsInv
    <2>3. Sector(u) = track[u] * TrackSize + request[u].reg1
      BY DEF Sector
    <2>4. CASE request[u].op = "READ"
      <3>1. UNCHANGED Data
        BY <2>4 DEF Complete, Data
      <3>2. memory' = [memory EXCEPT ![buffer[u]] = file[u][Sector(u)]]
        BY <2>1, <2>4 DEF Complete, ReadIn
      <3>3. Data[u][track[u]][request[u].reg1] = file[u][Sector(u)]
        BY <1>3, <2>2, <2>3 DEF Data
      <3>4. Abstract!Read(u)
        BY <1>2, <2>1, <2>2, <2>4, <3>1, <3>2, <3>3 DEF Abstract!Read, Abstract!InTrack
      <3> QED
        BY <1>2, <1>9, <3>4 DEF Abstract!Finish
    <2>5. CASE request[u].op = "WRITE"
      <3>1. UNCHANGED memory
        BY <2>5 DEF Complete
      <3>2. file' = [file EXCEPT ![u][Sector(u)] = memory[buffer[u]]]
        BY <2>1, <2>5 DEF Complete, Written
      <3>3. Data' = [Data EXCEPT ![u][track[u]][request[u].reg1] = memory[buffer[u]]]
        <4>1. FileWrite(u, track[u] * TrackSize + request[u].reg1, memory[buffer[u]])
          BY <2>3, <3>2 DEF FileWrite
        <4>2. DataWrite(u, track[u], request[u].reg1, memory[buffer[u]])
          BY <1>3, <2>2, <4>1, WriteIsSector DEF StInv
        <4> QED
          BY <4>2 DEF DataWrite
      <3>4. Abstract!Write(u)
        BY <1>2, <2>1, <2>2, <2>5, <3>1, <3>3 DEF Abstract!Write, Abstract!InTrack
      <3> QED
        BY <1>2, <1>9, <3>4 DEF Abstract!Finish
    <2> QED
      BY <1>9, <2>4, <2>5 DEF Transfers
  <1> QED
    BY <1>3, <1>6, <1>7, <1>8, <1>9 DEF Seeks, Transfers

LEMMA CompleteRefines ==
    ASSUME StInv, NEW u \in Disks, Complete(u)
    PROVE  Abstract!Next
  <1>1. disk_action(u) /\ Running /\ UNCHANGED <<request, buffer>>
    BY CompleteIsBusy DEF Complete, disk_action
  <1>2. CASE Aborts(u)
    <2>1. UNCHANGED <<status, track, file, memory>> /\ intr' = Quiet
      BY <1>2 DEF Complete, disk_action, Completes
    <2>2. Finished' = {}
      BY <2>1 DEF Finished, Quiet, DISK_DEV
    <2> QED
      BY <1>1, <2>1, <2>2, OtherRefines DEF storage
  <1>3. CASE ~Aborts(u)
    <2>1. Abstract!Finish(u) /\ Abstract!Tell(u)
      BY <1>1, <1>3, FinishRefines, DoneRefines
    <2> QED
      BY <1>1, <2>1, UpOrNot DEF Abstract!Next, Abstract!Work
  <1> QED
    BY <1>2, <1>3

LEMMA StorageStep == StInv /\ [StorageNext]_allVars => [Abstract!Next]_(Abstract!vars)
  <1> SUFFICES ASSUME StInv, [StorageNext]_allVars
               PROVE  [Abstract!Next]_(Abstract!vars)
    OBVIOUS
  <1>1. CASE UNCHANGED allVars
    BY <1>1 DEF allVars, vars, storage, Data, Working, Finished, Running, Abstract!vars
  <1> QED
    BY <1>1, RequestRefines, CompleteRefines, FillRefines, OtherStepRefines, RestartRefines
    DEF StorageNext, StInv

LEMMA StorageStart == StorageInit => Abstract!Init
  <1> SUFFICES ASSUME StorageInit
               PROVE  Abstract!Init
    OBVIOUS
  <1>1. Data = [u \in Disks |-> Abstract!BlankDisk(u)]
    <2>1. \A u \in Disks : \A t \in 0 .. Tracks[u] - 1, s \in 0 .. TrackSize - 1 :
              file[u][t * TrackSize + s] = Zero
      BY SectorOnDisk DEF StorageInit, BlankFile
    <2> QED
      BY <2>1 DEF Data, Abstract!BlankDisk
  <1>2. Working = [u \in Disks |-> Abstract!NoJob]
    BY DEF StorageInit, Init, Working, Abstract!NoJob
  <1>3. Finished = {} /\ Running
    BY DEF StorageInit, Init, Finished, Quiet, DISK_DEV, Running
  <1> QED
    BY <1>1, <1>2, <1>3
    DEF Abstract!Init, StorageInit, Init, BlankMemory, Abstract!BlankMemory

(* The disks do what they were asked, on the sectors they were asked for,  *)
(* and keep it over restarts, whatever else the devices do.                *)
THEOREM StorageImplements == StorageSpec => ImplementsAbstractStorage
  BY StorageInvariant, StorageStart, StorageStep, PTL
  DEF StorageSpec, ImplementsAbstractStorage, Abstract!Spec
============================================================================
