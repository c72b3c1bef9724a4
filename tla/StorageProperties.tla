------------------------- MODULE StorageProperties -------------------------
(***************************************************************************)
(* What the disks and their files owe the operating system.                *)
(***************************************************************************)
EXTENDS Storage

(* A file as tracks of sectors, the request of a disk that is BUSY as a    *)
(* job, and the interrupt of a disk as the news that it finished.          *)
Data ==
    [u \in Disks |->
        [t \in 0 .. Tracks[u] - 1 |->
            [s \in 0 .. TrackSize - 1 |-> file[u][t * TrackSize + s]]]]

Job(r, b) == [op |-> r.op, at |-> r.reg1, buffer |-> b]
Jobs      == {Job(r, b) : r \in DiskRequests, b \in Buffers}
Working   == [u \in Disks |-> IF status[u] = "BUSY" THEN Job(request[u], buffer[u])
                                                    ELSE [op |-> "none"]]

Finished == IF intr.device = DISK_DEV THEN {intr.unit} ELSE {}

Abstract == INSTANCE AbstractStorage WITH
    Units      <- Disks,
    NumTracks  <- Tracks,
    NumSectors <- TrackSize,
    Blank      <- Zero,
    data       <- Data,
    head       <- track,
    state      <- status,
    job        <- Working,
    finished   <- Finished,
    up         <- Running

(* Each disk does what it was asked, on its own tracks and no others, with *)
(* the buffer it was given, once, and says so, while events displace each  *)
(* other in the ring (disk_request, schedule_int, disk_action); and what   *)
(* was written is still there after the simulator was killed between any   *)
(* two steps and started again (disk_init), unless the disk was created    *)
(* anew (Disk_Create).                                                     *)
ImplementsAbstractStorage == Abstract!Spec
============================================================================
