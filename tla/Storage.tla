------------------------------ MODULE Storage ------------------------------
(***************************************************************************)
(* What the simulated disks hold (dev_disk.c, libdisk/disk.c): each unit   *)
(* is a file of the host, which the disk's operations read and write at    *)
(* the time they complete, and which outlives the simulator.  A transfer   *)
(* is to or from a buffer of the operating system's memory, named when the *)
(* request is made.                                                        *)
(***************************************************************************)
EXTENDS Devices

CONSTANTS
    Buffers,   \* the buffers the operating system names in its requests
    Contents,  \* what a sector, or a buffer, may hold
    Zero       \* all bytes zero

ASSUME ContentsAssumption == Zero \in Contents /\ Buffers # {}

(* A sector below the first of a track is not the track's; that the code   *)
(* does not notice is a matter of Devices.                                 *)
ASSUME SectorsAssumption ==
    \A r \in DiskRequests : r.op \in {"READ", "WRITE"} => r.reg1 >= 0

VARIABLES
    file,    \* the sectors of each unit's file, one after the other
    memory,  \* what each buffer holds
    buffer   \* reg2 of the request each unit works on, or worked on last

storage == <<file, memory, buffer>>
allVars == <<vars, storage>>

Sectors(u) == 0 .. Tracks[u] * TrackSize - 1

(* Disk_Create: every track is written with zeros.                         *)
BlankFile(u) == [i \in Sectors(u) |-> Zero]
BlankMemory  == [b \in Buffers |-> Zero]

StorageInit ==
    /\ Init
    /\ file = [u \in Disks |-> BlankFile(u)]
    /\ memory = BlankMemory
    /\ buffer \in [Disks -> Buffers]

(* The request is copied; the buffer it names is not.                      *)
Request(u, r, b) ==
    /\ disk_request(u, r)
    /\ buffer' = [buffer EXCEPT ![u] = b]
    /\ UNCHANGED <<file, memory>>

Written(u) == [file EXCEPT ![u][Sector(u)] = memory[buffer[u]]]
ReadIn(u)  == [memory EXCEPT ![buffer[u]] = file[u][Sector(u)]]

Completes(u) == Transfers(u) /\ ~Impossible(u) /\ ~Aborts(u)

Complete(u) ==
    /\ disk_action(u)
    /\ file' = IF Completes(u) /\ request[u].op = "WRITE" THEN Written(u) ELSE file
    /\ memory' = IF Completes(u) /\ request[u].op = "READ" THEN ReadIn(u) ELSE memory
    /\ UNCHANGED buffer

(* The operating system may change a buffer at any time, also one that a   *)
(* disk is about to use.                                                   *)
Fill(b, v) ==
    /\ Running
    /\ memory' = [memory EXCEPT ![b] = v]
    /\ intr' = Quiet
    /\ UNCHANGED <<ring, tick, armed, disk, term, fate, file, buffer>>

(* Everything else the devices do.                                         *)
OtherStep ==
    /\ \/ clock_tick
       \/ alarm_action
       \/ \E arrives \in BOOLEAN : term_action(arrives)
       \/ \E time \in AlarmTimes : alarm_request(time)
       \/ \E u \in Disks : disk_get_status(u)
       \/ \E t \in Terms, send \in BOOLEAN, enable \in Enables :
              term_request(t, send, enable)
       \/ \E t \in Terms : term_get_status(t)
    /\ UNCHANGED storage

(* main initialises the devices.                                           *)
Boot ==
    /\ queue' = [i \in Slots |-> Idle]
    /\ ptr' = 0
    /\ tick' = FALSE
    /\ armed' = FALSE
    /\ status' = [u \in Disks |-> "READY"]
    /\ track' = [u \in Disks |-> 0]
    /\ request' \in [Disks -> {[op |-> "SEEK", reg1 |-> 0]}]
    /\ xmit' = [t \in Terms |-> "READY"]
    /\ recv' = [t \in Terms |-> "READY"]
    /\ control' = [t \in Terms |-> {}]
    /\ poll' = -1
    /\ intr' = Quiet
    /\ fate' = "running"

(* The simulator ends, by itself or killed at any moment, and is started   *)
(* again: test_setup may create disks anew.  A disk operation under way is *)
(* forgotten; as it touches the file in a single call of the host, half of *)
(* it is never done.                                                       *)
Restart(created) ==
    /\ Boot
    /\ file' = [u \in Disks |-> IF u \in created THEN BlankFile(u) ELSE file[u]]
    /\ memory' = BlankMemory
    /\ UNCHANGED buffer

StorageNext ==
    \/ \E u \in Disks, r \in DiskRequests, b \in Buffers : Request(u, r, b)
    \/ \E u \in Disks : Complete(u)
    \/ \E b \in Buffers, v \in Contents : Fill(b, v)
    \/ OtherStep
    \/ \E created \in SUBSET Disks : Restart(created)

StorageSpec == StorageInit /\ [][StorageNext]_allVars
============================================================================
