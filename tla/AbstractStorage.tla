-------------------------- MODULE AbstractStorage --------------------------
(***************************************************************************)
(* What the disks promise: each works on one request at a time, does it    *)
(* all at once some time later, with the head and the buffer as they are   *)
(* then, and tells how it went; what is written stays until it is written  *)
(* over, also when the simulator stops and is started again.               *)
(***************************************************************************)
EXTENDS Integers

CONSTANTS
    Units,
    NumTracks,   \* of each unit
    NumSectors,  \* of a track
    Jobs,        \* what a disk may be asked: [op, at, buffer]
    Buffers,
    Contents,    \* what a sector or a buffer may hold
    Blank        \* what it holds at first

(* A seek is to track at; a transfer is of sector at of the head's track.  *)
NoJob == [op |-> "none"]

VARIABLES
    data,      \* data[u][t][s], what each disk holds
    memory,    \* what each buffer holds
    head,      \* the track the head of each disk is on
    state,     \* "READY", "BUSY" or "ERROR"
    job,       \* what each disk is working on
    finished,  \* the units that finished in the last step
    up         \* whether the simulator runs

vars == <<data, memory, head, state, job, finished, up>>

BlankMemory == [b \in Buffers |-> Blank]
BlankDisk(u) == [t \in 0 .. NumTracks[u] - 1 |-> [s \in 0 .. NumSectors - 1 |-> Blank]]

Init ==
    /\ data = [u \in Units |-> BlankDisk(u)]
    /\ memory = BlankMemory
    /\ head = [u \in Units |-> 0]
    /\ state = [u \in Units |-> "READY"]
    /\ job = [u \in Units |-> NoJob]
    /\ finished = {}
    /\ up = TRUE

Request(u, j) ==
    /\ job[u] = NoJob
    /\ job' = [job EXCEPT ![u] = j]
    /\ state' = [state EXCEPT ![u] = "BUSY"]
    /\ finished' = {}
    /\ UNCHANGED <<data, memory, head>>

OnTrack(t, u)  == t \in 0 .. NumTracks[u] - 1
InTrack(s)     == s \in 0 .. NumSectors - 1

Seek(u) ==
    /\ job[u].op = "SEEK" /\ OnTrack(job[u].at, u)
    /\ head' = [head EXCEPT ![u] = job[u].at]
    /\ UNCHANGED <<data, memory>>

Read(u) ==
    /\ job[u].op = "READ" /\ InTrack(job[u].at)
    /\ memory' = [memory EXCEPT ![job[u].buffer] = data[u][head[u]][job[u].at]]
    /\ UNCHANGED <<data, head>>

Write(u) ==
    /\ job[u].op = "WRITE" /\ InTrack(job[u].at)
    /\ data' = [data EXCEPT ![u][head[u]][job[u].at] = memory[job[u].buffer]]
    /\ UNCHANGED <<memory, head>>

CountTracks(u) == job[u].op = "TRACKS" /\ UNCHANGED <<data, memory, head>>

Fail(u) ==
    /\ \/ job[u].op = "SEEK" /\ ~OnTrack(job[u].at, u)
       \/ job[u].op \in {"READ", "WRITE"} /\ ~InTrack(job[u].at)
    /\ UNCHANGED <<data, memory, head>>

Finish(u) ==
    /\ job[u] # NoJob
    /\ job' = [job EXCEPT ![u] = NoJob]
    /\ \/ (Seek(u) \/ Read(u) \/ Write(u) \/ CountTracks(u))
          /\ state' = [state EXCEPT ![u] = "READY"]
       \/ Fail(u) /\ state' = [state EXCEPT ![u] = "ERROR"]

(* The interrupt tells that unit u finished.                               *)
Tell(u) == finished' = {u} \/ (finished' = {} /\ ~up')

Acknowledge(u) ==
    /\ state[u] = "ERROR"
    /\ state' = [state EXCEPT ![u] = "READY"]
    /\ finished' = {}
    /\ UNCHANGED <<data, memory, head, job>>

Fill(b, v) ==
    /\ memory' = [memory EXCEPT ![b] = v]
    /\ finished' = {}
    /\ UNCHANGED <<data, head, state, job>>

Other ==
    /\ finished' = {}
    /\ UNCHANGED <<data, memory, head, state, job>>

(* The units in created get an empty disk first.                           *)
Restart(created) ==
    /\ data' = [u \in Units |-> IF u \in created THEN BlankDisk(u) ELSE data[u]]
    /\ memory' = BlankMemory
    /\ head' = [u \in Units |-> 0]
    /\ state' = [u \in Units |-> "READY"]
    /\ job' = [u \in Units |-> NoJob]
    /\ finished' = {}
    /\ up' = TRUE

Work ==
    \/ \E u \in Units, j \in Jobs : Request(u, j)
    \/ \E u \in Units : Finish(u) /\ Tell(u)
    \/ \E u \in Units : Acknowledge(u)
    \/ \E b \in Buffers, v \in Contents : Fill(b, v)
    \/ Other

Next ==
    \/ up /\ up' \in BOOLEAN /\ Work
    \/ \E created \in SUBSET Units : Restart(created)

Spec == Init /\ [][Next]_vars
============================================================================
