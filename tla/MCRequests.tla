----------------------------- MODULE MCRequests -----------------------------
(***************************************************************************)
(* Instances of the requests for TLC.                                      *)
(***************************************************************************)
EXTENDS Requests

OneDisk    == {0}
TwoDisks   == {0, 1}
OneTrack   == [u \in Disks |-> 1]
FourTracks == [u \in Disks |-> 4]

Read(n)    == [op |-> "READ", reg1 |-> n]
Seek(n)    == [op |-> "SEEK", reg1 |-> n]
JustReads  == {Read(0)}
JustErrors == {Seek(-1)}

NoInterrupts == {{}}
JustOne   == {1}
NowOrLater == {0, 2}
AllHandlers == {CLOCK_DEV, ALARM_DEV, DISK_DEV, TERM_DEV}
============================================================================
