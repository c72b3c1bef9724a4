----------------------------- MODULE MCDevices -----------------------------
(***************************************************************************)
(* Instances of the devices for TLC.                                       *)
(***************************************************************************)
EXTENDS DevicesProperties

OneDisk    == {0}
TwoDisks   == {0, 1}
FourTracks == [u \in Disks |-> 4]

Seek(n)  == [op |-> "SEEK", reg1 |-> n]
Read(n)  == [op |-> "READ", reg1 |-> n]
Write(n) == [op |-> "WRITE", reg1 |-> n]

(* Seeks of one track and before the first; seeks all the way and back.    *)
SeekOrErr   == {Seek(1), Seek(-1)}
BackAndForth == {Seek(0), Seek(3)}
EveryKind   == {Seek(-1), Seek(3), Seek(4), Write(2), [op |-> "illegal", reg1 |-> 0]}
Negative    == {Seek(1), Read(1), Write(-1)}
JustReads   == {Read(0)}

NoInterrupts == {{}}
SomeEnables  == {{}, {"RECV_INT"}, {"RECV_INT", "XMIT_INT"}}

AnyTime   == {0, 1, 2}
TwoOrMore == {2, 3}
JustOne   == {1}
JustThree == {3}

AllHandlers    == {CLOCK_DEV, ALARM_DEV, DISK_DEV, TERM_DEV}
NoAlarmHandler == AllHandlers \ {ALARM_DEV}
============================================================================
