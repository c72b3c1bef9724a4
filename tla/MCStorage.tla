----------------------------- MODULE MCStorage -----------------------------
(***************************************************************************)
(* Two disks of different sizes, with seeks that fit one or none of them.  *)
(***************************************************************************)
EXTENDS StorageProperties

TwoDisks  == {0, 1}
BigSmall  == [u \in Disks |-> 2 - u]
SomeWork  == {[op |-> "SEEK", reg1 |-> 1], [op |-> "READ", reg1 |-> 1],
              [op |-> "WRITE", reg1 |-> 1]}
AllHandlers  == {CLOCK_DEV, ALARM_DEV, DISK_DEV, TERM_DEV}
NoEnables    == {}
TwoOrMore == {2}
============================================================================
