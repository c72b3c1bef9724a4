------------------------------- MODULE MCCpu -------------------------------
(***************************************************************************)
(* Instances of the processor for TLC.                                     *)
(***************************************************************************)
EXTENDS CpuProperties

TwoContexts == {"startup", "process"}

OneEach   == [c \in Contexts |-> 1]
OneAndTwo == [c \in Contexts |-> IF c = Boot THEN 1 ELSE 2]

EveryArg  == SUBSET {"CM", "CI"} \cup {{"CM", "upper"}}
Modes     == {{"CM"}, {"CI"}, {"CM", "CI"}}
UpperBits == {{"CM", "CI"}, {"CM", "CI", "upper"}}

Everything == Traps \cup {"DEVICE"}
NoIllegal  == Everything \ {"ILLEGAL"}
============================================================================
