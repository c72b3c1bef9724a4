----------------------------- MODULE MCSyscalls -----------------------------
(***************************************************************************)
(* An instance of the system calls for TLC.                                *)
(***************************************************************************)
EXTENDS SyscallsProperties

TwoContexts == {"startup", "process"}
Everything  == Traps \cup {"DEVICE"}
UserAndOn   == {{"CI"}, {"CM", "CI"}}
OneEach     == [c \in Contexts |-> 1]

(* The first process waits for its children, the other makes every call.   *)
StubsOfEach ==
    [c \in TwoContexts |-> {s \in Stubs : c = "startup" => s.op = "SYS_WAIT"}]
=============================================================================
