------------------------------- MODULE Stubs -------------------------------
(***************************************************************************)
(* The system calls of the user library (libuser.c, usyscall.h).           *)
(*                                                                         *)
(* Every stub does the same with a USLOSS_Sysargs on its stack: it fills   *)
(* in the number of its call and some of arg1 .. arg5, traps, and takes    *)
(* its results out of the same fields, arg4 being the return value.  So a  *)
(* stub is a row: the parameters it puts in arg1, arg2, ... and the field  *)
(* of each result.  What it does not fill in holds what the stack held.    *)
(***************************************************************************)
EXTENDS Naturals, Sequences

Stub(name, op, in, out) == [name |-> name, op |-> op, in |-> in, out |-> out]

ProcessStubs == {
    Stub("Sys_TermRead", "SYS_TERMREAD", <<"buff", "bsize", "unit_id">>, {<<"nread", 2>>}),
    Stub("Sys_TermWrite", "SYS_TERMWRITE", <<"buff", "bsize", "unit_id">>, {<<"nwrite", 2>>}),
    Stub("Sys_Spawn", "SYS_SPAWN", <<"func", "arg", "stack_size", "priority", "name">>,
         {<<"pid", 1>>}),
    Stub("Sys_Wait", "SYS_WAIT", <<>>, {<<"pid", 1>>, <<"status", 2>>})}

TimeAndDiskStubs == {
    Stub("Sys_Terminate", "SYS_TERMINATE", <<"status">>, {}),
    Stub("Sys_Sleep", "SYS_SLEEP", <<"seconds">>, {}),
    Stub("Sys_DiskWrite", "SYS_DISKWRITE", <<"dbuff", "sectors", "first", "unit">>, {}),
    Stub("Sys_DiskRead", "SYS_DISKREAD", <<"dbuff", "sectors", "first", "unit">>, {}),
    Stub("Sys_DiskSize", "SYS_DISKSIZE", <<"unit">>, {<<"sector", 1>>, <<"disk", 2>>}),
    Stub("Sys_GetTimeOfDay", "SYS_GETTIMEOFDAY", <<>>, {<<"tod", 1>>})}

ProcInfoAndLockStubs == {
    Stub("Sys_GetProcInfo", "SYS_GETPROCINFO", <<"pid", "info">>, {}),
    Stub("Sys_GetPid", "SYS_GETPID", <<>>, {<<"pid", 1>>}),
    Stub("Sys_LockName", "SYS_LOCKNAME", <<"lid", "name", "len">>, {}),
    Stub("Sys_LockFree", "SYS_LOCKFREE", <<"lid">>, {}),
    Stub("Sys_LockCreate", "SYS_LOCKCREATE", <<"name">>, {<<"lid", 1>>}),
    Stub("Sys_LockAcquire", "SYS_LOCKACQUIRE", <<"lid">>, {}),
    Stub("Sys_LockRelease", "SYS_LOCKRELEASE", <<"lid">>, {})}

CondStubs == {
    Stub("Sys_CondName", "SYS_CONDNAME", <<"vid", "name", "len">>, {}),
    Stub("Sys_CondFree", "SYS_CONDFREE", <<"vid">>, {}),
    Stub("Sys_CondCreate", "SYS_CONDCREATE", <<"name", "lid">>, {<<"vid", 1>>}),
    Stub("Sys_CondWait", "SYS_CONDWAIT", <<"vid">>, {}),
    Stub("Sys_CondSignal", "SYS_CONDSIGNAL", <<"vid">>, {}),
    Stub("Sys_CondBroadcast", "SYS_CONDBROADCAST", <<"vid">>, {})}

SemStubs == {
    Stub("Sys_SemName", "SYS_SEMNAME", <<"sid", "name">>, {}),
    Stub("Sys_SemCreate", "SYS_SEMCREATE", <<"value", "name">>, {<<"semaphore", 1>>}),
    Stub("Sys_SemP", "SYS_SEMP", <<"semaphore">>, {}),
    Stub("Sys_SemV", "SYS_SEMV", <<"semaphore">>, {}),
    Stub("Sys_SemFree", "SYS_SEMFREE", <<"semaphore">>, {})}

VmStubs == {
    Stub("Sys_VmInit", "SYS_VMINIT", <<"mappings", "pages", "frames", "pagers">>,
         {<<"region", 1>>, <<"pageSize", 2>>}),
    Stub("Sys_VmShutdown", "SYS_VMSHUTDOWN", <<>>, {}),
    Stub("Sys_Protect", "SYS_PROTECT", <<"page", "protection">>, {}),
    Stub("Sys_Share", "SYS_SHARE", <<"pid", "source", "target">>, {}),
    Stub("Sys_COW", "SYS_COW", <<"pid", "source", "target">>, {})}

HeapAndMboxStubs == {
    Stub("Sys_HeapAlloc", "SYS_HEAPALLOC", <<"bytes">>, {<<"ptr", 1>>}),
    Stub("Sys_HeapFree", "SYS_HEAPFREE", <<"ptr">>, {}),
    Stub("Sys_MboxCreate", "SYS_MBOXCREATE", <<"numslots", "slotsize">>, {<<"mid", 1>>}),
    Stub("Sys_MboxRelease", "SYS_MBOXRELEASE", <<"mbox">>, {}),
    Stub("Sys_MboxSend", "SYS_MBOXSEND", <<"mbox", "msg", "size">>, {<<"size", 3>>}),
    Stub("Sys_MboxReceive", "SYS_MBOXRECEIVE", <<"mbox", "msg", "size">>, {<<"size", 2>>})}

CondMboxStubs == {
    Stub("Sys_MboxCondSend", "SYS_MBOXCONDSEND", <<"mbox", "msg", "size">>, {<<"size", 3>>}),
    Stub("Sys_MboxCondReceive", "SYS_MBOXCONDRECEIVE", <<"mbox", "msg", "size">>,
         {<<"size", 2>>})}

Stubs == ProcessStubs \cup TimeAndDiskStubs \cup ProcInfoAndLockStubs \cup CondStubs
            \cup SemStubs \cup VmStubs \cup HeapAndMboxStubs \cup CondMboxStubs

(* The stubs that look at the return value before they take their results. *)
ResultsIfOk == {"Sys_VmInit"}

(* The numbers of the calls are the places in this list, from 1 on.        *)
OpCodes ==
    <<"SYS_TERMREAD", "SYS_TERMWRITE", "SYS_SPAWN", "SYS_WAIT", "SYS_TERMINATE",
      "SYS_MBOXCREATE", "SYS_MBOXRELEASE", "SYS_MBOXSEND", "SYS_MBOXRECEIVE",
      "SYS_MBOXCONDSEND", "SYS_MBOXCONDRECEIVE", "SYS_SLEEP", "SYS_DISKREAD",
      "SYS_DISKWRITE", "SYS_DISKSIZE", "SYS_SEMCREATE", "SYS_SEMP", "SYS_SEMV",
      "SYS_SEMFREE", "SYS_GETTIMEOFDAY", "SYS_GETPROCINFO", "SYS_GETPID", "SYS_SEMNAME",
      "SYS_LOCKCREATE", "SYS_LOCKFREE", "SYS_LOCKNAME", "SYS_LOCKACQUIRE",
      "SYS_LOCKRELEASE", "SYS_CONDCREATE", "SYS_CONDFREE", "SYS_CONDNAME",
      "SYS_CONDWAIT", "SYS_CONDSIGNAL", "SYS_CONDBROADCAST", "SYS_VMINIT",
      "SYS_VMSHUTDOWN", "SYS_HEAPALLOC", "SYS_HEAPFREE", "SYS_PROTECT", "SYS_SHARE",
      "SYS_COW", "SYS_DUMPPROCESSES">>

(* What the proofs use of the table, so that they need not expand it: a    *)
(* service has one number and one stub, and the result fields of a stub    *)
(* are apart from each other and from the return value's.                  *)
ASSUME TableAssumption ==
    /\ \A i, j \in DOMAIN OpCodes : OpCodes[i] = OpCodes[j] => i = j
    /\ \A s \in Stubs : \E i \in DOMAIN OpCodes : OpCodes[i] = s.op
    /\ \A s, t \in Stubs : (s.op = t.op \/ s.name = t.name) => s = t
    /\ \A s \in Stubs : /\ Len(s.in) \in 0 .. 5
                        /\ s.out \subseteq STRING \X {1, 2, 3}
    /\ \A s \in Stubs : \A o, p \in s.out : o[2] = p[2] => o = p
============================================================================
