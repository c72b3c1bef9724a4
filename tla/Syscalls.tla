------------------------------ MODULE Syscalls ------------------------------
(***************************************************************************)
(* System calls end to end: the stubs of the user library (libuser.c) on   *)
(* the processor (Cpu), which delivers the trap to a handler.              *)
(*                                                                         *)
(* The handler is the operating system's.  What it owes the library is     *)
(* read off the stubs: it looks up the service by number, writes the       *)
(* return value to arg4 and, when the service succeeds, its results to the *)
(* fields the stub takes them from; it returns once it has.  No source but *)
(* the stubs names those fields, so that which field a result is in is a   *)
(* convention taken from them and nothing found out about them.  The       *)
(* handler may block the process by switching to another context before    *)
(* or after.                                                               *)
(***************************************************************************)
EXTENDS Cpu, Stubs

CONSTANT StubsOf   \* the stubs each context calls, outside handlers

ASSUME StubsOfAssumption == StubsOf \in [Contexts -> SUBSET Stubs]

VARIABLES
    call,   \* the stub each context is in, and its USLOSS_Sysargs
    back    \* what the last step returned from a stub, if it did

sysvars == <<vars, call, back>>

(* Values are told apart by who wrote them, for whom, and what they are.   *)
Param(c, name) == [from |-> "stub", by |-> c, of |-> name]
Junk(c)        == [from |-> "stack", by |-> c, of |-> "junk"]
Reply(c, name) == [from |-> "handler", by |-> c, of |-> name]

NoCall  == [stage |-> "none"]
Nothing == [by |-> "nobody"]

SysInit ==
    /\ Init
    /\ call = [c \in Contexts |-> NoCall]
    /\ back = Nothing

-----------------------------------------------------------------------------
(* The stubs.                                                              *)

(* Mutants: one stub was copied from another, number and all; or the       *)
(* numbers are counted from 0.                                             *)
BugNumber(s) ==
    CHOOSE i \in DOMAIN OpCodes :
        OpCodes[i] = IF s.op = "SYS_HEAPALLOC" THEN "SYS_VMINIT" ELSE s.op

BugNumberFromZero(s) == (CHOOSE i \in DOMAIN OpCodes : OpCodes[i] = s.op) - 1

Number(s) == CHOOSE i \in DOMAIN OpCodes : OpCodes[i] = s.op

Packed(c, s) ==
    [number |-> Number(s),
     arg |-> [p \in 1 .. 5 |-> IF p <= Len(s.in) THEN Param(c, s.in[p]) ELSE Junk(c)]]

(* CHECKMODE halts the simulator in kernel mode: that is Halt of Cpu.      *)
CallStub(s) ==
    /\ s \in StubsOf[cur]
    /\ frames[cur] = <<>>
    /\ call[cur] = NoCall
    /\ ~Kernel
    /\ RaiseTrap("SYSCALL")
    /\ call' = [call EXCEPT ![cur] = [stage |-> "asked", stub |-> s, sa |-> Packed(cur, s)]]
    /\ back' = Nothing

(* The context is in a stub, back from the trap.                           *)
InStub == Executes /\ frames[cur] = <<>> /\ call[cur] # NoCall

Ok(sa) == sa.arg[4].of = "ok"

(* Mutant: results are taken as if they stood in argument order.           *)
BugTaken(s, sa) == {<<o[1], sa.arg[1]>> : o \in s.out}

Taken(s, sa) ==
    IF s.name \in ResultsIfOk /\ ~Ok(sa) THEN {} ELSE {<<o[1], sa.arg[o[2]]>> : o \in s.out}

StubReturns ==
    /\ InStub
    /\ call' = [call EXCEPT ![cur] = NoCall]
    /\ back' = [by |-> cur, stub |-> call[cur].stub, sa |-> call[cur].sa,
                results |-> Taken(call[cur].stub, call[cur].sa)]
    /\ UNCHANGED vars

-----------------------------------------------------------------------------
(* The operating system's handler.                                         *)

(* The services a number may stand for.                                    *)
Served(n) == {s \in Stubs : Number(s) = n /\ OpCodes[n] = s.op}

Written(s, sa, ok) ==
    [p \in 1 .. 5 |->
        CASE p = 4 -> Reply(cur, IF ok THEN "ok" ELSE "failed")
          [] p # 4 /\ ok /\ (\E o \in s.out : o[2] = p) ->
                 Reply(cur, (CHOOSE o \in s.out : o[2] = p)[1])
          [] OTHER -> sa.arg[p]]

(* The handler got the address of the structure, and works on it there.    *)
Serve(ok) ==
    /\ Executes /\ Kernel
    /\ frames[cur] # <<>>
    /\ Head(frames[cur]).kind = "SYSCALL"
    /\ LET c == Head(frames[cur]).by
       IN /\ call[c] # NoCall
          /\ call[c].stage = "asked"
          /\ \E s \in Served(call[c].sa.number) :
                call' = [call EXCEPT ![c] =
                    [stage |-> "answered", stub |-> @.stub,
                     sa |-> [number |-> @.sa.number, arg |-> Written(s, @.sa, ok)]]]
    /\ back' = Nothing
    /\ UNCHANGED vars

(* It does not return before it has answered.                              *)
MayReturn ==
    Head(frames[cur]).kind = "SYSCALL" =>
        LET c == Head(frames[cur]).by IN call[c] # NoCall /\ call[c].stage = "answered"

-----------------------------------------------------------------------------

(* A context that is made anew, or left for good, is in no stub.           *)
Forgets(c) == call' = [call EXCEPT ![c] = NoCall]

(* What else the processor does; code inside a stub does nothing else.     *)
OtherCode ==
    \/ (RaiseTrap("ILLEGAL") \/ PsrRefused \/ WaitInt \/ StartReturns \/ Halt \/ Abort)
           /\ UNCHANGED call
    \/ (\E new \in PsrArgs : PsrSet(new)) /\ UNCHANGED call
    \/ \E c \in Contexts : ContextInit(c) /\ Forgets(c)
    \/ \E c \in Contexts : ContextSwitch(c, TRUE) /\ UNCHANGED call
    \/ \E c \in Contexts : ContextSwitch(c, FALSE) /\ Forgets(cur)

Processor ==
    /\ \/ (AlarmArrives \/ TakeAlarm \/ TakeTrap \/ WaitLoops \/ Pause) /\ UNCHANGED call
       \/ HandlerReturn /\ MayReturn /\ UNCHANGED call
       \/ ~InStub /\ OtherCode
    /\ back' = Nothing

SysNext ==
    \/ \E s \in Stubs : CallStub(s)
    \/ StubReturns
    \/ \E ok \in BOOLEAN : Serve(ok)
    \/ Processor
    \/ Ended /\ UNCHANGED <<call, back>>

SysSpec == SysInit /\ [][SysNext]_sysvars
=============================================================================
