------------------------- MODULE SyscallsProperties -------------------------
(***************************************************************************)
(* What a system call owes the process that makes it.                      *)
(***************************************************************************)
EXTENDS Syscalls, CpuProperties

Words ==
    {"junk", "ok", "failed"}
        \cup (UNION {{s.in[p] : p \in 1 .. Len(s.in)} : s \in Stubs})
        \cup (UNION {{o[1] : o \in s.out} : s \in Stubs})

Values == [from : {"stub", "stack", "handler"}, by : Contexts, of : Words]
Sysargs == [number : DOMAIN OpCodes, arg : [1 .. 5 -> Values]]
Calls == {NoCall} \cup [stage : {"asked", "answered"}, stub : Stubs, sa : Sysargs]

(* The type of the calls and of what they return, on top of the processor's. *)
SysTypeOK ==
    /\ TypeOK
    /\ call \in [Contexts -> Calls]
    /\ back \in {Nothing} \cup [by : Contexts, stub : Stubs, sa : Sysargs,
                                results : SUBSET (Words \X Values)]

HandlersOf(c) == {i \in DOMAIN frames[c] : frames[c][i].kind = "SYSCALL"}
Announced(c)  == trap.kind = "SYSCALL" /\ trap.by = c

(* A process in a stub has its call announced, or one handler on its own   *)
(* stack, never both and never two; a process in no stub has neither.      *)
(* trap_pending and syscall_arg are one for all processes, and handlers    *)
(* are left by context switches and interrupted by timer signals.          *)
EachCallHasItsHandler ==
    Running => \A c \in Contexts :
        /\ \A i, j \in HandlersOf(c) : i = j
        /\ call[c] = NoCall => HandlersOf(c) = {} /\ ~Announced(c)
        /\ call[c] # NoCall /\ call[c].stage = "asked" => (HandlersOf(c) # {}) # Announced(c)
        /\ call[c] # NoCall /\ call[c].stage = "answered" => ~Announced(c)

-----------------------------------------------------------------------------
(* System calls are those of AbstractSyscalls, if a process sees only the  *)
(* return value, the results, and for whom the handler wrote them.         *)

Owner(v) == IF v.from = "handler" THEN v.by ELSE v.from

AbstractOf(cl) ==
    IF cl = NoCall THEN [stage |-> "idle"]
    ELSE IF cl.stage = "asked"
      THEN [stage |-> "asked", service |-> cl.stub.name]
      ELSE [stage |-> "answered", service |-> cl.stub.name, ok |-> Ok(cl.sa)]

AbstractCall == [c \in Contexts |-> AbstractOf(call[c])]

AbstractBack ==
    IF back = Nothing THEN Nothing
    ELSE [by |-> back.by, service |-> back.stub.name, ok |-> Ok(back.sa),
          results |-> {<<r[1], IF r[2].of = r[1] THEN Owner(r[2]) ELSE "mixed up">>
                          : r \in back.results}]

StubNames      == {s.name : s \in Stubs}
ResultNames(n) == {o[1] : o \in (CHOOSE s \in Stubs : s.name = n).out}

Abstract == INSTANCE AbstractSyscalls
    WITH Processes <- Contexts, Services <- StubNames, ResultsOf <- ResultNames,
         call <- AbstractCall, back <- AbstractBack

(* Every system call that returns was answered once, by the service of its *)
(* own number, in a handler that ran for its own process, and what it      *)
(* hands back when it succeeded is what that handler wrote.                *)
ImplementsAbstractSyscalls == Abstract!Spec
=============================================================================
