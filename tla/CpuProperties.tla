--------------------------- MODULE CpuProperties ---------------------------
(***************************************************************************)
(* What the processor owes the operating system.                           *)
(***************************************************************************)
EXTENDS Cpu

WaitPlaces == {"check", "pause", "paused"}

Places == {"run", "raise", "refuse", "psrset"} \cup WaitPlaces

TypeOK ==
    /\ psr \in SUBSET PsrBits
    /\ masked \in BOOLEAN
    /\ pending \in BOOLEAN
    /\ trap \in [kind : Traps, by : Contexts] \cup {NoTrap}
    /\ waiting \in BOOLEAN
    /\ pc \in Places
    /\ cur \in Contexts
    /\ ctx \in [Contexts -> {"none", "fresh", "running", "int_on", "int_off"}]
    /\ frames \in [Contexts -> Seq([psr : SUBSET PsrBits, pc : Places,
                                    kind : Traps \cup {"DEVICE"}, by : Contexts])]
    /\ dropped \in SUBSET Contexts
    /\ fate \in {"running", "trapped", "aborted", "halted"}

(* The handler of a trap runs on the stack of the process that raised it,  *)
(* with that process's argument, whatever timer signals and switches come  *)
(* in between: trap_pending and syscall_arg are global (USLOSS_Syscall).   *)
TrapReachesCaller ==
    \A c \in Contexts : \A i \in DOMAIN frames[c] :
        frames[c][i].kind \in Traps => frames[c][i].by = c

(* When finish() runs nothing of the operating system is left over that    *)
(* its own calls would meet: no announced trap, no USLOSSwaiting, wherever *)
(* the USLOSS_Halt came from (a handler, another context, user code).      *)
FinishIsClean == fate = "halted" => trap = NoTrap /\ ~waiting

(* The call of USLOSS_WaitInt that context c made in the n-th handler on   *)
(* its stack (outside handlers if n = 0) has not returned.                 *)
InWait(c, n) ==
    IF Len(frames[c]) > n THEN frames[c][Len(frames[c]) - n].pc \in WaitPlaces
    ELSE Len(frames[c]) = n /\ cur = c /\ pc \in WaitPlaces

(* A call of USLOSS_WaitInt does not wait for ever, if the handlers that   *)
(* interrupt it come back to it and the signals are not blocked: neither a *)
(* timer signal between its check of USLOSSwaiting and pause(), nor other  *)
(* calls of it, in those handlers or in other contexts, which share that   *)
(* flag, leave it behind (n < MaxDepth[c]: the model's bound on handlers). *)
WaitEnds ==
    \A c \in Contexts : \A n \in 0 .. MaxDepth[c] - 1 :
        []<>(InWait(c, n) /\ Len(frames[c]) = n /\ ~masked) => []<>~InWait(c, n)

-----------------------------------------------------------------------------
(* If the handler of illegal instructions does not return.                 *)

(* User code can always be interrupted: neither the status word nor the    *)
(* host's signal mask ever says otherwise in user mode, so no process can  *)
(* keep the processor (USLOSS_PsrSet, sighandler, ContextSwitch).          *)
UserIsPreemptible == ~Kernel => "CI" \in psr /\ ~masked

(* A process that went to user mode never finds itself in kernel mode      *)
(* outside a handler, though the status word is not part of a context and  *)
(* the operating system switches contexts in the middle of handlers.       *)
UserStaysUser == Running /\ cur \in dropped /\ frames[cur] = <<>> => ~Kernel

-----------------------------------------------------------------------------
(* What the sources say and the code does not do.  globals.c:244-248 says  *)
(* that user code calling a routine of kernel mode ends the simulator; if  *)
(* the handler returns USLOSS_PsrSet goes on, and UserStaysUser is broken. *)

(* globals.c:38, "the interrupt value in the psr corresponds to the signal *)
(* mask" between two calls of the operating system.                        *)
PsrMatchesMask == ("CI" \in psr) = ~masked
============================================================================
