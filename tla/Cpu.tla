-------------------------------- MODULE Cpu --------------------------------
(***************************************************************************)
(* The processor of USLOSS: the status word, interrupts, traps, contexts   *)
(* and USLOSS_WaitInt (sig_ints.c, globals.c).                             *)
(*                                                                         *)
(* Interrupts are the host's timer signal and traps are SIGUSR1, which a   *)
(* process raises on itself; disabling interrupts is blocking both.  One   *)
(* routine, sighandler, takes every signal.  It keeps the status word of   *)
(* the code it interrupted in a local variable, so on the stack of that    *)
(* context: a context is modelled by the stack of its handlers, and the    *)
(* operating system may switch to another context in any of them.          *)
(*                                                                         *)
(* A routine that runs with both signals blocked is one action.  What the  *)
(* device interrupts do is in Devices; memory faults are in Mmu; system    *)
(* calls are made by the stubs of Syscalls.                                *)
(***************************************************************************)
EXTENDS Naturals, Sequences

CONSTANTS
    Contexts,    \* the contexts of the operating system
    Boot,        \* the one that startup runs on
    PsrArgs,     \* what it passes to USLOSS_PsrSet
    Installed,   \* the interrupts that have a handler in USLOSS_IntVec
    IllegalReturns,  \* whether the illegal-instruction handler may return
    VirtualTime, \* virtual_time: whether the timer runs with the process only
    MaxDepth     \* bound on the handlers nested on the stack of each context

(* CM and CI are the current mode and interrupt bits, PM and PI the        *)
(* previous ones; upper stands for the bits outside USLOSS_PSR_MASK.       *)
PsrBits == {"CM", "CI", "PM", "PI"}
Traps   == {"SYSCALL", "ILLEGAL"}

ASSUME ContextsAssumption == Boot \in Contexts

ASSUME ArgsAssumption ==
    /\ PsrArgs \subseteq SUBSET (PsrBits \cup {"upper"})
    /\ Installed \subseteq Traps \cup {"DEVICE"}
    /\ IllegalReturns \in BOOLEAN
    /\ VirtualTime \in BOOLEAN
    /\ MaxDepth \in [Contexts -> Nat]

NoTrap == [kind |-> "none", by |-> Boot]

VARIABLES
    psr,       \* current_psr
    masked,    \* whether SIG_ALARM and SIGUSR1 are blocked
    pending,   \* whether a timer signal is waiting to be delivered
    trap,      \* trap_pending, and who raised it (syscall_arg)
    waiting,   \* USLOSSwaiting
    pc,        \* the running code: "run", in "raise", in the raise of a
               \* "refuse"d USLOSS_PsrSet or going on with it, "psrset"; in
               \* USLOSS_WaitInt, about to "check" the flag, about to "pause"
               \* and "paused"
    cur,       \* the running context
    ctx,       \* of each context: "none", "fresh", "running", or what its
               \* call of USLOSS_ContextSwitch does last: "int_on" or "int_off"
    frames,    \* the handlers each context has not returned from, last first
    dropped,   \* the contexts whose code outside handlers is in user mode
    fate       \* "running", or how the simulator ended

vars == <<psr, masked, pending, trap, waiting, pc, cur, ctx, frames, dropped, fate>>

Kernel  == "CM" \in psr
Running == fate = "running"
Executes == Running /\ pc = "run"

Init ==
    /\ psr = {"CM"}
    /\ masked = TRUE
    /\ pending = FALSE
    /\ trap = NoTrap
    /\ waiting = FALSE
    /\ pc = "run"
    /\ cur = Boot
    /\ ctx = [c \in Contexts |-> IF c = Boot THEN "running" ELSE "none"]
    /\ frames = [c \in Contexts |-> <<>>]
    /\ dropped = {}
    /\ fate = "running"

Dies(how) ==
    /\ fate' = how
    /\ UNCHANGED <<psr, masked, pending, trap, waiting, pc, cur, ctx, frames, dropped>>

-----------------------------------------------------------------------------
(* Signals.                                                                *)

(* The status word in a handler: kernel mode, interrupts off, and the      *)
(* previous bits are what the current ones were.                           *)
Saved(p) == (IF "CM" \in p THEN {"PM"} ELSE {}) \cup (IF "CI" \in p THEN {"PI"} ELSE {})

(* sighandler is called on the stack of the running context, which goes on *)
(* at after when the handler returns.                                      *)
Enter(kind, by, after) ==
    /\ frames' = [frames EXCEPT ![cur] =
                    <<[psr |-> psr, pc |-> after, kind |-> kind, by |-> by]>> \o @]
    /\ psr' = {"CM"} \cup Saved(psr)
    /\ masked' = TRUE
    /\ pc' = "run"

AlarmArrives ==
    /\ Running
    /\ pending' = TRUE
    /\ UNCHANGED <<psr, masked, trap, waiting, pc, cur, ctx, frames, dropped, fate>>

(* Mutant: the timer signal is taken all the same.                         *)
BugPostponed == FALSE

(* A trap has been announced but its signal not yet taken: the timer signal *)
(* must not let the operating system switch to another context.             *)
Postponed == trap # NoTrap

(* Mutant: the timer signal leaves USLOSS_WaitInt waiting.                 *)
BugStillWaiting == waiting

(* USLOSSwaiting is cleared before anything else is looked at.             *)
StillWaiting == FALSE

(* A signal ends pause() and raise(); any other code goes on where it was. *)
Resumes == IF pc = "paused" THEN "check" ELSE pc

TakeAlarm ==
    /\ Running
    /\ pending /\ ~masked
    /\ Len(frames[cur]) < MaxDepth[cur]
    /\ pending' = FALSE
    /\ waiting' = StillWaiting
    /\ IF Postponed
         THEN UNCHANGED <<psr, masked, pc, frames, fate>>
         ELSE /\ Enter("DEVICE", cur, Resumes)
              /\ fate' = IF "DEVICE" \in Installed THEN fate ELSE "trapped"
    /\ UNCHANGED <<trap, cur, ctx, dropped>>

(* USLOSS_Syscall and USLOSS_IllegalInstruction up to raise: both check    *)
(* the mode and that the signal is not blocked.                            *)
Raise(kind, at) ==
    /\ Executes
    /\ IF Kernel \/ masked
         THEN Dies("aborted")
         ELSE /\ trap' = [kind |-> kind, by |-> cur]
              /\ pc' = at
              /\ UNCHANGED <<psr, masked, pending, waiting, cur, ctx, frames, dropped, fate>>

RaiseTrap(kind) == Raise(kind, "raise")

TakeTrap ==
    /\ Running
    /\ pc \in {"raise", "refuse"}
    /\ Len(frames[cur]) < MaxDepth[cur]
    /\ IF trap = NoTrap
         THEN Dies("aborted")
         ELSE /\ trap' = NoTrap
              /\ Enter(trap.kind, trap.by, IF pc = "refuse" THEN "psrset" ELSE "run")
              /\ fate' = IF trap.kind \in Installed THEN fate ELSE "trapped"
              /\ UNCHANGED <<pending, waiting, cur, ctx, dropped>>

(* Mutant: the status word stays the one the handler left.                 *)
BugRestored(f) == psr

(* The end of sighandler; the host then restores the signal mask, in which *)
(* the signal taken was not blocked.                                       *)
Restored(f) == f.psr

HandlerReturn ==
    /\ Executes
    /\ frames[cur] # <<>>
    /\ Head(frames[cur]).kind = "ILLEGAL" => IllegalReturns
    /\ psr' = Restored(Head(frames[cur]))
    /\ pc' = Head(frames[cur]).pc
    /\ frames' = [frames EXCEPT ![cur] = Tail(@)]
    /\ masked' = FALSE
    /\ UNCHANGED <<pending, trap, waiting, cur, ctx, dropped, fate>>

-----------------------------------------------------------------------------
(* The status word.                                                        *)

(* Mutants: user mode without interrupts is let through; or bits outside   *)
(* the mask are.                                                           *)
BugInvalid(new) == "upper" \in new

BugInvalidUpper(new) == {"CM", "CI"} \cap new = {}

Invalid(new) == "upper" \in new \/ {"CM", "CI"} \cap new = {}

(* check_kernel_mode only raises the illegal-instruction trap.             *)
PsrRefused == ~Kernel /\ Raise("ILLEGAL", "refuse")

(* In kernel mode, or in user mode once the handler of that trap returned. *)
(* An invalid value is refused after int_off, and then nothing turns the   *)
(* interrupts on again.                                                    *)
PsrSet(new) ==
    /\ Running
    /\ pc = "psrset" \/ (pc = "run" /\ Kernel)
    /\ pc' = "run"
    /\ psr' = IF Invalid(new) THEN psr ELSE new
    /\ masked' = (Invalid(new) \/ "CI" \notin new)
    /\ dropped' = IF frames[cur] = <<>> /\ ~Invalid(new) /\ "CM" \notin new
                    THEN dropped \cup {cur} ELSE dropped
    /\ UNCHANGED <<pending, trap, waiting, cur, ctx, frames, fate>>

WaitInt ==
    /\ Executes
    /\ IF "CI" \notin psr
         THEN Dies("trapped")
         ELSE /\ waiting' = TRUE
              /\ pc' = "check"
              /\ UNCHANGED <<psr, masked, pending, trap, cur, ctx, frames, dropped, fate>>

(* The loop of USLOSS_WaitInt: in virtual time it raises the timer's own   *)
(* signal; in real time it calls pause, and a signal that comes between    *)
(* the check and that call does not end the pause.                         *)
WaitLoops ==
    /\ Running
    /\ pc = "check"
    /\ pc' = CASE ~waiting                -> "run"
               [] waiting /\ VirtualTime  -> "paused"
               [] waiting /\ ~VirtualTime -> "pause"
    /\ pending' = (pending \/ (waiting /\ VirtualTime))
    /\ UNCHANGED <<psr, masked, trap, waiting, cur, ctx, frames, dropped, fate>>

Pause ==
    /\ Running
    /\ pc = "pause"
    /\ pc' = "paused"
    /\ UNCHANGED <<psr, masked, pending, trap, waiting, cur, ctx, frames, dropped, fate>>

-----------------------------------------------------------------------------
(* Contexts.                                                               *)

(* getcontext records the signal mask, with both signals blocked.  int_off *)
(* precedes the check of the mode, which so cannot raise its trap.         *)
ContextInit(c) ==
    /\ Executes
    /\ c # cur
    /\ IF ~Kernel
         THEN Dies("aborted")
         ELSE /\ ctx' = [ctx EXCEPT ![c] = "fresh"]
              /\ frames' = [frames EXCEPT ![c] = <<>>]
              /\ dropped' = dropped \ {c}
              /\ UNCHANGED <<psr, masked, pending, trap, waiting, pc, cur, fate>>

(* The status word is not part of a context: the next one starts with, or  *)
(* goes on with, what the last one left in it.  save is FALSE for a NULL   *)
(* old_context.                                                            *)
ContextSwitch(c, save) ==
    /\ Executes
    /\ ctx[c] \in {"fresh", "int_on", "int_off"}
    /\ IF ~Kernel
         THEN Dies("aborted")
         ELSE /\ cur' = c
              /\ ctx' = [ctx EXCEPT ![c] = "running",
                                    ![cur] = CASE ~save -> "none"
                                               [] save /\ masked -> "int_off"
                                               [] save /\ ~masked -> "int_on"]
              /\ frames' = IF save THEN frames ELSE [frames EXCEPT ![cur] = <<>>]
              /\ dropped' = IF save THEN dropped ELSE dropped \ {cur}
              /\ masked' = (ctx[c] # "int_on")
              /\ UNCHANGED <<psr, pending, trap, waiting, pc, fate>>

(* launcher and starter: the function a context was started on must not    *)
(* return.                                                                 *)
StartReturns ==
    /\ Executes
    /\ frames[cur] = <<>>
    /\ Dies("trapped")

-----------------------------------------------------------------------------
(* The end.                                                                *)

(* In any mode: main goes on in its own context, with its status word and  *)
(* its signal mask, calls the operating system's finish and exits.         *)
Halt ==
    /\ Executes
    /\ psr' = {"CM"}
    /\ masked' = TRUE
    /\ fate' = "halted"
    /\ UNCHANGED <<pending, trap, waiting, pc, cur, ctx, frames, dropped>>

(* In user mode the trap of check_kernel_mode comes first, as RaiseTrap.   *)
Abort ==
    /\ Executes
    /\ Kernel
    /\ Dies("aborted")

-----------------------------------------------------------------------------

Ended == ~Running /\ UNCHANGED vars

Next ==
    \/ AlarmArrives
    \/ TakeAlarm
    \/ \E kind \in Traps : RaiseTrap(kind)
    \/ TakeTrap
    \/ HandlerReturn
    \/ PsrRefused
    \/ \E new \in PsrArgs : PsrSet(new)
    \/ WaitInt
    \/ WaitLoops
    \/ Pause
    \/ \E c \in Contexts : ContextInit(c)
    \/ \E c \in Contexts, save \in BOOLEAN : ContextSwitch(c, save)
    \/ StartReturns
    \/ Halt
    \/ Abort
    \/ Ended

Spec == Init /\ [][Next]_vars

(* A step of a wait that context c is in, made in its n-th handler.        *)
WaitStep(c, n) == cur = c /\ Len(frames[c]) = n /\ (WaitLoops \/ Pause)

(* The interval timer is periodic, the host delivers a signal not blocked, *)
(* and the timer's period leaves whatever code it comes back to the time   *)
(* for a step.                                                             *)
FairSpec ==
    /\ Spec
    /\ WF_vars(AlarmArrives) /\ WF_vars(TakeAlarm)
    /\ \A c \in Contexts : \A n \in 0 .. MaxDepth[c] - 1 : SF_vars(WaitStep(c, n))
============================================================================
