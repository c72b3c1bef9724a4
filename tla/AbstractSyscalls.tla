-------------------------- MODULE AbstractSyscalls --------------------------
(***************************************************************************)
(* What a system call promises a process: it asks for a service, the       *)
(* operating system answers that service once and for that process, and    *)
(* the process gets that answer; or it is given up and gets nothing.       *)
(***************************************************************************)
CONSTANTS
    Processes,
    Services,
    ResultsOf(_)   \* the names of the results of each service

VARIABLES
    call,   \* what each process has asked for and not yet got back
    back    \* what the last step handed back to a process, if anything

vars == <<call, back>>

Idle    == [stage |-> "idle"]
Nothing == [by |-> "nobody"]

Asked(s)        == [stage |-> "asked", service |-> s]
Answered(s, ok) == [stage |-> "answered", service |-> s, ok |-> ok]

(* Results that were written for process p.                                *)
Results(s, p) == {<<r, p>> : r \in ResultsOf(s)}

Init ==
    /\ call = [p \in Processes |-> Idle]
    /\ back = Nothing

Ask(p, s) ==
    /\ call[p] = Idle
    /\ call' = [call EXCEPT ![p] = Asked(s)]
    /\ back' = Nothing

Answer(p, ok) ==
    /\ call[p].stage = "asked"
    /\ call' = [call EXCEPT ![p] = Answered(@.service, ok)]
    /\ back' = Nothing

(* Of the results of a call that failed nothing is said.                   *)
Return(p) ==
    /\ call[p].stage = "answered"
    /\ call' = [call EXCEPT ![p] = Idle]
    /\ back'.by = p
    /\ back'.service = call[p].service
    /\ back'.ok = call[p].ok
    /\ call[p].ok => back'.results = Results(call[p].service, p)

GiveUp(p) ==
    /\ call[p] # Idle
    /\ call' = [call EXCEPT ![p] = Idle]
    /\ back' = Nothing

Forget ==
    /\ back' = Nothing
    /\ UNCHANGED call

Next ==
    \/ Forget
    \/ \E p \in Processes, s \in Services : Ask(p, s)
    \/ \E p \in Processes, ok \in BOOLEAN : Answer(p, ok)
    \/ \E p \in Processes : Return(p) \/ GiveUp(p)

Spec == Init /\ [][Next]_vars
=============================================================================
