----------------------------- MODULE CpuProofs -----------------------------
(***************************************************************************)
(* Theorems about the processor, for any number of contexts, any arguments *)
(* of USLOSS_PsrSet and handlers nested to any depth.                      *)
(***************************************************************************)
EXTENDS CpuProperties, SequenceTheorems, TLAPS

Frame == [psr : SUBSET PsrBits, pc : Places,
          kind : Traps \cup {"DEVICE"}, by : Contexts]

(* The sequences sighandler's calls and returns make of a stack.           *)
LEMMA Pushed ==
    ASSUME NEW S, NEW s \in Seq(S), NEW x \in S
    PROVE  /\ <<x>> \o s \in Seq(S)
           /\ Len(<<x>> \o s) = Len(s) + 1
           /\ (<<x>> \o s)[1] = x
           /\ \A i \in 2 .. Len(s) + 1 : (<<x>> \o s)[i] = s[i - 1]
  OBVIOUS

LEMMA Popped ==
    ASSUME NEW S, NEW s \in Seq(S), s # <<>>
    PROVE  /\ Head(s) \in S
           /\ Head(s) = s[1]
           /\ Tail(s) \in Seq(S)
           /\ Len(s) \in Nat \ {0}
           /\ Len(Tail(s)) = Len(s) - 1
           /\ \A i \in 1 .. Len(s) - 1 : Tail(s)[i] = s[i + 1]
  OBVIOUS

(* The stack of the running context after sighandler is called, and after  *)
(* it returns.                                                             *)
LEMMA Entered ==
    ASSUME TypeOK, NEW kind \in Traps \cup {"DEVICE"}, NEW by \in Contexts,
           NEW after \in Places, Enter(kind, by, after)
    PROVE  /\ frames' \in [Contexts -> Seq(Frame)]
           /\ psr' \in SUBSET PsrBits /\ Kernel'
           /\ masked' = TRUE /\ pc' = "run"
           /\ \A c \in Contexts \ {cur} : frames'[c] = frames[c]
           /\ Len(frames'[cur]) = Len(frames[cur]) + 1
           /\ frames'[cur][1] = [psr |-> psr, pc |-> after, kind |-> kind, by |-> by]
           /\ \A i \in 2 .. Len(frames[cur]) + 1 : frames'[cur][i] = frames[cur][i - 1]
  <1> DEFINE f == [psr |-> psr, pc |-> after, kind |-> kind, by |-> by]
  <1>1. f \in Frame /\ frames[cur] \in Seq(Frame) /\ cur \in Contexts
    BY DEF TypeOK, Frame
  <1>2. frames \in [Contexts -> Seq(Frame)]
    BY DEF TypeOK, Frame
  <1>3. frames' = [frames EXCEPT ![cur] = <<f>> \o frames[cur]]
    BY DEF Enter
  <1>4. frames'[cur] = <<f>> \o frames[cur]
    BY <1>1, <1>2, <1>3
  <1>5. frames' \in [Contexts -> Seq(Frame)]
    BY <1>1, <1>2, <1>3, Pushed
  <1>6. /\ Len(frames'[cur]) = Len(frames[cur]) + 1
        /\ frames'[cur][1] = f
        /\ \A i \in 2 .. Len(frames[cur]) + 1 : frames'[cur][i] = frames[cur][i - 1]
    BY <1>1, <1>4, Pushed
  <1>7. psr' \in SUBSET PsrBits /\ Kernel'
    BY DEF Enter, Saved, PsrBits, Kernel
  <1> QED
    BY <1>1, <1>2, <1>3, <1>5, <1>6, <1>7 DEF Enter

LEMMA Returned ==
    ASSUME TypeOK, frames[cur] # <<>>, frames' = [frames EXCEPT ![cur] = Tail(@)]
    PROVE  /\ frames' \in [Contexts -> Seq(Frame)]
           /\ Head(frames[cur]) \in Frame
           /\ Head(frames[cur]) = frames[cur][1]
           /\ Len(frames[cur]) \in Nat \ {0}
           /\ \A c \in Contexts \ {cur} : frames'[c] = frames[c]
           /\ Len(frames'[cur]) = Len(frames[cur]) - 1
           /\ \A i \in 1 .. Len(frames[cur]) - 1 : frames'[cur][i] = frames[cur][i + 1]
  <1>1. /\ frames \in [Contexts -> Seq(Frame)]
        /\ frames[cur] \in Seq(Frame) /\ cur \in Contexts
    BY DEF TypeOK, Frame
  <1>2. frames'[cur] = Tail(frames[cur])
    BY <1>1
  <1> QED
    BY <1>1, <1>2, Popped

-----------------------------------------------------------------------------

LEMMA TypeInit == Init => TypeOK
  <1>1. <<>> \in Seq(Frame)
    BY EmptySeq
  <1> QED
    BY <1>1, ContextsAssumption DEF Init, TypeOK, NoTrap, PsrBits, Frame, Places

LEMMA TypeStep == TypeOK /\ [Next]_vars => TypeOK'
  <1> SUFFICES ASSUME TypeOK, [Next]_vars
               PROVE  TypeOK'
    OBVIOUS
  <1>1. CASE AlarmArrives
    BY <1>1 DEF TypeOK, AlarmArrives
  <1>2. CASE TakeAlarm
    <2>1. CASE Postponed
      BY <1>2, <2>1 DEF TypeOK, TakeAlarm, StillWaiting
    <2>2. CASE ~Postponed
      <3>1. Enter("DEVICE", cur, Resumes) /\ Resumes \in Places
        BY <1>2, <2>2 DEF TakeAlarm, TypeOK, Resumes, Places, WaitPlaces
      <3>2. /\ frames' \in [Contexts -> Seq(Frame)]
            /\ psr' \in SUBSET PsrBits
            /\ masked' = TRUE /\ pc' = "run"
        BY <3>1, Entered DEF TypeOK
      <3> QED
        BY <1>2, <2>2, <3>2 DEF TypeOK, TakeAlarm, StillWaiting, Frame, Places
    <2> QED
      BY <2>1, <2>2
  <1>3. CASE \E kind \in Traps : RaiseTrap(kind)
    <2>1. PICK kind \in Traps : RaiseTrap(kind)
      BY <1>3
    <2>2. [kind |-> kind, by |-> cur] \in [kind : Traps, by : Contexts]
      BY DEF TypeOK
    <2> QED
      BY <2>1, <2>2 DEF TypeOK, RaiseTrap, Raise, Dies, Places
  <1>4. CASE TakeTrap
    <2>1. CASE trap = NoTrap
      BY <1>4, <2>1 DEF TypeOK, TakeTrap, Dies
    <2>2. CASE trap # NoTrap
      <3> DEFINE after == IF pc = "refuse" THEN "psrset" ELSE "run"
      <3>1. /\ Enter(trap.kind, trap.by, after) /\ after \in Places
            /\ trap \in [kind : Traps, by : Contexts]
        BY <1>4, <2>2 DEF TakeTrap, TypeOK, Places
      <3>2. /\ frames' \in [Contexts -> Seq(Frame)]
            /\ psr' \in SUBSET PsrBits
            /\ masked' = TRUE /\ pc' = "run"
        BY <3>1, Entered
      <3> QED
        BY <1>4, <2>2, <3>2 DEF TypeOK, TakeTrap, Frame, Places
    <2> QED
      BY <2>1, <2>2
  <1>5. CASE HandlerReturn
    <2>1. /\ frames' \in [Contexts -> Seq(Frame)]
          /\ Head(frames[cur]) \in Frame
      BY <1>5, Returned DEF HandlerReturn
    <2> QED
      BY <1>5, <2>1 DEF TypeOK, HandlerReturn, Restored, Frame
  <1>6. CASE \E new \in PsrArgs : PsrSet(new)
    <2>1. PICK new \in PsrArgs : PsrSet(new)
      BY <1>6
    <2>2. ~Invalid(new) => new \in SUBSET PsrBits
      BY ArgsAssumption DEF Invalid
    <2> QED
      BY <2>1, <2>2 DEF TypeOK, PsrSet, Places
  <1>7. CASE WaitInt \/ WaitLoops \/ Pause \/ Halt \/ Abort
    BY <1>7 DEF TypeOK, WaitInt, WaitLoops, Pause, Halt, Abort, Dies, Places, WaitPlaces,
       PsrBits
  <1>8. CASE \E c \in Contexts : ContextInit(c)
    <2>1. PICK c \in Contexts : ContextInit(c)
      BY <1>8
    <2>2. <<>> \in Seq(Frame)
      BY EmptySeq
    <2> QED
      BY <2>1, <2>2 DEF TypeOK, ContextInit, Dies, Frame
  <1>9. CASE \E c \in Contexts, save \in BOOLEAN : ContextSwitch(c, save)
    <2>1. PICK c \in Contexts, save \in BOOLEAN : ContextSwitch(c, save)
      BY <1>9
    <2>2. <<>> \in Seq(Frame)
      BY EmptySeq
    <2>3. CASE ~Kernel
      BY <2>1, <2>3 DEF TypeOK, ContextSwitch, Dies
    <2>4. CASE Kernel
      <3>1. ctx' \in [Contexts -> {"none", "fresh", "running", "int_on", "int_off"}]
        BY <2>1, <2>4 DEF TypeOK, ContextSwitch
      <3>2. frames' \in [Contexts -> Seq(Frame)]
        BY <2>1, <2>2, <2>4 DEF TypeOK, ContextSwitch, Frame
      <3> QED
        BY <2>1, <2>4, <3>1, <3>2 DEF TypeOK, ContextSwitch, Frame
    <2> QED
      BY <2>3, <2>4
  <1>10. CASE StartReturns
    BY <1>10 DEF TypeOK, StartReturns, Dies
  <1>11. CASE PsrRefused
    <2>1. [kind |-> "ILLEGAL", by |-> cur] \in [kind : Traps, by : Contexts]
      BY DEF TypeOK, Traps
    <2> QED
      BY <1>11, <2>1 DEF TypeOK, PsrRefused, Raise, Dies, Places
  <1>12. CASE UNCHANGED vars
    BY <1>12 DEF TypeOK, vars
  <1> QED
    BY <1>1, <1>2, <1>3, <1>4, <1>5, <1>6, <1>7, <1>8, <1>9, <1>10, <1>11, <1>12
    DEF Next, Ended

(* The variables of the processor keep their types.                        *)
THEOREM TypeCorrect == Spec => []TypeOK
  BY TypeInit, TypeStep, PTL DEF Spec

-----------------------------------------------------------------------------

(* An announced trap is the running context's, and no handler interrupted  *)
(* its code between the announcement and the signal.                       *)
TrapInv ==
    /\ trap # NoTrap <=> pc \in {"raise", "refuse"}
    /\ trap # NoTrap => trap.by = cur
    /\ pc = "refuse" => trap.kind = "ILLEGAL"
    /\ \A c \in Contexts : \A i \in 1 .. Len(frames[c]) :
          /\ frames[c][i].pc \notin {"raise", "refuse"}
          /\ frames[c][i].kind \in Traps => frames[c][i].by = c

(* USLOSSwaiting is set only while the running code is in USLOSS_WaitInt.  *)
WaitInv == (waiting => pc \in WaitPlaces) /\ FinishIsClean

(* User mode goes with interrupts on, in the status words to restore too.  *)
UserInv ==
    /\ UserIsPreemptible
    /\ \A c \in Contexts : \A i \in 1 .. Len(frames[c]) :
          "CM" \notin frames[c][i].psr => "CI" \in frames[c][i].psr

(* The outermost handler of a context in user mode will restore user mode, *)
(* and only the running context can be without handlers in user mode.      *)
DroppedInv ==
    Running => \A c \in dropped :
        IF frames[c] = <<>> THEN c = cur /\ ~Kernel
        ELSE "CM" \notin frames[c][Len(frames[c])].psr

(* Only the return of an illegal-instruction handler leads back into a     *)
(* USLOSS_PsrSet that was refused.                                         *)
IllegalInv ==
    /\ pc # "psrset"
    /\ \A c \in Contexts : \A i \in 1 .. Len(frames[c]) :
          frames[c][i].pc = "psrset" => frames[c][i].kind = "ILLEGAL"

UserSafety == IllegalReturns \/ (UserInv /\ DroppedInv /\ IllegalInv)

SafetyInv == TrapInv /\ WaitInv /\ UserSafety

LEMMA SafetyInit == Init => SafetyInv
  <1> SUFFICES ASSUME Init
               PROVE  SafetyInv
    OBVIOUS
  <1>1. \A c \in Contexts : frames[c] = <<>> /\ Len(frames[c]) = 0
    BY DEF Init
  <1> QED
    BY <1>1, ContextsAssumption
    DEF Init, SafetyInv, TrapInv, WaitInv, FinishIsClean, UserSafety, UserInv, DroppedInv,
       IllegalInv, UserIsPreemptible, Kernel

(* sighandler on the stack of the running context keeps what is said about *)
(* the stacks: the status word it saves is the one that held till now.     *)
LEMMA EnterKeeps ==
    ASSUME TypeOK, SafetyInv, Running, NEW kind \in Traps \cup {"DEVICE"},
           NEW by \in Contexts, NEW after \in {"run", "psrset"} \cup WaitPlaces,
           kind \in Traps => by = cur,
           IllegalReturns \/ (after = "psrset" => kind = "ILLEGAL"),
           trap' = NoTrap, waiting' = FALSE, UNCHANGED <<cur, dropped>>,
           Enter(kind, by, after)
    PROVE  SafetyInv'
  <1>1. /\ frames \in [Contexts -> Seq(Frame)] /\ cur \in Contexts
        /\ \A c \in Contexts : Len(frames[c]) \in Nat
        /\ dropped \subseteq Contexts
    BY LenProperties DEF TypeOK, Frame
  <1>2. /\ Kernel' /\ pc' = "run"
        /\ \A c \in Contexts \ {cur} : frames'[c] = frames[c]
        /\ Len(frames'[cur]) = Len(frames[cur]) + 1
        /\ frames'[cur][1] = [psr |-> psr, pc |-> after, kind |-> kind, by |-> by]
        /\ \A i \in 2 .. Len(frames[cur]) + 1 : frames'[cur][i] = frames[cur][i - 1]
        /\ frames' \in [Contexts -> Seq(Frame)]
    <2>1. after \in Places
      BY DEF Places
    <2>2. pc' = "run"
      BY DEF Enter
    <2> QED
      BY <2>1, <2>2, Entered
  <1> DEFINE entry == [psr |-> psr, pc |-> after, kind |-> kind, by |-> by]
  <1>3. ASSUME NEW c \in Contexts, NEW i \in 1 .. Len(frames'[c])
        PROVE  \/ c = cur /\ frames'[c][i] = entry
               \/ \E j \in 1 .. Len(frames[c]) : frames'[c][i] = frames[c][j]
    <2>1. CASE c # cur
      <3>1. frames'[c] = frames[c]
        BY <1>2, <2>1
      <3> QED
        BY <3>1, <1>3
    <2>2. CASE c = cur
      <3> DEFINE n == Len(frames[cur])
      <3>1. n \in Nat
        BY <1>1
      <3>2. Len(frames'[cur]) = n + 1 /\ i \in 1 .. Len(frames'[cur])
        BY <1>2, <1>3, <2>2
      <3>3. \A k \in 2 .. n + 1 : frames'[cur][k] = frames[cur][k - 1]
        BY <1>2
      <3>4. frames'[cur][1] = entry
        BY <1>2
      <3> HIDE DEF n, entry
      <3>5. CASE i = 1
        BY <2>2, <3>4, <3>5
      <3>6. CASE i # 1
        <4>1. i \in 2 .. n + 1 /\ i - 1 \in 1 .. n
          BY <3>1, <3>2, <3>6
        <4>2. frames'[cur][i] = frames[cur][i - 1]
          BY <3>3, <4>1
        <4> QED
          BY <2>2, <4>1, <4>2 DEF n
      <3> QED
        BY <3>5, <3>6
    <2> QED
      BY <2>1, <2>2
  <1>4. TrapInv'
    <2>1. ASSUME NEW c \in Contexts, NEW i \in 1 .. Len(frames'[c])
          PROVE  /\ frames'[c][i].pc \notin {"raise", "refuse"}
                 /\ frames'[c][i].kind \in Traps => frames'[c][i].by = c
      <3>1. CASE c = cur /\ frames'[c][i] = entry
        BY <3>1 DEF WaitPlaces
      <3>2. CASE \E j \in 1 .. Len(frames[c]) : frames'[c][i] = frames[c][j]
        BY <3>2 DEF SafetyInv, TrapInv
      <3> QED
        BY <1>3, <3>1, <3>2
    <2>2. trap' = NoTrap /\ pc' = "run"
      BY <1>2
    <2> QED
      BY <2>1, <2>2 DEF TrapInv
  <1>5. ASSUME ~IllegalReturns PROVE UserInv'
    <2>1. ASSUME NEW c \in Contexts, NEW i \in 1 .. Len(frames'[c])
          PROVE  "CM" \notin frames'[c][i].psr => "CI" \in frames'[c][i].psr
      <3>1. CASE c = cur /\ frames'[c][i] = entry
        BY <1>5, <3>1 DEF SafetyInv, UserSafety, UserInv, UserIsPreemptible, Kernel
      <3>2. CASE \E j \in 1 .. Len(frames[c]) : frames'[c][i] = frames[c][j]
        BY <1>5, <3>2 DEF SafetyInv, UserSafety, UserInv
      <3> QED
        BY <1>3, <3>1, <3>2
    <2>2. Kernel'
      BY <1>2
    <2> QED
      BY <2>1, <2>2 DEF UserInv, UserIsPreemptible
  <1>6. ASSUME ~IllegalReturns PROVE DroppedInv'
    <2> SUFFICES ASSUME NEW c \in dropped
                 PROVE  frames'[c] # <<>> /\ "CM" \notin frames'[c][Len(frames'[c])].psr
      BY DEF DroppedInv
    <2>1. CASE c # cur
      <3>1. frames'[c] = frames[c]
        BY <1>1, <1>2, <2>1
      <3> QED
        BY <1>6, <2>1, <3>1 DEF SafetyInv, UserSafety, DroppedInv
    <2>2. CASE c = cur /\ frames[cur] = <<>>
      <3>1. ~Kernel
        BY <1>6, <2>2 DEF SafetyInv, UserSafety, DroppedInv
      <3>2. Len(frames'[cur]) = 1
        BY <1>2, <2>2
      <3>3. frames'[cur][1].psr = psr /\ frames'[cur] # <<>>
        BY <1>2, <3>2
      <3> QED
        BY <2>2, <3>1, <3>2, <3>3 DEF Kernel
    <2>3. CASE c = cur /\ frames[cur] # <<>>
      <3>1. Len(frames[cur]) \in Nat \ {0}
        BY <1>1, <2>3, Popped
      <3>2. frames'[cur][Len(frames'[cur])] = frames[cur][Len(frames[cur])]
        BY <1>2, <3>1
      <3>3. frames'[cur] # <<>>
        BY <1>2, <3>1
      <3> QED
        BY <1>6, <2>3, <3>2, <3>3 DEF SafetyInv, UserSafety, DroppedInv
    <2> QED
      BY <2>1, <2>2, <2>3
  <1>7. ASSUME ~IllegalReturns PROVE IllegalInv'
    <2>1. ASSUME NEW c \in Contexts, NEW i \in 1 .. Len(frames'[c])
          PROVE  frames'[c][i].pc = "psrset" => frames'[c][i].kind = "ILLEGAL"
      <3>1. CASE c = cur /\ frames'[c][i] = entry
        BY <1>7, <3>1
      <3>2. CASE \E j \in 1 .. Len(frames[c]) : frames'[c][i] = frames[c][j]
        BY <1>7, <3>2 DEF SafetyInv, UserSafety, IllegalInv
      <3> QED
        BY <1>3, <3>1, <3>2
    <2>2. pc' = "run"
      BY <1>2
    <2> QED
      BY <2>1, <2>2 DEF IllegalInv
  <1>8. WaitInv'
    BY DEF WaitInv, FinishIsClean
  <1> QED
    BY <1>4, <1>5, <1>6, <1>7, <1>8 DEF SafetyInv, UserSafety

(* The same for its return.                                                *)
LEMMA ReturnKeeps ==
    ASSUME TypeOK, SafetyInv, HandlerReturn
    PROVE  SafetyInv'
  <1>1. /\ frames \in [Contexts -> Seq(Frame)] /\ cur \in Contexts
        /\ \A c \in Contexts : Len(frames[c]) \in Nat
        /\ dropped \subseteq Contexts
    BY LenProperties DEF TypeOK, Frame
  <1>2. /\ frames' \in [Contexts -> Seq(Frame)]
        /\ Head(frames[cur]) = frames[cur][1]
        /\ Len(frames[cur]) \in Nat \ {0}
        /\ \A c \in Contexts \ {cur} : frames'[c] = frames[c]
        /\ Len(frames'[cur]) = Len(frames[cur]) - 1
        /\ \A i \in 1 .. Len(frames[cur]) - 1 : frames'[cur][i] = frames[cur][i + 1]
    BY Returned DEF HandlerReturn
  <1>3. /\ psr' = frames[cur][1].psr /\ pc' = frames[cur][1].pc /\ masked' = FALSE
        /\ pc = "run" /\ UNCHANGED <<trap, cur, dropped>>
    BY <1>2 DEF HandlerReturn, Restored, Executes
  <1>4. ASSUME NEW i \in 1 .. Len(frames'[cur])
        PROVE  i + 1 \in 1 .. Len(frames[cur]) /\ frames'[cur][i] = frames[cur][i + 1]
    BY <1>1, <1>2
  <1>5. 1 \in 1 .. Len(frames[cur])
    BY <1>2
  <1>6. TrapInv'
    <2>1. ASSUME NEW c \in Contexts, NEW i \in 1 .. Len(frames'[c])
          PROVE  /\ frames'[c][i].pc \notin {"raise", "refuse"}
                 /\ frames'[c][i].kind \in Traps => frames'[c][i].by = c
      <3>1. CASE c # cur
        BY <1>2, <3>1, <2>1 DEF SafetyInv, TrapInv
      <3>2. CASE c = cur
        BY <1>1, <1>4, <3>2, <2>1 DEF SafetyInv, TrapInv
      <3> QED
        BY <3>1, <3>2
    <2>2. trap = NoTrap /\ pc' \notin {"raise", "refuse"}
      BY <1>1, <1>3, <1>5 DEF SafetyInv, TrapInv
    <2> QED
      BY <1>3, <2>1, <2>2 DEF TrapInv, NoTrap
  <1>7. ASSUME ~IllegalReturns PROVE UserInv'
    <2>1. ASSUME NEW c \in Contexts, NEW i \in 1 .. Len(frames'[c])
          PROVE  "CM" \notin frames'[c][i].psr => "CI" \in frames'[c][i].psr
      <3>1. CASE c # cur
        BY <1>2, <1>7, <3>1, <2>1 DEF SafetyInv, UserSafety, UserInv
      <3>2. CASE c = cur
        BY <1>1, <1>4, <1>7, <3>2, <2>1 DEF SafetyInv, UserSafety, UserInv
      <3> QED
        BY <3>1, <3>2
    <2>2. "CM" \notin psr' => "CI" \in psr'
      BY <1>1, <1>3, <1>5, <1>7 DEF SafetyInv, UserSafety, UserInv
    <2> QED
      BY <1>3, <2>1, <2>2 DEF UserInv, UserIsPreemptible, Kernel
  <1>8. ASSUME ~IllegalReturns PROVE DroppedInv'
    <2> SUFFICES ASSUME NEW c \in dropped
                 PROVE  IF frames'[c] = <<>> THEN c = cur /\ ~Kernel'
                        ELSE "CM" \notin frames'[c][Len(frames'[c])].psr
      BY <1>3 DEF DroppedInv
    <2>1. CASE c # cur
      BY <1>1, <1>2, <1>8, <2>1 DEF SafetyInv, UserSafety, DroppedInv,
         HandlerReturn, Executes, Running
    <2>2. CASE c = cur /\ frames'[cur] = <<>>
      <3>1. Len(frames[cur]) = 1
        BY <1>2, <2>2
      <3>2. "CM" \notin frames[cur][1].psr
        BY <1>8, <2>2, <3>1 DEF SafetyInv, UserSafety, DroppedInv, HandlerReturn,
           Executes
      <3> QED
        BY <1>3, <2>2, <3>2 DEF Kernel
    <2>3. CASE c = cur /\ frames'[cur] # <<>>
      <3>1. Len(frames'[cur]) \in Nat \ {0}
        BY <1>1, <1>2, <2>3, Popped
      <3>2. /\ Len(frames'[cur]) \in 1 .. Len(frames[cur]) - 1
            /\ Len(frames'[cur]) + 1 = Len(frames[cur])
        <4>1. ASSUME NEW n \in Nat \ {0}, NEW m \in Nat, n = m - 1
              PROVE  n \in 1 .. m - 1 /\ n + 1 = m
          BY <4>1
        <4>2. Len(frames'[cur]) = Len(frames[cur]) - 1 /\ Len(frames[cur]) \in Nat
          BY <1>2
        <4> QED
          BY <3>1, <4>1, <4>2
      <3>3. frames'[cur][Len(frames'[cur])] = frames[cur][Len(frames[cur])]
        BY <1>2, <3>2
      <3> QED
        BY <1>8, <2>3, <3>3 DEF SafetyInv, UserSafety, DroppedInv, HandlerReturn,
           Executes
    <2> QED
      BY <2>1, <2>2, <2>3
  <1>9. ASSUME ~IllegalReturns PROVE IllegalInv'
    <2>1. ASSUME NEW c \in Contexts, NEW i \in 1 .. Len(frames'[c])
          PROVE  frames'[c][i].pc = "psrset" => frames'[c][i].kind = "ILLEGAL"
      <3>1. CASE c # cur
        <4>1. frames'[c] = frames[c] /\ i \in 1 .. Len(frames[c])
          BY <1>2, <2>1, <3>1
        <4> QED
          BY <1>9, <4>1 DEF SafetyInv, UserSafety, IllegalInv
      <3>2. CASE c = cur
        BY <1>1, <1>4, <1>9, <3>2, <2>1 DEF SafetyInv, UserSafety, IllegalInv
      <3> QED
        BY <3>1, <3>2
    <2>2. frames[cur][1].kind # "ILLEGAL"
      BY <1>2, <1>9 DEF HandlerReturn
    <2>3. pc' # "psrset"
      BY <1>1, <1>3, <1>5, <1>9, <2>2 DEF SafetyInv, UserSafety, IllegalInv
    <2> QED
      BY <2>1, <2>3 DEF IllegalInv
  <1>10. WaitInv'
    BY DEF HandlerReturn, Executes, Running, SafetyInv, WaitInv, FinishIsClean, WaitPlaces, NoTrap
  <1> QED
    BY <1>6, <1>7, <1>8, <1>9, <1>10 DEF SafetyInv, UserSafety

(* Steps that leave the stacks alone, and the status word or what is       *)
(* announced too.                                                          *)
LEMMA StacksKept ==
    ASSUME SafetyInv, UNCHANGED <<frames, psr, masked, cur, dropped, trap, pc>>, WaitInv',
           Running' => Running
    PROVE  SafetyInv'
  BY DEF SafetyInv, TrapInv, UserSafety, UserInv, DroppedInv, IllegalInv,
     UserIsPreemptible, Kernel, NoTrap

LEMMA DeathKeeps == ASSUME SafetyInv, NEW how \in {"aborted", "trapped"}, Dies(how)
                    PROVE  SafetyInv'
  BY StacksKept DEF Dies, Running, SafetyInv, WaitInv, FinishIsClean, NoTrap

LEMMA RaiseKeeps ==
    ASSUME TypeOK, SafetyInv, NEW kind \in Traps, NEW at \in {"raise", "refuse"},
           at = "refuse" => kind = "ILLEGAL", Raise(kind, at)
    PROVE  SafetyInv'
  <1>1. CASE Kernel \/ masked
    BY <1>1, DeathKeeps DEF Raise
  <1>2. CASE ~(Kernel \/ masked)
    <2>1. [kind |-> kind, by |-> cur] # NoTrap
      BY DEF NoTrap, Traps
    <2>2. /\ trap' = [kind |-> kind, by |-> cur] /\ pc' = at
          /\ UNCHANGED <<psr, masked, waiting, cur, frames, dropped, fate>>
      BY <1>2 DEF Raise
    <2>3. TrapInv'
      BY <2>1, <2>2 DEF SafetyInv, TrapInv, NoTrap
    <2>4. WaitInv'
      BY <2>2 DEF Raise, Executes, Running, SafetyInv, WaitInv, FinishIsClean, WaitPlaces
    <2>5. UserSafety'
      BY <2>2 DEF SafetyInv, UserSafety, UserInv, DroppedInv, IllegalInv,
         UserIsPreemptible, Kernel, Running
    <2> QED
      BY <2>3, <2>4, <2>5 DEF SafetyInv
  <1> QED
    BY <1>1, <1>2

LEMMA SafetyStep == TypeOK /\ SafetyInv /\ [Next]_vars => SafetyInv'
  <1> SUFFICES ASSUME TypeOK, SafetyInv, [Next]_vars
               PROVE  SafetyInv'
    OBVIOUS
  <1>1. CASE AlarmArrives
    BY <1>1, StacksKept DEF AlarmArrives, Running, SafetyInv, WaitInv, FinishIsClean, NoTrap
  <1>2. CASE TakeAlarm
    <2>1. CASE Postponed
      BY <1>2, <2>1, StacksKept
      DEF TakeAlarm, StillWaiting, SafetyInv, WaitInv, FinishIsClean, NoTrap, Running
    <2>2. CASE ~Postponed
      <3>1. /\ Enter("DEVICE", cur, Resumes)
            /\ trap = NoTrap /\ waiting' = FALSE /\ UNCHANGED <<trap, cur, dropped>>
        BY <1>2, <2>2 DEF TakeAlarm, StillWaiting, Postponed
      <3>2. Resumes \in {"run", "psrset"} \cup WaitPlaces /\ cur \in Contexts
        BY <3>1 DEF Resumes, WaitPlaces, TypeOK, Places, SafetyInv, TrapInv
      <3>3. IllegalReturns \/ Resumes # "psrset"
        BY DEF Resumes, SafetyInv, UserSafety, IllegalInv
      <3> QED
        BY <1>2, <3>1, <3>2, <3>3, EnterKeeps DEF NoTrap, Traps, TakeAlarm
    <2> QED
      BY <2>1, <2>2
  <1>3. CASE \E kind \in Traps : RaiseTrap(kind)
    BY <1>3, RaiseKeeps DEF RaiseTrap
  <1>4. CASE TakeTrap
    <2>1. trap # NoTrap /\ trap.by = cur
      BY <1>4 DEF TakeTrap, SafetyInv, TrapInv
    <2>2. trap.kind \in Traps /\ cur \in Contexts
      BY <2>1 DEF TypeOK
    <2> DEFINE after == IF pc = "refuse" THEN "psrset" ELSE "run"
    <2>3. /\ Enter(trap.kind, cur, after)
          /\ trap' = NoTrap /\ UNCHANGED <<cur, dropped>>
      BY <1>4, <2>1 DEF TakeTrap, NoTrap
    <2>4. after \in {"run", "psrset"} \cup WaitPlaces /\ (after = "psrset" => trap.kind = "ILLEGAL")
      BY DEF SafetyInv, TrapInv
    <2>5. waiting' = FALSE
      BY <1>4, <2>1 DEF TakeTrap, SafetyInv, WaitInv, WaitPlaces, TypeOK, NoTrap
    <2> QED
      BY <1>4, <2>2, <2>3, <2>4, <2>5, EnterKeeps DEF TakeTrap
  <1>5. CASE HandlerReturn
    BY <1>5, ReturnKeeps
  <1>6. CASE \E new \in PsrArgs : PsrSet(new)
    <2>1. PICK new \in PsrArgs : PsrSet(new)
      BY <1>6
    <2>2. TrapInv'
      BY <2>1 DEF PsrSet, SafetyInv, TrapInv, NoTrap
    <2>3. WaitInv'
      BY <2>1 DEF PsrSet, Running, SafetyInv, WaitInv, FinishIsClean, WaitPlaces
    <2>4. ASSUME ~IllegalReturns
          PROVE  UserInv' /\ DroppedInv' /\ IllegalInv'
      <3>1. Kernel
        BY <2>1, <2>4 DEF PsrSet, SafetyInv, UserSafety, IllegalInv
      <3>2. UserInv'
        BY <2>1, <2>4, <3>1
        DEF PsrSet, Invalid, SafetyInv, UserSafety, UserInv, UserIsPreemptible, Kernel
      <3>3. DroppedInv'
        BY <2>1, <2>4, <3>1 DEF PsrSet, SafetyInv, UserSafety, DroppedInv, Kernel
      <3>4. IllegalInv'
        BY <2>1, <2>4 DEF PsrSet, SafetyInv, UserSafety, IllegalInv
      <3> QED
        BY <3>2, <3>3, <3>4
    <2> QED
      BY <2>2, <2>3, <2>4 DEF SafetyInv, UserSafety
  <1>7. CASE WaitInt \/ WaitLoops \/ Pause
    <2>1. CASE fate' = "trapped"
      BY <1>7, <2>1, DeathKeeps DEF WaitInt, WaitLoops, Pause, Executes, Running, Dies
    <2>2. CASE fate' # "trapped"
      <3>1. /\ trap = NoTrap /\ pc' \in {"run"} \cup WaitPlaces
            /\ UNCHANGED <<psr, masked, trap, cur, frames, dropped, fate>>
        BY <1>7, <2>2 DEF WaitInt, WaitLoops, Pause, Executes, Dies, WaitPlaces, SafetyInv,
           TrapInv
      <3>2. WaitInv'
        BY <1>7, <2>2, <3>1 DEF WaitInt, WaitLoops, Pause, Executes, Running, Dies, SafetyInv,
           WaitInv, WaitPlaces, FinishIsClean
      <3>3. pc' \notin {"raise", "refuse", "psrset"}
        BY <3>1 DEF WaitPlaces
      <3> QED
        BY <3>1, <3>2, <3>3 DEF SafetyInv, TrapInv, UserSafety, UserInv, DroppedInv,
           IllegalInv, UserIsPreemptible, Kernel, NoTrap, Running
    <2> QED
      BY <2>1, <2>2
  <1>8. CASE \E c \in Contexts : ContextInit(c)
    <2>1. PICK c \in Contexts : ContextInit(c)
      BY <1>8
    <2>2. CASE ~Kernel
      BY <2>1, <2>2, DeathKeeps DEF ContextInit
    <2>3. CASE Kernel
      <3>1. /\ \A d \in Contexts : frames'[d] = frames[d] \/ frames'[d] = <<>>
            /\ \A d \in dropped' : d # c /\ d \in dropped /\ frames'[d] = frames[d]
            /\ UNCHANGED <<psr, masked, trap, waiting, pc, cur, fate>>
        BY <2>1, <2>3 DEF ContextInit, TypeOK
      <3>2. Len(<<>>) = 0
        OBVIOUS
      <3> QED
        BY <3>1, <3>2 DEF SafetyInv, TrapInv, WaitInv, FinishIsClean, UserSafety, UserInv,
           DroppedInv, IllegalInv, UserIsPreemptible, Kernel, NoTrap, Running
    <2> QED
      BY <2>2, <2>3
  <1>9. CASE \E c \in Contexts, save \in BOOLEAN : ContextSwitch(c, save)
    <2>1. PICK c \in Contexts, save \in BOOLEAN : ContextSwitch(c, save)
      BY <1>9
    <2>2. CASE ~Kernel
      BY <2>1, <2>2, DeathKeeps DEF ContextSwitch
    <2>3. CASE Kernel
      <3>1. /\ \A d \in Contexts : frames'[d] = frames[d] \/ frames'[d] = <<>>
            /\ \A d \in dropped' : d \in dropped /\ frames'[d] = frames[d]
            /\ UNCHANGED <<psr, trap, waiting, pc, fate>>
        BY <2>1, <2>3 DEF ContextSwitch, TypeOK
      <3>2. Len(<<>>) = 0
        OBVIOUS
      <3>3. trap = NoTrap
        BY <2>1 DEF ContextSwitch, Executes, SafetyInv, TrapInv
      <3>4. TrapInv' /\ WaitInv'
        BY <3>1, <3>2, <3>3 DEF SafetyInv, TrapInv, WaitInv, FinishIsClean, NoTrap
      <3>5. ASSUME ~IllegalReturns
            PROVE  UserInv' /\ DroppedInv' /\ IllegalInv'
        <4>1. \A d \in dropped : frames[d] # <<>>
          BY <2>1, <2>3, <3>5 DEF SafetyInv, UserSafety, DroppedInv,
             ContextSwitch, Executes
        <4>2. UserInv'
          BY <2>3, <3>1, <3>2, <3>5 DEF SafetyInv, UserSafety, UserInv, UserIsPreemptible, Kernel
        <4>3. DroppedInv'
          BY <3>1, <3>5, <4>1 DEF SafetyInv, UserSafety, DroppedInv, Running
        <4>4. IllegalInv'
          BY <3>1, <3>2, <3>5 DEF SafetyInv, UserSafety, IllegalInv
        <4> QED
          BY <4>2, <4>3, <4>4
      <3> QED
        BY <3>4, <3>5 DEF SafetyInv, UserSafety
    <2> QED
      BY <2>2, <2>3
  <1>10. CASE StartReturns \/ Abort
    BY <1>10, DeathKeeps DEF StartReturns, Abort
  <1>11. CASE PsrRefused
    BY <1>11, RaiseKeeps DEF PsrRefused, Traps
  <1>12. CASE Halt
    <2>1. /\ pc = "run" /\ UNCHANGED <<trap, waiting, pc, cur, frames, dropped>>
          /\ Kernel' /\ ~Running'
      BY <1>12 DEF Halt, Executes, Kernel, Running
    <2>2. trap = NoTrap /\ ~waiting
      BY <2>1 DEF SafetyInv, TrapInv, WaitInv, WaitPlaces
    <2>3. TrapInv' /\ WaitInv'
      BY <2>1, <2>2 DEF SafetyInv, TrapInv, WaitInv, FinishIsClean, NoTrap
    <2>4. UserSafety'
      BY <2>1 DEF SafetyInv, UserSafety, UserInv, DroppedInv, IllegalInv, UserIsPreemptible
    <2> QED
      BY <2>3, <2>4 DEF SafetyInv
  <1>13. CASE UNCHANGED vars
    BY <1>13, StacksKept DEF vars, Running, SafetyInv, WaitInv, FinishIsClean, NoTrap
  <1> QED
    BY <1>1, <1>2, <1>3, <1>4, <1>5, <1>6, <1>7, <1>8, <1>9, <1>10, <1>11, <1>12, <1>13
    DEF Next, Ended

LEMMA SafetyInvariant == Spec => [](TypeOK /\ SafetyInv)
  <1>1. Init => TypeOK /\ SafetyInv
    BY TypeInit, SafetyInit
  <1>2. TypeOK /\ SafetyInv /\ [Next]_vars => (TypeOK /\ SafetyInv)'
    BY TypeStep, SafetyStep
  <1> QED
    BY <1>1, <1>2, PTL DEF Spec

(* Whatever timer signals and context switches come in between, a trap's   *)
(* handler runs on the stack, and with the argument, of its caller.        *)
THEOREM TrapsReachTheirCallers == Spec => []TrapReachesCaller
  <1>1. ASSUME TypeOK, SafetyInv
        PROVE  TrapReachesCaller
    <2>1. \A c \in Contexts : DOMAIN frames[c] = 1 .. Len(frames[c])
      BY LenProperties DEF TypeOK
    <2> QED
      BY <2>1, <1>1 DEF SafetyInv, TrapInv, TrapReachesCaller
  <1> QED
    BY <1>1, SafetyInvariant, PTL

(* USLOSS_Halt hands a clean machine to finish, wherever it is called.     *)
THEOREM FinishClean == Spec => []FinishIsClean
  <1>1. SafetyInv => FinishIsClean
    BY DEF SafetyInv, WaitInv
  <1> QED
    BY <1>1, SafetyInvariant, PTL

(* Code in user mode can be interrupted, if no illegal-instruction handler *)
(* returns.                                                                *)
THEOREM UserPreemptible == ASSUME ~IllegalReturns PROVE Spec => []UserIsPreemptible
  <1>1. TypeOK /\ SafetyInv => UserIsPreemptible
    BY DEF SafetyInv, UserSafety, UserInv
  <1> QED
    BY <1>1, SafetyInvariant, PTL

(* A process in user mode is in kernel mode only in handlers, if no        *)
(* illegal-instruction handler returns.                                    *)
THEOREM UserStays == ASSUME ~IllegalReturns PROVE Spec => []UserStaysUser
  <1>1. TypeOK /\ SafetyInv => UserStaysUser
    BY DEF SafetyInv, UserSafety, DroppedInv, UserStaysUser
  <1> QED
    BY <1>1, SafetyInvariant, PTL

-----------------------------------------------------------------------------
(* What globals.c:38 says, for an operating system that passes no invalid  *)
(* value to USLOSS_PsrSet and disables interrupts before it switches       *)
(* contexts.                                                               *)

SwitchesMasked == [][cur' # cur => "CI" \notin psr]_vars

(* No context is left waiting for USLOSS_ContextSwitch to turn the signals *)
(* on, and the code a handler returns to, where sighandler leaves them on, *)
(* had interrupts enabled.                                                 *)
MaskInv ==
    /\ PsrMatchesMask
    /\ pc \in {"raise", "refuse"} => ~masked
    /\ \A c \in Contexts : ctx[c] # "int_on"
    /\ ctx[cur] = "running"
    /\ \A c \in Contexts : \A i \in 1 .. Len(frames[c]) : "CI" \in frames[c][i].psr

LEMMA MaskInit == Init => MaskInv
  <1> SUFFICES ASSUME Init
               PROVE  MaskInv
    OBVIOUS
  <1>1. \A c \in Contexts : frames[c] = <<>> /\ Len(frames[c]) = 0
    BY DEF Init
  <1> QED
    BY <1>1, ContextsAssumption DEF Init, MaskInv, PsrMatchesMask

(* A handler is entered only with the signals on.                          *)
LEMMA EnterMasks ==
    ASSUME TypeOK, MaskInv, ~masked, NEW kind \in Traps \cup {"DEVICE"},
           NEW by \in Contexts, NEW after \in Places,
           UNCHANGED <<cur, ctx>>, Enter(kind, by, after)
    PROVE  MaskInv'
  <1>1. /\ frames \in [Contexts -> Seq(Frame)] /\ cur \in Contexts
        /\ \A c \in Contexts : Len(frames[c]) \in Nat
    BY LenProperties DEF TypeOK, Frame
  <1>2. /\ \A c \in Contexts \ {cur} : frames'[c] = frames[c]
        /\ Len(frames'[cur]) = Len(frames[cur]) + 1
        /\ frames'[cur][1] = [psr |-> psr, pc |-> after, kind |-> kind, by |-> by]
        /\ \A i \in 2 .. Len(frames[cur]) + 1 : frames'[cur][i] = frames[cur][i - 1]
    BY Entered
  <1>3. psr' = {"CM"} \cup Saved(psr) /\ masked' = TRUE /\ pc' = "run"
    BY DEF Enter
  <1>4. PsrMatchesMask'
    BY <1>3 DEF PsrMatchesMask, Saved
  <1>5. ASSUME NEW c \in Contexts, NEW i \in 1 .. Len(frames'[c])
        PROVE  "CI" \in frames'[c][i].psr
    <2>1. CASE c # cur
      BY <1>2, <1>5, <2>1 DEF MaskInv
    <2>2. CASE c = cur /\ i = 1
      BY <1>2, <2>2 DEF MaskInv, PsrMatchesMask
    <2>3. CASE c = cur /\ i # 1
      <3> DEFINE n == Len(frames[cur])
      <3>1. n \in Nat /\ i \in 1 .. n + 1
        BY <1>1, <1>2, <1>5, <2>3
      <3>2. i \in 2 .. n + 1 /\ i - 1 \in 1 .. n
        BY <2>3, <3>1
      <3> QED
        BY <1>1, <1>2, <2>3, <3>2 DEF MaskInv
    <2> QED
      BY <2>1, <2>2, <2>3
  <1> QED
    BY <1>3, <1>4, <1>5 DEF MaskInv

LEMMA MaskStep ==
    ASSUME TypeOK, MaskInv, [Next]_vars, \A new \in PsrArgs : ~Invalid(new),
           cur' # cur => "CI" \notin psr
    PROVE  MaskInv'
  <1>1. CASE TakeAlarm
    <2>1. CASE Postponed
      BY <1>1, <2>1 DEF TakeAlarm, MaskInv, PsrMatchesMask
    <2>2. CASE ~Postponed
      <3>1. Resumes \in Places /\ cur \in Contexts
        BY DEF Resumes, Places, WaitPlaces, TypeOK
      <3> QED
        BY <1>1, <2>2, <3>1, EnterMasks DEF TakeAlarm
    <2> QED
      BY <2>1, <2>2
  <1>2. ASSUME NEW kind \in Traps, NEW at, Raise(kind, at)
        PROVE  MaskInv'
    BY <1>2 DEF Raise, Dies, MaskInv, PsrMatchesMask
  <1>3. CASE TakeTrap
    <2>1. CASE trap = NoTrap
      BY <1>3, <2>1 DEF TakeTrap, Dies, MaskInv, PsrMatchesMask
    <2>2. CASE trap # NoTrap
      <3>1. /\ Enter(trap.kind, trap.by, IF pc = "refuse" THEN "psrset" ELSE "run")
            /\ trap.kind \in Traps /\ trap.by \in Contexts
            /\ UNCHANGED <<cur, ctx>> /\ ~masked
        BY <1>3, <2>2 DEF TakeTrap, TypeOK, MaskInv
      <3> QED
        BY <3>1, EnterMasks DEF Places
    <2> QED
      BY <2>1, <2>2
  <1>4. CASE HandlerReturn
    <2>1. /\ cur \in Contexts
          /\ Head(frames[cur]) = frames[cur][1]
          /\ Len(frames[cur]) \in Nat \ {0}
          /\ \A c \in Contexts \ {cur} : frames'[c] = frames[c]
          /\ Len(frames'[cur]) = Len(frames[cur]) - 1
          /\ \A i \in 1 .. Len(frames[cur]) - 1 : frames'[cur][i] = frames[cur][i + 1]
      BY <1>4, Returned DEF HandlerReturn, TypeOK
    <2>2. "CI" \in psr' /\ masked' = FALSE /\ UNCHANGED <<cur, ctx>>
      <3>1. 1 \in 1 .. Len(frames[cur])
        BY <2>1
      <3> QED
        BY <1>4, <2>1, <3>1 DEF HandlerReturn, Restored, MaskInv
    <2>3. ASSUME NEW c \in Contexts, NEW i \in 1 .. Len(frames'[c])
          PROVE  "CI" \in frames'[c][i].psr
      <3>1. CASE c # cur
        BY <2>1, <2>3, <3>1 DEF MaskInv
      <3>2. CASE c = cur
        <4>1. i \in 1 .. Len(frames[cur]) - 1 /\ i + 1 \in 1 .. Len(frames[cur])
          BY <2>1, <2>3, <3>2
        <4> QED
          BY <2>1, <3>2, <4>1 DEF MaskInv
      <3> QED
        BY <3>1, <3>2
    <2> QED
      BY <2>2, <2>3 DEF MaskInv, PsrMatchesMask
  <1>5. ASSUME NEW new \in PsrArgs, PsrSet(new)
        PROVE  MaskInv'
    <2>1. /\ psr' = new /\ pc' = "run" /\ UNCHANGED <<cur, ctx, frames>>
          /\ masked' <=> "CI" \notin new
      BY <1>5 DEF PsrSet
    <2>2. PsrMatchesMask'
      BY <2>1 DEF PsrMatchesMask
    <2> QED
      BY <2>1, <2>2 DEF MaskInv
  <1>6. ASSUME NEW c \in Contexts, ContextInit(c)
        PROVE  MaskInv'
    <2>1. Len(<<>>) = 0
      OBVIOUS
    <2> QED
      BY <1>6, <2>1 DEF ContextInit, Dies, MaskInv, PsrMatchesMask, TypeOK
  <1>7. ASSUME NEW c \in Contexts, NEW save \in BOOLEAN, ContextSwitch(c, save)
        PROVE  MaskInv'
    <2>1. CASE ~Kernel
      BY <1>7, <2>1 DEF ContextSwitch, Dies, MaskInv, PsrMatchesMask
    <2>2. CASE Kernel
      <3>1. c # cur /\ ctx[c] # "int_on"
        BY <1>7 DEF ContextSwitch, MaskInv
      <3>2. cur' = c /\ masked' = TRUE /\ UNCHANGED <<psr, pc>> /\ pc = "run"
        BY <1>7, <2>2, <3>1 DEF ContextSwitch, Executes
      <3>3. "CI" \notin psr /\ masked
        BY <3>1, <3>2 DEF MaskInv, PsrMatchesMask, TypeOK
      <3>4. ctx' = [ctx EXCEPT ![c] = "running", ![cur] = IF save THEN "int_off" ELSE "none"]
        BY <1>7, <2>2, <3>3 DEF ContextSwitch
      <3>5. \A d \in Contexts : frames'[d] = frames[d] \/ frames'[d] = <<>>
        BY <1>7, <2>2 DEF ContextSwitch, TypeOK
      <3>6. Len(<<>>) = 0
        OBVIOUS
      <3>7. ctx'[c] = "running" /\ \A d \in Contexts : ctx'[d] # "int_on"
        BY <3>1, <3>4 DEF TypeOK, MaskInv
      <3>8. \A d \in Contexts : \A i \in 1 .. Len(frames'[d]) : "CI" \in frames'[d][i].psr
        BY <3>5, <3>6 DEF MaskInv
      <3> QED
        BY <3>2, <3>3, <3>7, <3>8 DEF MaskInv, PsrMatchesMask
    <2> QED
      BY <2>1, <2>2
  <1>8. CASE Halt
    BY <1>8 DEF Halt, Executes, MaskInv, PsrMatchesMask
  <1>9. CASE AlarmArrives \/ WaitInt \/ WaitLoops \/ Pause \/ StartReturns \/ Abort \/ UNCHANGED vars
    BY <1>9 DEF AlarmArrives, WaitInt, WaitLoops, Pause, StartReturns, Abort, Dies, vars,
       MaskInv, PsrMatchesMask
  <1> QED
    BY <1>1, <1>2, <1>3, <1>4, <1>5, <1>6, <1>7, <1>8, <1>9
    DEF Next, Ended, RaiseTrap, PsrRefused, Traps

(* With those two habits the interrupt bit of the status word is always    *)
(* the host's signal mask, through any traps, timer signals, waits and     *)
(* handlers nested in one another, also if illegal-instruction handlers    *)
(* return.                                                                 *)
THEOREM PsrFollowsMask ==
    ASSUME \A new \in PsrArgs : ~Invalid(new)
    PROVE  Spec /\ SwitchesMasked => []PsrMatchesMask
  <1>1. TypeOK /\ MaskInv /\ [Next]_vars /\ [cur' # cur => "CI" \notin psr]_vars => MaskInv'
    <2>1. UNCHANGED vars => (cur' # cur => "CI" \notin psr)
      BY DEF vars
    <2> QED
      BY <2>1, MaskStep
  <1>2. MaskInv => PsrMatchesMask
    BY DEF MaskInv
  <1> QED
    BY <1>1, <1>2, MaskInit, TypeCorrect, PTL DEF Spec, SwitchesMasked
============================================================================
