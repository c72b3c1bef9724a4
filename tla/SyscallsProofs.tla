--------------------------- MODULE SyscallsProofs ---------------------------
(***************************************************************************)
(* Theorems about system calls, for any number of processes that make any  *)
(* of the calls, on a processor whose handlers nest to any depth.          *)
(***************************************************************************)
EXTENDS SyscallsProperties, CpuProofs

(* Of the table only TableAssumption is used.                              *)
LEMMA Numbers ==
    ASSUME NEW s \in Stubs
    PROVE  Number(s) \in DOMAIN OpCodes /\ OpCodes[Number(s)] = s.op
  BY TableAssumption DEF Number

LEMMA OneService ==
    ASSUME NEW s \in Stubs, NEW t \in Served(Number(s))
    PROVE  t = s
  BY Numbers, TableAssumption DEF Served

-----------------------------------------------------------------------------
(* The processor does nothing here that it does not do in Cpu.             *)

LEMMA StepOfCpu == [SysNext]_sysvars => [Next]_vars
  <1>1. ASSUME NEW s \in Stubs, CallStub(s) PROVE Next
    BY <1>1 DEF CallStub, Next, Traps
  <1>2. ASSUME OtherCode PROVE Next
    BY <1>2 DEF OtherCode, Next, Traps
  <1>3. Processor => Next
    BY <1>2 DEF Processor, Next
  <1>4. (StubReturns \/ \E ok \in BOOLEAN : Serve(ok)) => UNCHANGED vars
    BY DEF StubReturns, Serve
  <1> QED
    BY <1>1, <1>3, <1>4 DEF SysNext, sysvars, Next

LEMMA CpuInvariant == SysSpec => [](TypeOK /\ SafetyInv)
  <1>1. SysInit => TypeOK /\ SafetyInv
    BY TypeInit, SafetyInit DEF SysInit
  <1>2. TypeOK /\ SafetyInv /\ [SysNext]_sysvars => (TypeOK /\ SafetyInv)'
    BY StepOfCpu, TypeStep, SafetyStep
  <1> QED
    BY <1>1, <1>2, PTL DEF SysSpec

-----------------------------------------------------------------------------
(* Handlers and stacks.                                                    *)

(* A process makes calls outside handlers only, so the handler of its call *)
(* is the outermost on its stack, and is the only one of a system call.    *)
OnStack(c) ==
    /\ \A i \in 1 .. Len(frames[c]) :
          frames[c][i].kind = "SYSCALL" => i = Len(frames[c]) /\ call[c] # NoCall
    /\ Announced(c) => /\ call[c] # NoCall /\ call[c].stage = "asked"
                       /\ frames[c] = <<>>
    /\ call[c] # NoCall /\ call[c].stage = "asked" /\ ~Announced(c) =>
          frames[c] # <<>> /\ frames[c][Len(frames[c])].kind = "SYSCALL"

StackInv == Running => \A c \in Contexts : OnStack(c)

LEMMA StackInit == SysInit => StackInv
  <1> SUFFICES ASSUME SysInit, NEW c \in Contexts
               PROVE  OnStack(c)
    BY DEF StackInv
  <1>1. frames[c] = <<>> /\ Len(frames[c]) = 0 /\ trap.kind # "SYSCALL" /\ call[c] = NoCall
    BY DEF SysInit, Init, NoTrap
  <1> QED
    BY <1>1 DEF OnStack, Announced

(* sighandler is called.                                                   *)
LEMMA PushKeeps ==
    ASSUME TypeOK, \A c \in Contexts : OnStack(c),
           NEW kind \in Traps \cup {"DEVICE"}, NEW by \in Contexts, NEW after \in Places,
           Enter(kind, by, after), trap' = NoTrap, UNCHANGED call,
           \A c \in Contexts : Announced(c) => kind = "SYSCALL" /\ c = cur,
           kind = "SYSCALL" => Announced(cur)
    PROVE  \A c \in Contexts : OnStack(c)'
  <1> SUFFICES ASSUME NEW c \in Contexts
               PROVE  OnStack(c)'
    OBVIOUS
  <1>1. /\ \A d \in Contexts \ {cur} : frames'[d] = frames[d]
        /\ Len(frames'[cur]) = Len(frames[cur]) + 1
        /\ frames'[cur][1] = [psr |-> psr, pc |-> after, kind |-> kind, by |-> by]
        /\ \A i \in 2 .. Len(frames[cur]) + 1 : frames'[cur][i] = frames[cur][i - 1]
        /\ frames' \in [Contexts -> Seq(Frame)]
    BY Entered
  <1>2. cur \in Contexts /\ Len(frames[cur]) \in Nat
    BY LenProperties DEF TypeOK
  <1>3. ~Announced(c)'
    BY DEF Announced, NoTrap
  <1>4. CASE c # cur
    <2>1. frames'[c] = frames[c] /\ ~Announced(c)
      BY <1>1, <1>4
    <2>2. OnStack(c)
      OBVIOUS
    <2> QED
      BY <1>3, <2>1, <2>2 DEF OnStack
  <1>5. CASE c = cur /\ kind = "SYSCALL"
    <2>1. frames[cur] = <<>> /\ Len(frames[cur]) = 0 /\ call[cur] # NoCall
      BY <1>2, <1>5 DEF OnStack
    <2>2. Len(frames'[cur]) = 1 /\ frames'[cur] # <<>>
      BY <1>1, <2>1
    <2>3. frames'[cur][1].kind = "SYSCALL"
      BY <1>1, <1>5
    <2>4. \A i \in 1 .. Len(frames'[cur]) : i = Len(frames'[cur])
      BY <2>2
    <2>5. c = cur /\ call' = call /\ frames'[cur][Len(frames'[cur])].kind = "SYSCALL"
      BY <1>5, <2>2, <2>3
    <2> QED
      BY <1>3, <2>1, <2>2, <2>4, <2>5 DEF OnStack
  <1>6. CASE c = cur /\ kind # "SYSCALL"
    <2> DEFINE n == Len(frames[cur])
    <2>1. ASSUME NEW i \in 1 .. n + 1, frames'[cur][i].kind = "SYSCALL"
          PROVE  i = n + 1 /\ call[cur] # NoCall
      <3>1. i # 1
        BY <1>1, <1>6, <2>1
      <3>2. i \in 2 .. n + 1 /\ i - 1 \in 1 .. n
        BY <1>2, <3>1
      <3>3. frames[cur][i - 1].kind = "SYSCALL"
        BY <1>1, <2>1, <3>2
      <3>4. i - 1 = n /\ call[cur] # NoCall
        BY <1>2, <3>2, <3>3 DEF OnStack
      <3> QED
        BY <1>2, <3>2, <3>4
    <2>2. ASSUME call[cur] # NoCall, call[cur].stage = "asked"
          PROVE  frames'[cur] # <<>> /\ frames'[cur][n + 1].kind = "SYSCALL"
      <3>1. frames[cur] # <<>> /\ frames[cur][n].kind = "SYSCALL"
        BY <1>2, <1>6, <2>2 DEF OnStack
      <3>2. n \in Nat \ {0}
        BY <1>2, <3>1, Popped DEF TypeOK
      <3>3. frames'[cur][n + 1] = frames[cur][n]
        <4>1. n + 1 \in 2 .. n + 1 /\ (n + 1) - 1 = n
          BY <3>2
        <4> QED
          BY <1>1, <4>1
      <3>4. frames'[cur] # <<>>
        BY <1>1, <3>2
      <3> QED
        BY <3>1, <3>3, <3>4
    <2> QED
      BY <1>1, <1>3, <1>6, <2>1, <2>2 DEF OnStack
  <1> QED
    BY <1>4, <1>5, <1>6

(* sighandler returns; from a system call once that has been answered.     *)
LEMMA PopKeeps ==
    ASSUME TypeOK, SafetyInv, \A c \in Contexts : OnStack(c),
           HandlerReturn, MayReturn, UNCHANGED call
    PROVE  \A c \in Contexts : OnStack(c)'
  <1> SUFFICES ASSUME NEW c \in Contexts
               PROVE  OnStack(c)'
    OBVIOUS
  <1>1. /\ Head(frames[cur]) = frames[cur][1]
        /\ Len(frames[cur]) \in Nat \ {0}
        /\ \A d \in Contexts \ {cur} : frames'[d] = frames[d]
        /\ Len(frames'[cur]) = Len(frames[cur]) - 1
        /\ \A i \in 1 .. Len(frames[cur]) - 1 : frames'[cur][i] = frames[cur][i + 1]
        /\ cur \in Contexts
    BY Returned DEF HandlerReturn, TypeOK
  <1>2. trap = NoTrap /\ trap' = NoTrap
    BY DEF HandlerReturn, Executes, SafetyInv, TrapInv
  <1>3. \A d \in Contexts : ~Announced(d) /\ ~Announced(d)'
    BY <1>2 DEF Announced, NoTrap
  <1>4. CASE c # cur
    BY <1>1, <1>3, <1>4 DEF OnStack
  <1>5. CASE c = cur
    <2> DEFINE n == Len(frames[cur])
    <2>1. ASSUME NEW i \in 1 .. n - 1, frames'[cur][i].kind = "SYSCALL"
          PROVE  i = n - 1 /\ call[cur] # NoCall
      <3>1. i + 1 \in 1 .. n
        BY <1>1
      <3>2. frames[cur][i + 1].kind = "SYSCALL"
        BY <1>1, <2>1
      <3>3. i + 1 = n /\ call[cur] # NoCall
        BY <1>1, <3>1, <3>2 DEF OnStack
      <3> QED
        BY <1>1, <3>3
    <2>2. ASSUME call[cur] # NoCall, call[cur].stage = "asked"
          PROVE  frames'[cur] # <<>> /\ frames'[cur][n - 1].kind = "SYSCALL"
      <3>1. frames[cur][n].kind = "SYSCALL"
        BY <1>1, <1>3, <2>2 DEF OnStack
      <3>2. frames[cur][1].kind # "SYSCALL"
        <4>1. ASSUME frames[cur][1].kind = "SYSCALL" PROVE FALSE
          <5>1. Head(frames[cur]).by = cur
            BY <1>1, <4>1 DEF SafetyInv, TrapInv, Traps
          <5> QED
            BY <1>1, <2>2, <4>1, <5>1 DEF MayReturn
        <4> QED
          BY <4>1
      <3>3. n - 1 \in 1 .. n - 1 /\ (n - 1) + 1 = n
        BY <1>1, <3>1, <3>2
      <3>4. frames'[cur][n - 1] = frames[cur][n]
        BY <1>1, <3>3
      <3>5. Len(<<>>) = 0 /\ Len(frames'[cur]) # 0
        BY <1>1, <3>3
      <3> QED
        BY <3>1, <3>4, <3>5
    <2> QED
      BY <1>1, <1>3, <1>5, <2>1, <2>2 DEF OnStack
  <1> QED
    BY <1>4, <1>5

(* Nothing is announced while code of the operating system or of a process *)
(* executes.                                                               *)
LEMMA NothingAnnounced ==
    ASSUME SafetyInv, pc \notin {"raise", "refuse"}
    PROVE  trap = NoTrap /\ \A c \in Contexts : ~Announced(c)
  BY DEF SafetyInv, TrapInv, Announced, NoTrap

(* A stack that is given up, and the call made on it.                      *)
LEMMA StackGivenUp ==
    ASSUME TypeOK, call \in [Contexts -> Calls], \A c \in Contexts : OnStack(c),
           NEW d \in Contexts,
           frames' = [frames EXCEPT ![d] = <<>>], call' = [call EXCEPT ![d] = NoCall],
           trap = NoTrap, trap' = trap
    PROVE  \A c \in Contexts : OnStack(c)'
  <1> SUFFICES ASSUME NEW c \in Contexts
               PROVE  OnStack(c)'
    OBVIOUS
  <1>1. ~Announced(c) /\ ~Announced(c)'
    BY DEF Announced, NoTrap
  <1>2. CASE c # d
    <2>1. frames'[c] = frames[c] /\ call'[c] = call[c] /\ OnStack(c)
      BY <1>2 DEF TypeOK
    <2> QED
      BY <1>1, <2>1 DEF OnStack
  <1>3. CASE c = d
    <2>1. frames'[c] = <<>> /\ call'[c] = NoCall /\ Len(<<>>) = 0
      BY <1>3 DEF TypeOK
    <2> QED
      BY <1>1, <2>1 DEF OnStack
  <1> QED
    BY <1>2, <1>3

(* Steps that concern no system call.                                      *)
LEMMA SameStacks ==
    ASSUME \A c \in Contexts : OnStack(c),
           UNCHANGED <<frames, call>>,
           trap' = trap \/ (trap = NoTrap /\ trap'.kind = "ILLEGAL")
    PROVE  \A c \in Contexts : OnStack(c)'
  BY DEF OnStack, Announced, NoTrap

LEMMA StackTakeAlarm ==
    ASSUME TypeOK, SafetyInv, \A c \in Contexts : OnStack(c), TakeAlarm, UNCHANGED call
    PROVE  \A c \in Contexts : OnStack(c)'
  <1>1. CASE Postponed
    BY <1>1, SameStacks DEF TakeAlarm
  <1>2. CASE ~Postponed
    <2>1. /\ Enter("DEVICE", cur, Resumes) /\ trap' = NoTrap /\ trap = NoTrap
          /\ cur \in Contexts /\ Resumes \in Places
      BY <1>2 DEF TakeAlarm, Postponed, TypeOK, Resumes, Places, WaitPlaces
    <2>2. \A c \in Contexts : ~Announced(c)
      BY <2>1 DEF Announced, NoTrap
    <2> QED
      BY <2>1, <2>2, PushKeeps
  <1> QED
    BY <1>1, <1>2

LEMMA StackTakeTrap ==
    ASSUME TypeOK, SafetyInv, \A c \in Contexts : OnStack(c), TakeTrap, UNCHANGED call
    PROVE  \A c \in Contexts : OnStack(c)'
  <1> DEFINE after == IF pc = "refuse" THEN "psrset" ELSE "run"
  <1>1. trap # NoTrap /\ trap.by = cur
    BY DEF TakeTrap, SafetyInv, TrapInv
  <1>2. /\ Enter(trap.kind, trap.by, after) /\ trap' = NoTrap
        /\ trap.kind \in Traps /\ trap.by \in Contexts /\ after \in Places
    BY <1>1 DEF TakeTrap, TypeOK, Places
  <1>3. /\ \A c \in Contexts : Announced(c) => trap.kind = "SYSCALL" /\ c = cur
        /\ trap.kind = "SYSCALL" => Announced(cur)
    BY <1>1 DEF Announced
  <1> QED
    BY <1>2, <1>3, PushKeeps

(* A context whose stack is given up, or that starts or ends a call.       *)
LEMMA StackOtherCode ==
    ASSUME TypeOK, SafetyInv, call \in [Contexts -> Calls],
           \A c \in Contexts : OnStack(c), OtherCode, Running'
    PROVE  \A c \in Contexts : OnStack(c)'
  <1>1. CASE (RaiseTrap("ILLEGAL") \/ PsrRefused \/ WaitInt \/ StartReturns \/ Halt \/ Abort)
                /\ UNCHANGED call
    <2>1. CASE RaiseTrap("ILLEGAL") \/ PsrRefused
      <3>1. /\ frames' = frames /\ trap'.kind = "ILLEGAL" /\ pc = "run"
        BY <2>1 DEF RaiseTrap, PsrRefused, Raise, Executes, Dies, Running
      <3> QED
        BY <1>1, <3>1, NothingAnnounced, SameStacks
    <2>2. CASE WaitInt \/ StartReturns \/ Halt \/ Abort
      BY <1>1, <2>2, SameStacks DEF WaitInt, StartReturns, Halt, Abort, Dies
    <2> QED
      BY <1>1, <2>1, <2>2
  <1>2. CASE (\E new \in PsrArgs : PsrSet(new)) /\ UNCHANGED call
    BY <1>2, SameStacks DEF PsrSet
  <1>3. CASE \E c \in Contexts : ContextInit(c) /\ Forgets(c)
    <2>1. PICK c \in Contexts : ContextInit(c) /\ Forgets(c)
      BY <1>3
    <2>2. /\ frames' = [frames EXCEPT ![c] = <<>>] /\ trap' = trap /\ pc = "run"
          /\ call' = [call EXCEPT ![c] = NoCall]
      BY <2>1 DEF ContextInit, Forgets, Dies, Running, Executes
    <2> QED
      BY <2>2, NothingAnnounced, StackGivenUp
  <1>4. CASE \E c \in Contexts : ContextSwitch(c, TRUE) /\ UNCHANGED call
    BY <1>4, SameStacks DEF ContextSwitch, Dies, Running
  <1>5. CASE \E c \in Contexts : ContextSwitch(c, FALSE) /\ Forgets(cur)
    <2>2. /\ frames' = [frames EXCEPT ![cur] = <<>>] /\ trap' = trap /\ pc = "run"
          /\ call' = [call EXCEPT ![cur] = NoCall] /\ cur \in Contexts
      BY <1>5 DEF ContextSwitch, Forgets, Dies, Running, Executes, TypeOK
    <2> QED
      BY <2>2, NothingAnnounced, StackGivenUp
  <1> QED
    BY <1>1, <1>2, <1>3, <1>4, <1>5 DEF OtherCode

-----------------------------------------------------------------------------
(* Types.                                                                  *)

LEMMA AllWords ==
    ASSUME NEW s \in Stubs
    PROVE  /\ {"junk", "ok", "failed"} \subseteq Words
           /\ \A p \in 1 .. Len(s.in) : s.in[p] \in Words
           /\ \A o \in s.out : o[1] \in Words
  <1>1. {s.in[p] : p \in 1 .. Len(s.in)} \in {{t.in[p] : p \in 1 .. Len(t.in)} : t \in Stubs}
    OBVIOUS
  <1>2. {o[1] : o \in s.out} \in {{o[1] : o \in t.out} : t \in Stubs}
    OBVIOUS
  <1>3. {s.in[p] : p \in 1 .. Len(s.in)} \subseteq Words
    BY <1>1 DEF Words
  <1>4. {o[1] : o \in s.out} \subseteq Words
    BY <1>2 DEF Words
  <1> QED
    BY <1>3, <1>4 DEF Words

LEMMA PackedType ==
    ASSUME NEW c \in Contexts, NEW s \in Stubs
    PROVE  Packed(c, s) \in Sysargs
  <1>1. ASSUME NEW p \in 1 .. 5
        PROVE  (IF p <= Len(s.in) THEN Param(c, s.in[p]) ELSE Junk(c)) \in Values
    <2>1. Len(s.in) \in Nat
      BY TableAssumption
    <2>2. "junk" \in Words /\ (p <= Len(s.in) => s.in[p] \in Words)
      BY <2>1, AllWords
    <2>3. p <= Len(s.in) => Param(c, s.in[p]) \in Values
      BY <2>2 DEF Param, Values
    <2>4. Junk(c) \in Values
      BY <2>2 DEF Junk, Values
    <2> QED
      BY <2>3, <2>4
  <1> QED
    BY <1>1, Numbers DEF Packed, Sysargs

LEMMA WrittenType ==
    ASSUME NEW s \in Stubs, NEW sa \in Sysargs, NEW ok \in BOOLEAN, cur \in Contexts
    PROVE  Written(s, sa, ok) \in [1 .. 5 -> Values]
  <1> DEFINE W(p) == CASE p = 4 -> Reply(cur, IF ok THEN "ok" ELSE "failed")
                       [] p # 4 /\ ok /\ (\E o \in s.out : o[2] = p) ->
                              Reply(cur, (CHOOSE o \in s.out : o[2] = p)[1])
                       [] OTHER -> sa.arg[p]
  <1>1. ASSUME NEW p \in 1 .. 5 PROVE W(p) \in Values
    <2>1. CASE p = 4
      BY <2>1 DEF Reply, Values, Words
    <2>2. CASE p # 4 /\ ok /\ (\E o \in s.out : o[2] = p)
      <3> DEFINE r == CHOOSE o \in s.out : o[2] = p
      <3>1. r \in s.out
        BY <2>2
      <3>2. r[1] \in Words
        BY <3>1, AllWords
      <3>3. W(p) = Reply(cur, r[1])
        BY <2>2
      <3> HIDE DEF r
      <3> QED
        BY <3>2, <3>3 DEF Reply, Values
    <2>3. CASE p # 4 /\ ~(ok /\ (\E o \in s.out : o[2] = p))
      BY <2>3 DEF Sysargs
    <2> QED
      BY <2>1, <2>2, <2>3
  <1>2. Written(s, sa, ok) = [p \in 1 .. 5 |-> W(p)]
    BY DEF Written
  <1> HIDE DEF W
  <1> QED
    BY <1>1, <1>2

LEMMA TakenType ==
    ASSUME NEW s \in Stubs, NEW sa \in Sysargs
    PROVE  Taken(s, sa) \in SUBSET (Words \X Values)
  <1>1. ASSUME NEW o \in s.out PROVE <<o[1], sa.arg[o[2]]>> \in Words \X Values
    <2>1. o[1] \in Words /\ o[2] \in 1 .. 5
      BY TableAssumption, AllWords
    <2> QED
      BY <2>1 DEF Sysargs
  <1> QED
    BY <1>1 DEF Taken

LEMMA SysTypeInit == SysInit => SysTypeOK
  BY TypeInit DEF SysInit, SysTypeOK, Calls

(* The stub a process is in, and its structure.                            *)
LEMMA InCall ==
    ASSUME SysTypeOK, NEW c \in Contexts, call[c] # NoCall
    PROVE  /\ call[c] = [stage |-> call[c].stage, stub |-> call[c].stub, sa |-> call[c].sa]
           /\ call[c].stage \in {"asked", "answered"}
           /\ call[c].stub \in Stubs /\ call[c].sa \in Sysargs
  BY DEF SysTypeOK, Calls

LEMMA SysTypeStep == SysTypeOK /\ [SysNext]_sysvars => SysTypeOK'
  <1> SUFFICES ASSUME SysTypeOK, [SysNext]_sysvars
               PROVE  SysTypeOK'
    OBVIOUS
  <1>1. TypeOK' /\ TypeOK /\ cur \in Contexts
    BY StepOfCpu, TypeStep DEF SysTypeOK, TypeOK
  <1>2. CASE \E s \in Stubs : CallStub(s)
    <2>1. PICK s \in Stubs : CallStub(s)
      BY <1>2
    <2>2. [stage |-> "asked", stub |-> s, sa |-> Packed(cur, s)] \in Calls
      BY <1>1, PackedType DEF Calls
    <2> QED
      BY <1>1, <2>1, <2>2 DEF CallStub, SysTypeOK
  <1>3. CASE StubReturns
    <2> DEFINE s  == call[cur].stub
               sa == call[cur].sa
    <2>1. s \in Stubs /\ sa \in Sysargs
      BY <1>1, <1>3, InCall DEF StubReturns, InStub
    <2>2. Taken(s, sa) \in SUBSET (Words \X Values)
      BY <2>1, TakenType
    <2>3. back' = [by |-> cur, stub |-> s, sa |-> sa, results |-> Taken(s, sa)]
      BY <1>3 DEF StubReturns
    <2>4. call' \in [Contexts -> Calls]
      BY <1>3 DEF StubReturns, SysTypeOK, Calls
    <2> HIDE DEF s, sa
    <2> QED
      BY <1>1, <2>1, <2>2, <2>3, <2>4 DEF SysTypeOK
  <1>4. CASE \E ok \in BOOLEAN : Serve(ok)
    <2>1. PICK ok \in BOOLEAN : Serve(ok)
      BY <1>4
    <2> DEFINE c == Head(frames[cur]).by
    <2>2. c \in Contexts
      <3>1. frames[cur] \in Seq(Frame) /\ frames[cur] # <<>>
        BY <1>1, <2>1 DEF Serve, TypeOK, Frame
      <3> QED
        BY <3>1, Popped DEF Frame
    <2>3. PICK s \in Served(call[c].sa.number) :
             call' = [call EXCEPT ![c] =
                 [stage |-> "answered", stub |-> @.stub,
                  sa |-> [number |-> @.sa.number, arg |-> Written(s, @.sa, ok)]]]
      BY <2>1 DEF Serve
    <2>4. s \in Stubs /\ call[c] # NoCall
      BY <2>1, <2>3 DEF Served, Serve
    <2> HIDE DEF c
    <2>5. Written(s, call[c].sa, ok) \in [1 .. 5 -> Values]
      BY <1>1, <2>2, <2>4, InCall, WrittenType
    <2>6. call'[c] = [stage |-> "answered", stub |-> call[c].stub,
                      sa |-> [number |-> call[c].sa.number,
                              arg |-> Written(s, call[c].sa, ok)]]
      BY <2>2, <2>3 DEF SysTypeOK
    <2>7. call'[c] \in Calls
      <3>1. call[c].stub \in Stubs /\ call[c].sa.number \in DOMAIN OpCodes
        BY <2>2, <2>4, InCall DEF Sysargs
      <3> QED
        BY <2>5, <2>6, <3>1 DEF Calls, Sysargs
    <2>8. \A d \in Contexts \ {c} : call'[d] = call[d]
      BY <2>3 DEF SysTypeOK
    <2>9. call' \in [Contexts -> Calls]
      BY <2>2, <2>3, <2>7, <2>8 DEF SysTypeOK
    <2> QED
      BY <1>1, <2>1, <2>9 DEF Serve, SysTypeOK
  <1>5. CASE Processor
    <2>1. call' \in [Contexts -> Calls]
      BY <1>1, <1>5 DEF Processor, OtherCode, Forgets, SysTypeOK, Calls
    <2> QED
      BY <1>1, <1>5, <2>1 DEF Processor, SysTypeOK
  <1>6. CASE Ended /\ UNCHANGED <<call, back>>
    BY <1>1, <1>6 DEF SysTypeOK
  <1>7. CASE UNCHANGED sysvars
    BY <1>1, <1>7 DEF SysTypeOK, sysvars
  <1> QED
    BY <1>2, <1>3, <1>4, <1>5, <1>6, <1>7 DEF SysNext

(* Calls and what they return keep their types.                            *)
THEOREM SysTypeCorrect == SysSpec => []SysTypeOK
  BY SysTypeInit, SysTypeStep, PTL DEF SysSpec

-----------------------------------------------------------------------------
(* Every call has its handler.                                             *)

LEMMA StackStep ==
    SysTypeOK /\ SafetyInv /\ StackInv /\ [SysNext]_sysvars => StackInv'
  <1> SUFFICES ASSUME SysTypeOK, SafetyInv, StackInv, [SysNext]_sysvars, Running'
               PROVE  \A c \in Contexts : OnStack(c)'
    BY DEF StackInv
  <1>1. /\ TypeOK /\ cur \in Contexts
        /\ frames \in [Contexts -> Seq(Frame)] /\ call \in [Contexts -> Calls]
    BY DEF SysTypeOK, TypeOK, Frame
  <1>2. CASE \E s \in Stubs : CallStub(s)
    <2>1. PICK s \in Stubs : CallStub(s)
      BY <1>2
    <2>2. /\ Running /\ pc = "run" /\ frames[cur] = <<>> /\ frames' = frames
          /\ trap' = [kind |-> "SYSCALL", by |-> cur]
          /\ call' = [call EXCEPT ![cur] = [stage |-> "asked", stub |-> s,
                                            sa |-> Packed(cur, s)]]
      BY <2>1 DEF CallStub, RaiseTrap, Raise, Executes, Dies, Running
    <2>3. \A c \in Contexts : OnStack(c) /\ ~Announced(c)
      BY <2>2, NothingAnnounced DEF StackInv
    <2>4. call'[cur] # NoCall /\ call'[cur].stage = "asked"
      BY <1>1, <2>2 DEF NoCall
    <2>5. \A c \in Contexts \ {cur} : call'[c] = call[c] /\ ~Announced(c)'
      BY <1>1, <2>2 DEF Announced
    <2>6. ASSUME NEW c \in Contexts, c # cur PROVE OnStack(c)'
      BY <2>2, <2>3, <2>5, <2>6 DEF OnStack
    <2>7. ASSUME NEW c \in Contexts, c = cur PROVE OnStack(c)'
      <3>1. Announced(c)' /\ frames'[c] = <<>> /\ Len(<<>>) = 0
        BY <2>2, <2>7 DEF Announced
      <3>2. call'[c] # NoCall /\ call'[c].stage = "asked"
        BY <2>4, <2>7
      <3> QED
        BY <3>1, <3>2 DEF OnStack
    <2> QED
      BY <2>6, <2>7
  <1>3. CASE StubReturns
    <2>1. /\ Running /\ pc = "run" /\ frames[cur] = <<>> /\ frames' = frames
          /\ trap' = trap /\ call' = [call EXCEPT ![cur] = NoCall]
      BY <1>3 DEF StubReturns, InStub, Executes, vars
    <2>2. frames' = [frames EXCEPT ![cur] = <<>>]
      BY <1>1, <2>1
    <2>3. trap = NoTrap
      BY <2>1, NothingAnnounced
    <2> QED
      BY <1>1, <2>1, <2>2, <2>3, StackGivenUp DEF StackInv
  <1>4. CASE \E ok \in BOOLEAN : Serve(ok)
    <2>1. PICK ok \in BOOLEAN : Serve(ok)
      BY <1>4
    <2> DEFINE c == Head(frames[cur]).by
    <2>2. /\ Running /\ pc = "run" /\ frames' = frames /\ trap' = trap /\ call[c] # NoCall
      BY <2>1 DEF Serve, Executes, vars
    <2>3. PICK e : call' = [call EXCEPT ![c] = e] /\ e.stage = "answered" /\ e # NoCall
      <3>1. PICK s \in Served(call[c].sa.number) :
               call' = [call EXCEPT ![c] =
                   [stage |-> "answered", stub |-> call[c].stub,
                    sa |-> [number |-> call[c].sa.number,
                            arg |-> Written(s, call[c].sa, ok)]]]
        BY <2>1 DEF Serve
      <3>2. ASSUME NEW x, NEW y
            PROVE  /\ [stage |-> "answered", stub |-> x, sa |-> y].stage = "answered"
                   /\ [stage |-> "answered", stub |-> x, sa |-> y] # NoCall
        BY DEF NoCall
      <3> QED
        BY <3>1, <3>2
    <2>4. \A d \in Contexts : OnStack(d) /\ ~Announced(d)
      BY <2>2, NothingAnnounced DEF StackInv
    <2> HIDE DEF c
    <2>5. ASSUME NEW d \in Contexts PROVE OnStack(d)'
      <3>1. ~Announced(d)' /\ OnStack(d)
        BY <2>2, <2>4 DEF Announced
      <3>2. \/ call'[d] = call[d]
            \/ call'[d] # NoCall /\ call'[d].stage = "answered"
        BY <1>1, <2>3
      <3>3. call[d] # NoCall => call'[d] # NoCall
        BY <1>1, <2>3
      <3>4. CASE call'[d] = call[d]
        BY <2>2, <2>4, <3>1, <3>4 DEF OnStack
      <3>5. CASE call'[d] # NoCall /\ call'[d].stage = "answered"
        BY <2>2, <3>1, <3>5 DEF OnStack
      <3> QED
        BY <3>2, <3>4, <3>5
    <2> QED
      BY <2>5
  <1>5. CASE Processor
    <2>1. CASE (AlarmArrives \/ TakeAlarm \/ TakeTrap \/ WaitLoops \/ Pause) /\ UNCHANGED call
      <3>1. \A c \in Contexts : OnStack(c)
        BY <2>1 DEF AlarmArrives, TakeAlarm, TakeTrap, WaitLoops, Pause, StackInv
      <3> QED
        BY <1>1, <2>1, <3>1, StackTakeAlarm, StackTakeTrap, SameStacks
        DEF AlarmArrives, WaitLoops, Pause
    <2>2. CASE HandlerReturn /\ MayReturn /\ UNCHANGED call
      BY <1>1, <2>2, PopKeeps DEF HandlerReturn, Executes, StackInv
    <2>3. CASE OtherCode
      <3>1. Running
        BY <2>3 DEF OtherCode, RaiseTrap, PsrRefused, Raise, PsrSet, WaitInt, StartReturns,
           Halt, Abort, ContextInit, ContextSwitch, Executes
      <3> QED
        BY <1>1, <2>3, <3>1, StackOtherCode DEF StackInv
    <2> QED
      BY <1>5, <2>1, <2>2, <2>3 DEF Processor
  <1>6. CASE Ended
    BY <1>6 DEF Ended, vars, Running
  <1>7. CASE UNCHANGED sysvars
    BY <1>7, SameStacks DEF sysvars, vars, StackInv, Running
  <1> QED
    BY <1>2, <1>3, <1>4, <1>5, <1>6, <1>7 DEF SysNext

LEMMA StackInvariant == SysSpec => [](SysTypeOK /\ SafetyInv /\ StackInv)
  <1>1. SysTypeOK => TypeOK
    BY DEF SysTypeOK
  <1> QED
    BY <1>1, SysTypeCorrect, CpuInvariant, StackInit, StackStep, PTL DEF SysSpec

(* Whatever switches and signals come in between, the call of a process is *)
(* announced, or in one handler on its own stack, or answered.             *)
THEOREM CallsHaveHandlers == SysSpec => []EachCallHasItsHandler
  <1>1. ASSUME SysTypeOK, StackInv
        PROVE  EachCallHasItsHandler
    <2> SUFFICES ASSUME Running, NEW c \in Contexts
                 PROVE
        /\ \A i, j \in HandlersOf(c) : i = j
        /\ call[c] = NoCall => HandlersOf(c) = {} /\ ~Announced(c)
        /\ call[c] # NoCall /\ call[c].stage = "asked" => (HandlersOf(c) # {}) # Announced(c)
        /\ call[c] # NoCall /\ call[c].stage = "answered" => ~Announced(c)
      BY DEF EachCallHasItsHandler
    <2>1. /\ Len(frames[c]) \in Nat /\ DOMAIN frames[c] = 1 .. Len(frames[c])
          /\ frames[c] \in Seq(Frame)
      BY <1>1, LenProperties DEF SysTypeOK, TypeOK, Frame
    <2>2. OnStack(c)
      BY <1>1 DEF StackInv
    <2>3. \A i \in HandlersOf(c) : i = Len(frames[c]) /\ call[c] # NoCall
      BY <2>1, <2>2 DEF HandlersOf, OnStack
    <2>4. frames[c] = <<>> => HandlersOf(c) = {}
      BY <2>1 DEF HandlersOf
    <2>5. ASSUME call[c] # NoCall, call[c].stage = "asked", ~Announced(c)
          PROVE  HandlersOf(c) # {}
      <3>1. Len(frames[c]) \in DOMAIN frames[c]
        BY <2>1, <2>2, <2>5, Popped DEF OnStack
      <3> QED
        BY <2>2, <2>5, <3>1 DEF OnStack, HandlersOf
    <2>6. (HandlersOf(c) # {}) \in BOOLEAN /\ Announced(c) \in BOOLEAN
      BY DEF Announced
    <2> QED
      BY <2>2, <2>3, <2>4, <2>5, <2>6 DEF OnStack
  <1> QED
    BY <1>1, StackInvariant, PTL

-----------------------------------------------------------------------------
(* Calls implement the abstract ones.                                      *)

(* The structure of a call has the number of its stub, and after a success *)
(* in each result field what the handler wrote for that result.            *)
Filled(c) ==
    call[c] # NoCall =>
        /\ call[c].sa.number = Number(call[c].stub)
        /\ call[c].stage = "answered" /\ Ok(call[c].sa) =>
              \A o \in call[c].stub.out : call[c].sa.arg[o[2]] = Reply(c, o[1])

AllFilled == \A c \in Contexts : Filled(c)

LEMMA WrittenResults ==
    ASSUME NEW s \in Stubs, NEW sa \in Sysargs, NEW ok \in BOOLEAN
    PROVE  /\ Written(s, sa, ok)[4] = Reply(cur, IF ok THEN "ok" ELSE "failed")
           /\ ok => \A o \in s.out : Written(s, sa, ok)[o[2]] = Reply(cur, o[1])
  <1>1. Written(s, sa, ok)[4] = Reply(cur, IF ok THEN "ok" ELSE "failed")
    BY DEF Written
  <1>2. ASSUME ok, NEW o \in s.out
        PROVE  Written(s, sa, ok)[o[2]] = Reply(cur, o[1])
    <2>1. o[2] \in {1, 2, 3}
      BY TableAssumption
    <2>2. \A p \in s.out : p[2] = o[2] => p = o
      BY TableAssumption
    <2>3. (CHOOSE p \in s.out : p[2] = o[2]) = o
      BY <2>2
    <2>4. ASSUME NEW q \in {1, 2, 3}, q = o[2]
          PROVE  Written(s, sa, ok)[q] = Reply(cur, (CHOOSE p \in s.out : p[2] = q)[1])
      <3>1. q \in 1 .. 5 /\ q # 4 /\ \E p \in s.out : p[2] = q
        BY <2>4
      <3> QED
        BY <1>2, <3>1 DEF Written
    <2> QED
      BY <2>1, <2>3, <2>4
  <1> QED
    BY <1>1, <1>2

(* What Serve does to the one call it is about.                            *)
LEMMA Served1 ==
    ASSUME SysTypeOK, SafetyInv, AllFilled, NEW ok \in BOOLEAN, Serve(ok)
    PROVE  /\ cur \in Contexts /\ call[cur] # NoCall /\ call[cur].stage = "asked"
           /\ call' = [call EXCEPT ![cur] =
                  [stage |-> "answered", stub |-> call[cur].stub,
                   sa |-> [number |-> call[cur].sa.number,
                           arg |-> Written(call[cur].stub, call[cur].sa, ok)]]]
  <1>1. cur \in Contexts /\ frames[cur] \in Seq(Frame) /\ frames[cur] # <<>>
    BY DEF SysTypeOK, TypeOK, Frame, Serve
  <1>2. Head(frames[cur]) = frames[cur][1] /\ 1 \in 1 .. Len(frames[cur])
    BY <1>1, Popped
  <1>3. Head(frames[cur]).by = cur
    BY <1>1, <1>2 DEF Serve, SafetyInv, TrapInv, Traps
  <1>4. /\ call[cur] # NoCall /\ call[cur].stage = "asked"
        /\ \E s \in Served(call[cur].sa.number) :
              call' = [call EXCEPT ![cur] =
                  [stage |-> "answered", stub |-> call[cur].stub,
                   sa |-> [number |-> call[cur].sa.number,
                           arg |-> Written(s, call[cur].sa, ok)]]]
    BY <1>3 DEF Serve
  <1>5. call[cur].sa.number = Number(call[cur].stub) /\ call[cur].stub \in Stubs
    BY <1>1, <1>4, InCall DEF AllFilled, Filled
  <1>6. \A s \in Served(call[cur].sa.number) : s = call[cur].stub
    BY <1>5, OneService
  <1> QED
    BY <1>1, <1>4, <1>6

LEMMA FilledStep ==
    SysTypeOK /\ SafetyInv /\ AllFilled /\ [SysNext]_sysvars => AllFilled'
  <1> SUFFICES ASSUME SysTypeOK, SafetyInv, AllFilled, [SysNext]_sysvars,
                      NEW c \in Contexts
               PROVE  Filled(c)'
    BY DEF AllFilled
  <1>1. cur \in Contexts /\ call \in [Contexts -> Calls] /\ Filled(c)
    BY DEF SysTypeOK, TypeOK, AllFilled
  <1>2. CASE \E s \in Stubs : CallStub(s)
    <2>1. PICK s \in Stubs : CallStub(s)
      BY <1>2
    <2>2. call' = [call EXCEPT ![cur] = [stage |-> "asked", stub |-> s,
                                         sa |-> Packed(cur, s)]]
      BY <2>1 DEF CallStub
    <2>3. Packed(cur, s).number = Number(s)
      BY DEF Packed
    <2> QED
      BY <1>1, <2>2, <2>3 DEF Filled
  <1>3. CASE StubReturns
    BY <1>1, <1>3 DEF StubReturns, Filled
  <1>4. CASE \E ok \in BOOLEAN : Serve(ok)
    <2>1. PICK ok \in BOOLEAN : Serve(ok)
      BY <1>4
    <2> DEFINE s == call[cur].stub
               w == Written(s, call[cur].sa, ok)
    <2>2. s \in Stubs /\ call[cur].sa.number = Number(s) /\ call[cur].sa \in Sysargs
      BY <1>1, <2>1, Served1, InCall DEF AllFilled, Filled
    <2>3. call' = [call EXCEPT ![cur] =
              [stage |-> "answered", stub |-> s,
               sa |-> [number |-> call[cur].sa.number, arg |-> w]]]
      BY <2>1, Served1
    <2>4. /\ w[4] = Reply(cur, IF ok THEN "ok" ELSE "failed")
          /\ ok => \A o \in s.out : w[o[2]] = Reply(cur, o[1])
      BY <2>2, WrittenResults
    <2>5. w[4].of = "ok" => ok
      BY <2>4 DEF Reply
    <2> HIDE DEF s, w
    <2> QED
      BY <1>1, <2>2, <2>3, <2>4, <2>5 DEF Filled, Ok
  <1>5. CASE Processor
    BY <1>1, <1>5 DEF Processor, OtherCode, Forgets, Filled
  <1>6. CASE UNCHANGED call
    BY <1>1, <1>6 DEF Filled
  <1> QED
    BY <1>2, <1>3, <1>4, <1>5, <1>6 DEF SysNext, sysvars

SysInv == SysTypeOK /\ SafetyInv /\ StackInv /\ AllFilled

LEMMA SysInvariant == SysSpec => []SysInv
  <1>1. SysInit => AllFilled
    BY DEF SysInit, AllFilled, Filled
  <1> QED
    BY <1>1, StackInvariant, FilledStep, PTL DEF SysSpec, SysInv

LEMMA AbstractInit == SysInit => Abstract!Init
  BY DEF SysInit, Abstract!Init, Abstract!Idle, Abstract!Nothing, AbstractCall, AbstractOf,
     AbstractBack, NoCall, Nothing

(* The image of a step that changes the call of one process.               *)
LEMMA OneCall ==
    ASSUME SysTypeOK, NEW d \in Contexts, NEW e, call' = [call EXCEPT ![d] = e]
    PROVE  /\ AbstractCall' = [AbstractCall EXCEPT ![d] = AbstractOf(e)]
           /\ AbstractCall[d] = AbstractOf(call[d])
  BY DEF SysTypeOK, AbstractCall, AbstractOf

LEMMA NothingBack == ASSUME back' = Nothing PROVE AbstractBack' = Abstract!Nothing
  BY DEF AbstractBack, Nothing, Abstract!Nothing

(* A call is given up, if there is one.                                    *)
LEMMA ForgetStep ==
    ASSUME SysTypeOK, NEW c \in Contexts, Forgets(c), back' = Nothing
    PROVE  Abstract!Next
  <1>1. AbstractCall' = [AbstractCall EXCEPT ![c] = Abstract!Idle]
    BY OneCall DEF Forgets, AbstractOf, Abstract!Idle
  <1>2. CASE AbstractCall[c] = Abstract!Idle
    <2>1. AbstractCall' = AbstractCall
      BY <1>1, <1>2 DEF AbstractCall
    <2> QED
      BY <2>1, NothingBack DEF Abstract!Next, Abstract!Forget
  <1>3. CASE AbstractCall[c] # Abstract!Idle
    BY <1>1, <1>3, NothingBack DEF Abstract!Next, Abstract!GiveUp
  <1> QED
    BY <1>2, <1>3

LEMMA AskStep ==
    ASSUME SysTypeOK, NEW s \in Stubs, CallStub(s)
    PROVE  Abstract!Next
  <1> DEFINE e == [stage |-> "asked", stub |-> s, sa |-> Packed(cur, s)]
  <1>1. cur \in Contexts /\ call[cur] = NoCall /\ call' = [call EXCEPT ![cur] = e]
    BY DEF SysTypeOK, TypeOK, CallStub
  <1>2. AbstractOf(e) = Abstract!Asked(s.name)
    BY DEF AbstractOf, NoCall, Abstract!Asked
  <1> HIDE DEF e
  <1>3. /\ AbstractCall' = [AbstractCall EXCEPT ![cur] = Abstract!Asked(s.name)]
        /\ AbstractCall[cur] = Abstract!Idle
    BY <1>1, <1>2, OneCall DEF AbstractOf, Abstract!Idle
  <1>4. AbstractBack' = Abstract!Nothing
    BY NothingBack DEF CallStub
  <1> QED
    BY <1>1, <1>3, <1>4 DEF Abstract!Next, Abstract!Ask, StubNames

LEMMA AnswerStep ==
    ASSUME SysTypeOK, SafetyInv, AllFilled, NEW ok \in BOOLEAN, Serve(ok)
    PROVE  Abstract!Next
  <1> DEFINE s == call[cur].stub
             w == Written(s, call[cur].sa, ok)
             e == [stage |-> "answered", stub |-> s,
                   sa |-> [number |-> call[cur].sa.number, arg |-> w]]
  <1>1. /\ cur \in Contexts /\ call[cur] # NoCall /\ call[cur].stage = "asked"
        /\ call' = [call EXCEPT ![cur] = e]
    BY Served1
  <1>2. s \in Stubs /\ call[cur].sa \in Sysargs
    BY <1>1, InCall
  <1>3. w[4] = Reply(cur, IF ok THEN "ok" ELSE "failed")
    BY <1>2, WrittenResults
  <1>4. Ok(e.sa) = ok
    BY <1>3 DEF Ok, Reply
  <1>5. AbstractOf(e) = Abstract!Answered(s.name, ok)
    BY <1>4 DEF AbstractOf, NoCall, Abstract!Answered
  <1>6. AbstractCall[cur] = Abstract!Asked(s.name)
    BY <1>1 DEF AbstractCall, AbstractOf, Abstract!Asked
  <1> HIDE DEF s, w, e
  <1>7. AbstractCall' = [AbstractCall EXCEPT ![cur] = Abstract!Answered(s.name, ok)]
    BY <1>1, <1>5, OneCall
  <1>8. AbstractBack' = Abstract!Nothing
    BY NothingBack DEF Serve
  <1>9. Abstract!Answer(cur, ok)
    BY <1>6, <1>7, <1>8 DEF Abstract!Answer, Abstract!Asked, Abstract!Answered
  <1> QED
    BY <1>1, <1>9 DEF Abstract!Next

LEMMA NamedResults ==
    ASSUME NEW s \in Stubs
    PROVE  ResultNames(s.name) = {o[1] : o \in s.out}
  <1>1. \A t \in Stubs : t.name = s.name => t = s
    BY TableAssumption
  <1>2. (CHOOSE t \in Stubs : t.name = s.name) = s
    BY <1>1
  <1> QED
    BY <1>2 DEF ResultNames

(* A process is back from a trap with an answer.                           *)
LEMMA BackAnswered ==
    ASSUME SysInv, StubReturns
    PROVE  call[cur] # NoCall /\ call[cur].stage = "answered"
  <1>1. /\ Running /\ pc = "run" /\ frames[cur] = <<>> /\ call[cur] # NoCall
        /\ cur \in Contexts
    BY DEF StubReturns, InStub, Executes, SysInv, SysTypeOK, TypeOK
  <1>2. ~Announced(cur) /\ OnStack(cur)
    BY <1>1, NothingAnnounced DEF SysInv, StackInv
  <1>3. call[cur].stage \in {"asked", "answered"}
    BY <1>1, InCall DEF SysInv
  <1> QED
    BY <1>1, <1>2, <1>3 DEF OnStack

LEMMA ReturnStep ==
    ASSUME SysInv, StubReturns
    PROVE  Abstract!Next
  <1> DEFINE s  == call[cur].stub
             sa == call[cur].sa
             V(r) == <<r[1], IF r[2].of = r[1] THEN Owner(r[2]) ELSE "mixed up">>
             View(R) == {V(r) : r \in R}
  <1>1. /\ cur \in Contexts /\ call[cur] # NoCall /\ call[cur].stage = "answered"
        /\ s \in Stubs /\ sa \in Sysargs
    BY BackAnswered, InCall DEF SysInv, SysTypeOK, TypeOK
  <1>2. /\ call' = [call EXCEPT ![cur] = NoCall]
        /\ back' = [by |-> cur, stub |-> s, sa |-> sa, results |-> Taken(s, sa)]
    BY DEF StubReturns
  <1>3. AbstractCall[cur] = Abstract!Answered(s.name, Ok(sa))
    BY <1>1 DEF AbstractCall, AbstractOf, Abstract!Answered
  <1>4. AbstractCall' = [AbstractCall EXCEPT ![cur] = Abstract!Idle]
    BY <1>1, <1>2, OneCall DEF SysInv, AbstractOf, Abstract!Idle
  <1>5. AbstractBack' = [by |-> cur, service |-> s.name, ok |-> Ok(sa),
                         results |-> View(Taken(s, sa))]
    <2> HIDE DEF s, sa
    <2>1. back' # Nothing
      BY <1>2 DEF Nothing
    <2> QED
      BY <1>2, <2>1 DEF AbstractBack
  <1>6. ASSUME Ok(sa)
        PROVE  View(Taken(s, sa)) = Abstract!Results(s.name, cur)
    <2>1. Taken(s, sa) = {<<o[1], sa.arg[o[2]]>> : o \in s.out}
      BY <1>6 DEF Taken
    <2>2. \A o \in s.out : sa.arg[o[2]] = Reply(cur, o[1])
      BY <1>1, <1>6 DEF SysInv, AllFilled, Filled
    <2> HIDE DEF s, sa
    <2>3. Taken(s, sa) = {<<o[1], Reply(cur, o[1])>> : o \in s.out}
      BY <2>1, <2>2
    <2>4. View(Taken(s, sa)) = {<<o[1], cur>> : o \in s.out}
      <3>1. ASSUME NEW o \in s.out PROVE V(<<o[1], Reply(cur, o[1])>>) = <<o[1], cur>>
        BY DEF Reply, Owner
      <3>2. \A r \in Taken(s, sa) : \E o \in s.out : V(r) = <<o[1], cur>>
        BY <2>3, <3>1
      <3>3. \A o \in s.out : \E r \in Taken(s, sa) : V(r) = <<o[1], cur>>
        BY <2>3, <3>1
      <3> HIDE DEF V
      <3> QED
        BY <3>2, <3>3
    <2>5. Abstract!Results(s.name, cur) = {<<n, cur>> : n \in {o[1] : o \in s.out}}
      BY <1>1, NamedResults DEF Abstract!Results
    <2> QED
      BY <2>4, <2>5
  <1> HIDE DEF s, sa, V, View
  <1>7. Abstract!Return(cur)
    BY <1>3, <1>4, <1>5, <1>6 DEF Abstract!Return, Abstract!Answered
  <1> QED
    BY <1>1, <1>7 DEF Abstract!Next

LEMMA AbstractStep ==
    SysInv /\ [SysNext]_sysvars => [Abstract!Next]_(Abstract!vars)
  <1> SUFFICES ASSUME SysInv, [SysNext]_sysvars
               PROVE  [Abstract!Next]_(Abstract!vars)
    OBVIOUS
  <1>1. SysTypeOK /\ cur \in Contexts
    BY DEF SysInv, SysTypeOK, TypeOK
  <1>2. CASE \E s \in Stubs : CallStub(s)
    BY <1>1, <1>2, AskStep
  <1>3. CASE StubReturns
    BY <1>3, ReturnStep
  <1>4. CASE \E ok \in BOOLEAN : Serve(ok)
    BY <1>4, AnswerStep DEF SysInv
  <1>5. CASE Processor
    <2>1. CASE UNCHANGED call
      <3>1. AbstractCall' = AbstractCall /\ AbstractBack' = Abstract!Nothing
        BY <1>5, <2>1, NothingBack DEF Processor, AbstractCall, AbstractOf
      <3> QED
        BY <3>1 DEF Abstract!Next, Abstract!Forget
    <2>2. CASE ~UNCHANGED call
      <3>1. \E c \in Contexts : Forgets(c)
        BY <1>1, <1>5, <2>2 DEF Processor, OtherCode
      <3> QED
        BY <1>1, <1>5, <3>1, ForgetStep DEF Processor
    <2> QED
      BY <2>1, <2>2
  <1>6. CASE UNCHANGED <<call, back>>
    <2>1. AbstractCall' = AbstractCall /\ AbstractBack' = AbstractBack
      BY <1>6 DEF AbstractCall, AbstractBack
    <2> QED
      BY <2>1 DEF Abstract!vars
  <1> QED
    BY <1>2, <1>3, <1>4, <1>5, <1>6 DEF SysNext, sysvars

(* Every call that returns was answered once, by its own service and for   *)
(* its own process, and what it hands back after a success is what the     *)
(* handler of that service wrote.                                          *)
THEOREM SyscallsImplement == SysSpec => ImplementsAbstractSyscalls
  BY SysInvariant, AbstractInit, AbstractStep, PTL
  DEF SysSpec, ImplementsAbstractSyscalls, Abstract!Spec

=============================================================================
