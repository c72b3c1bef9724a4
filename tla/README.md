# USLOSS in TLA+

USLOSS simulates a small computer inside one Unix process: a processor with a
status word, interrupts and traps, four kinds of device, and an MMU. Students
write an operating system against it. What USLOSS promises to that operating
system is what this project specifies, model-checks and proves.

## 1. Inventory

Paths below are relative to the repository; the simulator is in its `src/`.

| part | state it keeps | operations | what makes it correct |
|---|---|---|---|
| MMU (`mmu.c`) | mappings per tag with a requested and a real protection, access bits per frame, mapping count, current tag, page table, the host's `mmap` of the region | `MmuInit/Done/Map/Unmap/SetTag/SetAccess/SetPageTable`, `MmuHandler` on SIGSEGV, `MmuTouch`, getters | the host permits exactly what the mappings permit, uses of frames are recorded, faults have the right cause and are resolved |
| event ring (`devices.c`) | `dev_event_queue[256]`, `dev_event_ptr`, `tick` | `schedule_int`, `dispatch_int`, `DeviceInput/Output` | no event lost, copied or mixed up; late by a bounded time only |
| alarm, clock (`dev_alarm.c`, `dev_clock.c`) | `armed` | request, status, action | goes off at its tick; status true |
| disks (`dev_disk.c`, `libdisk`) | status, current track, request with its buffer, a file of the host | request, status, action; `Disk_Create` | one completion per request, head on the disk, impossible requests are errors; reads return the last write, also after a restart |
| terminals (`dev_term.c`) | status and control register of four units, unit polled last, files | request, status, action | every enabled interrupt raised, every character sent |
| processor (`sig_ints.c`, `globals.c`) | `current_psr`, the host's signal mask and pending signals, `trap_pending`, `syscall_arg`, `USLOSSwaiting`, the stacks of the contexts | `sighandler`, `Syscall`, `IllegalInstruction`, `PsrSet/Get`, `WaitInt`, `ContextInit/Switch`, `Halt` | a trap is handled for the process that raised it; user code is interruptible and stays in user mode |
| system calls (`libuser`) | a `USLOSS_Sysargs` on the stack of each process in a stub | 41 stubs | each call is answered once, by its own service and for its own process, and hands back what was answered |
| start-up (`main.c`) | flags, finish context | `main` | initial states of the others; a clean end |
| `pterm` | none in the simulator | a viewer | not modelled, see section 8 |

How they interact. The host's interval timer sends SIG_ALARM; `sighandler` calls
`dispatch_int`, which calls one device's action routine and then the operating
system's handler in `USLOSS_IntVec`. That handler, running on the interrupted
process's stack, may call anything, also `USLOSS_ContextSwitch`. System calls are
a signal too (SIGUSR1, which a process raises on itself), and so are accesses to
pages the host forbids (SIGSEGV, to `USLOSS_MmuHandler`). `USLOSS_ContextSwitch`
loads the new context's page table into the MMU. Everything is one Unix thread;
what is concurrent is signals, contexts, and the devices' pending events.

What is hard: signals between any two calls; handlers nested on several stacks;
global variables (`trap_pending`, `current_psr`) that belong to a process only as
long as nobody switches; two hand-kept copies of every page's protection, and a
third in the host; a bounded ring in which events push each other around;
failures half-way through a page table. `PROJECT.json` lists the hazards, each
at its line, with the properties that cover it or the reason why none does.

## 2. Modules

| module | what it is |
|---|---|
| `Mmu` | `mmu.c`, the MMU's part of a context switch, and the host's page table and faults |
| `MmuProperties` | what is claimed of it |
| `AbstractMmu` | the MMU USLOSS promises: mappings, bits, interrupts; no real protections, no host |
| `MmuRefines` | the refinement mapping, `ImplementsAbstractMmu` |
| `MmuProofs` | theorems about tables, counts, the host's page table, protection and causes |
| `MmuRefinesProofs` | the proof of the refinement |
| `Devices` | ring, alarm, clock tick, disks, terminals, timer dispatch |
| `DevicesProperties` | what is claimed of them |
| `DevicesProofs` | theorems, with the lemmas about the ring |
| `DelayProofs` | theorems about how long a request stays in the ring |
| `Storage` | what disks and buffers hold, on top of `Devices`; restarts |
| `AbstractStorage` | the disks USLOSS promises: tracks of sectors, one job each; no ring, no files |
| `StorageProperties`, `StorageProofs` | the refinement mapping, `ImplementsAbstractStorage`; its proof |
| `Requests` | alarm and disk requests as `schedule_int` runs them, step by step, with or without signals in between |
| `RequestsProofs` | with the signals blocked the steps are one step of `Devices`, and end |
| `Cpu`, `CpuProperties`, `CpuProofs` | signals, traps, status word, contexts, the end |
| `Stubs` | the table of the system calls |
| `Syscalls` | the stubs and their handler, on top of `Cpu` |
| `AbstractSyscalls` | the system calls a process sees: ask, be answered, return |
| `SyscallsProperties`, `SyscallsProofs` | what is claimed, `ImplementsAbstractSyscalls`; the proofs |
| `MCMmu`, `MCDevices`, `MCRequests`, `MCStorage`, `MCCpu`, `MCSyscalls` | values of the constants for TLC |

`Storage` extends `Devices` and `Syscalls` extends `Cpu`: what they add goes on in the
steps of the module below, or between them. `Requests` extends `Devices` too, to take
one of its steps apart.

A definition starting with `Bug` is a mutant: a plausible mistake in the code
that the property named in `PROJECT.json` detects. No specification uses one.

### Mmu

One action per call that changes something, plus `Access` (a process starts a load or a
store), `Complete` (the host lets it through) and one action per outcome of the SIGSEGV
handler. A call that fails returns an error and changes nothing, except
`USLOSS_MmuSetPageTable`, whose half-loaded table `LoadTable` models. `realProt` and
`virtProt` are the code's; `hwFrame` and `hwProt` are what its `mmap` calls have left in
the host. Between two tries of an instruction the operating system may do anything: that
is a clock interrupt, or its own MMU handler (`inHandler`). An instruction that
completes and one that a context switch gives up leave `acc` different, so that the
abstract MMU cannot pass off one as the other. The operating system may set the bits to
anything, in the abstract MMU too, so what sets the dirty bit is stated apart
(`DirtyOnlyByStore`). `MmuDone` frees the tables; the model clears them, which nothing
observes. `UnmappedUntouchable` stands for the assertions through `USLOSS_MmuTouch`.

### Devices

A timer signal is `dispatch_int`: every second one is a clock interrupt, the others
take the next slot and run its device. `intr` is the interrupt the step delivered.
The operating system's requests happen between signals, which is what happens when
they are made with interrupts off or in a handler. `schedule_int` is stated as what it
leaves in the ring (`Enqueue`); that its loop does leave that, and when it may be
taken for one step, is the subject of `Requests`. A full ring makes the loop run for
ever: `fate = "hung"`. Disks are those with a usable file of at
least one track. `Polite` is whether the operating system looks at the alarm's
status before arming it.

### Storage

A unit's `file` is the sequence of its sectors, as on the host; a transfer takes place
in the step that completes it, at the sector which the head's track and `reg1` give
(`Sector`), from or to the buffer named in the request (`buffer`, the code's `reg2`).
The operating system may fill any buffer at any time. `Restart` is the simulator
killed, or ended, at any moment and started again, with any of the disks created anew
before: memory, requests, events and heads are lost, files are not. A sector is read or
written in one call of the host, so there is no half of it. The mapping to
`AbstractStorage` cuts the file into tracks; a disk's job is the request of a unit that
is BUSY. In the abstract specification a request completes in one step, with the head
and the buffer of that moment, and `finished` names the unit, so that a status that
lies about the outcome is not hidden. Requests for negative sectors are excluded here
(section 6 shows what they do).

### Requests

`pc` is where a request of the alarm or of a disk stands: its index to be computed, the
place being searched, the event in the slot to be taken out (`low`), and the two stores
to the slot one by one, as `schedule_int` makes them. `event` is the event in hand,
first the request's own and then the one it displaced; `asked` and `found`, which the
code does not have, remember what the request is about and the ring it began with.
`Signal` is a whole `dispatch_int`, and `Handler` a request by the handler it calls, at
most one per signal; requests made by a handler are single steps, since a handler runs
with the signals blocked. `arg` of an emptied slot, which the code leaves as it was, is
0 here as in `Devices`. With `Masked` no signal comes during a request. Then the module
implements `Devices` (`ImplementsDevices`): a request takes effect when it begins, and
is taken for hung at once if the ring it found has no free slot; and if it has one, the
measure `Left` falls with every step (`RequestsEnd`). Without `Masked` a request may
lose its interrupt (section 6).

### Cpu

A context is the stack of handlers it has not returned from, each with the saved
status word (`old_psr`) and the place to continue. `masked` is the host's signal
mask (SIG_ALARM and SIGUSR1 are always blocked and unblocked together).
`USLOSS_Syscall` is two steps, announcing the trap and taking the signal, because a
timer signal may come between. Code with both signals blocked is one action. Calling
a kernel routine in user mode raises the trap of an illegal instruction; its handler
ends the simulator, or returns if `IllegalReturns`, and then the routine goes on
(`globals.c:79` only traps): `PsrRefused` and the place "psrset" are that. A missing
handler, and the return of the function a context was started on, end the simulator.
`USLOSS_WaitInt` is its loop: "check" is before the test of the flag, "pause" between
that and the call of `pause`, "paused" inside it, which any handled signal ends. A signal
in between is one that `pause` misses. With `VirtualTime` the loop raises the timer's
signal instead.
`Halt`, allowed in any mode and in any handler, goes back to `main`, which runs the
operating system's `finish` with the status word and mask of its own context. Memory
faults are not here (`Mmu`). Re-initialising the running context, and switching to
itself, are left out.

### Syscalls

A stub is a row of `Stubs`: the parameters it puts in `arg1` .. `arg5`, and the field it
takes each result from. `call` is the stub a context is in, with its `USLOSS_Sysargs`; a
value carries who wrote it, for whom and what it is, so that a result mixed up between
processes, or taken before it is there, is seen. Which field a result is in is not
checked: no source but the stubs says so, and the handler of the model takes it from the
same table (what is checked of the table is `TableAssumption`). `CallStub` announces the
trap, as `RaiseTrap` of `Cpu` does; `Serve` is the handler's answer, in a handler of
that trap; `StubReturns` is the end of the stub, once the handler has returned. The
handler is the operating system's and external: it looks the service up by its number,
writes the return value and, if the service succeeds, the results, returns once it has,
and may switch contexts before or after. `EachCallHasItsHandler` rests on `trap_pending`
and `syscall_arg`, which are global, never being seen by another process.

## 3. Runs

| run | what it asks | expected |
|---|---|---|
| `mmu_any_os` | both modes, every protection, every bit set, all tables; causes of interrupts | pass |
| `mmu_tlb` | disciplined operating system, TLB or page tables, against the abstract MMU | pass |
| `devices_masked` | requests step by step, alarms on alarms up to a full ring, against `Devices` | pass |
| `devices_polite` | one alarm at a time, two disks with long seeks, liveness | pass |
| `devices_units` | every kind of disk request, two terminals, no alarm handler | pass |
| `storage` | contents of disks and buffers, restarts, against the abstract disks | pass |
| `cpu_any_os` | two contexts, any calls, nested handlers, liveness of waiting in real time | pass |
| `syscalls` | every stub, handlers that block, against the abstract system calls | pass |
| `mmu_none_page` `devices_negative_sector` `devices_preempted` `cpu_psr_mask` | one sentence of the sources each | violation |

What the properties say, and the mutants that break them, is beside their
definitions and in `PROJECT.json`.

Bounds. MMU: two pages, at most two frames and two tags: one page of each kind next to
one of another, aliased frames, one current tag and one other. `mmu_any_os` has one
frame, which both pages may share, and accesses just outside the region; `mmu_tlb` has
two. Pages of two bytes distinguish the first byte, the last byte and the guard pages. A
TLB of two mappings over four (tag, page) pairs fills up. Devices: a ring of four or six
slots is just larger than the largest delay (3), so wrapping and crowding happen at
once; with 256 slots they need hundreds of ticks. `devices_polite` has six because with
two disks and an alarm the bound of `DisksStayNear` is five ticks and must not be the
whole ring. Two disks are all there are. Two terminals of four: the units only take
turns. Four tracks distinguish a delay of 1, 2, 3 and 4 (cut to 3). The alarm times are
small because only `time mod QSize` matters. Storage: disks of two tracks and of one, of
two sectors each, so that a seek may fit one and not the other and the last sector of a
track borders on the next; two contents; one buffer that both disks and the operating
system share, which is the worst case. Requests: masked, two disks that are asked for
one tick's work each, alarms of no and of two ticks and a ring of four, so that alarms
pile up, displace disks and fill it; preempted, requests of one tick and a ring of five,
so that the signals can catch up with a request. Cpu: two contexts, because every
property is about one process and "another"; `MaxDepth` of two handlers on the stack of
one gives a trap interrupted by a device interrupt, the reverse, and a wait in a handler
that interrupted another wait; the other context, with one, switches and waits in
between. `cpu_any_os` is in real time, where a wait may miss signals, `syscalls` in
virtual time. Syscalls: one process may call every stub, the other waits for it with
`Sys_Wait`; one handler per stack, because what handlers nested on one another do to
traps is the matter of `cpu_any_os`; the illegal-instruction handler may return. The
proofs remove all these bounds for the safety properties they cover.

## 4. Fairness

`Mmu!FairSpec`: weak fairness of `Instruction`, the processor executing or faulting on
the pending instruction. Nothing is assumed of the operating system; `AccessResolved`
says that a fault is resolved once it stops calling the MMU. `Devices!FairSpec`: weak
fairness of `dispatch_int`, because `set_timer` arms a periodic timer that is not
stopped while the simulator runs; it assumes that the operating system leaves interrupts
enabled again and again. `DisksFinish` is checked for alarms of two ticks or more, one
at a time: an alarm set for the next tick over and over does starve the disks.
`CharactersSent` takes as its hypothesis that terminals get a slot again and again.
`Cpu!FairSpec`: weak fairness of the timer signal's arrival, as for `Devices` (in
virtual time `USLOSS_WaitInt` even raises it itself), and of its delivery when it is not
blocked, which is the host's part. Then a step of a wait (`WaitStep`) is taken in the
end if the processor comes back to it again and again: strong fairness, for every
context and depth of handlers by itself, since every signal interrupts it and a handler
may wait too. The code justifies it with the timer's period of ten milliseconds
(`set_timer`) against the few instructions of a step. Nothing is assumed of handlers:
`WaitEnds` is about a wait that is come back to, with the signals unblocked, again and
again, and the bound on nesting is a hypothesis. In real time `pause` may miss a signal;
the property fails without the period of the timer, whose next signal ends it. `Storage`
and `Syscalls` have no fairness: their claims are safety.

## 5. Proofs

All proofs are for arbitrary constants under the `ASSUME`s in the modules (sizes are
positive, the ring is larger than the largest delay, arguments have the types C gives
them).

- `MmuProofs`: `TypeCorrect`; `MappingsCounted`. The count needs cardinalities of
  sets of (tag, page) pairs after one mapping is added or removed, or one tag's
  mappings are replaced: lemmas about finite sets. `TableInForce` adds `EntriesInv`
  (what is mapped comes from the last table) and needs the count: a table never runs
  out of mappings, because the one before it has been taken down.
  Then the host's page table. `HostFollows`, `ClosedTags`, `NoUseMissed` are parts of one
  inductive invariant, `HostInv`. None is inductive alone: switching to a tag is
  right only because that tag was closed, and closing is right only because the host
  followed. `CausesTrue` follows from it without any hypothesis on the operating system:
  the handler reports an access violation only when the mapping's protection forbids what
  its own copy and the host's forbade. `DirtyForStores` follows too, if no access is to
  the last page below the region (`NoneJustBelow`; section 6). `ProtectionHolds` and
  `NoAbort` add `ProtInv` and the hypothesis `Disciplined` (section 6).
- `MmuRefinesProofs`: `MmuImplements`, the whole refinement of the abstract MMU,
  under `Disciplined` and `NoneJustBelow`; other accesses outside the region are covered,
  as the fault of the process that they are. The invariant is `ProtInv`
  with two facts the mapping needs: a record that is not mapped has no protection, and
  an MMU that is off has no mapping. There is one lemma for each call
  and each way to handle a fault; of all actions only `InstallHandler` is a stutter.
- `DevicesProofs`: `EnqueuePlaces` and `EnqueueConserves` say where `Enqueue` puts an
  event and that it keeps the others; the existence of the slot that `FirstBelow`
  chooses comes from a well-founded minimum over the distance round the ring. From
  them `EventInv` (`EventsMatchRequests`), `AlarmsStay` and, for a polite operating
  system, `ArmedInv` (`AlarmStatus`). `UnitsAnnounce` follows from `EventInv`: only a
  disk that is BUSY has an event. `HeadsStay` is inductive alone. `ImpossibleRejected`
  rests on `RequestedInv`: a transfer under way is one of the requests that can be made.
- `DelayProofs`: the waits of the slots order the ring from its pointer, and
  `NearInv` says that every slot between the longest delay and a disk's request is
  taken. It is inductive because the search of `schedule_int` passes over taken slots
  only. `DisksNear` counts those slots. `DisksPutOff` needs that the search does not go
  round past the pointer, where a request would come out too early: with `Polite` no
  event is in the ring twice, and with `RoomForAll` (more slots than disks and the
  longest delay together; 256 against 2 and 3 in the source) one slot beyond is free.
- `RequestsProofs`: `RequestsAreAtomic`, the refinement of `Devices` by the steps of
  `schedule_int`. `RingInv` says for each place in the loop that what is left to do, for
  the event now in hand and the ring as it is, comes to `Enqueue` of the request's own
  event on the ring it found, and that room is left exactly if there was some then. Only
  so is it inductive: half-way the ring holds an event without its argument, and the
  displaced event is nowhere but in `low`. `EnqueueGoesOn` and `EnqueueDisplaces` are the
  two turns of the loop. `ScheduledWhenMasked` carries `EventInv` of `Devices` through a
  request, stated of the ring the request is to leave. `RequestsReturn` needs of `RingInv`
  that the event displaced is less important than the one in hand: `Left`, at most
  `2 * QSize + 9`, counts an alarm as worth a whole turn of the ring more than a disk.
- `StorageProofs`: `StorageImplements`, the whole refinement: the initial states map to
  initial states, and every step to a step of the abstract disks or a stutter. The
  invariant is that of `Devices` (types, heads on the disk, one event per request), with
  `FilesInv` (files keep their size) and `RequestsInv` (a unit that is BUSY works on one
  of the requests that can be made). The event invariant is needed: only because the
  event of a unit is in the ring exactly while it is BUSY does a completion find its
  request. `SectorsApart` and `WriteIsSector` say that the sectors of different tracks
  are different places of the file, so that writing one changes no other; they need
  `SectorsAssumption`, that no sector is negative.
- `CpuProofs`: `SafetyInv` is `TrapInv` (an announced trap belongs to the running
  context, which is in `raise` or `refuse`), `UserInv` (the status words saved in frames
  are as good as the current one) and `DroppedInv` (the first handler on a process's
  stack saved user mode) and `WaitInv` (`USLOSSwaiting` is set only in
  `USLOSS_WaitInt`). `TrapsReachTheirCallers` and `FinishClean` hold in general;
  `UserPreemptible` and `UserStays` under the hypothesis `~IllegalReturns`, without
  which user code may set the status word. `PsrFollowsMask` is for an operating system
  that passes no invalid value to `USLOSS_PsrSet` and, in the formula `SwitchesMasked`,
  disables interrupts before it switches contexts. Its `MaskInv` adds that no context is
  left between a switch and its `int_on`, and that every saved status word has the
  interrupts on, since `sighandler` unblocks the signals whatever it restores.
- `SyscallsProofs`: `CallsHaveHandlers`, from an invariant that ties the handlers on
  each stack to the stage of the call of its process, on top of `TrapInv`; with it
  `SyscallsImplement`, the whole refinement, for any contexts that call any stubs, and
  handlers nested to any depth. It assumes of the table only `TableAssumption` (a
  service has one number and one stub, and the result fields of a stub are apart), which
  TLC evaluates on the table itself, and of the handler what section 2 says.

Only model-checked: the liveness properties (`AccessResolved`, `DisksFinish`,
`CharactersSent`, `WaitEnds`), which are beyond the proof system, as every
argument under fairness is. Every other property of a run that passes has a theorem.
The hypotheses `Disciplined`, `NoneJustBelow`, `Polite`, `RoomForAll`, `Masked`,
`~IllegalReturns`, and those of `ImpossibleRejected` and `PsrFollowsMask`, are about what
the operating system asks for, or the sizes in the source; section 6 says what happens
without them. A property stated under one of them would not find what only happens
without it: not the abort of protection 2 (`mmu.c:326`), not the flag shared by several
alarms (`dev_alarm.c:52`), not the trap that `check_kernel_mode` goes on after
(`globals.c:79`). `PROJECT.json` lists these three as hazards without a property.

## 6. Where code and sources disagree

- `mmu_none_page`: `USLOSS_MmuSetAccess(frame, USLOSS_MMU_REF)` opens for reading a
  page mapped with `PROT_NONE` (`mmu.c:609`), and a store to it then aborts the
  simulator.
- `devices_negative_sector`: a negative sector (`dev_disk.c:143`) aborts or transfers
  a sector of the previous track.
- `devices_preempted`: requests made with interrupts enabled are not masked
  (`devices.c:59`). An alarm request reads a free slot; a timer signal comes, whose
  handler asks a disk and gets that slot; the alarm's stores overwrite the event, and the
  disk is BUSY for ever. In the same window a signal between the two stores of an event
  can take it out with the argument of another.
- `cpu_psr_mask`: a refused `USLOSS_PsrSet` leaves the signals blocked
  (`globals.c:84`); so does a switch to a fresh context with interrupts on in the
  status word.

Less clear-cut, and so not runs: a second alarm is accepted and spoils the status
(`dev_alarm.c:42`); `PageIndex` (`mmu.c:78`) rounds to zero, so that an access just
below the region is taken for one of page 0; `check_kernel_mode` (`globals.c:79`) goes
on if the handler of its trap returns.

What an operating system has to avoid is proved to be no more than this. `Disciplined`
keeps it out of the first case, and of protection 2, which `Map` accepts although
`usloss.h` does not define it: `ProtectionHolds`. Without negative sectors the second
claim holds: `ImpossibleRejected`. With the signals blocked around requests the third
does: `ScheduledWhenMasked`. And with valid arguments, and interrupts off at every
switch, the fourth: `PsrFollowsMask`.

## 7. Plan

Done: MMU, devices, processor, storage with restarts, system calls, requests with
interrupts on; `Mmu`, `Storage` and `Syscalls` proved to implement their abstractions.
Left, in this order:

1. Compose `Cpu` and `Devices`: a signal, the device's action, the handler, the return;
   ticks dropped for a pending trap.
2. `USLOSS_MmuTouch` and its jump out of a signal handler, with the timer; the fault
   that restarts the timer.
3. Characters of the terminals and the clock's value.

## 8. Not modelled

The clock's value (`USLOSSClock`, random in one mode, and its overflow), console output,
the contents of memory pages, which characters the terminals carry, the option parsing
of `main.c`, a `Disk_Create` that fails half-way, `pterm` (a separate viewer that copies
between files and a screen), tests and build files. Of what `USLOSS_MmuTouch` does only
its answer is used. Calls that only read state have no action.
