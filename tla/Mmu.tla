-------------------------------- MODULE Mmu --------------------------------
(***************************************************************************)
(* The MMU of USLOSS (mmu.c).                                              *)
(*                                                                         *)
(* The operating system under test sees an MMU with mappings from pages to *)
(* frames, a protection per mapping, and a reference and a dirty bit per   *)
(* frame.  The code has no such device: it emulates one with the host's    *)
(* mmap and SIGSEGV.  Each mapping keeps two protections, the one the      *)
(* operating system asked for (virtProt) and the one the host enforces     *)
(* (realProt); a mapping starts out inaccessible, and the first load and   *)
(* the first store trap into MmuHandler, which sets the bit and widens     *)
(* realProt before the instruction is retried.                             *)
(*                                                                         *)
(* hwFrame and hwProt are the host's own page table for the region, that   *)
(* is, what the calls to mmap have left there.  acc is the load or store   *)
(* the running process is executing; it is retried until the host permits  *)
(* it, or the operating system switches to something else.                 *)
(***************************************************************************)
EXTENDS Integers, FiniteSets

CONSTANTS
    NumPages,     \* pages of the region
    NumFrames,    \* frames of physical memory
    NumTags,      \* USLOSS_MMU_NUM_TAG, 4 in the source
    PageSize,     \* bytes in a page
    Addrs,        \* the addresses, as offsets in the region, that processes use
    MapLimits,    \* the numMaps arguments of USLOSS_MmuInit
    Modes,        \* the modes the operating system starts the MMU in
    Prots,        \* the protections it passes to USLOSS_MmuMap
    AccessArgs,   \* the bit sets it passes to USLOSS_MmuSetAccess
    Tables,       \* its page tables
    PTE           \* PTE[pt][p] is entry p of page table pt

ASSUME SizesAssumption ==
    /\ NumPages \in Nat \ {0}
    /\ NumFrames \in Nat \ {0}
    /\ NumTags \in Nat \ {0}
    /\ PageSize \in Nat \ {0}

ASSUME InputsAssumption ==
    /\ Addrs \subseteq Int
    /\ MapLimits \subseteq Int
    /\ Prots \subseteq Int

ASSUME TablesAssumption ==
    \A pt \in Tables : \A p \in 0 .. NumPages - 1 :
        /\ PTE[pt][p].incore \in BOOLEAN
        /\ PTE[pt][p].read \in BOOLEAN
        /\ PTE[pt][p].write \in BOOLEAN
        /\ PTE[pt][p].frame \in Nat

Pages  == 0 .. NumPages - 1
Frames == 0 .. NumFrames - 1
Tags   == 0 .. NumTags - 1

NoFrame == -1
NONE    == 0         \* PROT_NONE, USLOSS_MMU_PROT_NONE
READ    == 1         \* PROT_READ, USLOSS_MMU_PROT_READ
RW      == 3         \* PROT_READ|PROT_WRITE, USLOSS_MMU_PROT_RW
Bits    == {"REF", "DIRTY"}
Kinds   == {"load", "store"}

(* What is being executed while no load or store is: the last one was given *)
(* up at a context switch, or has completed.                               *)
NoAccess  == [kind |-> "none", addr |-> 0]
Completed == [kind |-> "completed", addr |-> 0]
Nothing   == {NoAccess, Completed}

Null     == "NULL"
Garbage  == "garbage"      \* an uninitialised pointer

VARIABLES
    on,           \* mmuPtr # NULL
    mode, maxMaps, numMaps, cause, tag, pageTable,
    frame,        \* pages[t][p].frame
    virtProt,     \* pages[t][p].virtProt
    realProt,     \* pages[t][p].realProt
    access,       \* frames[f].access
    hwFrame,      \* the frame behind each page of the region, in the host
    hwProt,       \* the host's protection of each page of the region
    acc,          \* the load or store being executed
    inHandler,    \* the operating system's MMU interrupt handler is running
    intVec,       \* USLOSS_IntVec[USLOSS_MMU_INT] # NULL
    fate          \* "running", or how the simulator ended

mapVars  == <<frame, virtProt, numMaps>>
hwVars   == <<realProt, hwFrame, hwProt>>
cfgVars  == <<on, mode, maxMaps>>
procVars == <<acc, inHandler>>
vars     == <<cfgVars, mapVars, hwVars, procVars, cause, tag, pageTable,
              access, intVec, fate>>

----------------------------------------------------------------------------
(* The emulated tables.                                                    *)

EveryPage(v) == [t \in Tags |-> [p \in Pages |-> v]]
Mapped(t)    == {p \in Pages : frame[t][p] # NoFrame}
AllMapped    == {tp \in Tags \X Pages : frame[tp[1]][tp[2]] # NoFrame}

(* The host's answer to a load or a store at a page protected by prot.     *)
Allows(prot, kind) == prot = RW \/ (prot = READ /\ kind = "load")

(* The page an address lies in, as the host sees it: \div rounds down.     *)
HwPage(a) == a \div PageSize

HwAllows(a, kind) ==
    /\ HwPage(a) \in Pages
    /\ Allows(hwProt[HwPage(a)], kind)

(* The assertions after SetRealProt: no unmapped page of tag t can be      *)
(* touched.                                                                *)
UnmappedUntouchable(t, prot) == \A p \in Pages \ Mapped(t) : prot[p] = NONE

Running == fate = "running"

Init ==
    /\ on = FALSE
    /\ mode = "TLB"
    /\ maxMaps = 0
    /\ numMaps = 0
    /\ cause = "NONE"
    /\ tag = 0
    /\ pageTable = Garbage
    /\ frame = EveryPage(NoFrame)
    /\ virtProt = EveryPage(NONE)
    /\ realProt = EveryPage(NONE)
    /\ access = [f \in Frames |-> {}]
    /\ hwFrame = [p \in Pages |-> NoFrame]
    /\ hwProt = [p \in Pages |-> NONE]
    /\ acc = NoAccess
    /\ inHandler = FALSE
    /\ intVec = FALSE
    /\ fate = "running"

----------------------------------------------------------------------------
(* USLOSS_MmuInit and USLOSS_MmuDone.  A call that returns an error leaves  *)
(* the MMU as it was, so here and below an action is the call that         *)
(* succeeds, and the ...Status operator is what any call returns.          *)

MmuInitStatus(maps, np, nf, md) ==
    IF on THEN "ERR_ON"
    ELSE IF np < 1 THEN "ERR_PAGE"
    ELSE IF nf < 1 THEN "ERR_FRAME"
    ELSE IF md \notin {"TLB", "PAGETABLE"} THEN "ERR_MODE"
    ELSE IF md = "TLB" /\ (maps < 1 \/ maps > np * NumTags) THEN "ERR_MAPS"
    ELSE "OK"

(* Empty tables and a region nobody can touch.  The field pageTable is not *)
(* assigned: it keeps whatever malloc returned.                            *)
Blank ==
    /\ numMaps' = 0
    /\ cause' = "NONE"
    /\ tag' = 0
    /\ pageTable' = Garbage
    /\ frame' = EveryPage(NoFrame)
    /\ virtProt' = EveryPage(NONE)
    /\ realProt' = EveryPage(NONE)
    /\ access' = [f \in Frames |-> {}]
    /\ hwFrame' = [p \in Pages |-> NoFrame]
    /\ hwProt' = [p \in Pages |-> NONE]

MmuInit(maps, md) ==
    /\ MmuInitStatus(maps, NumPages, NumFrames, md) = "OK"
    /\ on' = TRUE
    /\ mode' = md
    /\ maxMaps' = IF md = "PAGETABLE" THEN NumPages ELSE maps
    /\ Blank
    /\ UNCHANGED <<procVars, intVec, fate>>

(* The structures are freed: Blank stands for memory that nothing reads    *)
(* while mmuPtr is NULL.                                                   *)
MmuDone ==
    /\ on
    /\ on' = FALSE
    /\ mode' = "TLB"
    /\ maxMaps' = 0
    /\ Blank
    /\ UNCHANGED <<procVars, intVec, fate>>

----------------------------------------------------------------------------
(* Mappings in TLB mode.                                                   *)

(* Mutant: a page that is mapped already is mapped again.                  *)
BugMapStatus(t, p, f, prot) ==
    IF p \notin Pages THEN "ERR_PAGE"
    ELSE IF f \notin Frames THEN "ERR_FRAME"
    ELSE IF numMaps = maxMaps THEN "ERR_MAPS"
    ELSE IF prot \notin 0 .. RW THEN "ERR_PROT"
    ELSE IF t \notin Tags THEN "ERR_TAG"
    ELSE "OK"

MapStatus(t, p, f, prot) ==
    IF p \notin Pages THEN "ERR_PAGE"
    ELSE IF f \notin Frames THEN "ERR_FRAME"
    ELSE IF numMaps = maxMaps THEN "ERR_MAPS"
    ELSE IF prot \notin 0 .. RW THEN "ERR_PROT"
    ELSE IF t \notin Tags THEN "ERR_TAG"
    ELSE IF frame[t][p] # NoFrame THEN "ERR_REMAP"
    ELSE "OK"

(* The host maps the page only when its tag is the current one.            *)
MmuMap(t, p, f, prot) ==
    /\ on /\ mode = "TLB"
    /\ MapStatus(t, p, f, prot) = "OK"
    /\ numMaps' = numMaps + 1
    /\ frame' = [frame EXCEPT ![t][p] = f]
    /\ virtProt' = [virtProt EXCEPT ![t][p] = prot]
    /\ realProt' = [realProt EXCEPT ![t][p] = NONE]
    /\ IF t = tag
       THEN /\ hwFrame' = [hwFrame EXCEPT ![p] = f]
            /\ hwProt' = [hwProt EXCEPT ![p] = NONE]
       ELSE UNCHANGED <<hwFrame, hwProt>>
    /\ fate' = IF numMaps' <= maxMaps THEN fate ELSE "abort"
    /\ UNCHANGED <<cfgVars, procVars, cause, tag, pageTable, access, intVec>>

(* Mutant: a page that is not mapped is unmapped.                          *)
BugUnmapStatus(t, p) ==
    IF p \notin Pages THEN "ERR_PAGE"
    ELSE IF t \notin Tags THEN "ERR_TAG"
    ELSE "OK"

UnmapStatus(t, p) ==
    IF p \notin Pages THEN "ERR_PAGE"
    ELSE IF t \notin Tags THEN "ERR_TAG"
    ELSE IF frame[t][p] = NoFrame THEN "ERR_NOMAP"
    ELSE "OK"

MmuUnmap(t, p) ==
    /\ on /\ mode = "TLB"
    /\ UnmapStatus(t, p) = "OK"
    /\ numMaps' = numMaps - 1
    /\ frame' = [frame EXCEPT ![t][p] = NoFrame]
    /\ virtProt' = [virtProt EXCEPT ![t][p] = NONE]
    /\ realProt' = [realProt EXCEPT ![t][p] = NONE]
    /\ IF t = tag
       THEN /\ hwFrame' = [hwFrame EXCEPT ![p] = NoFrame]
            /\ hwProt' = [hwProt EXCEPT ![p] = NONE]
       ELSE UNCHANGED <<hwFrame, hwProt>>
    /\ UNCHANGED <<cfgVars, procVars, cause, tag, pageTable, access, intVec,
                   fate>>

SetTagStatus(new) == IF new \in Tags THEN "OK" ELSE "ERR_TAG"

(* Mutants: the old tag's records, or its pages, are not closed.           *)
BugClosed(t) == realProt[t]
BugSwapped(old, new) == Mapped(new)

Closed(t) == [p \in Pages |-> IF p \in Mapped(t) THEN NONE ELSE realProt[t][p]]
Swapped(old, new) == Mapped(old) \cup Mapped(new)

(* SetTag closes every page of the old tag with SetRealProt, then maps the *)
(* pages of the new one, inaccessible, without assigning their realProt.   *)
(* No caller passes the -1 that SetTag also accepts.                       *)
MmuSetTag(new) ==
    /\ on /\ mode = "TLB"
    /\ SetTagStatus(new) = "OK"
    /\ new # tag
    /\ tag' = new
    /\ realProt' = [realProt EXCEPT ![tag] = Closed(tag)]
    /\ hwFrame' = [p \in Pages |->
            IF p \in Mapped(new) THEN frame[new][p]
            ELSE IF p \in Mapped(tag) THEN frame[tag][p]
            ELSE hwFrame[p]]
    /\ hwProt' = [p \in Pages |->
            IF p \in Swapped(tag, new) THEN NONE ELSE hwProt[p]]
    /\ fate' = IF Mapped(tag) = {} \/ UnmappedUntouchable(tag, hwProt)
               THEN fate ELSE "abort"
    /\ UNCHANGED <<cfgVars, mapVars, procVars, cause, pageTable, access,
                   intVec>>

----------------------------------------------------------------------------
(* Reference and dirty bits.                                               *)

SetAccessStatus(f, bits) ==
    IF ~on THEN "ERR_OFF"
    ELSE IF f \notin Frames THEN "ERR_FRAME"
    ELSE IF ~(bits \subseteq Bits) THEN "ERR_ACC"
    ELSE "OK"

(* A cleared bit must be set again by the next load or store, so the pages *)
(* of the current tag that are mapped to the frame become less accessible. *)
ProtFor(bits) == IF "REF" \in bits THEN READ ELSE NONE

(* Mutant: the loop stops at the first page it finds.                      *)
BugPagesOf(f) == {p \in Pages : /\ frame[tag][p] = f
                                /\ \A q \in 0 .. p - 1 : frame[tag][q] # f}

PagesOf(f) == {p \in Pages : frame[tag][p] = f}

MmuSetAccess(f, bits) ==
    /\ SetAccessStatus(f, bits) = "OK"
    /\ access' = [access EXCEPT ![f] = bits]
    /\ LET hit  == PagesOf(f)
           prot == ProtFor(bits)
       IN  IF bits = Bits
           THEN UNCHANGED <<hwVars, fate>>
           ELSE /\ realProt' = [realProt EXCEPT ![tag] =
                      [p \in Pages |-> IF p \in hit THEN prot ELSE @[p]]]
                /\ hwFrame' = [p \in Pages |->
                                  IF p \in hit THEN f ELSE hwFrame[p]]
                /\ hwProt' = [p \in Pages |->
                                  IF p \in hit THEN prot ELSE hwProt[p]]
                /\ fate' = IF hit = {} \/ UnmappedUntouchable(tag, hwProt)
                           THEN fate ELSE "abort"
    /\ UNCHANGED <<cfgVars, mapVars, procVars, cause, tag, pageTable, intVec>>

----------------------------------------------------------------------------
(* Page tables.                                                            *)

(* What the loop of USLOSS_MmuSetPageTable gets for entry p, after it has  *)
(* unmapped every page and mapped the entries before p.                    *)
PteStatus(pt, p) ==
    LET e == PTE[pt][p]
        before == {q \in 0 .. p - 1 : PTE[pt][q].incore}
    IN  IF ~e.incore THEN "OK"
        ELSE IF e.write /\ ~e.read THEN "ERR_PROT"
        ELSE IF e.frame \notin Frames THEN "ERR_FRAME"
        ELSE IF numMaps - Cardinality(Mapped(0)) + Cardinality(before)
                    = maxMaps THEN "ERR_MAPS"
        ELSE "OK"

PteProt(e) == IF e.write THEN RW ELSE IF e.read THEN READ ELSE NONE

(* The loop stops at the first entry it cannot map, and what it has mapped *)
(* before stays mapped.                                                    *)
Loaded(pt) ==
    IF pt = Null THEN {}
    ELSE {p \in Pages : /\ PTE[pt][p].incore
                        /\ \A q \in 0 .. p : PteStatus(pt, q) = "OK"}

SetPageTableStatus(pt) ==
    LET bad == IF pt = Null THEN {}
               ELSE {p \in Pages : PteStatus(pt, p) # "OK"}
    IN  IF bad = {} THEN "OK"
        ELSE PteStatus(pt, CHOOSE p \in bad : \A q \in bad : p <= q)

(* Mutant: the loop that unmaps leaves out the last page.                  *)
BugDropped == Mapped(0) \ {NumPages - 1}

Dropped == Mapped(0)

LoadTable(pt) ==
    LET gone == Dropped
        new  == Loaded(pt)
    IN  /\ pageTable' = pt
        /\ numMaps' = numMaps - Cardinality(gone) + Cardinality(new)
        /\ frame' = [frame EXCEPT ![0] = [p \in Pages |->
                        IF p \in new THEN PTE[pt][p].frame
                        ELSE IF p \in gone THEN NoFrame ELSE frame[0][p]]]
        /\ virtProt' = [virtProt EXCEPT ![0] = [p \in Pages |->
                        IF p \in new THEN PteProt(PTE[pt][p])
                        ELSE IF p \in gone THEN NONE ELSE virtProt[0][p]]]
        /\ realProt' = [realProt EXCEPT ![0] = [p \in Pages |->
                        IF p \in new \cup gone THEN NONE ELSE realProt[0][p]]]
        /\ IF tag = 0
           THEN /\ hwFrame' = [p \in Pages |->
                        IF p \in new THEN PTE[pt][p].frame
                        ELSE IF p \in gone THEN NoFrame ELSE hwFrame[p]]
                /\ hwProt' = [p \in Pages |->
                        IF p \in new \cup gone THEN NONE ELSE hwProt[p]]
           ELSE UNCHANGED <<hwFrame, hwProt>>

MmuSetPageTable(pt) ==
    /\ on /\ mode = "PAGETABLE"
    /\ LoadTable(pt)
    /\ UNCHANGED <<cfgVars, procVars, cause, tag, access, intVec, fate>>

(* The MMU's part of USLOSS_ContextSwitch, to a context whose page table   *)
(* is pt.  The instruction of the old context is given up; it starts again *)
(* when that context next runs.                                            *)
ContextSwitch(pt) ==
    /\ acc' = NoAccess
    /\ inHandler' = FALSE
    /\ IF on /\ mode = "PAGETABLE"
       THEN /\ LoadTable(pt)
            /\ fate' = IF SetPageTableStatus(pt) = "OK" THEN fate ELSE "trap"
       ELSE UNCHANGED <<mapVars, hwVars, pageTable, fate>>
    /\ UNCHANGED <<cfgVars, cause, tag, access, intVec>>

----------------------------------------------------------------------------
(* Loads and stores, and the SIGSEGV handler.                              *)

Access(kind, addr) ==
    /\ acc \in Nothing /\ ~inHandler
    /\ acc' = [kind |-> kind, addr |-> addr]
    /\ UNCHANGED <<cfgVars, mapVars, hwVars, inHandler, cause, tag, pageTable,
                   access, intVec, fate>>

Pending == acc \notin Nothing /\ ~inHandler

Complete ==
    /\ Pending
    /\ HwAllows(acc.addr, acc.kind)
    /\ acc' = Completed
    /\ UNCHANGED <<cfgVars, mapVars, hwVars, inHandler, cause, tag, pageTable,
                   access, intVec, fate>>

(* PageIndex: C's division of the offset by the page size rounds to 0.     *)
PageIndex(a) == IF a < 0 THEN -((-a) \div PageSize) ELSE a \div PageSize

Faulting == Pending /\ ~HwAllows(acc.addr, acc.kind)
FaultPage == PageIndex(acc.addr)
InRegion == on /\ FaultPage \in Pages
Protections == <<realProt[tag][FaultPage], virtProt[tag][FaultPage]>>

(* Not the MMU's: the default action is restored, and the retry is fatal.  *)
RealSegv ==
    /\ Faulting /\ ~InRegion
    /\ fate' = "segv"
    /\ UNCHANGED <<cfgVars, mapVars, hwVars, procVars, cause, tag, pageTable,
                   access, intVec>>

(* Mutant: the cause is always a fault.                                    *)
BugInterrupt(c) ==
    /\ cause' = "FAULT"
    /\ inHandler' = intVec
    /\ fate' = IF intVec THEN fate ELSE "trap"
    /\ UNCHANGED <<cfgVars, mapVars, hwVars, acc, tag, pageTable, access,
                   intVec>>

(* Calls the handler the operating system installed, and traps without one.*)
Interrupt(c) ==
    /\ cause' = c
    /\ inHandler' = intVec
    /\ fate' = IF intVec THEN fate ELSE "trap"
    /\ UNCHANGED <<cfgVars, mapVars, hwVars, acc, tag, pageTable, access,
                   intVec>>

PageFault ==
    /\ Faulting /\ InRegion
    /\ frame[tag][FaultPage] = NoFrame
    /\ Interrupt("FAULT")

AccessViolation ==
    /\ Faulting /\ InRegion
    /\ frame[tag][FaultPage] # NoFrame
    /\ Protections \in {<<NONE, NONE>>, <<READ, READ>>, <<RW, RW>>}
    /\ Interrupt("ACCESS")

(* The handler widens the page's real protection and records the use of    *)
(* its frame; the instruction is then retried.                             *)
Widen(prot, bit) ==
    LET p == FaultPage
        f == frame[tag][p]
    IN  /\ realProt' = [realProt EXCEPT ![tag][p] = prot]
        /\ hwFrame' = [hwFrame EXCEPT ![p] = f]
        /\ hwProt' = [hwProt EXCEPT ![p] = prot]
        /\ access' = [access EXCEPT ![f] = @ \cup {bit}]
        /\ fate' = IF UnmappedUntouchable(tag, hwProt) THEN fate ELSE "abort"
        /\ UNCHANGED <<cfgVars, mapVars, procVars, cause, tag, pageTable,
                       intVec>>

(* Mutants: the first access opens the page for stores, or not at all.     *)
BugRefProtWide == RW
BugRefProtNone == NONE

(* What a page is opened for when its reference bit is set.                *)
RefProt == READ

SetReferenced ==
    /\ Faulting /\ InRegion
    /\ frame[tag][FaultPage] # NoFrame
    /\ Protections \in {<<NONE, READ>>, <<NONE, RW>>}
    /\ Widen(RefProt, "REF")

SetDirty ==
    /\ Faulting /\ InRegion
    /\ frame[tag][FaultPage] # NoFrame
    /\ Protections = <<READ, RW>>
    /\ Widen(RW, "DIRTY")

Handled == {<<NONE, NONE>>, <<READ, READ>>, <<RW, RW>>,
            <<NONE, READ>>, <<NONE, RW>>, <<READ, RW>>}

(* The combinations the source says cannot happen.                         *)
InternalError ==
    /\ Faulting /\ InRegion
    /\ frame[tag][FaultPage] # NoFrame
    /\ Protections \notin Handled
    /\ fate' = "abort"
    /\ UNCHANGED <<cfgVars, mapVars, hwVars, procVars, cause, tag, pageTable,
                   access, intVec>>

MmuHandler ==
    \/ RealSegv \/ PageFault \/ AccessViolation
    \/ SetReferenced \/ SetDirty \/ InternalError

(* The operating system's handler returns and the instruction is retried.  *)
HandlerReturns ==
    /\ inHandler
    /\ inHandler' = FALSE
    /\ UNCHANGED <<cfgVars, mapVars, hwVars, acc, cause, tag, pageTable,
                   access, intVec, fate>>

InstallHandler ==
    /\ ~intVec
    /\ intVec' = TRUE
    /\ UNCHANGED <<cfgVars, mapVars, hwVars, procVars, cause, tag, pageTable,
                   access, fate>>

----------------------------------------------------------------------------
(* What the operating system may do at any time: in the handler, or in a   *)
(* clock interrupt between two tries of an instruction.                    *)
OsCall ==
    \/ \E maps \in MapLimits, md \in Modes : MmuInit(maps, md)
    \/ MmuDone
    \/ \E t \in Tags, p \in Pages, f \in Frames, prot \in Prots :
            MmuMap(t, p, f, prot)
    \/ \E t \in Tags, p \in Pages : MmuUnmap(t, p)
    \/ \E t \in Tags : MmuSetTag(t)
    \/ \E f \in Frames, bits \in AccessArgs : MmuSetAccess(f, bits)
    \/ \E pt \in Tables \cup {Null} : MmuSetPageTable(pt)
    \/ \E pt \in Tables \cup {Null} : ContextSwitch(pt)
    \/ InstallHandler

Instruction == Complete \/ MmuHandler

Next ==
    /\ Running
    /\ \/ OsCall
       \/ \E kind \in Kinds, addr \in Addrs : Access(kind, addr)
       \/ Instruction
       \/ HandlerReturns

(* The simulator has aborted, or trapped, or died of SIGSEGV.              *)
Ended == ~Running /\ UNCHANGED vars

Spec == Init /\ [][Next \/ Ended]_vars

(* The processor executes the pending instruction; nothing obliges the     *)
(* operating system to act.                                                *)
FairSpec == Spec /\ WF_vars(Running /\ Instruction)

============================================================================
