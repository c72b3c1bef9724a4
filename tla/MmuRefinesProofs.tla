-------------------------- MODULE MmuRefinesProofs --------------------------
(***************************************************************************)
(* Proof that, under a disciplined operating system whose processes keep   *)
(* off the page below the region, the emulation implements the abstract    *)
(* MMU, for any number of pages, frames, tags, mappings and page tables.   *)
(***************************************************************************)
EXTENDS MmuRefines, MmuProofs

(* A record that maps no page has no protection, and a MMU that is off has *)
(* no mapping.                                                             *)
Unused ==
    /\ \A t \in Tags, p \in Pages : frame[t][p] = NoFrame => virtProt[t][p] = NONE
    /\ ~on => \A t \in Tags, p \in Pages : frame[t][p] = NoFrame

RefInv == ProtInv /\ Unused

LEMMA UnusedStep == HostInv /\ Unused /\ [Next \/ Ended]_vars => Unused'
  <1> SUFFICES ASSUME HostInv, Unused, [Next \/ Ended]_vars
               PROVE  Unused'
    OBVIOUS
  <1> USE SizesAssumption DEF HostInv
  <1>1. ASSUME UNCHANGED <<frame, virtProt, on>>
        PROVE  Unused'
    BY <1>1 DEF Unused
  <1>2. ASSUME Blank
        PROVE  Unused'
    BY <1>2 DEF Blank, EveryPage, Unused
  <1>3. ASSUME NEW t \in Tags, NEW p \in Pages, NEW f \in Frames,
               NEW prot \in Prots, MmuMap(t, p, f, prot)
        PROVE  Unused'
    <2>1. on' /\ \A s \in Tags, q \in Pages :
            IF s = t /\ q = p
            THEN frame'[s][q] = f
            ELSE frame'[s][q] = frame[s][q] /\ virtProt'[s][q] = virtProt[s][q]
      BY <1>3 DEF MmuMap, cfgVars, TypeButCount
    <2> QED
      BY <2>1, ProtsDiffer DEF Unused
  <1>4. ASSUME NEW t \in Tags, NEW p \in Pages, MmuUnmap(t, p)
        PROVE  Unused'
    <2>1. on' /\ \A s \in Tags, q \in Pages :
            IF s = t /\ q = p
            THEN virtProt'[s][q] = NONE
            ELSE frame'[s][q] = frame[s][q] /\ virtProt'[s][q] = virtProt[s][q]
      BY <1>4 DEF MmuUnmap, cfgVars, TypeButCount
    <2> QED
      BY <2>1 DEF Unused
  <1>5. ASSUME NEW pt \in Tables \cup {Null}, LoadTable(pt), on, UNCHANGED cfgVars
        PROVE  Unused'
    <2>1. \A p \in Loaded(pt) : PTE[pt][p].frame # NoFrame
      BY LoadedEntries, LoadedNull, ProtsDiffer
    <2>2. on' /\ \A t \in Tags, p \in Pages :
            IF t = 0
            THEN /\ p \in Loaded(pt) => frame'[t][p] = PTE[pt][p].frame
                 /\ p \notin Loaded(pt) => virtProt'[t][p] \in {NONE, virtProt[t][p]}
                 /\ p \notin Loaded(pt) /\ frame[t][p] # NoFrame => virtProt'[t][p] = NONE
            ELSE frame'[t][p] = frame[t][p] /\ virtProt'[t][p] = virtProt[t][p]
      BY <1>5 DEF LoadTable, Dropped, Mapped, TypeButCount, cfgVars
    <2> QED
      BY <2>1, <2>2 DEF Unused
  <1>6. ASSUME NEW pt \in Tables \cup {Null},
               MmuSetPageTable(pt) \/ ContextSwitch(pt)
        PROVE  Unused'
    <2>1. CASE on /\ mode = "PAGETABLE"
      BY <1>5, <1>6, <2>1 DEF MmuSetPageTable, ContextSwitch
    <2>2. CASE ~(on /\ mode = "PAGETABLE")
      BY <1>1, <1>6, <2>2 DEF MmuSetPageTable, ContextSwitch, mapVars, cfgVars
    <2> QED
      BY <2>1, <2>2
  <1>7. ASSUME \/ \E t \in Tags : MmuSetTag(t)
               \/ \E f \in Frames, bits \in AccessArgs : MmuSetAccess(f, bits)
               \/ InstallHandler
               \/ \E kind \in Kinds, addr \in Addrs : Access(kind, addr)
               \/ Instruction \/ HandlerReturns \/ Ended \/ UNCHANGED vars
        PROVE  UNCHANGED <<frame, virtProt, on>>
    BY <1>7 DEF MmuSetTag, MmuSetAccess, InstallHandler, Access, Instruction,
       Complete, MmuHandler, RealSegv, PageFault, AccessViolation, Interrupt,
       SetReferenced, SetDirty, Widen, InternalError, HandlerReturns, Ended,
       vars, mapVars, cfgVars
  <1>8. CASE OsCall
    <2>1. CASE MmuDone \/ \E maps \in MapLimits, md \in Modes : MmuInit(maps, md)
      BY <1>2, <2>1 DEF MmuInit, MmuDone
    <2> QED
      BY <1>1, <1>3, <1>4, <1>6, <1>7, <1>8, <2>1 DEF OsCall
  <1>9. CASE ~OsCall
    BY <1>1, <1>7, <1>9 DEF Next
  <1> QED
    BY <1>8, <1>9

LEMMA RefInvariant == Disciplined => (Spec => []RefInv)
  <1> SUFFICES ASSUME Disciplined
               PROVE  Spec => []RefInv
    OBVIOUS
  <1>1. Init => Unused
    BY DEF Init, EveryPage, Unused
  <1>2. ProtInv => HostInv
    BY DEF ProtInv
  <1> QED
    BY <1>1, <1>2, UnusedStep, ProtInvariant, PTL DEF Spec, RefInv

----------------------------------------------------------------------------
(* The abstract mappings.                                                  *)

LEMMA MappingAt ==
    ASSUME NEW t \in Tags, NEW p \in Pages
    PROVE  mapping[t][p] = [frame |-> frame[t][p], prot |-> virtProt[t][p]]
  BY DEF mapping

LEMMA MappingSame == ASSUME UNCHANGED <<frame, virtProt>> PROVE mapping' = mapping
  BY DEF mapping

LEMMA MappingUpdate ==
    ASSUME TypeButCount, NEW t \in Tags, NEW p \in Pages, NEW f, NEW prot,
           frame' = [frame EXCEPT ![t][p] = f],
           virtProt' = [virtProt EXCEPT ![t][p] = prot]
    PROVE  mapping' = [mapping EXCEPT ![t][p] = [frame |-> f, prot |-> prot]]
  BY DEF mapping, TypeButCount

LEMMA MappingBlank == Blank => mapping' = Abs!Unmapped
  BY DEF Blank, EveryPage, mapping, Abs!Unmapped, Abs!NoMapping, Abs!Tags, Abs!Pages,
     Tags, Pages, NoFrame, NONE, Abs!NONE

(* A page has no mapping in one exactly when it has none in the other.     *)
LEMMA MappingNone ==
    ASSUME RefInv, NEW t \in Tags, NEW p \in Pages
    PROVE  mapping[t][p] = Abs!NoMapping <=> frame[t][p] = NoFrame
  <1>1. mapping[t][p] = [frame |-> frame[t][p], prot |-> virtProt[t][p]]
    BY MappingAt
  <1> QED
    BY <1>1 DEF RefInv, Unused, Abs!NoMapping, NoFrame, NONE, Abs!NONE

(* Only tag 0 changes when a table is loaded, and to entries of the table. *)
LEMMA MappingLoad ==
    ASSUME RefInv, NEW pt \in Tables \cup {Null}, LoadTable(pt)
    PROVE  Abs!Tabled(mapping'[0]) /\ mapping' = [mapping EXCEPT ![0] = mapping'[0]]
  <1> USE SizesAssumption
  <1>1. /\ TypeButCount
        /\ 0 \in Tags
    BY DEF RefInv, ProtInv, HostInv, Tags
  <1>2. \A p \in Loaded(pt) : /\ PTE[pt][p].frame \in Frames
                              /\ PteProt(PTE[pt][p]) \in {NONE, READ, RW}
    BY LoadedEntries, LoadedNull
  <1>3. \A p \in Pages :
           IF p \in Loaded(pt)
           THEN frame'[0][p] \in Frames /\ virtProt'[0][p] \in {NONE, READ, RW}
           ELSE frame'[0][p] = NoFrame /\ virtProt'[0][p] = NONE
    BY <1>1, <1>2 DEF LoadTable, Dropped, Mapped, TypeButCount, RefInv, Unused
  <1>4. \A t \in Tags \ {0} : frame'[t] = frame[t] /\ virtProt'[t] = virtProt[t]
    BY <1>1 DEF LoadTable, TypeButCount
  <1>5. \A p \in Pages : mapping'[0][p] = [frame |-> frame'[0][p], prot |-> virtProt'[0][p]]
    BY <1>1 DEF mapping
  <1>6. mapping'[0] = [p \in Pages |-> mapping'[0][p]]
    BY <1>1 DEF mapping
  <1>7. \A p \in Pages : mapping'[0][p] \in Abs!Mappings \cup {Abs!NoMapping}
    <2> SUFFICES ASSUME NEW p \in Pages
                 PROVE  mapping'[0][p] \in Abs!Mappings \cup {Abs!NoMapping}
      OBVIOUS
    <2>1. mapping'[0][p] = [frame |-> frame'[0][p], prot |-> virtProt'[0][p]]
      BY <1>5
    <2>2. CASE p \in Loaded(pt)
      <3>1. frame'[0][p] \in Abs!Frames /\ virtProt'[0][p] \in {NONE, READ, RW}
        BY <1>3, <2>2 DEF Abs!Frames, Frames
      <3> QED
        BY <2>1, <3>1 DEF Abs!Mappings
    <2>3. CASE p \notin Loaded(pt)
      BY <1>3, <2>1, <2>3 DEF Abs!NoMapping, NoFrame, NONE, Abs!NONE
    <2> QED
      BY <2>2, <2>3
  <1>8. Abs!Tabled(mapping'[0])
    BY <1>6, <1>7 DEF Abs!Tabled, Abs!Pages, Pages
  <1>9. \A t \in Tags \ {0} : mapping'[t] = mapping[t]
    BY <1>4 DEF mapping
  <1>10. mapping' = [mapping EXCEPT ![0] = mapping'[0]]
    BY <1>9 DEF mapping
  <1> QED
    BY <1>8, <1>10

----------------------------------------------------------------------------
(* Calls of the operating system.                                          *)

LEMMA StillRuns == RefInv /\ [Next \/ Ended]_vars => fate' # "abort"
  BY AbortStep DEF RefInv, NeverAborts

LEMMA RestartStep ==
    ASSUME NEW state \in BOOLEAN, Blank, on' = state, UNCHANGED <<procVars, fate>>
    PROVE  Abs!Restart(state)
  BY MappingBlank DEF Abs!Restart, Abs!NoBits, Abs!Frames, Frames, Blank, procVars

LEMMA MapStep ==
    ASSUME Disciplined, RefInv, fate' # "abort", NEW t \in Tags, NEW p \in Pages,
           NEW f \in Frames, NEW prot \in Prots, MmuMap(t, p, f, prot)
    PROVE  Abs!Map(t, p)
  <1> DEFINE m == [frame |-> f, prot |-> prot]
  <1>1. TypeButCount
    BY DEF RefInv, ProtInv, HostInv
  <1>2. /\ on /\ frame[t][p] = NoFrame
        /\ frame' = [frame EXCEPT ![t][p] = f]
        /\ virtProt' = [virtProt EXCEPT ![t][p] = prot]
        /\ fate' = fate
        /\ UNCHANGED <<on, tag, access, acc, inHandler, cause>>
    BY DEF MmuMap, MapStatus, cfgVars, procVars
  <1>3. mapping' = [mapping EXCEPT ![t][p] = m]
    BY <1>1, <1>2, MappingUpdate
  <1>4. mapping'[t][p] = m
    BY <1>3 DEF mapping
  <1>5. m \in Abs!Mappings
    BY DEF Abs!Mappings, Abs!Frames, Frames, Disciplined
  <1>6. mapping[t][p] = Abs!NoMapping
    BY <1>2, MappingNone
  <1> HIDE DEF m
  <1> QED
    BY <1>2, <1>3, <1>4, <1>5, <1>6 DEF Abs!Map

LEMMA UnmapStep ==
    ASSUME RefInv, NEW t \in Tags, NEW p \in Pages, MmuUnmap(t, p)
    PROVE  Abs!Unmap(t, p)
  <1>1. TypeButCount
    BY DEF RefInv, ProtInv, HostInv
  <1>2. /\ on
        /\ frame' = [frame EXCEPT ![t][p] = NoFrame]
        /\ virtProt' = [virtProt EXCEPT ![t][p] = NONE]
        /\ UNCHANGED <<on, tag, access, acc, inHandler, cause, fate>>
    BY DEF MmuUnmap, cfgVars, procVars
  <1>3. mapping' = [mapping EXCEPT ![t][p] = [frame |-> NoFrame, prot |-> NONE]]
    BY <1>1, <1>2, MappingUpdate
  <1> QED
    BY <1>2, <1>3 DEF Abs!Unmap, Abs!NoMapping, NoFrame, NONE, Abs!NONE

LEMMA TagStep ==
    ASSUME fate' # "abort", NEW t \in Tags, MmuSetTag(t)
    PROVE  Abs!SwitchTag(t)
  BY MappingSame DEF MmuSetTag, Abs!SwitchTag, cfgVars, mapVars, procVars

LEMMA BitsStep ==
    ASSUME fate' # "abort", NEW f \in Frames, NEW bits \in AccessArgs, MmuSetAccess(f, bits)
    PROVE  bits \in SUBSET Abs!Bits /\ Abs!SetBits(f, bits)
  <1>1. /\ on /\ bits \subseteq Bits
        /\ access' = [access EXCEPT ![f] = bits]
        /\ UNCHANGED <<cfgVars, mapVars, procVars, cause, tag>>
    BY DEF MmuSetAccess, SetAccessStatus
  <1>2. fate' = fate
    <2>1. CASE bits = Bits
      BY <2>1 DEF MmuSetAccess
    <2>2. CASE bits # Bits
      BY <2>2, Zenon DEF MmuSetAccess
    <2> QED
      BY <2>1, <2>2
  <1>3. mapping' = mapping
    BY <1>1, MappingSame DEF mapVars
  <1> QED
    BY <1>1, <1>2, <1>3 DEF Abs!SetBits, Abs!Bits, Bits, cfgVars, procVars

LEMMA TableStep ==
    ASSUME RefInv, NEW pt \in Tables \cup {Null}, MmuSetPageTable(pt)
    PROVE  Abs!SetTable
  BY MappingLoad DEF MmuSetPageTable, Abs!SetTable, cfgVars, procVars

LEMMA SwitchStep ==
    ASSUME RefInv, NEW pt \in Tables \cup {Null}, ContextSwitch(pt)
    PROVE  Abs!Switch
  <1>1. /\ acc' = Abs!NoAccess /\ inHandler' = FALSE
        /\ UNCHANGED <<on, tag, access, cause>>
    BY DEF ContextSwitch, NoAccess, Abs!NoAccess, cfgVars
  <1>2. CASE on /\ mode = "PAGETABLE"
    <2>1. LoadTable(pt) /\ fate' \in {fate, "trap"}
      BY <1>2 DEF ContextSwitch
    <2>2. Abs!Tabled(mapping'[0]) /\ mapping' = [mapping EXCEPT ![0] = mapping'[0]]
      BY <2>1, MappingLoad
    <2> QED
      BY <1>1, <1>2, <2>1, <2>2 DEF Abs!Switch
  <1>3. CASE ~(on /\ mode = "PAGETABLE")
    <2>1. UNCHANGED <<frame, virtProt, fate>>
      BY <1>3 DEF ContextSwitch, mapVars
    <2> QED
      BY <1>1, <2>1, MappingSame DEF Abs!Switch
  <1> QED
    BY <1>2, <1>3

----------------------------------------------------------------------------
(* Loads and stores.                                                       *)

LEMMA AccessStep ==
    ASSUME NEW kind \in Kinds, NEW addr \in Addrs, Access(kind, addr)
    PROVE  Abs!Start(kind, addr)
  BY MappingSame
  DEF Access, Abs!Start, Abs!Idle, Abs!NoAccess, Abs!Completed, Nothing, NoAccess, Completed,
      cfgVars, mapVars

LEMMA ReturnStep == HandlerReturns => Abs!Return
  BY MappingSame DEF HandlerReturns, Abs!Return, cfgVars, mapVars

LEMMA AbsPending == Pending <=> Abs!Pending
  BY DEF Pending, Abs!Pending, Abs!Idle, Abs!NoAccess, Abs!Completed, Nothing, NoAccess,
     Completed

(* What is common to every step of a pending instruction in the region:    *)
(* the page both see, and that the host enforces the real protection there.*)
LEMMA PendingPage ==
    ASSUME RefInv, Pending, HwPage(acc.addr) \in Pages
    PROVE  /\ Abs!Pending
           /\ acc.kind \in Kinds /\ acc.addr \in Int
           /\ Abs!Page = HwPage(acc.addr) /\ FaultPage = HwPage(acc.addr)
           /\ Abs!Page \in Abs!Pages
           /\ tag \in Tags
           /\ Abs!Here = [frame |-> frame[tag][FaultPage], prot |-> virtProt[tag][FaultPage]]
           /\ HwAllows(acc.addr, acc.kind) <=> Allows(hwProt[FaultPage], acc.kind)
           /\ IF frame[tag][FaultPage] = NoFrame
                THEN hwProt[FaultPage] = NONE
                ELSE hwProt[FaultPage] = realProt[tag][FaultPage]
  <1>1. HostInv
    BY DEF RefInv, ProtInv
  <1>2. /\ acc.kind \in Kinds /\ acc.addr \in Int /\ tag \in Tags
        /\ FaultPage = HwPage(acc.addr)
        /\ HwAllows(acc.addr, acc.kind) <=> Allows(hwProt[FaultPage], acc.kind)
        /\ IF frame[tag][FaultPage] = NoFrame
             THEN hwProt[FaultPage] = NONE
             ELSE hwProt[FaultPage] = realProt[tag][FaultPage]
    BY <1>1, FaultFacts
  <1>3. Abs!Page = FaultPage
    BY <1>2 DEF HwPage, Abs!Page
  <1>4. Abs!Here = [frame |-> frame[tag][FaultPage], prot |-> virtProt[tag][FaultPage]]
    BY <1>2, <1>3, MappingAt DEF Abs!Here
  <1> QED
    BY <1>2, <1>3, <1>4, AbsPending DEF Abs!Pages, Pages

(* A fault that the handler finds in the region is in the region.          *)
LEMMA FaultInRegion ==
    ASSUME NoneJustBelow, RefInv, Pending, FaultPage \in Pages
    PROVE  HwPage(acc.addr) \in Pages
  <1>1. HostInv
    BY DEF RefInv, ProtInv
  <1> QED
    BY <1>1, FaultFacts DEF NoneJustBelow, FaultPage

LEMMA SamePermits ==
    \A prot, kind : Abs!Permits(prot, kind) <=> Allows(prot, kind)
  BY DEF Abs!Permits, Allows, Abs!RW, Abs!READ, RW, READ

LEMMA CompleteStep ==
    ASSUME RefInv, Complete
    PROVE  Abs!Complete
  <1> DEFINE p == FaultPage
  <1>0. HwPage(acc.addr) \in Pages /\ HwAllows(acc.addr, acc.kind) /\ Pending
    BY DEF Complete, HwAllows
  <1>1. Allows(hwProt[p], acc.kind) /\ p \in Pages /\ tag \in Tags /\ acc.kind \in Kinds
    BY <1>0, PendingPage
  <1>2. frame[tag][p] # NoFrame /\ Allows(realProt[tag][p], acc.kind)
    BY <1>0, <1>1, PendingPage, ProtsDiffer
  <1>3. Allows(virtProt[tag][p], acc.kind)
    BY <1>1, <1>2 DEF RefInv, ProtInv, Narrow
  <1>4. on
    BY <1>1, <1>2 DEF RefInv, Unused
  <1>5. /\ "REF" \in access[frame[tag][p]]
        /\ acc.kind = "store" => "DIRTY" \in access[frame[tag][p]]
    <2>1. Allows(realProt[tag][p], "load")
      BY <1>2 DEF Allows
    <2> QED
      BY <1>1, <1>2, <2>1 DEF RefInv, ProtInv, HostInv, UsesAreRecorded
  <1>6. Abs!Here = [frame |-> frame[tag][p], prot |-> virtProt[tag][p]]
    BY <1>0, PendingPage
  <1>7. Abs!Permitted
    BY <1>0, <1>1, <1>3, <1>4, <1>6, PendingPage, SamePermits DEF Abs!Permitted
  <1>8. /\ UNCHANGED <<on, tag, mapping, access, inHandler, cause, fate>>
        /\ acc' = Abs!Completed
    BY MappingSame DEF Complete, Completed, Abs!Completed, cfgVars, mapVars
  <1> HIDE DEF p
  <1> QED
    BY <1>5, <1>6, <1>7, <1>8 DEF Abs!Complete

(* The interrupt is for what is not permitted, with its cause.             *)
LEMMA InterruptStep ==
    ASSUME NoneJustBelow, RefInv, PageFault \/ AccessViolation
    PROVE  Abs!Interrupt
  <1> DEFINE p == FaultPage
  <1>0. Pending /\ HwPage(acc.addr) \in Pages
    BY FaultInRegion DEF PageFault, AccessViolation, Faulting, InRegion
  <1>1. /\ Pending /\ on /\ p \in Pages /\ tag \in Tags /\ acc.kind \in Kinds
        /\ ~Allows(hwProt[p], acc.kind)
    BY <1>0, PendingPage DEF PageFault, AccessViolation, Faulting, InRegion
  <1>2. /\ UNCHANGED <<on, tag, mapping, access, acc>>
        /\ \/ inHandler' = TRUE /\ fate' = fate
           \/ inHandler' = FALSE /\ fate' = "trap"
    <2>1. intVec \in BOOLEAN
      BY DEF RefInv, ProtInv, HostInv, TypeButCount
    <2> QED
      BY <2>1, MappingSame DEF PageFault, AccessViolation, Interrupt, cfgVars, mapVars, hwVars
  <1>3. Abs!Here = mapping[tag][p] /\ Abs!Here.prot = virtProt[tag][p]
    BY <1>0, <1>1, PendingPage, MappingAt
  <1>4. CASE PageFault
    <2>1. frame[tag][p] = NoFrame /\ cause' = "FAULT"
      BY <1>4 DEF PageFault, Interrupt
    <2>2. virtProt[tag][p] = NONE
      BY <1>1, <2>1 DEF RefInv, Unused
    <2>3. Abs!Here = Abs!NoMapping
      BY <1>1, <1>3, <2>1, MappingNone
    <2>4. ~Abs!Permits(Abs!Here.prot, acc.kind)
      BY <1>1, <1>3, <2>2, SamePermits, ProtsDiffer
    <2> HIDE DEF p
    <2> QED
      BY <1>0, <1>1, <1>2, <2>1, <2>3, <2>4, PendingPage DEF Abs!Interrupt
  <1>5. CASE AccessViolation
    <2>1. frame[tag][p] # NoFrame /\ cause' = "ACCESS" /\ realProt[tag][p] = virtProt[tag][p]
      BY <1>5 DEF AccessViolation, Interrupt, Protections
    <2>2. ~Allows(virtProt[tag][p], acc.kind)
      BY <1>0, <1>1, <2>1, PendingPage
    <2>3. Abs!Here # Abs!NoMapping
      BY <1>1, <1>3, <2>1, MappingNone
    <2>4. ~Abs!Permits(Abs!Here.prot, acc.kind)
      BY <1>3, <2>2, SamePermits
    <2> HIDE DEF p
    <2> QED
      BY <1>0, <1>1, <1>2, <2>1, <2>3, <2>4, PendingPage DEF Abs!Interrupt
  <1> QED
    BY <1>4, <1>5

(* The first load or store is recorded, and the first store to a page that *)
(* has been loaded.                                                        *)
LEMMA MarkStep ==
    ASSUME NoneJustBelow, RefInv, fate' # "abort",
           SetReferenced \/ SetDirty
    PROVE  \E bit \in Abs!Bits : Abs!Mark(bit)
  <1> DEFINE p == FaultPage
  <1>0. Pending /\ HwPage(acc.addr) \in Pages
    BY FaultInRegion DEF SetReferenced, SetDirty, Faulting, InRegion
  <1>1. /\ Pending /\ on /\ p \in Pages /\ tag \in Tags /\ acc.kind \in Kinds
        /\ ~Allows(hwProt[p], acc.kind) /\ frame[tag][p] # NoFrame
    BY <1>0, PendingPage DEF SetReferenced, SetDirty, Faulting, InRegion
  <1>2. Abs!Here = mapping[tag][p] /\ Abs!Here.prot = virtProt[tag][p]
        /\ Abs!Here.frame = frame[tag][p]
    BY <1>0, <1>1, PendingPage, MappingAt
  <1>3. Abs!Here # Abs!NoMapping
    BY <1>1, <1>2, MappingNone
  <1>4. ASSUME NEW prot, NEW bit, Widen(prot, bit)
        PROVE  /\ UNCHANGED <<on, tag, mapping, acc, inHandler, cause, fate>>
               /\ access' = [access EXCEPT ![frame[tag][p]] = @ \cup {bit}]
    <2>1. UNCHANGED <<frame, virtProt, on, tag, acc, inHandler, cause>>
      BY <1>4 DEF Widen, cfgVars, mapVars, procVars
    <2>2. fate' = fate
      BY <1>4, Zenon DEF Widen
    <2>3. access' = [access EXCEPT ![frame[tag][p]] = @ \cup {bit}]
      BY <1>4 DEF Widen
    <2> HIDE DEF p
    <2> QED
      BY <2>1, <2>2, <2>3, MappingSame
  <1>5. CASE SetReferenced
    <2>1. Widen(RefProt, "REF") /\ virtProt[tag][p] # NONE
      BY <1>5, ProtsDiffer DEF SetReferenced, Protections
    <2>2. "REF" \in Abs!Bits /\ Abs!Here.prot # Abs!NONE
      BY <1>2, <2>1 DEF Abs!Bits, Abs!NONE, NONE
    <2>3. /\ UNCHANGED <<on, tag, mapping, acc, inHandler, cause, fate>>
          /\ access' = [access EXCEPT ![Abs!Here.frame] = @ \cup {"REF"}]
      BY <1>2, <1>4, <2>1
    <2> HIDE DEF p
    <2>4. Abs!Mark("REF")
      BY <1>0, <1>1, <1>3, <2>2, <2>3, PendingPage DEF Abs!Mark
    <2> QED
      BY <2>2, <2>4
  <1>6. CASE SetDirty
    <2>1. Widen(RW, "DIRTY") /\ virtProt[tag][p] = RW /\ realProt[tag][p] = READ
      BY <1>6 DEF SetDirty, Protections
    <2>2. acc.kind = "store"
      BY <1>0, <1>1, <2>1, PendingPage, ProtsDiffer DEF Kinds
    <2>3. "DIRTY" \in Abs!Bits /\ Abs!Here.prot = Abs!RW
      BY <1>2, <2>1 DEF Abs!Bits, Abs!RW, RW
    <2>4. /\ UNCHANGED <<on, tag, mapping, acc, inHandler, cause, fate>>
          /\ access' = [access EXCEPT ![Abs!Here.frame] = @ \cup {"DIRTY"}]
      BY <1>2, <1>4, <2>1
    <2> HIDE DEF p
    <2>5. Abs!Mark("DIRTY")
      BY <1>0, <1>1, <1>3, <2>2, <2>3, <2>4, PendingPage DEF Abs!Mark
    <2> QED
      BY <2>3, <2>5
  <1> QED
    BY <1>5, <1>6

LEMMA CrashStep ==
    ASSUME RefInv, RealSegv
    PROVE  Abs!Crash
  <1>1. HostInv /\ Pending /\ (~on \/ FaultPage \notin Pages)
    BY DEF RefInv, ProtInv, RealSegv, Faulting, InRegion
  <1>2. HwPage(acc.addr) \in Pages => FaultPage \in Pages
    BY <1>1, FaultFacts
  <1>3. ~on \/ Abs!Page \notin Abs!Pages
    BY <1>1, <1>2 DEF HwPage, Abs!Page, Pages, Abs!Pages
  <1> QED
    BY <1>1, <1>3, AbsPending, MappingSame
    DEF RealSegv, Abs!Crash, cfgVars, mapVars, procVars

----------------------------------------------------------------------------

LEMMA AbstractInit == Init => Abs!Init
  BY DEF Init, EveryPage, mapping, Abs!Init, Abs!Unmapped, Abs!NoMapping, Abs!NoBits,
     Abs!NoAccess, NoAccess, Abs!Tags, Abs!Pages, Abs!Frames, Tags, Pages, Frames, NoFrame,
     NONE, Abs!NONE

LEMMA AbstractStep ==
    ASSUME Disciplined, NoneJustBelow,
           RefInv, [Next \/ Ended]_vars
    PROVE  [Abs!Next]_(Abs!vars)
  <1>0. Tags = Abs!Tags /\ Pages = Abs!Pages /\ Frames = Abs!Frames /\ Kinds = Abs!Kinds
    BY DEF Tags, Pages, Frames, Kinds, Abs!Tags, Abs!Pages, Abs!Frames, Abs!Kinds
  <1>1. fate' # "abort"
    BY StillRuns
  <1>2. CASE UNCHANGED vars \/ Ended \/ (Next /\ InstallHandler)
    BY <1>2, MappingSame
    DEF vars, cfgVars, mapVars, procVars, Ended, InstallHandler, Abs!vars
  <1>3. ASSUME Next, ~InstallHandler
        PROVE  Abs!Next
    <2>1. fate = "running"
      BY <1>3 DEF Next, Running
    <2>2. CASE OsCall
      <3>1. CASE \/ \E maps \in MapLimits, md \in Modes : MmuInit(maps, md)
                 \/ MmuDone
        <4>1. PICK state \in BOOLEAN : Abs!Restart(state)
          BY <3>1, RestartStep DEF MmuInit, MmuDone
        <4> QED
          BY <2>1, <4>1 DEF Abs!Next
      <3>2. CASE \E t \in Tags, p \in Pages, f \in Frames, prot \in Prots :
                    MmuMap(t, p, f, prot)
        BY <1>0, <1>1, <2>1, <3>2, MapStep DEF Abs!Next
      <3>3. CASE \E t \in Tags, p \in Pages : MmuUnmap(t, p)
        BY <1>0, <2>1, <3>3, UnmapStep DEF Abs!Next
      <3>4. CASE \E t \in Tags : MmuSetTag(t)
        BY <1>0, <1>1, <2>1, <3>4, TagStep DEF Abs!Next
      <3>5. CASE \E f \in Frames, bits \in AccessArgs : MmuSetAccess(f, bits)
        BY <1>0, <1>1, <2>1, <3>5, BitsStep DEF Abs!Next
      <3>6. CASE \/ \E pt \in Tables \cup {Null} : MmuSetPageTable(pt)
                 \/ \E pt \in Tables \cup {Null} : ContextSwitch(pt)
        BY <2>1, <3>6, TableStep, SwitchStep DEF Abs!Next
      <3> QED
        BY <1>3, <2>2, <3>1, <3>2, <3>3, <3>4, <3>5, <3>6 DEF OsCall
    <2>3. CASE \E kind \in Kinds, addr \in Addrs : Access(kind, addr)
      BY <1>0, <2>1, <2>3, AccessStep DEF Abs!Next
    <2>4. CASE HandlerReturns
      BY <2>1, <2>4, ReturnStep DEF Abs!Next
    <2>5. CASE Complete
      BY <2>1, <2>5, CompleteStep DEF Abs!Next
    <2>6. CASE MmuHandler
      <3>1. CASE RealSegv
        BY <2>1, <3>1, CrashStep DEF Abs!Next
      <3>2. CASE PageFault \/ AccessViolation
        BY <2>1, <3>2, InterruptStep DEF Abs!Next
      <3>3. CASE SetReferenced \/ SetDirty
        BY <1>1, <2>1, <3>3, MarkStep DEF Abs!Next
      <3>4. ~InternalError
        BY Handleable DEF InternalError, InRegion, RefInv
      <3> QED
        BY <2>6, <3>1, <3>2, <3>3, <3>4 DEF MmuHandler
    <2> QED
      BY <1>3, <2>2, <2>3, <2>4, <2>5, <2>6 DEF Next, Instruction
  <1> QED
    BY <1>2, <1>3

(* Under a disciplined operating system mmu.c behaves like the MMU it      *)
(* emulates, faults and their causes and the bits included, also for loads *)
(* and stores outside the region, except to the last page below it.        *)
THEOREM MmuImplements ==
    ASSUME Disciplined, NoneJustBelow
    PROVE  Spec => ImplementsAbstractMmu
  <1>1. RefInv /\ [Next \/ Ended]_vars => [Abs!Next]_(Abs!vars)
    BY AbstractStep
  <1>2. Spec => []RefInv
    BY RefInvariant
  <1> QED
    BY <1>1, <1>2, AbstractInit, PTL DEF Spec, ImplementsAbstractMmu, Abs!Spec
=============================================================================
