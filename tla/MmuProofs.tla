----------------------------- MODULE MmuProofs -----------------------------
(***************************************************************************)
(* Proofs about the MMU, for any number of pages, frames, tags, mappings   *)
(* and page tables.                                                        *)
(***************************************************************************)
EXTENDS MmuProperties, FiniteSetTheorems, WellFoundedInduction, TLAPS

(* TypeOK but for the count of mappings, which is a natural number only    *)
(* because it counts.                                                      *)
TypeButCount ==
    /\ on \in BOOLEAN
    /\ mode \in {"TLB", "PAGETABLE"}
    /\ maxMaps \in Nat
    /\ cause \in {"NONE", "FAULT", "ACCESS"}
    /\ tag \in Tags
    /\ pageTable \in Tables \cup {Null, Garbage}
    /\ frame \in [Tags -> [Pages -> Frames \cup {NoFrame}]]
    /\ virtProt \in [Tags -> [Pages -> 0 .. RW]]
    /\ realProt \in [Tags -> [Pages -> {NONE, READ, RW}]]
    /\ access \in [Frames -> SUBSET Bits]
    /\ hwFrame \in [Pages -> Frames \cup {NoFrame}]
    /\ hwProt \in [Pages -> {NONE, READ, RW}]
    /\ acc \in [kind : Kinds, addr : Addrs] \cup Nothing
    /\ inHandler \in BOOLEAN
    /\ intVec \in BOOLEAN
    /\ fate \in {"running", "segv", "trap", "abort"}

----------------------------------------------------------------------------
(* The entries that a page table gets mapped name real frames.             *)
LEMMA LoadedEntries ==
    ASSUME NEW pt \in Tables, NEW p \in Loaded(pt), pt # Null
    PROVE  /\ p \in Pages
           /\ PTE[pt][p].incore
           /\ PTE[pt][p].frame \in Frames
           /\ PteProt(PTE[pt][p]) \in {NONE, READ, RW}
           /\ PTE[pt][p].write => PTE[pt][p].read
  <1>1. p \in Pages /\ p \in 0 .. p /\ PTE[pt][p].incore
    BY SizesAssumption DEF Loaded, Pages
  <1>2. PteStatus(pt, p) = "OK"
    BY <1>1 DEF Loaded
  <1> QED
    BY <1>1, <1>2 DEF PteStatus, PteProt, NONE, READ, RW

LEMMA LoadedNull == Loaded(Null) = {}
  BY DEF Loaded

(* Changing one page of one tag keeps the type of a table.                 *)
LEMMA TableUpdate ==
    ASSUME NEW S, NEW table \in [Tags -> [Pages -> S]],
           NEW t \in Tags, NEW p \in Pages, NEW v \in S
    PROVE  [table EXCEPT ![t][p] = v] \in [Tags -> [Pages -> S]]
  OBVIOUS

LEMMA TypeStep == TypeButCount /\ [Next \/ Ended]_vars => TypeButCount'
  <1> SUFFICES ASSUME TypeButCount, Next
               PROVE  TypeButCount'
    BY DEF TypeButCount, vars, cfgVars, mapVars, hwVars, procVars, Ended
  <1> USE SizesAssumption DEF TypeButCount, cfgVars, mapVars, hwVars, procVars
  <1>1. ASSUME NEW maps \in MapLimits, NEW md \in Modes, MmuInit(maps, md)
        PROVE  TypeButCount'
    BY <1>1, InputsAssumption DEF MmuInit, MmuInitStatus, Blank, EveryPage,
       Tags, Pages, Frames, NONE, READ, RW, Garbage
  <1>2. CASE MmuDone
    <2>1. Blank /\ on' = FALSE /\ mode' = "TLB" /\ maxMaps' = 0
          /\ UNCHANGED <<procVars, intVec, fate>>
      BY <1>2 DEF MmuDone
    <2>2. /\ cause' = "NONE" /\ tag' \in Tags /\ pageTable' = Garbage
          /\ access' \in [Frames -> SUBSET Bits]
          /\ hwFrame' \in [Pages -> Frames \cup {NoFrame}]
          /\ hwProt' \in [Pages -> {NONE, READ, RW}]
      BY <2>1 DEF Blank, Tags
    <2>3. /\ frame' \in [Tags -> [Pages -> Frames \cup {NoFrame}]]
          /\ virtProt' \in [Tags -> [Pages -> 0 .. RW]]
          /\ realProt' \in [Tags -> [Pages -> {NONE, READ, RW}]]
      BY <2>1 DEF Blank, EveryPage, NONE, RW
    <2> QED
      BY <2>1, <2>2, <2>3
  <1>3. ASSUME NEW t \in Tags, NEW p \in Pages, NEW f \in Frames,
               NEW prot \in Prots, MmuMap(t, p, f, prot)
        PROVE  TypeButCount'
    <2>1. f \in Frames /\ prot \in 0 .. RW
      BY <1>3 DEF MmuMap, MapStatus
    <2>2. /\ frame' = [frame EXCEPT ![t][p] = f]
          /\ virtProt' = [virtProt EXCEPT ![t][p] = prot]
          /\ realProt' = [realProt EXCEPT ![t][p] = NONE]
          /\ \/ /\ hwFrame' = [hwFrame EXCEPT ![p] = f]
                /\ hwProt' = [hwProt EXCEPT ![p] = NONE]
             \/ UNCHANGED <<hwFrame, hwProt>>
          /\ fate' \in {fate, "abort"}
          /\ UNCHANGED <<cfgVars, procVars, cause, tag, pageTable, access,
                         intVec>>
      BY <1>3 DEF MmuMap
    <2>3. frame' \in [Tags -> [Pages -> Frames \cup {NoFrame}]]
      BY <2>2, TableUpdate
    <2>4. virtProt' \in [Tags -> [Pages -> 0 .. RW]]
      BY <2>1, <2>2, TableUpdate
    <2>5. realProt' \in [Tags -> [Pages -> {NONE, READ, RW}]]
      BY <2>2, TableUpdate
    <2>6. /\ hwFrame' \in [Pages -> Frames \cup {NoFrame}]
          /\ hwProt' \in [Pages -> {NONE, READ, RW}]
      BY <2>2
    <2> QED
      BY <2>2, <2>3, <2>4, <2>5, <2>6
  <1>4. ASSUME NEW t \in Tags, NEW p \in Pages, MmuUnmap(t, p)
        PROVE  TypeButCount'
    <2>1. frame' \in [Tags -> [Pages -> Frames \cup {NoFrame}]]
      BY <1>4, TableUpdate DEF MmuUnmap
    <2>2. virtProt' \in [Tags -> [Pages -> 0 .. RW]]
      <3>1. NONE \in 0 .. RW
        BY DEF NONE, RW
      <3> QED
        BY <1>4, <3>1, TableUpdate DEF MmuUnmap
    <2>3. realProt' \in [Tags -> [Pages -> {NONE, READ, RW}]]
      BY <1>4, TableUpdate DEF MmuUnmap
    <2> QED
      BY <1>4, <2>1, <2>2, <2>3 DEF MmuUnmap
  <1>5. ASSUME NEW t \in Tags, MmuSetTag(t)
        PROVE  TypeButCount'
    <2>1. /\ tag' = t
          /\ realProt' = [realProt EXCEPT ![tag] = Closed(tag)]
          /\ fate' \in {fate, "abort"}
          /\ UNCHANGED <<cfgVars, mapVars, procVars, cause, pageTable, access,
                         intVec>>
      BY <1>5 DEF MmuSetTag
    <2>2. realProt' \in [Tags -> [Pages -> {NONE, READ, RW}]]
      BY <2>1 DEF Closed
    <2>3. hwFrame' \in [Pages -> Frames \cup {NoFrame}]
      BY <1>5 DEF MmuSetTag
    <2>4. hwProt' \in [Pages -> {NONE, READ, RW}]
      BY <1>5 DEF MmuSetTag
    <2> QED
      BY <2>1, <2>2, <2>3, <2>4
  <1>6. ASSUME NEW f \in Frames, NEW bits \in AccessArgs, MmuSetAccess(f, bits)
        PROVE  TypeButCount'
    <2>1. bits \subseteq Bits /\ access' = [access EXCEPT ![f] = bits]
      BY <1>6 DEF MmuSetAccess, SetAccessStatus
    <2>2. CASE bits = Bits
      BY <1>6, <2>1, <2>2 DEF MmuSetAccess
    <2>3. CASE bits # Bits
      <3>1. /\ realProt' = [realProt EXCEPT ![tag] =
                  [p \in Pages |-> IF p \in PagesOf(f) THEN ProtFor(bits)
                                   ELSE realProt[tag][p]]]
            /\ hwFrame' = [p \in Pages |->
                              IF p \in PagesOf(f) THEN f ELSE hwFrame[p]]
            /\ hwProt' = [p \in Pages |->
                              IF p \in PagesOf(f) THEN ProtFor(bits)
                              ELSE hwProt[p]]
            /\ fate' \in {fate, "abort"}
            /\ UNCHANGED <<cfgVars, mapVars, procVars, cause, tag, pageTable,
                           intVec>>
        BY <1>6, <2>3, Zenon DEF MmuSetAccess
      <3>2. ProtFor(bits) \in {NONE, READ, RW}
        BY DEF ProtFor
      <3> QED
        BY <2>1, <3>1, <3>2
    <2> QED
      BY <2>2, <2>3
  <1>7. ASSUME NEW pt \in Tables \cup {Null}, LoadTable(pt),
               UNCHANGED <<cfgVars, cause, tag, access, intVec>>,
               acc' \in {acc} \cup Nothing, inHandler' \in BOOLEAN,
               fate' \in {fate, "trap"}
        PROVE  TypeButCount'
    <2>1. \A p \in Loaded(pt) : /\ PTE[pt][p].frame \in Frames
                                /\ PteProt(PTE[pt][p]) \in {NONE, READ, RW}
      BY <1>7, LoadedEntries, LoadedNull
    <2>2. /\ frame' \in [Tags -> [Pages -> Frames \cup {NoFrame}]]
          /\ virtProt' \in [Tags -> [Pages -> 0 .. RW]]
          /\ realProt' \in [Tags -> [Pages -> {NONE, READ, RW}]]
      BY <1>7, <2>1 DEF LoadTable, Tags, NONE, READ, RW
    <2>3. /\ hwFrame' \in [Pages -> Frames \cup {NoFrame}]
          /\ hwProt' \in [Pages -> {NONE, READ, RW}]
      <3>1. CASE tag = 0
        BY <1>7, <2>1, <3>1 DEF LoadTable
      <3>2. CASE tag # 0
        BY <1>7, <3>2 DEF LoadTable
      <3> QED
        BY <3>1, <3>2
    <2>4. pageTable' = pt
      BY <1>7 DEF LoadTable
    <2> QED
      BY <1>7, <2>2, <2>3, <2>4
  <1>8. ASSUME NEW pt \in Tables \cup {Null}, MmuSetPageTable(pt)
        PROVE  TypeButCount'
    BY <1>7, <1>8 DEF MmuSetPageTable
  <1>9. ASSUME NEW pt \in Tables \cup {Null}, ContextSwitch(pt)
        PROVE  TypeButCount'
    <2>1. CASE on /\ mode = "PAGETABLE"
      BY <1>7, <1>9, <2>1 DEF ContextSwitch, Nothing
    <2>2. CASE ~(on /\ mode = "PAGETABLE")
      BY <1>9, <2>2 DEF ContextSwitch, Nothing
    <2> QED
      BY <2>1, <2>2
  <1>10. CASE InstallHandler
    BY <1>10 DEF InstallHandler
  <1>11. ASSUME NEW kind \in Kinds, NEW addr \in Addrs, Access(kind, addr)
         PROVE  TypeButCount'
    BY <1>11 DEF Access
  <1>12. CASE Complete
    BY <1>12 DEF Complete, Nothing
  <1>13. CASE RealSegv
    BY <1>13 DEF RealSegv
  <1>14. CASE PageFault \/ AccessViolation
    BY <1>14 DEF PageFault, AccessViolation, Interrupt
  <1>15. ASSUME NEW prot \in {NONE, READ, RW}, NEW bit \in Bits,
                InRegion, frame[tag][FaultPage] # NoFrame, Widen(prot, bit)
         PROVE  TypeButCount'
    BY <1>15 DEF Widen, InRegion
  <1>16. CASE SetReferenced \/ SetDirty
    BY <1>15, <1>16 DEF SetReferenced, SetDirty, RefProt, Bits
  <1>17. CASE InternalError
    BY <1>17 DEF InternalError
  <1>18. CASE HandlerReturns
    BY <1>18 DEF HandlerReturns
  <1> QED
    BY <1>1, <1>2, <1>3, <1>4, <1>5, <1>6, <1>8, <1>9, <1>10, <1>11, <1>12,
       <1>13, <1>14, <1>16, <1>17, <1>18
    DEF Next, OsCall, Instruction, MmuHandler

----------------------------------------------------------------------------
(* Counting.  In page-table mode only tag 0 has mappings, so that they are *)
(* at most as many as there are pages.                                     *)
TableModeOneTag ==
    on /\ mode = "PAGETABLE" =>
        /\ maxMaps = NumPages
        /\ tag = 0
        /\ \A t \in Tags, p \in Pages : frame[t][p] # NoFrame => t = 0

CountInv == TypeButCount /\ MapCount /\ TableModeOneTag

LEMMA FiniteTables ==
    /\ IsFiniteSet(Pages) /\ Cardinality(Pages) = NumPages
    /\ IsFiniteSet(Tags)
    /\ IsFiniteSet(Tags \X Pages)
  <1>1. IsFiniteSet(Pages) /\ Cardinality(Pages) = NumPages
    BY SizesAssumption, FS_Interval DEF Pages
  <1>2. IsFiniteSet(Tags)
    BY SizesAssumption, FS_Interval DEF Tags
  <1> QED
    BY <1>1, <1>2, FS_Product

LEMMA FiniteMapped ==
    /\ IsFiniteSet(AllMapped) /\ Cardinality(AllMapped) \in Nat
    /\ \A t \in Tags : IsFiniteSet(Mapped(t)) /\ Cardinality(Mapped(t)) \in Nat
  BY FiniteTables, FS_Subset, FS_CardinalityType DEF AllMapped, Mapped

(* A table with no mapping counts 0.                                       *)
LEMMA CountBlank ==
    ASSUME frame' = EveryPage(NoFrame)
    PROVE  Cardinality(AllMapped') = 0
  <1>1. AllMapped' = {}
    BY DEF AllMapped, EveryPage
  <1> QED
    BY <1>1, FS_EmptySet

LEMMA CountMap ==
    ASSUME TypeButCount, NEW t \in Tags, NEW p \in Pages, NEW f \in Frames,
           frame[t][p] = NoFrame, frame' = [frame EXCEPT ![t][p] = f]
    PROVE  Cardinality(AllMapped') = Cardinality(AllMapped) + 1
  <1>1. f # NoFrame
    BY SizesAssumption DEF Frames, NoFrame
  <1>2. frame'[t][p] = f
    BY DEF TypeButCount
  <1>3. \A tp \in Tags \X Pages : tp # <<t, p>> =>
            frame'[tp[1]][tp[2]] = frame[tp[1]][tp[2]]
    BY DEF TypeButCount
  <1>4. AllMapped' = AllMapped \cup {<<t, p>>}
    BY <1>1, <1>2, <1>3 DEF AllMapped
  <1>5. <<t, p>> \notin AllMapped
    BY DEF AllMapped
  <1> QED
    BY <1>4, <1>5, FiniteMapped, FS_AddElement

LEMMA CountUnmap ==
    ASSUME TypeButCount, NEW t \in Tags, NEW p \in Pages,
           frame[t][p] # NoFrame, frame' = [frame EXCEPT ![t][p] = NoFrame]
    PROVE  Cardinality(AllMapped') = Cardinality(AllMapped) - 1
  <1>1. frame'[t][p] = NoFrame
    BY DEF TypeButCount
  <1>2. \A tp \in Tags \X Pages : tp # <<t, p>> =>
            frame'[tp[1]][tp[2]] = frame[tp[1]][tp[2]]
    BY DEF TypeButCount
  <1>3. AllMapped' = AllMapped \ {<<t, p>>}
    BY <1>1, <1>2 DEF AllMapped
  <1>4. <<t, p>> \in AllMapped
    BY DEF AllMapped
  <1> QED
    BY <1>3, <1>4, FiniteMapped, FS_RemoveElement

LEMMA CountDisjoint ==
    ASSUME NEW S, NEW T, IsFiniteSet(S), IsFiniteSet(T), S \cap T = {}
    PROVE  Cardinality(S \cup T) = Cardinality(S) + Cardinality(T)
  <1>1. Cardinality(S \cup T)
          = Cardinality(S) + Cardinality(T) - Cardinality(S \cap T)
    BY FS_Union
  <1>2. Cardinality(S \cap T) = 0
    BY FS_EmptySet
  <1>3. Cardinality(S) \in Nat /\ Cardinality(T) \in Nat
    BY FS_CardinalityType
  <1> QED
    BY <1>1, <1>2, <1>3

LEMMA CountWithout ==
    ASSUME NEW S, NEW T, IsFiniteSet(S), T \subseteq S
    PROVE  /\ IsFiniteSet(S \ T)
           /\ Cardinality(S \ T) = Cardinality(S) - Cardinality(T)
  <1>1. S \cap T = T
    OBVIOUS
  <1>2. /\ IsFiniteSet(S \ T)
        /\ Cardinality(S \ T) = Cardinality(S) - Cardinality(S \cap T)
    BY FS_Difference
  <1> QED
    BY <1>1, <1>2, Zenon

LEMMA CountTagged ==
    ASSUME NEW S, IsFiniteSet(S)
    PROVE  /\ IsFiniteSet({0} \X S)
           /\ Cardinality({0} \X S) = Cardinality(S)
  <1>1. IsFiniteSet({0}) /\ Cardinality({0}) = 1
    BY FS_Singleton, Zenon
  <1>2. /\ IsFiniteSet({0} \X S)
        /\ Cardinality({0} \X S) = Cardinality({0}) * Cardinality(S)
    BY <1>1, FS_Product, Zenon
  <1>3. Cardinality(S) \in Nat
    BY FS_CardinalityType
  <1> QED
    BY <1>1, <1>2, <1>3

(* Loading a table replaces the mappings of tag 0 by the loaded entries.   *)
LEMMA CountLoad ==
    ASSUME TypeButCount, NEW pt \in Tables \cup {Null}, LoadTable(pt)
    PROVE  Cardinality(AllMapped')
             = Cardinality(AllMapped) - Cardinality(Mapped(0))
                 + Cardinality(Loaded(pt))
  <1> DEFINE old  == {0} \X Mapped(0)
             new  == {0} \X Loaded(pt)
             rest == AllMapped \ old
  <1>1. 0 \in Tags
    BY SizesAssumption DEF Tags
  <1>2. /\ Loaded(pt) \subseteq Pages
        /\ \A p \in Loaded(pt) : PTE[pt][p].frame \in Frames
    BY LoadedEntries, LoadedNull
  <1>3. \A p \in Pages : frame'[0][p] # NoFrame <=> p \in Loaded(pt)
    <2>1. \A f \in Frames : f # NoFrame
      BY SizesAssumption DEF Frames, NoFrame
    <2>2. \A p \in Pages : frame'[0][p] =
                IF p \in Loaded(pt) THEN PTE[pt][p].frame ELSE NoFrame
      BY <1>1 DEF LoadTable, Dropped, Mapped, TypeButCount
    <2> QED
      BY <1>2, <2>1, <2>2
  <1>4. \A t \in Tags \ {0} : frame'[t] = frame[t]
    BY DEF LoadTable, TypeButCount
  <1>5. AllMapped' = rest \cup new
    BY <1>1, <1>2, <1>3, <1>4 DEF AllMapped, Mapped
  <1>6. old \subseteq AllMapped /\ rest \cap new = {}
    BY <1>1, <1>2 DEF AllMapped, Mapped
  <1>7. /\ IsFiniteSet(Loaded(pt)) /\ Cardinality(Loaded(pt)) \in Nat
        /\ IsFiniteSet(Mapped(0)) /\ Cardinality(Mapped(0)) \in Nat
    BY <1>1, <1>2, FiniteTables, FiniteMapped, FS_Subset, FS_CardinalityType
  <1>8. /\ IsFiniteSet(old) /\ Cardinality(old) = Cardinality(Mapped(0))
        /\ IsFiniteSet(new) /\ Cardinality(new) = Cardinality(Loaded(pt))
    BY <1>7, CountTagged, Zenon
  <1>9. /\ IsFiniteSet(rest)
        /\ Cardinality(rest) = Cardinality(AllMapped) - Cardinality(old)
    BY <1>6, FiniteMapped, CountWithout, Zenon
  <1>10. Cardinality(rest \cup new) = Cardinality(rest) + Cardinality(new)
    BY <1>6, <1>8, <1>9, CountDisjoint, Zenon
  <1> QED
    BY <1>5, <1>8, <1>9, <1>10

LEMMA CountStep == CountInv /\ [Next \/ Ended]_vars => CountInv'
  <1> SUFFICES ASSUME CountInv, [Next \/ Ended]_vars
               PROVE  CountInv'
    OBVIOUS
  <1> USE SizesAssumption DEF CountInv
  <1>1. TypeButCount'
    BY TypeStep
  <1>2. ASSUME UNCHANGED <<frame, numMaps, maxMaps, on, mode, tag>>
        PROVE  (MapCount /\ TableModeOneTag)'
    BY <1>2 DEF MapCount, TableModeOneTag, AllMapped
  <1>3. ASSUME NEW maps \in MapLimits, NEW md \in Modes, MmuInit(maps, md)
        PROVE  (MapCount /\ TableModeOneTag)'
    <2>1. Cardinality(AllMapped') = 0
      BY <1>3, CountBlank DEF MmuInit, Blank
    <2>2. numMaps' = 0 /\ maxMaps' \in Nat /\ tag' = 0
      BY <1>1, <1>3 DEF MmuInit, Blank, TypeButCount
    <2>3. mode' = "PAGETABLE" => maxMaps' = NumPages
      BY <1>3 DEF MmuInit
    <2>4. \A t \in Tags, p \in Pages : frame'[t][p] = NoFrame
      BY <1>3 DEF MmuInit, Blank, EveryPage
    <2> QED
      BY <2>1, <2>2, <2>3, <2>4 DEF MapCount, TableModeOneTag
  <1>4. CASE MmuDone
    <2>1. Cardinality(AllMapped') = 0
      BY <1>4, CountBlank DEF MmuDone, Blank
    <2> QED
      BY <1>1, <1>4, <2>1 DEF MmuDone, Blank, MapCount, TableModeOneTag
  <1>5. ASSUME NEW t \in Tags, NEW p \in Pages, NEW f \in Frames,
               NEW prot \in Prots, MmuMap(t, p, f, prot)
        PROVE  (MapCount /\ TableModeOneTag)'
    <2>1. /\ frame[t][p] = NoFrame /\ numMaps # maxMaps /\ on
          /\ frame' = [frame EXCEPT ![t][p] = f]
          /\ numMaps' = numMaps + 1
          /\ UNCHANGED cfgVars /\ mode = "TLB"
      BY <1>5 DEF MmuMap, MapStatus
    <2>2. Cardinality(AllMapped') = Cardinality(AllMapped) + 1
      BY <2>1, CountMap
    <2>3. numMaps \in Nat /\ numMaps <= maxMaps /\ maxMaps \in Nat
      BY <2>1, FiniteMapped DEF MapCount, TypeButCount
    <2> QED
      BY <2>1, <2>2, <2>3 DEF MapCount, TableModeOneTag, cfgVars
  <1>6. ASSUME NEW t \in Tags, NEW p \in Pages, MmuUnmap(t, p)
        PROVE  (MapCount /\ TableModeOneTag)'
    <2>1. /\ frame[t][p] # NoFrame /\ on
          /\ frame' = [frame EXCEPT ![t][p] = NoFrame]
          /\ numMaps' = numMaps - 1
          /\ UNCHANGED cfgVars /\ mode = "TLB"
      BY <1>6 DEF MmuUnmap, UnmapStatus
    <2>2. Cardinality(AllMapped') = Cardinality(AllMapped) - 1
      BY <2>1, CountUnmap
    <2>3. numMaps \in Nat /\ numMaps <= maxMaps /\ maxMaps \in Nat
      BY <2>1, FiniteMapped DEF MapCount, TypeButCount
    <2> QED
      BY <2>1, <2>2, <2>3 DEF MapCount, TableModeOneTag, cfgVars
  <1>7. ASSUME NEW t \in Tags, MmuSetTag(t)
        PROVE  (MapCount /\ TableModeOneTag)'
    BY <1>7 DEF MmuSetTag, MapCount, TableModeOneTag, AllMapped, mapVars, cfgVars
  <1>8. ASSUME NEW pt \in Tables \cup {Null}, LoadTable(pt),
               on, mode = "PAGETABLE", UNCHANGED <<cfgVars, tag>>
        PROVE  (MapCount /\ TableModeOneTag)'
    <2>1. Cardinality(AllMapped')
            = Cardinality(AllMapped) - Cardinality(Mapped(0))
                + Cardinality(Loaded(pt))
      BY <1>8, CountLoad
    <2>2. numMaps' = Cardinality(AllMapped')
      BY <1>8, <2>1 DEF LoadTable, Dropped, MapCount
    <2>3. \A t \in Tags, p \in Pages : frame'[t][p] # NoFrame => t = 0
      BY <1>8 DEF LoadTable, TableModeOneTag, TypeButCount
    <2>4. AllMapped' \subseteq {0} \X Pages
      BY <2>3 DEF AllMapped
    <2>5. Cardinality(AllMapped') <= NumPages
      <3>1. /\ IsFiniteSet({0} \X Pages)
            /\ Cardinality({0} \X Pages) = NumPages
        BY FiniteTables, CountTagged
      <3> QED
        BY <2>4, <3>1, FS_Subset
    <2> QED
      BY <1>8, <2>2, <2>3, <2>5 DEF MapCount, TableModeOneTag, cfgVars
  <1>9. ASSUME NEW pt \in Tables \cup {Null},
               MmuSetPageTable(pt) \/ ContextSwitch(pt)
        PROVE  (MapCount /\ TableModeOneTag)'
    <2>1. CASE on /\ mode = "PAGETABLE"
      <3>1. LoadTable(pt) /\ UNCHANGED <<cfgVars, tag>>
        BY <1>9, <2>1 DEF MmuSetPageTable, ContextSwitch
      <3> QED
        BY <1>8, <2>1, <3>1
    <2>2. CASE ~(on /\ mode = "PAGETABLE")
      <3>1. UNCHANGED <<frame, numMaps, maxMaps, on, mode, tag>>
        BY <1>9, <2>2 DEF MmuSetPageTable, ContextSwitch, mapVars, cfgVars
      <3> QED
        BY <1>2, <3>1
    <2> QED
      BY <2>1, <2>2
  <1>10. ASSUME \/ \E f \in Frames, bits \in AccessArgs : MmuSetAccess(f, bits)
                \/ InstallHandler
                \/ \E kind \in Kinds, addr \in Addrs : Access(kind, addr)
                \/ Instruction \/ HandlerReturns \/ Ended \/ UNCHANGED vars
         PROVE  UNCHANGED <<frame, numMaps, maxMaps, on, mode, tag>>
    BY <1>10 DEF MmuSetAccess, InstallHandler, Access, Instruction, Complete,
       MmuHandler, RealSegv, PageFault, AccessViolation, Interrupt,
       SetReferenced, SetDirty, Widen, InternalError, HandlerReturns, Ended,
       vars, mapVars, cfgVars
  <1>11. CASE OsCall
    BY <1>2, <1>3, <1>4, <1>5, <1>6, <1>7, <1>9, <1>10, <1>1, <1>11 DEF OsCall
  <1>12. CASE ~OsCall
    BY <1>1, <1>2, <1>10, <1>12 DEF Next
  <1> QED
    BY <1>11, <1>12

LEMMA CountInit == Init => CountInv
  <1> SUFFICES ASSUME Init
               PROVE  CountInv
    OBVIOUS
  <1> USE SizesAssumption DEF Init, EveryPage
  <1>1. AllMapped = {}
    BY DEF AllMapped
  <1>2. Cardinality(AllMapped) = 0
    BY <1>1, FS_EmptySet
  <1>3. TypeButCount
    <2>1. /\ frame \in [Tags -> [Pages -> Frames \cup {NoFrame}]]
          /\ virtProt \in [Tags -> [Pages -> 0 .. RW]]
          /\ realProt \in [Tags -> [Pages -> {NONE, READ, RW}]]
      BY DEF NONE, RW
    <2>2. tag \in Tags
      BY DEF Tags
    <2> QED
      BY <2>1, <2>2 DEF TypeButCount, Nothing
  <1> QED
    BY <1>2, <1>3 DEF CountInv, MapCount, TableModeOneTag

LEMMA Counted == Spec => []CountInv
  BY CountInit, CountStep, PTL DEF Spec

(* Type correctness, numMaps included.                                     *)
THEOREM TypeCorrect == Spec => []TypeOK
  <1>1. CountInv => TypeOK
    BY FiniteMapped DEF CountInv, TypeButCount, MapCount, TypeOK
  <1> QED
    BY <1>1, Counted, PTL

(* The count of mappings never drifts, and never passes its limit.         *)
THEOREM MappingsCounted == Spec => []MapCount
  <1>1. CountInv => MapCount
    BY DEF CountInv
  <1> QED
    BY <1>1, Counted, PTL

----------------------------------------------------------------------------
(* Page tables.                                                            *)

(* A set of numbers that is not empty has a least element.                 *)
LEMMA LeastPage ==
    ASSUME NEW T, T \subseteq Nat, T # {}
    PROVE  \E x \in T : \A y \in T : x <= y
  <1> DEFINE R == OpToRel(<, Nat)
  <1>1. PICK x \in T : \A y \in T : ~(<<y, x>> \in R)
    <2>1. IsWellFoundedOn(R, Nat)
      BY NatLessThanWellFounded
    <2> HIDE DEF R
    <2> QED
      BY <2>1, WFMin
  <1>2. ASSUME NEW y \in T, y < x
        PROVE  <<y, x>> \in R
    BY <1>2 DEF OpToRel
  <1>3. \A y \in T : ~(y < x)
    BY <1>1, <1>2
  <1>4. \A y \in T : x <= y
    <2> SUFFICES ASSUME NEW y \in T
                 PROVE  x <= y
      OBVIOUS
    <2>1. x \in Int /\ y \in Int /\ ~(y < x)
      BY <1>3
    <2> QED
      BY <2>1
  <1> QED
    BY <1>4

(* The mappings are all of tag 0, and at most p entries come before p, so  *)
(* that a table never runs out of mappings.                                *)
LEMMA EntryStatus ==
    ASSUME CountInv, on, mode = "PAGETABLE", NEW pt \in Tables, NEW p \in Pages
    PROVE  PteStatus(pt, p) \in {"OK", "ERR_PROT", "ERR_FRAME"}
  <1> DEFINE before == {q \in 0 .. p - 1 : PTE[pt][q].incore}
  <1> USE SizesAssumption DEF CountInv
  <1>1. AllMapped = {0} \X Mapped(0)
    BY DEF TableModeOneTag, AllMapped, Mapped, Tags
  <1>2. numMaps = Cardinality(Mapped(0)) /\ Cardinality(Mapped(0)) \in Nat
    <2>1. IsFiniteSet(Mapped(0)) /\ Cardinality(Mapped(0)) \in Nat
      BY FiniteMapped DEF Tags
    <2> QED
      BY <1>1, <2>1, CountTagged DEF MapCount
  <1>3. Cardinality(before) \in Nat /\ Cardinality(before) <= p
    <2>1. p \in Nat
      BY DEF Pages
    <2>2. IsFiniteSet(0 .. p - 1) /\ Cardinality(0 .. p - 1) = p
      BY <2>1, FS_Interval
    <2>3. before \subseteq 0 .. p - 1
      OBVIOUS
    <2> HIDE DEF before
    <2> QED
      BY <2>2, <2>3, FS_Subset, FS_CardinalityType
  <1>4. maxMaps = NumPages /\ p < NumPages
    BY DEF TableModeOneTag, Pages
  <1>5. numMaps - Cardinality(Mapped(0)) + Cardinality(before) # maxMaps
    <2> HIDE DEF before
    <2> QED
      BY <1>2, <1>3, <1>4 DEF Pages
  <1> QED
    BY <1>5 DEF PteStatus

LEMMA TableStatus ==
    ASSUME CountInv, on, mode = "PAGETABLE", NEW pt \in Tables
    PROVE  SetPageTableStatus(pt) \in {"OK", "ERR_PROT", "ERR_FRAME"}
  <1> DEFINE bad == IF pt = Null THEN {} ELSE {p \in Pages : PteStatus(pt, p) # "OK"}
  <1>1. CASE bad = {}
    BY <1>1 DEF SetPageTableStatus
  <1>2. CASE bad # {}
    <2>1. bad \subseteq Pages /\ bad \subseteq Nat
      BY DEF Pages
    <2>2. \E p \in bad : \A q \in bad : p <= q
      <3> HIDE DEF bad
      <3> QED
        BY <1>2, <2>1, LeastPage
    <2>3. (CHOOSE p \in bad : \A q \in bad : p <= q) \in Pages
      <3> HIDE DEF bad
      <3> QED
        BY <2>1, <2>2
    <2>4. PteStatus(pt, CHOOSE p \in bad : \A q \in bad : p <= q)
            \in {"OK", "ERR_PROT", "ERR_FRAME"}
      <3> HIDE DEF bad
      <3> QED
        BY <2>3, EntryStatus
    <2> QED
      BY <1>2, <2>4 DEF SetPageTableStatus
  <1> QED
    BY <1>1, <1>2

(* Every mapping is an entry of the last table.                            *)
FromTable(p) ==
    /\ pageTable \in Tables
    /\ PTE[pageTable][p].incore
    /\ frame[0][p] = PTE[pageTable][p].frame
    /\ virtProt[0][p] = PteProt(PTE[pageTable][p])

EntriesInv ==
    on /\ mode = "PAGETABLE" =>
        \A p \in Pages : frame[0][p] # NoFrame => FromTable(p)

LEMMA LoadedFromTable ==
    ASSUME TypeButCount, NEW pt \in Tables \cup {Null}, LoadTable(pt),
           NEW p \in Pages, frame'[0][p] # NoFrame
    PROVE  FromTable(p)'
  <1>1. 0 \in Tags
    BY SizesAssumption DEF Tags
  <1>2. /\ frame'[0][p] = IF p \in Loaded(pt) THEN PTE[pt][p].frame ELSE NoFrame
        /\ p \in Loaded(pt) => virtProt'[0][p] = PteProt(PTE[pt][p])
        /\ pageTable' = pt
    BY <1>1 DEF LoadTable, Dropped, Mapped, TypeButCount
  <1>3. p \in Loaded(pt) /\ pt \in Tables /\ pt # Null
    BY <1>2, LoadedNull
  <1> QED
    BY <1>2, <1>3, LoadedEntries DEF FromTable

LEMMA EntriesStep == CountInv /\ EntriesInv /\ [Next \/ Ended]_vars => EntriesInv'
  <1> SUFFICES ASSUME CountInv, EntriesInv, [Next \/ Ended]_vars
               PROVE  EntriesInv'
    OBVIOUS
  <1> USE SizesAssumption DEF CountInv
  <1>1. ASSUME UNCHANGED <<mapVars, on, mode, pageTable>>
        PROVE  EntriesInv'
    BY <1>1 DEF EntriesInv, FromTable, mapVars
  <1>2. ASSUME NEW maps \in MapLimits, NEW md \in Modes, MmuInit(maps, md)
        PROVE  EntriesInv'
    BY <1>2 DEF MmuInit, Blank, EveryPage, EntriesInv, Tags
  <1>3. CASE MmuDone
    BY <1>3 DEF MmuDone, EntriesInv
  <1>4. ASSUME mode = "TLB", UNCHANGED cfgVars
        PROVE  EntriesInv'
    BY <1>4 DEF EntriesInv, cfgVars
  <1>5. ASSUME NEW pt \in Tables \cup {Null}, LoadTable(pt), UNCHANGED cfgVars
        PROVE  EntriesInv'
    BY <1>5, LoadedFromTable DEF EntriesInv
  <1>6. ASSUME NEW pt \in Tables \cup {Null},
               MmuSetPageTable(pt) \/ ContextSwitch(pt)
        PROVE  EntriesInv'
    <2>1. CASE LoadTable(pt)
      BY <1>5, <1>6, <2>1 DEF MmuSetPageTable, ContextSwitch
    <2>2. CASE ~LoadTable(pt)
      BY <1>1, <1>6, <2>2 DEF MmuSetPageTable, ContextSwitch, cfgVars
    <2> QED
      BY <2>1, <2>2
  <1>7. ASSUME \/ \E f \in Frames, bits \in AccessArgs : MmuSetAccess(f, bits)
               \/ InstallHandler
               \/ \E kind \in Kinds, addr \in Addrs : Access(kind, addr)
               \/ Instruction \/ HandlerReturns \/ Ended \/ UNCHANGED vars
        PROVE  UNCHANGED <<mapVars, on, mode, pageTable>>
    BY <1>7 DEF MmuSetAccess, InstallHandler, Access, Instruction, Complete,
       MmuHandler, RealSegv, PageFault, AccessViolation, Interrupt,
       SetReferenced, SetDirty, Widen, InternalError, HandlerReturns, Ended,
       vars, mapVars, cfgVars
  <1>8. ASSUME \/ \E t \in Tags, p \in Pages, f \in Frames, prot \in Prots :
                      MmuMap(t, p, f, prot)
               \/ \E t \in Tags, p \in Pages : MmuUnmap(t, p)
               \/ \E t \in Tags : MmuSetTag(t)
        PROVE  mode = "TLB" /\ UNCHANGED cfgVars
    BY <1>8 DEF MmuMap, MmuUnmap, MmuSetTag
  <1>9. CASE OsCall
    BY <1>1, <1>2, <1>3, <1>4, <1>6, <1>7, <1>8, <1>9 DEF OsCall
  <1>10. CASE ~OsCall
    BY <1>1, <1>7, <1>10 DEF Next
  <1> QED
    BY <1>9, <1>10

(* In page-table mode what is mapped is what the last table says, and a    *)
(* table is refused only for its own entries, whatever tables came before  *)
(* and however far they got.                                               *)
THEOREM TableInForce == Spec => []PageTableInForce
  <1>1. Init => EntriesInv
    BY DEF Init, EntriesInv
  <1>2. CountInv /\ EntriesInv => PageTableInForce
    <2> SUFFICES ASSUME CountInv, EntriesInv, on, mode = "PAGETABLE"
                 PROVE  /\ \A tp \in AllMapped : tp[1] = 0 /\ FromTable(tp[2])
                        /\ \A pt \in Tables :
                             SetPageTableStatus(pt) \in {"OK", "ERR_PROT", "ERR_FRAME"}
      BY DEF PageTableInForce, FromTable
    <2>1. ASSUME NEW tp \in AllMapped
          PROVE  tp[1] = 0 /\ FromTable(tp[2])
      BY <2>1 DEF AllMapped, CountInv, TableModeOneTag, EntriesInv
    <2> QED
      BY <2>1, TableStatus
  <1> QED
    BY <1>1, <1>2, EntriesStep, Counted, PTL DEF Spec

-----------------------------------------------------------------------------
(* The host's page table follows the emulated tables, no use of a frame    *)
(* goes unrecorded, and under a disciplined operating system protection is *)
(* enforced and mmu.c never aborts.                                        *)


(* A page that is not mapped is closed under every tag.                    *)
UnmappedClosed ==
    \A t \in Tags, p \in Pages :
        frame[t][p] = NoFrame => realProt[t][p] = NONE

HostInv ==
    /\ TypeButCount
    /\ HostFollowsTables
    /\ OtherTagsClosed
    /\ UnmappedClosed
    /\ UsesAreRecorded

LEMMA ProtsDiffer ==
    /\ NONE # READ /\ NONE # RW /\ READ # RW
    /\ \A k \in Kinds : ~Allows(NONE, k) /\ Allows(RW, k)
    /\ Allows(READ, "load") /\ ~Allows(READ, "store")
    /\ NoFrame \notin Frames
  BY SizesAssumption DEF NONE, READ, RW, Allows, Kinds, NoFrame, Frames

LEMMA HostInit == Init => HostInv
  <1> SUFFICES ASSUME Init
               PROVE  HostInv
    OBVIOUS
  <1>1. TypeButCount
    BY CountInit DEF CountInv
  <1> QED
    BY <1>1, SizesAssumption
    DEF HostInv, Init, EveryPage, HostFollowsTables, OtherTagsClosed,
        UnmappedClosed, UsesAreRecorded, Tags

(* The part of the invariant beside the types.                             *)
Follows == HostFollowsTables /\ OtherTagsClosed /\ UnmappedClosed
              /\ UsesAreRecorded

LEMMA HostStep == HostInv /\ [Next \/ Ended]_vars => HostInv'
  <1> SUFFICES ASSUME HostInv, [Next \/ Ended]_vars
               PROVE  Follows'
    BY TypeStep DEF HostInv, Follows
  <1> USE SizesAssumption DEF HostInv
  <1>1. TypeButCount'
    BY TypeStep
  <1>2. ASSUME UNCHANGED <<frame, realProt, hwProt, hwFrame, access, tag>>
        PROVE  Follows'
    BY <1>2 DEF Follows, HostFollowsTables, OtherTagsClosed, UnmappedClosed,
       UsesAreRecorded
  <1>3. ASSUME Blank
        PROVE  Follows'
    BY <1>3, ProtsDiffer DEF Blank, EveryPage, Follows, HostFollowsTables,
       OtherTagsClosed, UnmappedClosed, UsesAreRecorded, Tags
  <1>4. ASSUME NEW t \in Tags, NEW p \in Pages, NEW v \in Frames \cup {NoFrame},
               frame' = [frame EXCEPT ![t][p] = v],
               realProt' = [realProt EXCEPT ![t][p] = NONE],
               t = tag => /\ hwFrame' = [hwFrame EXCEPT ![p] = v]
                          /\ hwProt' = [hwProt EXCEPT ![p] = NONE],
               t # tag => UNCHANGED <<hwFrame, hwProt>>,
               UNCHANGED <<tag, access>>
        PROVE  Follows'
    <2>1. \A s \in Tags, q \in Pages :
            /\ frame'[s][q] = IF s = t /\ q = p THEN v ELSE frame[s][q]
            /\ realProt'[s][q] = IF s = t /\ q = p THEN NONE ELSE realProt[s][q]
      BY <1>4 DEF TypeButCount
    <2>2. HostFollowsTables'
      <3>1. CASE t = tag
        BY <1>4, <2>1, <3>1 DEF HostFollowsTables, TypeButCount
      <3>2. CASE t # tag
        BY <1>4, <2>1, <3>2 DEF HostFollowsTables, TypeButCount
      <3> QED
        BY <3>1, <3>2
    <2>3. OtherTagsClosed'
      BY <1>4, <2>1 DEF OtherTagsClosed
    <2>4. UnmappedClosed'
      BY <2>1 DEF UnmappedClosed
    <2>5. UsesAreRecorded'
      BY <1>4, <2>1, ProtsDiffer DEF UsesAreRecorded, TypeButCount, Kinds
    <2> QED
      BY <2>2, <2>3, <2>4, <2>5 DEF Follows
  <1>5. ASSUME NEW t \in Tags, NEW p \in Pages, NEW f \in Frames,
               NEW prot \in Prots, MmuMap(t, p, f, prot)
        PROVE  Follows'
    <2>1. t = tag => /\ hwFrame' = [hwFrame EXCEPT ![p] = f]
                     /\ hwProt' = [hwProt EXCEPT ![p] = NONE]
      BY <1>5 DEF MmuMap
    <2>2. t # tag => UNCHANGED <<hwFrame, hwProt>>
      BY <1>5 DEF MmuMap
    <2> QED
      BY <1>4, <1>5, <2>1, <2>2 DEF MmuMap
  <1>6. ASSUME NEW t \in Tags, NEW p \in Pages, MmuUnmap(t, p)
        PROVE  Follows'
    <2>1. t = tag => /\ hwFrame' = [hwFrame EXCEPT ![p] = NoFrame]
                     /\ hwProt' = [hwProt EXCEPT ![p] = NONE]
      BY <1>6 DEF MmuUnmap
    <2>2. t # tag => UNCHANGED <<hwFrame, hwProt>>
      BY <1>6 DEF MmuUnmap
    <2> QED
      BY <1>4, <1>6, <2>1, <2>2 DEF MmuUnmap
  <1>7. ASSUME NEW new \in Tags, MmuSetTag(new)
        PROVE  Follows'
    <2>1. /\ tag' = new /\ new # tag
          /\ realProt' = [realProt EXCEPT ![tag] = Closed(tag)]
          /\ UNCHANGED <<frame, access>>
      BY <1>7 DEF MmuSetTag, mapVars
    <2>2. \A t \in Tags, p \in Pages :
            realProt'[t][p] = IF t = tag THEN NONE ELSE realProt[t][p]
      BY <2>1 DEF Closed, Mapped, UnmappedClosed, TypeButCount
    <2>3. \A p \in Pages :
            /\ hwProt'[p] = NONE
            /\ frame[new][p] # NoFrame => hwFrame'[p] = frame[new][p]
      <3>1. \A p \in Pages \ Mapped(tag) : hwProt[p] = NONE
        BY DEF Mapped, HostFollowsTables
      <3> QED
        BY <1>7, <3>1 DEF MmuSetTag, Swapped, Mapped
    <2>4. \A t \in Tags, p \in Pages : realProt'[t][p] = NONE
      BY <2>2 DEF OtherTagsClosed
    <2>5. HostFollowsTables' /\ OtherTagsClosed' /\ UnmappedClosed'
      BY <2>1, <2>3, <2>4 DEF HostFollowsTables, OtherTagsClosed, UnmappedClosed
    <2>6. UsesAreRecorded'
      BY <2>1, <2>4, ProtsDiffer DEF UsesAreRecorded, Kinds
    <2> QED
      BY <2>5, <2>6 DEF Follows
  <1>8. ASSUME NEW f \in Frames, NEW bits \in AccessArgs, MmuSetAccess(f, bits)
        PROVE  Follows'
    <2>1. /\ bits \subseteq Bits /\ access' = [access EXCEPT ![f] = bits]
          /\ UNCHANGED <<frame, tag>>
      BY <1>8 DEF MmuSetAccess, SetAccessStatus, mapVars
    <2>2. CASE bits = Bits
      <3>1. UNCHANGED <<realProt, hwProt, hwFrame>>
        BY <1>8, <2>2 DEF MmuSetAccess, hwVars
      <3>2. \A g \in Frames : access[g] \subseteq access'[g]
        BY <2>1, <2>2 DEF TypeButCount
      <3>3. UsesAreRecorded'
        BY <2>1, <3>1, <3>2 DEF UsesAreRecorded, TypeButCount
      <3> QED
        BY <2>1, <3>1, <3>3 DEF Follows, HostFollowsTables, OtherTagsClosed,
           UnmappedClosed
    <2>3. CASE bits # Bits
      <3> DEFINE prot == ProtFor(bits)
      <3>1. /\ realProt' = [realProt EXCEPT ![tag] =
                  [p \in Pages |-> IF p \in PagesOf(f) THEN prot
                                   ELSE realProt[tag][p]]]
            /\ hwFrame' = [p \in Pages |->
                              IF p \in PagesOf(f) THEN f ELSE hwFrame[p]]
            /\ hwProt' = [p \in Pages |->
                              IF p \in PagesOf(f) THEN prot ELSE hwProt[p]]
        BY <1>8, <2>3, Zenon DEF MmuSetAccess
      <3>2. \A t \in Tags, p \in Pages : realProt'[t][p] =
              IF t = tag /\ frame[tag][p] = f THEN prot ELSE realProt[t][p]
        BY <3>1 DEF PagesOf, TypeButCount
      <3>3. \A g \in Frames : access'[g] = IF g = f THEN bits ELSE access[g]
        BY <2>1 DEF TypeButCount
      <3>4. HostFollowsTables'
        BY <2>1, <3>1, <3>2, ProtsDiffer DEF HostFollowsTables, PagesOf,
           TypeButCount
      <3>5. OtherTagsClosed' /\ UnmappedClosed'
        BY <2>1, <3>2, ProtsDiffer DEF OtherTagsClosed, UnmappedClosed
      <3>6. /\ Allows(prot, "load") => "REF" \in bits
            /\ ~Allows(prot, "store")
        BY ProtsDiffer DEF ProtFor, Kinds
      <3>7. UsesAreRecorded'
        <4> SUFFICES ASSUME NEW p \in Pages, frame[tag][p] # NoFrame
                     PROVE  /\ Allows(realProt'[tag][p], "load")
                                  => "REF" \in access'[frame[tag][p]]
                            /\ Allows(realProt'[tag][p], "store")
                                  => "DIRTY" \in access'[frame[tag][p]]
          BY <2>1 DEF UsesAreRecorded
        <4>1. frame[tag][p] \in Frames
          BY DEF TypeButCount
        <4>2. CASE frame[tag][p] = f
          BY <3>2, <3>3, <3>6, <4>2 DEF TypeButCount
        <4>3. CASE frame[tag][p] # f
          BY <3>2, <3>3, <4>1, <4>3 DEF UsesAreRecorded, TypeButCount
        <4> QED
          BY <4>2, <4>3
      <3> QED
        BY <3>4, <3>5, <3>7 DEF Follows
    <2> QED
      BY <2>2, <2>3
  <1>9. ASSUME NEW pt \in Tables \cup {Null}, LoadTable(pt),
               UNCHANGED <<tag, access>>
        PROVE  Follows'
    <2>1. /\ Loaded(pt) \subseteq Pages
          /\ \A p \in Loaded(pt) : PTE[pt][p].frame \in Frames
      BY LoadedEntries, LoadedNull
    <2>2. \A t \in Tags, p \in Pages :
            /\ t # 0 => /\ frame'[t][p] = frame[t][p]
                        /\ realProt'[t][p] = realProt[t][p]
            /\ t = 0 => /\ frame'[t][p] = IF p \in Loaded(pt)
                                          THEN PTE[pt][p].frame ELSE NoFrame
                        /\ realProt'[t][p] = NONE
      BY <1>9 DEF LoadTable, Dropped, Mapped, TypeButCount, UnmappedClosed
    <2>3. HostFollowsTables'
      <3>1. CASE tag = 0
        <4>1. \A p \in Pages :
                /\ p \in Loaded(pt) => /\ hwFrame'[p] = PTE[pt][p].frame
                                       /\ hwProt'[p] = NONE
                /\ p \notin Loaded(pt) => hwProt'[p] = NONE
          BY <1>9, <3>1 DEF LoadTable, Dropped, Mapped, HostFollowsTables
        <4> QED
          BY <1>9, <2>2, <3>1, <4>1 DEF HostFollowsTables, TypeButCount
      <3>2. CASE tag # 0
        <4>1. UNCHANGED <<hwFrame, hwProt>>
          BY <1>9, <3>2 DEF LoadTable
        <4> QED
          BY <1>9, <2>2, <3>2, <4>1 DEF HostFollowsTables, TypeButCount
      <3> QED
        BY <3>1, <3>2
    <2>4. OtherTagsClosed' /\ UnmappedClosed'
      BY <1>9, <2>2 DEF OtherTagsClosed, UnmappedClosed
    <2>5. UsesAreRecorded'
      BY <1>9, <2>2, ProtsDiffer DEF UsesAreRecorded, TypeButCount, Kinds
    <2> QED
      BY <2>3, <2>4, <2>5 DEF Follows
  <1>10. ASSUME NEW pt \in Tables \cup {Null},
                MmuSetPageTable(pt) \/ ContextSwitch(pt)
         PROVE  Follows'
    <2>1. CASE on /\ mode = "PAGETABLE"
      <3>1. LoadTable(pt) /\ UNCHANGED <<tag, access>>
        BY <1>10, <2>1 DEF MmuSetPageTable, ContextSwitch
      <3> QED
        BY <1>9, <3>1
    <2>2. CASE ~(on /\ mode = "PAGETABLE")
      <3>1. UNCHANGED <<frame, realProt, hwProt, hwFrame, access, tag>>
        BY <1>10, <2>2 DEF MmuSetPageTable, ContextSwitch, mapVars, hwVars
      <3> QED
        BY <1>2, <3>1
    <2> QED
      BY <2>1, <2>2
  <1>11. ASSUME NEW prot \in {READ, RW}, NEW bit \in Bits,
                FaultPage \in Pages, frame[tag][FaultPage] # NoFrame,
                Widen(prot, bit),
                \/ prot = READ /\ bit = "REF"
                \/ prot = RW /\ bit = "DIRTY" /\ realProt[tag][FaultPage] = READ
         PROVE  Follows'
    <2> DEFINE p == FaultPage
               f == frame[tag][p]
    <2>1. p \in Pages /\ f \in Frames
      BY <1>11 DEF TypeButCount
    <2>2. /\ realProt' = [realProt EXCEPT ![tag][p] = prot]
          /\ hwFrame' = [hwFrame EXCEPT ![p] = f]
          /\ hwProt' = [hwProt EXCEPT ![p] = prot]
          /\ access' = [access EXCEPT ![f] = @ \cup {bit}]
          /\ UNCHANGED <<frame, tag>>
      BY <1>11, Zenon DEF Widen, mapVars
    <2> HIDE DEF p, f
    <2>3. /\ frame[tag][p] = f /\ f # NoFrame
          /\ prot = RW => realProt[tag][p] = READ /\ bit = "DIRTY"
          /\ prot = READ => bit = "REF"
      BY <1>11, ProtsDiffer DEF p, f
    <2>4. \A t \in Tags, q \in Pages : realProt'[t][q] =
            IF t = tag /\ q = p THEN prot ELSE realProt[t][q]
      BY <2>1, <2>2 DEF TypeButCount
    <2>5. \A g \in Frames : access'[g] =
            IF g = f THEN access[g] \cup {bit} ELSE access[g]
      BY <2>1, <2>2 DEF TypeButCount
    <2>6. HostFollowsTables'
      BY <2>1, <2>2, <2>3, <2>4 DEF HostFollowsTables, TypeButCount
    <2>7. OtherTagsClosed' /\ UnmappedClosed'
      BY <2>1, <2>2, <2>3, <2>4 DEF OtherTagsClosed, UnmappedClosed
    <2>8. UsesAreRecorded'
      <3> SUFFICES ASSUME NEW q \in Pages, frame[tag][q] # NoFrame
                   PROVE  /\ Allows(realProt'[tag][q], "load")
                                => "REF" \in access'[frame[tag][q]]
                          /\ Allows(realProt'[tag][q], "store")
                                => "DIRTY" \in access'[frame[tag][q]]
        BY <2>2 DEF UsesAreRecorded
      <3>0. frame[tag][q] \in Frames
        BY DEF TypeButCount
      <3>1. access[frame[tag][q]] \subseteq access'[frame[tag][q]]
        BY <2>5, <3>0
      <3>2. CASE q = p
        <4>1. realProt'[tag][q] = prot /\ frame[tag][q] = f
          BY <2>1, <2>3, <2>4, <3>2 DEF TypeButCount
        <4>2. bit \in access'[f] /\ access[f] \subseteq access'[f]
          BY <2>1, <2>5
        <4>3. CASE prot = READ
          BY <2>3, <4>1, <4>2, <4>3, ProtsDiffer
        <4>4. CASE prot = RW
          <5>1. "REF" \in access[f]
            BY <2>1, <2>3, <4>4, ProtsDiffer DEF UsesAreRecorded
          <5> QED
            BY <2>3, <4>1, <4>2, <4>4, <5>1
        <4> QED
          BY <4>3, <4>4
      <3>3. CASE q # p
        BY <2>4, <3>1, <3>3 DEF UsesAreRecorded, TypeButCount
      <3> QED
        BY <3>2, <3>3
    <2> QED
      BY <2>6, <2>7, <2>8 DEF Follows
  <1>12. CASE SetReferenced
    BY <1>11, <1>12 DEF SetReferenced, InRegion, RefProt, Bits
  <1>13. CASE SetDirty
    <2>1. realProt[tag][FaultPage] = READ
      BY <1>13 DEF SetDirty, Protections
    <2> QED
      BY <1>11, <1>13, <2>1 DEF SetDirty, InRegion, Bits
  <1>14. ASSUME \/ InstallHandler
                \/ \E kind \in Kinds, addr \in Addrs : Access(kind, addr)
                \/ Complete \/ RealSegv \/ PageFault \/ AccessViolation
                \/ InternalError \/ HandlerReturns \/ Ended \/ UNCHANGED vars
         PROVE  UNCHANGED <<frame, realProt, hwProt, hwFrame, access, tag>>
    BY <1>14 DEF InstallHandler, Access, Complete, RealSegv, PageFault,
       AccessViolation, Interrupt, InternalError, HandlerReturns, Ended,
       vars, mapVars, hwVars
  <1>15. CASE OsCall
    <2>1. CASE MmuDone \/ \E maps \in MapLimits, md \in Modes : MmuInit(maps, md)
      BY <1>3, <2>1 DEF MmuInit, MmuDone
    <2> QED
      BY <1>2, <1>5, <1>6, <1>7, <1>8, <1>10, <1>14, <1>15, <2>1 DEF OsCall
  <1>16. CASE ~OsCall
    BY <1>2, <1>12, <1>13, <1>14, <1>16 DEF Next, Instruction, MmuHandler
  <1> QED
    BY <1>15, <1>16

LEMMA HostInvariant == Spec => []HostInv
  BY HostInit, HostStep, PTL DEF Spec

(* The host's page table is what the emulated tables say.                  *)
THEOREM HostFollows == Spec => []HostFollowsTables
  <1>1. HostInv => HostFollowsTables
    BY DEF HostInv
  <1> QED
    BY <1>1, HostInvariant, PTL

(* A tag that is not current has no page open.                             *)
THEOREM ClosedTags == Spec => []OtherTagsClosed
  <1>1. HostInv => OtherTagsClosed
    BY DEF HostInv
  <1> QED
    BY <1>1, HostInvariant, PTL

(* No use of a frame after its bits were cleared goes unrecorded.          *)
THEOREM NoUseMissed == Spec => []UsesAreRecorded
  <1>1. HostInv => UsesAreRecorded
    BY DEF HostInv
  <1> QED
    BY <1>1, HostInvariant, PTL

----------------------------------------------------------------------------
(* Protection.  The real protection of a page is never wider than the      *)
(* virtual one, which holds because a disciplined operating system never   *)
(* makes USLOSS_MmuSetAccess open a page that must stay inaccessible.      *)
Narrow ==
    \A t \in Tags, p \in Pages :
        /\ virtProt[t][p] \in {NONE, READ, RW}
        /\ \A k \in Kinds : Allows(realProt[t][p], k) => Allows(virtProt[t][p], k)
        /\ frame[t][p] # NoFrame /\ {"REF"} \in AccessArgs
              => virtProt[t][p] # NONE

ProtInv == HostInv /\ CountInv /\ Narrow /\ NeverAborts

LEMMA AssertionsHold == HostInv => UnmappedUntouchable(tag, hwProt)
  BY DEF HostInv, HostFollowsTables, UnmappedUntouchable, Mapped

LEMMA ProtInit == Disciplined => (Init => ProtInv)
  <1> SUFFICES ASSUME Init
               PROVE  Narrow /\ NeverAborts
    BY HostInit, CountInit DEF ProtInv
  <1> QED
    BY ProtsDiffer DEF Init, EveryPage, Narrow, NeverAborts

LEMMA NarrowStep ==
    Disciplined => (ProtInv /\ [Next \/ Ended]_vars => Narrow')
  <1> SUFFICES ASSUME Disciplined, ProtInv, [Next \/ Ended]_vars
               PROVE  Narrow'
    OBVIOUS
  <1> USE DEF ProtInv, HostInv
  <1>1. ASSUME UNCHANGED <<frame, virtProt, realProt>>
        PROVE  Narrow'
    BY <1>1 DEF Narrow
  <1>2. ASSUME Blank
        PROVE  Narrow'
    BY <1>2, ProtsDiffer DEF Blank, EveryPage, Narrow
  <1>3. ASSUME UNCHANGED <<frame, virtProt>>,
               \A t \in Tags, p \in Pages :
                   realProt'[t][p] \in {NONE, realProt[t][p]}
        PROVE  Narrow'
    BY <1>3, ProtsDiffer DEF Narrow
  <1>4. ASSUME NEW t \in Tags, NEW p \in Pages, NEW f \in Frames,
               NEW prot \in Prots, MmuMap(t, p, f, prot)
        PROVE  Narrow'
    <2>1. \A s \in Tags, q \in Pages :
            IF s = t /\ q = p
            THEN virtProt'[s][q] = prot /\ realProt'[s][q] = NONE
            ELSE /\ virtProt'[s][q] = virtProt[s][q]
                 /\ realProt'[s][q] = realProt[s][q]
                 /\ frame'[s][q] = frame[s][q]
      BY <1>4 DEF MmuMap, TypeButCount
    <2>2. prot \in {NONE, READ, RW} /\ ({"REF"} \in AccessArgs => prot # NONE)
      BY DEF Disciplined
    <2> QED
      BY <2>1, <2>2, ProtsDiffer DEF Narrow
  <1>5. ASSUME NEW t \in Tags, NEW p \in Pages, MmuUnmap(t, p)
        PROVE  Narrow'
    <2>1. \A s \in Tags, q \in Pages :
            IF s = t /\ q = p
            THEN /\ virtProt'[s][q] = NONE /\ realProt'[s][q] = NONE
                 /\ frame'[s][q] = NoFrame
            ELSE /\ virtProt'[s][q] = virtProt[s][q]
                 /\ realProt'[s][q] = realProt[s][q]
                 /\ frame'[s][q] = frame[s][q]
      BY <1>5 DEF MmuUnmap, TypeButCount
    <2> QED
      BY <2>1, ProtsDiffer DEF Narrow
  <1>6. ASSUME NEW new \in Tags, MmuSetTag(new)
        PROVE  Narrow'
    <2>1. UNCHANGED <<frame, virtProt>>
          /\ realProt' = [realProt EXCEPT ![tag] = Closed(tag)]
      BY <1>6 DEF MmuSetTag, mapVars
    <2>2. \A t \in Tags, p \in Pages :
              realProt'[t][p] \in {NONE, realProt[t][p]}
      BY <2>1 DEF Closed, TypeButCount
    <2> QED
      BY <1>3, <2>1, <2>2
  <1>7. ASSUME NEW f \in Frames, NEW bits \in AccessArgs, MmuSetAccess(f, bits)
        PROVE  Narrow'
    <2>1. bits \subseteq Bits /\ UNCHANGED <<frame, virtProt, tag>>
      BY <1>7 DEF MmuSetAccess, SetAccessStatus, mapVars
    <2>2. CASE bits = Bits
      BY <1>1, <1>7, <2>1, <2>2 DEF MmuSetAccess, hwVars
    <2>3. CASE bits # Bits
      <3>1. realProt' = [realProt EXCEPT ![tag] =
                  [p \in Pages |-> IF p \in PagesOf(f) THEN ProtFor(bits)
                                   ELSE realProt[tag][p]]]
        BY <1>7, <2>3, Zenon DEF MmuSetAccess
      <3>2. \A t \in Tags, p \in Pages :
              \/ realProt'[t][p] = realProt[t][p]
              \/ /\ realProt'[t][p] = ProtFor(bits)
                 /\ frame[t][p] = f
        BY <3>1 DEF PagesOf, TypeButCount
      <3>3. CASE "REF" \in bits
        <4>1. bits = {"REF"}
          BY <2>1, <2>3, <3>3 DEF Bits
        <4>2. \A t \in Tags, p \in Pages :
                frame[t][p] = f => virtProt[t][p] \in {READ, RW}
          BY <4>1, ProtsDiffer DEF Narrow
        <4>3. ProtFor(bits) = READ
          BY <3>3 DEF ProtFor
        <4>4. \A k \in Kinds : Allows(READ, k) => Allows(RW, k)
          BY ProtsDiffer
        <4> QED
          BY <2>1, <3>2, <4>2, <4>3, <4>4 DEF Narrow
      <3>4. CASE "REF" \notin bits
        <4>1. \A t \in Tags, p \in Pages :
                  realProt'[t][p] \in {NONE, realProt[t][p]}
          BY <3>2, <3>4 DEF ProtFor
        <4> QED
          BY <1>3, <2>1, <4>1
      <3> QED
        BY <3>3, <3>4
    <2> QED
      BY <2>2, <2>3
  <1>8. ASSUME NEW pt \in Tables \cup {Null}, LoadTable(pt)
        PROVE  Narrow'
    <2>1. \A p \in Loaded(pt) :
            /\ PteProt(PTE[pt][p]) \in {NONE, READ, RW}
            /\ {"REF"} \in AccessArgs => PteProt(PTE[pt][p]) # NONE
      <3> SUFFICES ASSUME NEW p \in Loaded(pt)
                   PROVE  /\ PteProt(PTE[pt][p]) \in {NONE, READ, RW}
                          /\ {"REF"} \in AccessArgs => PteProt(PTE[pt][p]) # NONE
        OBVIOUS
      <3>1. pt # Null /\ pt \in Tables
        BY LoadedNull
      <3>2. /\ p \in Pages /\ PTE[pt][p].incore
            /\ PteProt(PTE[pt][p]) \in {NONE, READ, RW}
        BY <3>1, LoadedEntries
      <3>3. {"REF"} \in AccessArgs => PTE[pt][p].write \/ PTE[pt][p].read
        BY <3>1, <3>2 DEF Disciplined
      <3> QED
        BY <3>2, <3>3, ProtsDiffer DEF PteProt
    <2>2. \A t \in Tags, p \in Pages :
            IF t = 0
            THEN /\ realProt'[t][p] = NONE
                 /\ p \in Loaded(pt) => virtProt'[t][p] = PteProt(PTE[pt][p])
                 /\ p \notin Loaded(pt) => /\ virtProt'[t][p] \in {NONE, virtProt[t][p]}
                                           /\ frame'[t][p] = NoFrame
            ELSE /\ virtProt'[t][p] = virtProt[t][p]
                 /\ realProt'[t][p] = realProt[t][p]
                 /\ frame'[t][p] = frame[t][p]
      BY <1>8 DEF LoadTable, Dropped, Mapped, TypeButCount, UnmappedClosed
    <2> QED
      BY <2>1, <2>2, ProtsDiffer DEF Narrow
  <1>9. ASSUME NEW pt \in Tables \cup {Null},
               MmuSetPageTable(pt) \/ ContextSwitch(pt)
        PROVE  Narrow'
    <2>1. CASE LoadTable(pt)
      BY <1>8, <2>1
    <2>2. CASE UNCHANGED <<mapVars, hwVars>>
      BY <1>1, <2>2 DEF mapVars, hwVars
    <2> QED
      BY <1>9, <2>1, <2>2 DEF MmuSetPageTable, ContextSwitch
  <1>10. CASE SetReferenced \/ SetDirty
    <2>1. PICK prot \in {READ, RW}, bit \in Bits :
            /\ Widen(prot, bit)
            /\ FaultPage \in Pages
            /\ \A k \in Kinds : Allows(prot, k)
                  => Allows(virtProt[tag][FaultPage], k)
      BY <1>10, ProtsDiffer DEF SetReferenced, SetDirty, RefProt, Bits, InRegion,
         Protections
    <2>2. UNCHANGED <<frame, virtProt>>
          /\ realProt' = [realProt EXCEPT ![tag][FaultPage] = prot]
      BY <2>1, Zenon DEF Widen, mapVars
    <2>3. \A t \in Tags, p \in Pages : realProt'[t][p] =
            IF t = tag /\ p = FaultPage THEN prot ELSE realProt[t][p]
      BY <2>1, <2>2 DEF TypeButCount
    <2> QED
      BY <2>1, <2>2, <2>3 DEF Narrow
  <1>11. ASSUME \/ InstallHandler
                \/ \E kind \in Kinds, addr \in Addrs : Access(kind, addr)
                \/ Complete \/ RealSegv \/ PageFault \/ AccessViolation
                \/ InternalError \/ HandlerReturns \/ Ended \/ UNCHANGED vars
         PROVE  UNCHANGED <<frame, virtProt, realProt>>
    BY <1>11 DEF InstallHandler, Access, Complete, RealSegv, PageFault,
       AccessViolation, Interrupt, InternalError, HandlerReturns, Ended,
       vars, mapVars, hwVars
  <1>12. CASE OsCall
    <2>1. CASE MmuDone \/ \E maps \in MapLimits, md \in Modes : MmuInit(maps, md)
      BY <1>2, <2>1 DEF MmuInit, MmuDone
    <2> QED
      BY <1>1, <1>4, <1>5, <1>6, <1>7, <1>9, <1>11, <1>12, <2>1 DEF OsCall
  <1>13. CASE ~OsCall
    BY <1>1, <1>10, <1>11, <1>13 DEF Next, Instruction, MmuHandler
  <1> QED
    BY <1>12, <1>13

(* The three combinations of protections that "can't happen".              *)
LEMMA Handleable ==
    ASSUME ProtInv, FaultPage \in Pages
    PROVE  Protections \in Handled
  <1> DEFINE real == realProt[tag][FaultPage]
             virt == virtProt[tag][FaultPage]
  <1>1. real \in {NONE, READ, RW} /\ virt \in {NONE, READ, RW}
    BY DEF ProtInv, HostInv, TypeButCount, Narrow
  <1>2. /\ Allows(real, "load") => Allows(virt, "load")
        /\ Allows(real, "store") => Allows(virt, "store")
    BY DEF ProtInv, HostInv, TypeButCount, Narrow, Kinds
  <1>3. Protections = <<real, virt>>
    BY DEF Protections
  <1> HIDE DEF real, virt
  <1> QED
    BY <1>1, <1>2, <1>3 DEF Handled, Allows, NONE, READ, RW

LEMMA AbortStep == ProtInv /\ [Next \/ Ended]_vars => NeverAborts'
  <1> SUFFICES ASSUME ProtInv, [Next \/ Ended]_vars
               PROVE  fate' # "abort"
    BY DEF NeverAborts
  <1>1. fate # "abort" /\ UnmappedUntouchable(tag, hwProt)
    BY AssertionsHold DEF ProtInv, NeverAborts
  <1>2. ASSUME NEW t \in Tags, NEW p \in Pages, NEW f \in Frames,
               NEW prot \in Prots, MmuMap(t, p, f, prot)
        PROVE  fate' # "abort"
    <2>1. numMaps' <= maxMaps'
      BY <1>2, CountStep DEF ProtInv, CountInv, MapCount, MmuMap, cfgVars
    <2> QED
      BY <1>1, <1>2, <2>1 DEF MmuMap, cfgVars
  <1>3. ASSUME NEW f \in Frames, NEW bits \in AccessArgs, MmuSetAccess(f, bits)
        PROVE  fate' # "abort"
    <2>1. CASE bits = Bits
      BY <1>1, <1>3, <2>1 DEF MmuSetAccess
    <2>2. CASE bits # Bits
      BY <1>1, <1>3, <2>2, Zenon DEF MmuSetAccess
    <2> QED
      BY <2>1, <2>2
  <1>4. CASE SetReferenced \/ SetDirty
    BY <1>1, <1>4 DEF SetReferenced, SetDirty, Widen
  <1>5. CASE InternalError
    BY <1>5, Handleable DEF InternalError, InRegion
  <1>6. CASE MmuDone \/ \E maps \in MapLimits, md \in Modes : MmuInit(maps, md)
    BY <1>1, <1>6 DEF MmuInit, MmuDone
  <1>7. ASSUME \/ \E t \in Tags, p \in Pages : MmuUnmap(t, p)
               \/ \E t \in Tags : MmuSetTag(t)
               \/ \E pt \in Tables \cup {Null} : MmuSetPageTable(pt)
               \/ \E pt \in Tables \cup {Null} : ContextSwitch(pt)
        PROVE  fate' # "abort"
    BY <1>1, <1>7 DEF MmuUnmap, MmuSetTag, MmuSetPageTable, ContextSwitch
  <1>8. ASSUME \/ InstallHandler
               \/ \E kind \in Kinds, addr \in Addrs : Access(kind, addr)
               \/ Complete \/ RealSegv \/ PageFault \/ AccessViolation
               \/ HandlerReturns \/ Ended \/ UNCHANGED vars
        PROVE  fate' # "abort"
    BY <1>1, <1>8 DEF InstallHandler, Access, Complete, RealSegv, PageFault,
       AccessViolation, Interrupt, HandlerReturns, Ended, vars
  <1>9. CASE OsCall
    BY <1>2, <1>3, <1>6, <1>7, <1>8, <1>9 DEF OsCall
  <1>10. CASE ~OsCall
    BY <1>4, <1>5, <1>8, <1>10 DEF Next, Instruction, MmuHandler
  <1> QED
    BY <1>9, <1>10

LEMMA ProtInvariant == Disciplined => (Spec => []ProtInv)
  <1> SUFFICES ASSUME Disciplined
               PROVE  Spec => []ProtInv
    OBVIOUS
  <1>1. Init => ProtInv
    BY ProtInit
  <1>2. ProtInv /\ [Next \/ Ended]_vars => ProtInv'
    BY HostStep, CountStep, NarrowStep, AbortStep DEF ProtInv
  <1> QED
    BY <1>1, <1>2, PTL DEF Spec

(* Under a disciplined operating system a load or a store gets through     *)
(* only where a mapping of the current tag permits it.                     *)
THEOREM ProtectionHolds == Disciplined => (Spec => []ProtectionEnforced)
  <1> SUFFICES ASSUME Disciplined
               PROVE  Spec => []ProtectionEnforced
    OBVIOUS
  <1>1. ProtInv => ProtectionEnforced
    BY ProtsDiffer DEF ProtInv, HostInv, HostFollowsTables, Narrow,
       ProtectionEnforced, TypeButCount
  <1> QED
    BY <1>1, ProtInvariant, PTL

(* Under a disciplined operating system no assertion of mmu.c fails, and   *)
(* the combinations that "can't happen" do not.                            *)
THEOREM NoAbort == Disciplined => (Spec => []NeverAborts)
  <1> SUFFICES ASSUME Disciplined
               PROVE  Spec => []NeverAborts
    OBVIOUS
  <1>1. ProtInv => NeverAborts
    BY DEF ProtInv
  <1> QED
    BY <1>1, ProtInvariant, PTL

(* For an access to the region, the page the handler computes is the one   *)
(* the host finds the address in.                                          *)
LEMMA SamePage ==
    ASSUME NEW a \in Int, HwPage(a) \in Pages
    PROVE  PageIndex(a) = HwPage(a)
  <1>1. a \div PageSize >= 0 => a >= 0
    BY SizesAssumption, Z3
  <1> QED
    BY <1>1, SizesAssumption DEF HwPage, PageIndex, Pages

(* The host enforces the real protection of the page of an instruction.    *)
LEMMA FaultFacts ==
    ASSUME HostInv, Pending
    PROVE  /\ acc.kind \in Kinds /\ acc.addr \in Addrs /\ acc.addr \in Int
           /\ tag \in Tags
           /\ HwPage(acc.addr) \in Pages =>
                 LET p == HwPage(acc.addr)
                 IN /\ FaultPage = p
                    /\ HwAllows(acc.addr, acc.kind) <=> Allows(hwProt[p], acc.kind)
                    /\ IF frame[tag][p] = NoFrame
                         THEN hwProt[p] = NONE
                         ELSE hwProt[p] = realProt[tag][p]
  <1>1. acc \in [kind : Kinds, addr : Addrs] /\ tag \in Tags
    BY DEF HostInv, TypeButCount, Pending
  <1>2. acc.kind \in Kinds /\ acc.addr \in Addrs /\ acc.addr \in Int
    BY <1>1, InputsAssumption
  <1> QED
    BY <1>1, <1>2, SamePage DEF FaultPage, HwAllows, HostInv, HostFollowsTables

(* Whatever the operating system does, it is interrupted for what a        *)
(* process may not do, and told why.                                       *)
THEOREM CausesTrue == Spec => CausesAreTrue
  <1> DEFINE Blamed == MmuHandler /\ (inHandler' \/ fate' = "trap") /\ HwPage(acc.addr) \in Pages
  <1>1. ASSUME HostInv, Next, Blamed
        PROVE  BlamedRightly(HwPage(acc.addr))
    <2>1. fate = "running" /\ Pending /\ ~inHandler
      BY <1>1 DEF Next, Running, MmuHandler, RealSegv, PageFault, AccessViolation,
         SetReferenced, SetDirty, InternalError, Faulting, Pending
    <2>2. PageFault \/ AccessViolation
      BY <1>1, <2>1 DEF MmuHandler, RealSegv, SetReferenced, SetDirty, Widen, InternalError,
         procVars
    <2> DEFINE p == HwPage(acc.addr)
    <2>3. /\ FaultPage = p /\ ~Allows(hwProt[p], acc.kind) /\ acc.kind \in Kinds
          /\ frame[tag][p] # NoFrame => hwProt[p] = realProt[tag][p]
      BY <1>1, <2>1, <2>2, FaultFacts DEF PageFault, AccessViolation, Faulting
    <2>4. CASE PageFault
      BY <2>3, <2>4 DEF PageFault, Interrupt, BlamedRightly
    <2>5. CASE AccessViolation
      <3>1. frame[tag][p] # NoFrame /\ cause' = "ACCESS" /\ realProt[tag][p] = virtProt[tag][p]
        BY <2>3, <2>5 DEF AccessViolation, Interrupt, Protections
      <3> QED
        BY <2>3, <3>1 DEF BlamedRightly
    <2> QED
      BY <2>2, <2>4, <2>5
  <1>2. HostInv /\ [Next \/ Ended]_vars => [Blamed => BlamedRightly(HwPage(acc.addr))]_vars
    <2>1. ASSUME Ended, Blamed, HostInv
          PROVE  UNCHANGED vars
      BY <2>1 DEF Ended
    <2> QED
      BY <1>1, <2>1
  <1> QED
    BY <1>2, HostInvariant, PTL DEF Spec, CausesAreTrue

(* A dirty bit the MMU sets is for a store to a page of that frame, if no  *)
(* access just below the region is taken for one to page 0.                *)
THEOREM DirtyForStores == NoneJustBelow => (Spec => DirtyOnlyByStore)
  <1> SUFFICES ASSUME NoneJustBelow
               PROVE  Spec => DirtyOnlyByStore
    OBVIOUS
  <1> DEFINE Marked(f) == "DIRTY" \in access'[f] \ access[f] /\ MmuHandler
             Right(f) == acc.kind = "store" /\ f = frame[tag][HwPage(acc.addr)]
  <1>1. ASSUME HostInv, NEW f \in Frames, Marked(f)
        PROVE  Right(f)
    <2>1. SetReferenced \/ SetDirty
      BY <1>1 DEF MmuHandler, RealSegv, PageFault, AccessViolation, Interrupt, InternalError
    <2>2. /\ access \in [Frames -> SUBSET Bits]
          /\ frame \in [Tags -> [Pages -> Frames \cup {NoFrame}]]
          /\ Pending /\ FaultPage \in Pages
      BY <1>1, <2>1 DEF HostInv, TypeButCount, SetReferenced, SetDirty, Faulting, InRegion
    <2> DEFINE p == HwPage(acc.addr)
    <2>3. p \in Pages
      BY <1>1, <2>2, FaultFacts DEF NoneJustBelow, FaultPage
    <2>4. /\ FaultPage = p /\ frame[tag][p] \in Frames /\ tag \in Tags /\ acc.kind \in Kinds
          /\ ~Allows(hwProt[p], acc.kind) /\ hwProt[p] = realProt[tag][p]
      <3>1. FaultPage = p /\ tag \in Tags
        BY <1>1, <2>2, <2>3, FaultFacts
      <3>2. frame[tag][p] # NoFrame /\ ~HwAllows(acc.addr, acc.kind)
        BY <2>1, <3>1 DEF SetReferenced, SetDirty, Faulting
      <3> QED
        BY <1>1, <2>2, <2>3, <3>1, <3>2, FaultFacts
    <2>5. ~SetReferenced
      BY <1>1, <2>2, <2>4 DEF SetReferenced, Widen
    <2>6. SetDirty
      BY <2>1, <2>5
    <2>7. f = frame[tag][p]
      BY <1>1, <2>2, <2>4, <2>6 DEF SetDirty, Widen
    <2>8. realProt[tag][p] = READ
      BY <2>4, <2>6 DEF SetDirty, Protections
    <2>9. acc.kind # "load"
      BY <2>4, <2>8, ProtsDiffer DEF Allows
    <2> QED
      BY <2>4, <2>7, <2>9 DEF Kinds
  <1>2. HostInv /\ [Next \/ Ended]_vars => [\A f \in Frames : Marked(f) => Right(f)]_vars
    BY <1>1
  <1> QED
    BY <1>2, HostInvariant, PTL DEF Spec, DirtyOnlyByStore

============================================================================
