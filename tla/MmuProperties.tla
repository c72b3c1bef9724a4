--------------------------- MODULE MmuProperties ---------------------------
(***************************************************************************)
(* What is claimed of the MMU, of any operating system that runs on it and *)
(* of a disciplined one.                                                   *)
(***************************************************************************)
EXTENDS Mmu

(* The type of every variable.                                             *)
TypeOK ==
    /\ on \in BOOLEAN
    /\ mode \in {"TLB", "PAGETABLE"}
    /\ maxMaps \in Nat
    /\ numMaps \in Nat
    /\ cause \in {"NONE", "FAULT", "ACCESS"}
    /\ tag \in Tags
    /\ pageTable \in Tables \cup {Null, Garbage}
    /\ frame \in [Tags -> [Pages -> Frames \cup {NoFrame}]]
    /\ virtProt \in [Tags -> [Pages -> 0 .. RW]]
    /\ realProt \in [Tags -> [Pages -> {NONE, READ, RW}]]
    /\ access \in [Frames -> SUBSET Bits]
    /\ hwFrame \in [Pages -> Frames \cup {NoFrame}]
    /\ hwProt \in [Pages -> {NONE, READ, RW}]
    /\ acc \in [kind : Kinds, addr : Addrs] \cup Nothing
    /\ inHandler \in BOOLEAN
    /\ intVec \in BOOLEAN
    /\ fate \in {"running", "segv", "trap", "abort"}

----------------------------------------------------------------------------
(* Whatever the operating system does.                                     *)

(* numMaps counts the mappings of all tags, and a TLB never holds more     *)
(* than the numMaps it was started with: no sequence of maps, unmaps,      *)
(* page-table loads that fail half-way, and restarts makes it drift.       *)
MapCount ==
    /\ numMaps = Cardinality(AllMapped)
    /\ on => numMaps <= maxMaps

(* The host's page table is what the emulated tables say.  A page mapped   *)
(* under the current tag is backed by its frame with its real protection;  *)
(* every other page is inaccessible, whatever frame the host still has     *)
(* behind it from another tag.  This is what the code samples with its     *)
(* assertions that unmapped pages cannot be touched.                       *)
HostFollowsTables ==
    \A p \in Pages :
        IF frame[tag][p] = NoFrame
        THEN hwProt[p] = NONE
        ELSE hwProt[p] = realProt[tag][p] /\ hwFrame[p] = frame[tag][p]

(* A tag that is not current has no page open.  SetTag needs it: it maps   *)
(* the new tag's pages inaccessible without assigning their realProt, and  *)
(* SetAccess looks only at the pages of the current tag.                   *)
OtherTagsClosed ==
    \A t \in Tags \ {tag} : \A p \in Pages : realProt[t][p] = NONE

(* A frame whose page is open for loads has its reference bit set, and one *)
(* whose page is open for stores has its dirty bit set, so that no use of  *)
(* a frame after the bits were cleared goes unrecorded, also when two      *)
(* pages share the frame.                                                  *)
UsesAreRecorded ==
    \A p \in Pages : frame[tag][p] # NoFrame =>
        /\ Allows(realProt[tag][p], "load") => "REF" \in access[frame[tag][p]]
        /\ Allows(realProt[tag][p], "store") => "DIRTY" \in access[frame[tag][p]]

BlamedRightly(p) ==
    IF frame[tag][p] = NoFrame THEN cause' = "FAULT"
    ELSE cause' = "ACCESS" /\ ~Allows(virtProt[tag][p], acc.kind)

(* The interrupt tells the truth: the cause is USLOSS_MMU_FAULT when the   *)
(* page is not mapped, and USLOSS_MMU_ACCESS only when its mapping forbids *)
(* the very load or store, which the handler concludes from its two        *)
(* protections without knowing what the instruction was.  A page left less *)
(* open in the host than in the tables would blame a legal access.         *)
CausesAreTrue ==
    [][MmuHandler /\ (inHandler' \/ fate' = "trap") /\ HwPage(acc.addr) \in Pages =>
         BlamedRightly(HwPage(acc.addr))]_vars

(* In page-table mode every mapping is an entry of the table last passed   *)
(* to USLOSS_MmuSetPageTable, also when that call failed half-way; and a   *)
(* table can only be refused for what is wrong in it, never because of     *)
(* mappings an earlier table left behind.                                  *)
PageTableInForce ==
    on /\ mode = "PAGETABLE" =>
        /\ \A tp \in AllMapped :
              LET p == tp[2] IN
              /\ tp[1] = 0
              /\ pageTable \in Tables
              /\ PTE[pageTable][p].incore
              /\ frame[0][p] = PTE[pageTable][p].frame
              /\ virtProt[0][p] = PteProt(PTE[pageTable][p])
        /\ \A pt \in Tables :
              SetPageTableStatus(pt) \in {"OK", "ERR_PROT", "ERR_FRAME"}

----------------------------------------------------------------------------
(* Processes make no access to the last page below the region, which       *)
(* PageIndex takes for one to page 0.                                      *)
NoneJustBelow == \A a \in Addrs : PageIndex(a) \in Pages => HwPage(a) \in Pages

(* A disciplined operating system keeps clear of the two cases in which    *)
(* the emulation goes wrong: it maps pages with the three protections of   *)
(* usloss.h only, and it does not set the reference bit alone, with        *)
(* USLOSS_MmuSetAccess, when it also has inaccessible mappings.            *)
Disciplined ==
    /\ Prots \subseteq {NONE, READ, RW}
    /\ {"REF"} \in AccessArgs =>
          /\ NONE \notin Prots
          /\ \A pt \in Tables : \A p \in Pages :
                PTE[pt][p].incore /\ ~PTE[pt][p].write => PTE[pt][p].read

(* The host lets a load or a store through only at a page that is mapped   *)
(* under the current tag with a protection that permits it.                *)
ProtectionEnforced ==
    \A p \in Pages, k \in Kinds :
        Allows(hwProt[p], k) => /\ frame[tag][p] # NoFrame
                                /\ Allows(virtProt[tag][p], k)

(* The three combinations of protections that "can't happen" do not, and   *)
(* no assertion of mmu.c fails.                                            *)
NeverAborts == fate # "abort"

(* A frame's dirty bit, when the MMU sets it, is set for a store to a page *)
(* of that frame: a load never makes a frame dirty, whatever protections   *)
(* switches of tag and cleared bits have left behind (USLOSS_MmuHandler    *)
(* never looks at the kind of the access).                                 *)
DirtyOnlyByStore ==
    [][\A f \in Frames : "DIRTY" \in access'[f] \ access[f] /\ MmuHandler =>
          acc.kind = "store" /\ f = frame[tag][HwPage(acc.addr)]]_vars

(* A faulting instruction is not retried for ever: it completes, or raises *)
(* the interrupt, or ends the simulator, as long as the operating system   *)
(* does not keep changing the MMU under it.                                *)
AccessResolved ==
    <>[][~OsCall]_vars =>
        [](acc \notin Nothing => <>(acc \in Nothing \/ inHandler \/ ~Running))

============================================================================
