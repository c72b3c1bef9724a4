------------------------------- MODULE MCMmu -------------------------------
(***************************************************************************)
(* Instances of the MMU for TLC.  Two pages of two bytes: the offsets 0    *)
(* and 2 are in the pages, 4 is past the last one, -2 is the first byte of *)
(* the page before the first, and -1 the last byte of that page.           *)
(***************************************************************************)
EXTENDS MmuRefines

Within       == {0, 2}
AroundRegion == {-2, -1, 0, 2, 4}

TlbOnly   == {"TLB"}
BothModes == {"TLB", "PAGETABLE"}

AnyProt  == 0 .. 3
AnyBits  == SUBSET Bits
ClearOrRef == {{}, {"REF"}}
Accessible == {READ, RW}
ThreeProts == {NONE, READ, RW}

NoTables == {}
Out           == [incore |-> FALSE, read |-> FALSE, write |-> FALSE, frame |-> 0]
In(r, w, f)   == [incore |-> TRUE, read |-> r, write |-> w, frame |-> f]

(* The last table names a frame that does not exist.                       *)
Last     == NumFrames - 1
NamedPTE == [pt \in {"full", "split", "writeonly", "badframe"} |->
    CASE pt = "full"      -> [p \in 0 .. 1 |-> In(TRUE, TRUE, IF p = 0 THEN Last ELSE 0)]
      [] pt = "split"     -> [p \in 0 .. 1 |-> IF p = 0 THEN Out
                                               ELSE In(TRUE, FALSE, Last)]
      [] pt = "writeonly" -> [p \in 0 .. 1 |-> IF p = 0 THEN In(TRUE, FALSE, 0)
                                               ELSE In(FALSE, TRUE, Last)]
      [] pt = "badframe"  -> [p \in 0 .. 1 |-> IF p = 0 THEN In(FALSE, FALSE, 0)
                                               ELSE In(TRUE, TRUE, NumFrames)]]
AllTables == DOMAIN NamedPTE
AccessibleTables == {"full", "split", "writeonly"}
JustTwo == {2}
============================================================================
