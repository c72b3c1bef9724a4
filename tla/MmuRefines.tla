----------------------------- MODULE MmuRefines -----------------------------
(***************************************************************************)
(* Under a disciplined operating system the emulation implements the       *)
(* abstract MMU: the real protections, the host's page table, the count of *)
(* mappings and the mode are hidden.                                       *)
(***************************************************************************)
EXTENDS MmuProperties

mapping == [t \in Tags |-> [p \in Pages |->
                [frame |-> frame[t][p], prot |-> virtProt[t][p]]]]

Abs == INSTANCE AbstractMmu WITH
          map <- mapping, bits <- access, Prots <- {NONE, READ, RW}

(* Every behaviour of mmu.c is one of the MMU it emulates: a load or a     *)
(* store completes only through a mapping of the current tag that permits  *)
(* it and after its bits are recorded, and the interrupt comes only for an *)
(* access that is not permitted, with the right cause.                     *)
ImplementsAbstractMmu == Abs!Spec

============================================================================
