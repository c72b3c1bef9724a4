---------------------------- MODULE AbstractMmu ----------------------------
(***************************************************************************)
(* The MMU that USLOSS promises to the operating system: what mmu.c would  *)
(* be on a machine that had one.  A mapping gives a page of a tag a frame  *)
(* and a protection.  A load or a store completes only through a mapping   *)
(* of the current tag whose protection permits it, and only when the bits  *)
(* of the frame say so; an access that no mapping permits raises the       *)
(* interrupt, with the cause that fits.  There are no real protections and *)
(* no host here.                                                           *)
(***************************************************************************)
EXTENDS Integers

CONSTANTS NumPages, NumFrames, NumTags, PageSize, Addrs, Prots

VARIABLES
    on,           \* the MMU has been started
    tag,          \* the current tag
    map,          \* map[t][p], a mapping or NoMapping
    bits,         \* the reference and dirty bits of each frame
    acc,          \* the load or store being executed
    inHandler,    \* the operating system's handler is running
    cause,        \* why it was last called
    fate          \* "running", or how the simulator ended

vars == <<on, tag, map, bits, acc, inHandler, cause, fate>>

Pages  == 0 .. NumPages - 1
Frames == 0 .. NumFrames - 1
Tags   == 0 .. NumTags - 1
Bits   == {"REF", "DIRTY"}
Kinds  == {"load", "store"}

NONE == 0
READ == 1
RW   == 3

NoMapping == [frame |-> -1, prot |-> NONE]
Mappings  == [frame : Frames, prot : Prots]
NoAccess  == [kind |-> "none", addr |-> 0]
Completed == [kind |-> "completed", addr |-> 0]
Idle      == {NoAccess, Completed}

Unmapped == [t \in Tags |-> [p \in Pages |-> NoMapping]]
NoBits   == [f \in Frames |-> {}]

Init ==
    /\ on = FALSE
    /\ tag = 0
    /\ map = Unmapped
    /\ bits = NoBits
    /\ acc = NoAccess
    /\ inHandler = FALSE
    /\ cause = "NONE"
    /\ fate = "running"

----------------------------------------------------------------------------
(* The operating system.                                                   *)

Restart(state) ==
    /\ UNCHANGED <<acc, inHandler, fate>>
    /\ on' = state
    /\ tag' = 0
    /\ map' = Unmapped
    /\ bits' = NoBits
    /\ cause' = "NONE"

Map(t, p) ==
    /\ UNCHANGED <<on, tag, bits, acc, inHandler, cause, fate>>
    /\ on
    /\ map[t][p] = NoMapping
    /\ map'[t][p] \in Mappings
    /\ map' = [map EXCEPT ![t][p] = map'[t][p]]

Unmap(t, p) ==
    /\ UNCHANGED <<on, tag, bits, acc, inHandler, cause, fate>>
    /\ on
    /\ map' = [map EXCEPT ![t][p] = NoMapping]

SwitchTag(t) ==
    /\ UNCHANGED <<on, map, bits, acc, inHandler, cause, fate>>
    /\ on
    /\ tag' = t

SetBits(f, b) ==
    /\ UNCHANGED <<on, tag, map, acc, inHandler, cause, fate>>
    /\ on
    /\ bits' = [bits EXCEPT ![f] = b]

(* A page table replaces every mapping of tag 0; a switch of context also  *)
(* gives up the instruction being executed, and traps on a bad table.      *)
Tabled(m) == m \in [Pages -> Mappings \cup {NoMapping}]

SetTable ==
    /\ UNCHANGED <<on, tag, bits, acc, inHandler, cause, fate>>
    /\ on
    /\ Tabled(map'[0])
    /\ map' = [map EXCEPT ![0] = map'[0]]

Switch ==
    /\ UNCHANGED <<on, tag, bits, cause>>
    /\ acc' = NoAccess
    /\ inHandler' = FALSE
    /\ \/ UNCHANGED <<map, fate>>
       \/ /\ on
          /\ Tabled(map'[0])
          /\ map' = [map EXCEPT ![0] = map'[0]]
          /\ fate' \in {fate, "trap"}

Return ==
    /\ UNCHANGED <<on, tag, map, bits, acc, cause, fate>>
    /\ inHandler
    /\ inHandler' = FALSE

----------------------------------------------------------------------------
(* Loads and stores.                                                       *)

Start(kind, addr) ==
    /\ UNCHANGED <<on, tag, map, bits, inHandler, cause, fate>>
    /\ acc \in Idle /\ ~inHandler
    /\ acc' = [kind |-> kind, addr |-> addr]

Page    == acc.addr \div PageSize
Pending == acc \notin Idle /\ ~inHandler
Here    == map[tag][Page]

Permits(prot, kind) == prot = RW \/ (prot = READ /\ kind = "load")
Permitted == Pending /\ on /\ Page \in Pages /\ Permits(Here.prot, acc.kind)

Complete ==
    /\ UNCHANGED <<on, tag, map, bits, inHandler, cause, fate>>
    /\ Permitted
    /\ "REF" \in bits[Here.frame]
    /\ acc.kind = "store" => "DIRTY" \in bits[Here.frame]
    /\ acc' = Completed

(* The reference bit is set by any access to a page that can be loaded,    *)
(* the dirty bit only by a store the page permits.                         *)
Mark(bit) ==
    /\ UNCHANGED <<on, tag, map, acc, inHandler, cause, fate>>
    /\ Pending /\ on /\ Page \in Pages
    /\ Here # NoMapping
    /\ IF bit = "DIRTY" THEN acc.kind = "store" /\ Here.prot = RW
                        ELSE Here.prot # NONE
    /\ bits' = [bits EXCEPT ![Here.frame] = @ \cup {bit}]

Interrupt ==
    /\ UNCHANGED <<on, tag, map, bits, acc>>
    /\ Pending /\ on /\ Page \in Pages
    /\ ~Permits(Here.prot, acc.kind)
    /\ cause' = IF Here = NoMapping THEN "FAULT" ELSE "ACCESS"
    /\ \/ inHandler' = TRUE /\ fate' = fate
       \/ inHandler' = FALSE /\ fate' = "trap"

Crash ==
    /\ UNCHANGED <<on, tag, map, bits, acc, inHandler, cause>>
    /\ Pending
    /\ ~on \/ Page \notin Pages
    /\ fate' = "segv"

Next ==
    /\ fate = "running"
    /\ \/ \E state \in BOOLEAN : Restart(state)
       \/ \E t \in Tags, p \in Pages : Map(t, p) \/ Unmap(t, p)
       \/ \E t \in Tags : SwitchTag(t)
       \/ \E f \in Frames, b \in SUBSET Bits : SetBits(f, b)
       \/ SetTable \/ Switch \/ Return
       \/ \E kind \in Kinds, addr \in Addrs : Start(kind, addr)
       \/ Complete
       \/ \E bit \in Bits : Mark(bit)
       \/ Interrupt \/ Crash

Spec == Init /\ [][Next]_vars

============================================================================
