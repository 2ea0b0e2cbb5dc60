----------------------------- MODULE MemoryMap -----------------------------
(***************************************************************************)
(* The address space: memory/memory_map.hpp with the handlers it           *)
(* dispatches to, memory/ram.hpp and cartridge/rom.hpp.                    *)
(*                                                                         *)
(* A memory map is a sequence of regions; the first region that contains   *)
(* an address handles it.  A handler is called with the ABSOLUTE address,  *)
(* so a RAM<Size> answers only below Size wherever it is mapped.  The      *)
(* contents of all handlers are one sparse function m: the bytes written   *)
(* to RAM so far and the bytes of the loaded ROM, by absolute address.     *)
(***************************************************************************)
EXTENDS Bytes, Sequences

CONSTANT Regions   \* the sequence regions_, as add_region built it

RegionType == [start : Word, end : Word, kind : {"RAM", "ROM"}, size : Nat]

ASSUME RegionsAssumption == Regions \in Seq(RegionType)

OpenBus == 255     \* what is read where no handler answers: 0xFF

Contains(r, a) == r.start <= a /\ a <= r.end

\* Region i is the one find_if returns for address a.
Handles(i, a) ==
  /\ Contains(Regions[i], a)
  /\ \A j \in 1 .. Len(Regions) : j < i => ~Contains(Regions[j], a)

\* a is a cell of the RAM mapped there: offset < Size, the offset being a.
InRam(a) ==
  \E i \in 1 .. Len(Regions) :
    Handles(i, a) /\ Regions[i].kind = "RAM" /\ a < Regions[i].size

InRom(a) == \E i \in 1 .. Len(Regions) : Handles(i, a) /\ Regions[i].kind = "ROM"

IsMemory(m) == DOMAIN m \subseteq Word /\ m \in [DOMAIN m -> Byte]

\* A RAM is zero-filled by its constructor; a ROM holds what was loaded.
Read(m, a) ==
  IF (InRam(a) \/ InRom(a)) /\ a \in DOMAIN m THEN m[a]
  ELSE IF InRam(a) THEN 0
  ELSE OpenBus

\* Writes to ROM, to unmapped addresses and past the end of a RAM vanish.
Write(m, a, v) ==
  IF InRam(a) THEN [x \in DOMAIN m \cup {a} |-> IF x = a THEN v ELSE m[x]]
  ELSE m

NoMemory == [a \in {} |-> 0]   \* nothing written, nothing loaded

\* The flat 64 KiB memory the unit tests run the components on.
FlatRegions == << [start |-> 0, end |-> 65535, kind |-> "RAM", size |-> 65536] >>

\* The map GameBoy::initialize_memory_map builds.
GameBoyRegions ==
  << [start |-> 0,       end |-> \h7FFF, kind |-> "ROM", size |-> 0],
     [start |-> \h8000,  end |-> \h9FFF, kind |-> "RAM", size |-> \h8000],
     [start |-> \hA000,  end |-> \hBFFF, kind |-> "RAM", size |-> \h2000],
     [start |-> \hC000,  end |-> \hDFFF, kind |-> "RAM", size |-> \h2000],
     [start |-> \hE000,  end |-> \hFDFF, kind |-> "RAM", size |-> \h2000],
     [start |-> \hFE00,  end |-> \hFE9F, kind |-> "RAM", size |-> \hA0],
     [start |-> \hFF00,  end |-> \hFF7F, kind |-> "RAM", size |-> \h7F],
     [start |-> \hFF80,  end |-> \hFFFF, kind |-> "RAM", size |-> \h80] >>
=============================================================================
