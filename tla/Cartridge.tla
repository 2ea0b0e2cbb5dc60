----------------------------- MODULE Cartridge -----------------------------
(***************************************************************************)
(* The cartridge (cartridge/rom.hpp, cartridge/cartridge_header.hpp): a    *)
(* ROM filled from a file, and the header copied out of it.                *)
(*                                                                         *)
(* A file or a ROM lists only its bytes that are not 0xFF, by offset, and  *)
(* only those the memory map can show.  Of the header's 0x50 bytes the     *)
(* first 0x34 (entry point and logo) are left out: no accessor reads them. *)
(***************************************************************************)
EXTENDS Bytes

(***************************************************************************)
(* What load_from_file may meet: no file; one that opens and has no usable *)
(* size (a directory: tellg gives -1 or 2^63 - 1); one that opens and      *)
(* cannot be read to the end; a sound one.                                 *)
(***************************************************************************)
FileKinds == {"absent", "unsized", "broken", "sound"}

NoBytes == [offset \in {} |-> 255]

IsSparse(bytes, size) ==
  /\ DOMAIN bytes \subseteq {n \in Nat : n < size}
  /\ bytes \in [DOMAIN bytes -> Byte]

IsFile(file) ==
  file.kind \in FileKinds /\ file.size \in Nat /\ IsSparse(file.bytes, file.size)

\* data_[offset], for an offset below the size.
At(bytes, offset) == IF offset \in DOMAIN bytes THEN bytes[offset] ELSE 255

-----------------------------------------------------------------------------
(* The header. *)

HeaderOffsets == \h34 .. \h4F      \* the title to the global checksum
HeaderEnd == \h150                 \* the size of a ROM that has a whole header

NoHeader == [i \in HeaderOffsets |-> 0]

parse_data(bytes) == [i \in HeaderOffsets |-> At(bytes, \h100 + i)]

\* The bytes before the first zero, sixteen at most.
TitleLength(header) ==
  CHOOSE n \in 0 .. 16 :
    /\ n = 16 \/ header[\h34 + n] = 0
    /\ \A i \in 0 .. n - 1 : header[\h34 + i] # 0
get_title(header) == [i \in 1 .. TitleLength(header) |-> header[\h33 + i]]

get_cartridge_type(header) == header[\h47]
get_rom_size(header) == header[\h48]
get_ram_size(header) == header[\h49]

\* 16 KB banks, by the ROM's size code.
RomBanks ==
  [code \in 0 .. 8 |->
     CASE code = 0 -> 2 [] code = 1 -> 4 [] code = 2 -> 8 [] code = 3 -> 16
       [] code = 4 -> 32 [] code = 5 -> 64 [] code = 6 -> 128 [] code = 7 -> 256
       [] OTHER -> 512]

\* Fault: the row of the largest ROM is missing.
get_rom_banks_short(header) ==
  IF get_rom_size(header) \in 0 .. 7 THEN RomBanks[get_rom_size(header)] ELSE 2

get_rom_banks(header) ==
  IF get_rom_size(header) \in 0 .. 8 THEN RomBanks[get_rom_size(header)] ELSE 2

RamBanks == [code \in 0 .. 5 |-> CASE code = 0 -> 0 [] code \in {1, 2} -> 1
                                   [] code = 3 -> 4 [] code = 4 -> 16 [] OTHER -> 8]
get_ram_banks(header) ==
  IF get_ram_size(header) \in 0 .. 5 THEN RamBanks[get_ram_size(header)] ELSE 0

is_japanese(header) == header[\h4A] = 0
get_global_checksum(header) == Pair(header[\h4E], header[\h4F])

\* Fault: the sum stops before the last byte.
ChecksumShort(header) ==
  LET sum[i \in \h33 .. \h4B] ==
        IF i = \h33 THEN 0 ELSE AsByte(sum[i - 1] - header[i] - 1)
  IN  sum[\h4B]

\* checksum - header[i] - 1, over the title to the version.
Checksum(header) ==
  LET sum[i \in \h33 .. \h4C] ==
        IF i = \h33 THEN 0 ELSE AsByte(sum[i - 1] - header[i] - 1)
  IN  sum[\h4C]

validate_header_checksum(header) == Checksum(header) = header[\h4D]

-----------------------------------------------------------------------------
(* The ROM. *)

NewRom == [size |-> 0, bytes |-> NoBytes, header |-> NoHeader]

IsRom(rom) ==
  /\ rom.size \in Nat /\ IsSparse(rom.bytes, rom.size)
  /\ rom.header \in [HeaderOffsets -> Byte]

\* Fault: a ROM of exactly the header's end is taken to be without one.
ParsesLonger(file) == file.size > HeaderEnd

\* A short file has no header; the ROM keeps the one it had.
Parses(file) == file.size >= HeaderEnd

Filled(rom, file) ==
  [size |-> file.size, bytes |-> file.bytes,
   header |-> IF Parses(file) THEN parse_data(file.bytes) ELSE rom.header]

Emptied(rom) == [size |-> 0, bytes |-> NoBytes, header |-> rom.header]

\* The size is used before it is checked: data_.resize throws on this one.
Throws(file) == file.kind = "unsized"

\* What a load answers, and the ROM it leaves.
Succeeds(file) == file.kind = "sound"
load_from_file(rom, file) ==
  CASE file.kind = "sound" -> Filled(rom, file)
    [] file.kind = "broken" -> Emptied(rom)
    [] OTHER -> rom

from_file(file) == load_from_file(NewRom, file)
=============================================================================
