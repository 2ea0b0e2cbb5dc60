--------------------------- MODULE MemoryMapProofs ---------------------------
(* What readers and writers of the memory map may rely on, for every list   *)
(* of regions, and what the list GameBoy builds comes to.                   *)
EXTENDS MemoryMap, TLAPS

-----------------------------------------------------------------------------
(* Bytes. *)

LEMMA BitValueCases ==
  /\ BitValue[0] = 1  /\ BitValue[1] = 2  /\ BitValue[2] = 4  /\ BitValue[3] = 8
  /\ BitValue[4] = 16 /\ BitValue[5] = 32 /\ BitValue[6] = 64 /\ BitValue[7] = 128
BY DEF BitValue

\* Setting or clearing a bit gives a byte.
LEMMA SetClearType ==
  ASSUME NEW b \in Byte, NEW i \in 0 .. 7
  PROVE  SetBit(b, i) \in Byte /\ ClearBit(b, i) \in Byte
<1> DEFINE W == BitValue[i]
<1>1. W \in Nat /\ \/ W = 1  \/ W = 2  \/ W = 4  \/ W = 8
                   \/ W = 16 \/ W = 32 \/ W = 64 \/ W = 128
  BY BitValueCases
<1>2. Bit(b, i) <=> (b \div W) % 2 = 1
  BY DEF Bit
<1> HIDE DEF W
<1>3. (b \div W) % 2 = 0 => b + W < 256
  BY <1>1 DEF Byte
<1>4. (b \div W) % 2 = 1 => b >= W
  BY <1>1 DEF Byte
<1>5. (b \div W) % 2 \in {0, 1}
  BY <1>1 DEF Byte
<1> QED
  BY <1>1, <1>2, <1>3, <1>4, <1>5 DEF SetBit, ClearBit, Byte, W

\* Adding a weight V to a byte without that bit sets the bit and no other.
LEMMA OneBit ==
  ASSUME NEW b \in Byte, NEW V \in {1, 2, 4, 8, 16, 32, 64, 128},
         NEW W \in {1, 2, 4, 8, 16, 32, 64, 128}, (b \div V) % 2 = 0
  PROVE  ((b + V) \div W) % 2 = IF V = W THEN 1 ELSE (b \div W) % 2
<1>1. b \in Nat /\ b < 256
  BY DEF Byte
<1>2. CASE V = 1
  BY <1>1, <1>2
<1>3. CASE V = 2
  BY <1>1, <1>3
<1>4. CASE V = 4
  BY <1>1, <1>4
<1>5. CASE V = 8
  BY <1>1, <1>5
<1>6. CASE V = 16
  BY <1>1, <1>6
<1>7. CASE V = 32
  BY <1>1, <1>7
<1>8. CASE V = 64
  BY <1>1, <1>8
<1>9. CASE V = 128
  BY <1>1, <1>9
<1> QED
  BY <1>2, <1>3, <1>4, <1>5, <1>6, <1>7, <1>8, <1>9

\* Subtracting a weight from a byte with that bit clears it.
LEMMA WithoutBit ==
  ASSUME NEW b \in Byte, NEW V \in {1, 2, 4, 8, 16, 32, 64, 128},
         (b \div V) % 2 = 1
  PROVE  ((b - V) \div V) % 2 = 0
<1>1. b \in Nat /\ b < 256
  BY DEF Byte
<1>2. CASE V \in {1, 2, 4, 8}
  BY <1>1, <1>2
<1>3. CASE V \in {16, 32, 64, 128}
  BY <1>1, <1>3
<1> QED
  BY <1>2, <1>3

LEMMA BitValueType ==
  /\ \A i \in 0 .. 7 : BitValue[i] \in {1, 2, 4, 8, 16, 32, 64, 128}
  /\ \A i, j \in 0 .. 7 : BitValue[i] = BitValue[j] => i = j
BY BitValueCases

\* As a set of bits, setting a bit adds it.
LEMMA BitsOfSet ==
  ASSUME NEW b \in Byte, NEW i \in 0 .. 7
  PROVE  Bits(SetBit(b, i)) = Bits(b) \cup {i}
<1>1. CASE Bit(b, i)
  BY <1>1 DEF SetBit, Bits
<1>2. CASE ~Bit(b, i)
  <2>1. (b \div BitValue[i]) % 2 = 0
    BY <1>2, BitValueType DEF Bit, Byte
  <2>2. ASSUME NEW j \in 0 .. 7
        PROVE  Bit(b + BitValue[i], j) <=> j = i \/ Bit(b, j)
    <3>1. ((b + BitValue[i]) \div BitValue[j]) % 2
            = IF BitValue[i] = BitValue[j] THEN 1 ELSE (b \div BitValue[j]) % 2
      BY <2>1, BitValueType, OneBit
    <3> QED
      BY <3>1, BitValueType DEF Bit
  <2> QED
    BY <1>2, <2>2 DEF SetBit, Bits
<1> QED
  BY <1>1, <1>2

\* As a set of bits, clearing a bit removes it.
LEMMA BitsOfClear ==
  ASSUME NEW b \in Byte, NEW i \in 0 .. 7
  PROVE  Bits(ClearBit(b, i)) = Bits(b) \ {i}
<1>1. CASE ~Bit(b, i)
  BY <1>1 DEF ClearBit, Bits
<1>2. CASE Bit(b, i)
  <2> DEFINE c == b - BitValue[i]
  <2>1. c \in Byte
    BY <1>2, SetClearType DEF ClearBit
  <2>2. (c \div BitValue[i]) % 2 = 0
    <3>1. (b \div BitValue[i]) % 2 = 1
      BY <1>2 DEF Bit
    <3> QED
      BY <3>1, BitValueType, WithoutBit
  <2>3. ASSUME NEW j \in 0 .. 7
        PROVE  Bit(b, j) <=> j = i \/ Bit(c, j)
    <3>1. ((c + BitValue[i]) \div BitValue[j]) % 2
            = IF BitValue[i] = BitValue[j] THEN 1 ELSE (c \div BitValue[j]) % 2
      BY <2>1, <2>2, BitValueType, OneBit
    <3>2. c + BitValue[i] = b
      BY BitValueType DEF Byte
    <3> QED
      BY <3>1, <3>2, BitValueType DEF Bit
  <2>4. ~Bit(c, i)
    BY <2>2 DEF Bit
  <2> QED
    BY <1>2, <2>3, <2>4 DEF ClearBit, Bits
<1> QED
  BY <1>1, <1>2

-----------------------------------------------------------------------------
(* Reading and writing. *)

\* A read is a byte, whoever handles the address and even if nobody does.
LEMMA ReadType ==
  ASSUME NEW m, IsMemory(m), NEW a \in Word
  PROVE  Read(m, a) \in Byte
BY DEF Read, IsMemory, Byte, OpenBus

\* Writing a byte anywhere leaves a memory.
LEMMA WriteType ==
  ASSUME NEW m, IsMemory(m), NEW a \in Word, NEW v \in Byte
  PROVE  IsMemory(Write(m, a, v))
BY DEF Write, IsMemory

\* A RAM cell holds what was last written to it.
LEMMA ReadWritten ==
  ASSUME NEW m, NEW a, NEW v, InRam(a)
  PROVE  Read(Write(m, a, v), a) = v
BY DEF Read, Write

\* A write changes no other address: no two regions share a cell.
LEMMA ReadOther ==
  ASSUME NEW m, NEW a, NEW v, NEW b, a # b
  PROVE  Read(Write(m, a, v), b) = Read(m, b)
BY DEF Read, Write

\* A write outside RAM has no effect at all.
LEMMA WriteLost ==
  ASSUME NEW m, NEW a, NEW v, ~InRam(a)
  PROVE  Write(m, a, v) = m
BY DEF Write

\* On flat memory every address is a RAM cell.
THEOREM FlatIsRam ==
  ASSUME Regions = FlatRegions, NEW a \in Word
  PROVE  InRam(a)
<1>1. Len(Regions) = 1 /\ 1 \in 1 .. Len(Regions)
  BY DEF FlatRegions
<1>2. /\ Regions[1].start = 0 /\ Regions[1].end = 65535
      /\ Regions[1].kind = "RAM" /\ Regions[1].size = 65536
  BY DEF FlatRegions
<1>3. Contains(Regions[1], a)
  BY <1>2 DEF Contains, Word
<1>4. Handles(1, a)
  BY <1>1, <1>3 DEF Handles
<1> QED
  BY <1>1, <1>2, <1>4 DEF InRam, Word

\* In the map GameBoy builds no address is a RAM cell: every RAM is mapped
\* above its own size, and handlers get the absolute address.
THEOREM GameBoyHasNoRam ==
  ASSUME Regions = GameBoyRegions, NEW a \in Word
  PROVE  ~InRam(a)
<1>1. Len(Regions) = 8
  BY DEF GameBoyRegions
<1>2. SUFFICES ASSUME NEW i \in 1 .. 8, Contains(Regions[i], a),
                      Regions[i].kind = "RAM", a < Regions[i].size
               PROVE  FALSE
  BY <1>1 DEF InRam, Handles
<1>3. Regions[i].start <= a
  BY <1>2 DEF Contains
<1>4. /\ Regions[i].start \in Int /\ Regions[i].size \in Int
      /\ Regions[i].size <= Regions[i].start
  BY <1>2 DEF GameBoyRegions
<1>5. a \in Int
  BY DEF Word
<1> QED
  BY <1>2, <1>3, <1>4, <1>5

\* So the GameBoy reads open bus from every address above the cartridge and
\* every write, to work RAM, stack, timer or interrupt registers, is lost.
THEOREM GameBoyOpenBus ==
  ASSUME Regions = GameBoyRegions, NEW a \in Word, NEW v, NEW m
  PROVE  /\ a >= 32768 => Read(m, a) = OpenBus
         /\ Write(m, a, v) = m
<1>1. ~InRam(a)
  BY GameBoyHasNoRam
<1>2. ASSUME a >= 32768 PROVE ~InRom(a)
  <2>1. Len(Regions) = 8
    BY DEF GameBoyRegions
  <2>2. SUFFICES ASSUME NEW i \in 1 .. 8, Contains(Regions[i], a),
                        Regions[i].kind = "ROM"
                 PROVE  FALSE
    BY <2>1 DEF InRom, Handles
  <2>3. a <= Regions[i].end
    BY <2>2 DEF Contains
  <2>4. Regions[i].end \in Int /\ Regions[i].end <= 32767
    BY <2>2 DEF GameBoyRegions
  <2>5. a \in Int
    BY DEF Word
  <2> QED
    BY <1>2, <2>3, <2>4, <2>5
<1> QED
  BY <1>1, <1>2, WriteLost DEF Read
=============================================================================
