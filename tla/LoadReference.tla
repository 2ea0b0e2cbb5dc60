---------------------------- MODULE LoadReference ----------------------------
(***************************************************************************)
(* What the load instructions should do, decoded from the bit fields of    *)
(* the opcode and not, as the handlers do, opcode by opcode: a load moves  *)
(* one value from a source to a target, and changes nothing else but the   *)
(* program counter and, for (HL+), (HL-), PUSH and POP, the pointer used.  *)
(***************************************************************************)
EXTENDS Instructions

X(opcode) == opcode \div 64
Y(opcode) == (opcode \div 8) % 8
Z(opcode) == opcode % 8
P(opcode) == (opcode \div 16) % 4
Q(opcode) == (opcode \div 8) % 2

\* Where a byte is: a register, by number, or a memory cell, by address.
Reg(i) == [register |-> TRUE, at |-> i]
Cell(a) == [register |-> FALSE, at |-> a]
Slot(r, i) == IF i = 6 THEN Cell(r.hl) ELSE Reg(i)

Fetch(r, m, place) == IF place.register THEN Get(r, place.at) ELSE Read(m, place.at)

\* The state after v is put in its place, as registers and memory.
Put(r, m, place, v) ==
  IF place.register THEN <<Set(r, place.at, v), m>> ELSE <<r, Write(m, place.at, v)>>

Direction(toMemory, place) ==
  IF toMemory THEN [to |-> place, from |-> Reg(A)] ELSE [to |-> Reg(A), from |-> place]

\* Target and source of the byte loads.
ByteLoads == {op \in 0 .. 255 :
  \/ X(op) = 1 /\ op # HALT
  \/ X(op) = 0 /\ Z(op) = 6 /\ Y(op) # 6      \* LD (HL),n has no handler
  \/ X(op) = 0 /\ Z(op) = 2
  \/ X(op) = 3 /\ Y(op) \in {4, 6} /\ Z(op) \in {0, 2}
  \/ X(op) = 3 /\ Y(op) \in {5, 7} /\ Z(op) = 2}

ByteMove(op, r, m) ==
  CASE X(op) = 1 -> [to |-> Slot(r, Y(op)), from |-> Slot(r, Z(op))]
    [] X(op) = 0 /\ Z(op) = 6 ->
         [to |-> Reg(Y(op)), from |-> Cell(Plus(r.pc, 1))]
    [] X(op) = 0 /\ Z(op) = 2 ->
         Direction(Q(op) = 0, Cell(<<r.bc, r.de, r.hl, r.hl>>[P(op) + 1]))
    [] X(op) = 3 /\ Y(op) \in {4, 6} ->
         Direction(Y(op) = 4,
                   Cell(65280 + (IF Z(op) = 0 THEN Immediate(r, m) ELSE Low(r.bc))))
    [] OTHER -> Direction(Y(op) = 5, Cell(ImmediateWord(r, m)))

\* How a byte load moves HL.
HLStep(op) ==
  IF X(op) = 0 /\ Z(op) = 2 THEN <<0, 0, 1, -1>>[P(op) + 1] ELSE 0

BytesMoved(op, r, m, r2, m2) ==
  LET move == ByteMove(op, r, m)
      after == Put(r, m, move.to, Fetch(r, m, move.from))
  IN  /\ m2 = after[2]
      /\ [r2 EXCEPT !.pc = r.pc] = [after[1] EXCEPT !.hl = AsWord(@ + HLStep(op))]

-----------------------------------------------------------------------------
(* Word loads.  The pairs by their number, the last one by the group.      *)

WordLoads == {op \in 0 .. 255 :
  \/ X(op) = 0 /\ Z(op) = 1 /\ Q(op) = 0
  \/ X(op) = 3 /\ Z(op) \in {1, 5} /\ Q(op) = 0
  \/ op \in {\h08, \hF8, \hF9}}

PairOf(p, last) == <<"bc", "de", "hl", last>>[p + 1]

Unchanged(r, r2, names) == \A n \in DOMAIN r \ (names \cup {"pc"}) : r2[n] = r[n]

\* A carry into the bit of that weight in the sum of two words.
CarryInto(weight, a, b, sum) ==
  LET bit(w) == (w \div weight) % 2
  IN  bit(sum) # (bit(a) + bit(b)) % 2

WordsMoved(op, r, m, r2, m2) ==
  CASE X(op) = 0 /\ Z(op) = 1 ->
         LET pair == PairOf(P(op), "sp")
         IN  /\ r2[pair] = ImmediateWord(r, m)
             /\ Unchanged(r, r2, {pair}) /\ m2 = m
    [] X(op) = 3 /\ Z(op) = 1 /\ Q(op) = 0 ->
         LET pair == PairOf(P(op), "af")
         IN  /\ r2[pair] = (IF pair = "af" THEN 16 * (Top(r, m) \div 16) ELSE Top(r, m))
             /\ r.sp = AsWord(r2.sp - 2)
             /\ Unchanged(r, r2, {pair, "sp"}) /\ m2 = m
    [] X(op) = 3 /\ Z(op) = 5 ->
         /\ r2.sp = AsWord(r.sp - 2) /\ Unchanged(r, r2, {"sp"})
         /\ (InRam(r2.sp) /\ InRam(Plus(r2.sp, 1))) => Top(r2, m2) = r[PairOf(P(op), "af")]
    [] op = \h08 ->
         LET addr == ImmediateWord(r, m)
         IN  /\ Unchanged(r, r2, {})
             /\ InRam(addr) => Read(m2, addr) = Low(r.sp)
             /\ InRam(Plus(addr, 1)) => Read(m2, Plus(addr, 1)) = High(r.sp)
    [] op = \hF9 -> r2.sp = r.hl /\ Unchanged(r, r2, {"sp"}) /\ m2 = m
    [] OTHER ->
         LET n == Immediate(r, m)
             extended == IF n > 127 THEN 65280 + n ELSE n
         IN  /\ r2.hl = Plus(r.sp, extended)
             /\ Bits(Low(r2.af)) =
                  {i \in {HalfCarryFlag} : CarryInto(16, r.sp, extended, r2.hl)} \cup
                  {i \in {CarryFlag} : CarryInto(256, r.sp, extended, r2.hl)}
             /\ High(r2.af) = High(r.af)
             /\ Unchanged(r, r2, {"hl", "af"}) /\ m2 = m

\* From r and m to r2 and m2, the load does what its name says.
AsNamed(op, r, m, r2, m2) ==
  /\ op \in ByteLoads => BytesMoved(op, r, m, r2, m2)
  /\ op \in WordLoads => WordsMoved(op, r, m, r2, m2)
=============================================================================
