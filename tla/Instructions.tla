---------------------------- MODULE Instructions ----------------------------
(***************************************************************************)
(* The instruction table (cpu/instructions.hpp) and the execution of one   *)
(* instruction.  Opcodes without a handler only advance the program        *)
(* counter, by the length the table gives.                                 *)
(***************************************************************************)
EXTENDS LoadInstructions

CB == \hCB              \* the prefix of the second, unimplemented table
HALT == \h76

ThreeBytes ==
  {\h01, \h08, \h11, \h21, \h31, \hC2, \hC3, \hC4, \hCA, \hCC, \hCD, \hD2, \hD4,
   \hDA, \hDC, \hEA, \hFA}

TwoBytes ==
  {\h06, \h0E, \h10, \h16, \h18, \h1E, \h20, \h26, \h28, \h2E, \h30, \h36, \h38,
   \h3E, \hC6, \hCE, \hD6, \hDE, \hE0, \hE6, \hE8, \hEE, \hF0, \hF6, \hF8, \hFE}

\* Instruction::length
LengthOf(opcode) ==
  IF opcode \in ThreeBytes THEN 3 ELSE IF opcode \in TwoBytes THEN 2 ELSE 1

nop(r, m) == After(r, m, 1, 4)
halt(r, m) == After(r, m, 1, 4)      \* "we just advance the PC"

Unimplemented(r, m) == After(r, m, LengthOf(Opcode(r, m)), 4)
Prefix(r, m) == After(r, m, 1, 4)

\* The handlers of the table: its first quarter, the two in the middle, which
\* hold the moves between registers and no other load, and the last.
FirstQuarter(r, m) ==
  LET opcode == Opcode(r, m)
  IN  CASE opcode = 0 -> nop(r, m)
        [] opcode \in {\h06, \h0E, \h16, \h1E, \h26, \h2E, \h3E} -> ld_r_n(r, m)
        [] opcode \in {\h02, \h12, \h22, \h32} -> ld_mem_a(r, m)
        [] opcode \in {\h0A, \h1A, \h2A, \h3A} -> ld_a_mem(r, m)
        [] opcode \in {\h01, \h11, \h21, \h31} -> ld_rp_nn(r, m)
        [] opcode = \h08 -> ld_nn_sp(r, m)
        [] OTHER -> Unimplemented(r, m)

MiddleHalf(r, m) ==
  LET opcode == Opcode(r, m)
  IN  CASE opcode = HALT -> halt(r, m)
        [] opcode <= \h7F /\ opcode # HALT -> ld_r_r(r, m)
        [] OTHER -> Unimplemented(r, m)

LastQuarter(r, m) ==
  LET opcode == Opcode(r, m)
  IN  CASE opcode = CB -> Prefix(r, m)
        [] opcode \in {\hC1, \hD1, \hE1, \hF1} -> pop_rp(r, m)
        [] opcode \in {\hC5, \hD5, \hE5, \hF5} -> push_rp(r, m)
        [] opcode \in {\hE0, \hE2, \hF0, \hF2} -> ld_io_a(r, m)
        [] opcode \in {\hEA, \hFA} -> ld_a_abs(r, m)
        [] opcode = \hF8 -> ld_hl_sp_n(r, m)
        [] opcode = \hF9 -> ld_sp_hl(r, m)
        [] OTHER -> Unimplemented(r, m)

\* The handler the table holds for the opcode at the program counter.
Execute(r, m) ==
  IF Opcode(r, m) < \h40 THEN FirstQuarter(r, m)
  ELSE IF Opcode(r, m) < \hC0 THEN MiddleHalf(r, m)
  ELSE LastQuarter(r, m)
=============================================================================
