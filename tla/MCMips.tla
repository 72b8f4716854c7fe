------------------------------- MODULE MCMips -------------------------------
(* A small instance of MipsMachine for TLC: all programs of three          *)
(* instructions of a small set, one of which may be any of a larger set,   *)
(* and the product and the quotient of any two words.                      *)
EXTENDS MipsMachine

I(op, rs, rt, rd, extra) == [op |-> op, rs |-> rs, rt |-> rt, rd |-> rd, extra |-> extra]

(* Of each kind one or two, on registers that collide. *)
Small == {
  I("LW", 0, 1, 0, 4), I("LWR", 0, 1, 0, 0), I("LB", 1, 2, 0, 0), I("LW", 3, 2, 0, -4),
  I("SW", 3, 1, 0, 0), I("SWR", 0, 3, 0, 4),
  I("ADD", 1, 3, 2, 0), I("SRA", 0, 1, 1, 1), I("ADDIU", 2, 0, 0, -1),
  I("BLTZAL", 2, 0, 0, 1), I("J", 0, 0, 0, 2), I("JALR", 3, 0, 2, 0),
  I("SYSCALL", 0, 0, 0, 0)}

Larger == {
  I("LBU", 0, 1, 0, 3), I("LH", 1, 1, 0, -2), I("LHU", 3, 3, 0, 2), I("LWL", 0, 1, 0, 4), I("LW", 1, 1, 0, 2),
  I("SB", 3, 1, 0, 3), I("SH", 1, 2, 0, 2), I("SWL", 0, 3, 0, 0), I("SH", 3, 1, 0, 1),
  I("ADDU", 1, 3, 2, 0), I("ADDI", 1, 3, 0, 4), I("SUB", 2, 1, 1, 0), I("SUBU", 3, 1, 1, 0),
  I("SLT", 2, 1, 3, 0), I("SLTI", 2, 1, 0, -1), I("SLTU", 1, 2, 3, 0), I("SLTIU", 2, 1, 0, -1),
  I("LUI", 0, 3, 0, 1), I("SLL", 0, 1, 1, 2), I("SRL", 0, 2, 1, 1),
  I("SLLV", 1, 3, 1, 0), I("SRAV", 3, 2, 2, 0), I("SRLV", 2, 1, 1, 0), I("UNIMP", 0, 0, 0, 0),
  I("MULT", 1, 3, 0, 0), I("MULTU", 1, 3, 0, 0), I("DIV", 1, 3, 0, 0), I("DIVU", 1, 3, 0, 0),
  I("MTHI", 1, 0, 0, 0), I("MTLO", 3, 0, 0, 0), I("MFHI", 0, 0, 3, 0), I("MFLO", 0, 0, 1, 0),
  I("BEQ", 1, 3, 0, 1), I("BNE", 1, 3, 0, -1), I("BGEZ", 1, 0, 0, 1), I("BGEZAL", 2, 0, 0, -2),
  I("BGTZ", 1, 0, 0, 1), I("BLEZ", 2, 0, 0, -1), I("BLTZ", 1, 0, 0, 1), I("JAL", 0, 0, 0, 0), I("JR", 1, 0, 0, 0)}

Arithmetic(c) == c[0].op \in {"MULT", "MULTU", "DIV", "DIVU"} /\ c[1].op = "MFHI" /\ c[2].op = "MFLO"

MCPrograms == {c \in [Positions -> Small \cup Larger] :
                 /\ WellFormed(c)
                 /\ \/ \E k \in Positions : \A j \in Positions \ {k} : c[j] \in Small
                    \/ Arithmetic(c)}
MCRegisters(c) == IF Arithmetic(c)
                  THEN {[r \in Registers |-> CASE r = 1 -> a [] r = 3 -> b [] OTHER -> 0] : a, b \in Words}
                  ELSE {[r \in Registers |-> IF r = 0 THEN 0 ELSE 4]}
MCMemories == {[a \in Addresses |-> IF a \in {0, 2, 3, 5, 6} THEN 1 ELSE 0]}
MCResults  == {7}
=============================================================================
