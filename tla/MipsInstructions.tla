-------------------------- MODULE MipsInstructions --------------------------
(***************************************************************************)
(* The instructions of the simulated MIPS R2000 (machine/mipssim.cc): what *)
(* each computes from registers and memory, when it traps, and which       *)
(* programs respect the delay slots the hardware has.                      *)
(*                                                                         *)
(* A word has Width bits and four bytes; registers hold words.  Data and   *)
(* code are apart: no program reads or writes its own code.  An            *)
(* instruction is a record of op, rs, rt, rd and extra, as Decode leaves   *)
(* it.  The bitwise instructions (AND, OR, XOR, NOR and their immediate    *)
(* forms) are left out: they differ from ADDU and ADDIU in the value only. *)
(* A program that leaves its code is stopped.                              *)
(***************************************************************************)
EXTENDS Integers

CONSTANTS Width, NumGPRegs, MemorySize, CodeSize

ASSUME SizeAssumption ==
  /\ Width \in Nat /\ Width > 0 /\ Width % 4 = 0
  /\ NumGPRegs \in Nat /\ NumGPRegs > 2
  /\ MemorySize \in Nat /\ MemorySize % 4 = 0
  /\ CodeSize \in Nat /\ 4 * CodeSize < 2^Width

Registers == 0..(NumGPRegs - 1)
R2        == 2               \* the number of a system call, and its result
R31       == NumGPRegs - 1   \* the link register
Words     == 0..(2^Width - 1)
ByteSize  == 2^(Width \div 4)
Bytes(n)  == 2^(n * (Width \div 4))   \* n bytes hold 0..(Bytes(n) - 1)
Addresses == 0..(MemorySize - 1)

Word(i)     == i % 2^Width
Negative(w) == w >= 2^(Width - 1)
Signed(w)   == IF Negative(w) THEN w - 2^Width ELSE w

-----------------------------------------------------------------------------
RegisterForm  == {"ADD", "ADDU", "SUB", "SUBU", "SLT", "SLTU", "SLL", "SRA", "SRL",
                   "SLLV", "SRAV", "SRLV", "MFHI", "MFLO", "JALR"}
ImmediateForm == {"ADDI", "ADDIU", "SLTI", "SLTIU", "LUI"}
Loads         == {"LB", "LBU", "LH", "LHU", "LW", "LWL", "LWR"}
Stores        == {"SB", "SH", "SW", "SWL", "SWR"}
Conditional   == {"BEQ", "BNE", "BGEZ", "BGEZAL", "BGTZ", "BLEZ", "BLTZ", "BLTZAL"}
Jumps         == {"J", "JAL", "JR", "JALR"}
Links         == {"JAL", "BGEZAL", "BLTZAL"}
Multiplies    == {"MULT", "MULTU", "DIV", "DIVU", "MTHI", "MTLO"}

(* What Decode leaves: five bits of extra for a shift, a sign otherwise. *)
Operations   == RegisterForm \cup ImmediateForm \cup Loads \cup Stores \cup Conditional
                 \cup Jumps \cup Multiplies \cup {"SYSCALL", "RES", "UNIMP"}
Instructions == {i \in [op : Operations, rs : Registers, rt : Registers, rd : Registers, extra : Int] :
                   i.op \in {"SLL", "SRA", "SRL"} => i.extra \in Nat}

(* The register an instruction writes at once; 0 if none. *)
Dest(i) == CASE i.op \in RegisterForm  -> i.rd
             [] i.op \in ImmediateForm -> i.rt
             [] i.op \in Links         -> R31
             [] OTHER                  -> 0

Reads(i) ==
  CASE i.op \in {"J", "JAL", "LUI", "MFHI", "MFLO", "SYSCALL"} -> {}
    [] i.op \in ImmediateForm \cup Loads \cup {"JR", "JALR", "MTHI", "MTLO"}
                 \cup (Conditional \ {"BEQ", "BNE"})          -> {i.rs}
    [] i.op \in {"SLL", "SRA", "SRL"}                         -> {i.rt}
    [] OTHER                                                  -> {i.rs, i.rt}

(* What the instruction puts into Dest; hl is <<hi, lo>>, npc NextPC.  SRL *)
(* and SRLV shift a signed int, so they are SRA and SRAV.                  *)
Value(i, reg, hl, npc) ==
  LET s == reg[i.rs]
      t == reg[i.rt]
      If(b) == IF b THEN 1 ELSE 0
  IN CASE i.op \in {"ADD", "ADDU"}         -> Word(s + t)
       [] i.op \in {"ADDI", "ADDIU"}       -> Word(s + i.extra)
       [] i.op \in {"SUB", "SUBU"}         -> Word(s - t)
       [] i.op = "SLT"                     -> If(Signed(s) < Signed(t))
       [] i.op = "SLTI"                    -> If(Signed(s) < i.extra)
       [] i.op = "SLTU"                    -> If(s < t)
       [] i.op = "SLTIU"                   -> If(s < Word(i.extra))
       [] i.op = "LUI"                     -> Word(i.extra * 2^(Width \div 2))
       [] i.op = "SLL"                     -> Word(t * 2^i.extra)
       [] i.op \in {"SRA", "SRL"}          -> Word(Signed(t) \div 2^i.extra)
       [] i.op = "SLLV"                    -> Word(t * 2^(s % Width))
       [] i.op \in {"SRAV", "SRLV"}        -> Word(Signed(t) \div 2^(s % Width))
       [] i.op = "MFHI"                    -> hl[1]
       [] i.op = "MFLO"                    -> hl[2]
       [] i.op \in Links \cup {"JALR"}     -> Word(npc + 4)
       [] OTHER                            -> 0

Overflows(i, reg) ==
  LET s == reg[i.rs]
      t == reg[i.rt]
      e == Word(i.extra)
  IN \/ i.op = "ADD"  /\ Negative(s) = Negative(t) /\ Negative(Word(s + t)) # Negative(s)
     \/ i.op = "ADDI" /\ Negative(s) = Negative(e) /\ Negative(Word(s + e)) # Negative(e)
     \/ i.op = "SUB"  /\ Negative(s) # Negative(t) /\ Negative(Word(s - t)) # Negative(s)

(* C++ leaves the most negative number / -1, and % with it, undefined: the *)
(* host's division traps.                                                  *)
HostTraps(i, reg) ==
  i.op = "DIV" /\ Signed(reg[i.rs]) = -(2^(Width - 1)) /\ Signed(reg[i.rt]) = -1

(* Remainder and quotient of C's / and %, which round towards zero. *)
Divided(s, t, signed) ==
  LET Abs(n)   == IF n < 0 THEN -n ELSE n
      sign     == IF Negative(s) = Negative(t) THEN 1 ELSE -1
      quotient == sign * (Abs(Signed(s)) \div Abs(Signed(t)))
  IN CASE t = 0             -> <<0, 0>>
       [] t # 0 /\ signed   -> <<Word(Signed(s) - quotient * Signed(t)), Word(quotient)>>
       [] t # 0 /\ ~signed  -> <<s % t, s \div t>>

(* hi and lo after it, if product is the double-length product. *)
HiLo(i, reg, hl, product) ==
  CASE i.op \in {"MULT", "MULTU"} -> product
    [] i.op \in {"DIV", "DIVU"}   -> Divided(reg[i.rs], reg[i.rt], i.op = "DIV")
    [] i.op = "MTHI" -> <<reg[i.rs], hl[2]>>
    [] i.op = "MTLO" -> <<hl[1], reg[i.rs]>>
    [] OTHER -> hl

Taken(i, reg) ==
  LET s == reg[i.rs]
  IN \/ i.op = "BEQ" /\ s = reg[i.rt]
     \/ i.op = "BNE" /\ s # reg[i.rt]
     \/ i.op \in {"BGEZ", "BGEZAL"} /\ ~Negative(s)
     \/ i.op \in {"BLTZ", "BLTZAL"} /\ Negative(s)
     \/ i.op = "BGTZ" /\ Signed(s) > 0
     \/ i.op = "BLEZ" /\ Signed(s) <= 0

(* pcAfter; extra counts instructions. *)
PcAfter(i, reg, npc) ==
  CASE Taken(i, reg)             -> Word(npc + 4 * i.extra)
    [] i.op \in {"J", "JAL"}     -> Word(4 * i.extra)
    [] i.op \in {"JR", "JALR"}   -> reg[i.rs]
    [] OTHER                     -> Word(npc + 4)

-----------------------------------------------------------------------------
(* Memory. *)
Address(i, reg) == Word(reg[i.rs] + i.extra)

Size(i) == CASE i.op \in {"LB", "LBU", "SB"} -> 1
             [] i.op \in {"LH", "LHU", "SH"} -> 2
             [] OTHER                        -> 4

(* What Translate, or the assertion before it, does not let through. *)
AddressError(i, reg) ==
  /\ i.op \in Loads \cup Stores
  /\ Address(i, reg) \notin Addresses \/ Address(i, reg) % Size(i) # 0

ReadMem(a, size, mem) ==
  CASE size = 1 -> mem[a]
    [] size = 2 -> mem[a] + ByteSize * mem[a + 1]
    [] size = 4 -> mem[a] + ByteSize * (mem[a + 1] + ByteSize * (mem[a + 2] + ByteSize * mem[a + 3]))

(* The exceptions that end the program: the kernel halts the machine. *)
Stops(i, reg) == Overflows(i, reg) \/ AddressError(i, reg) \/ i.op \in {"RES", "UNIMP"}

(* The value a load brings; old is what LWR merges it with. *)
Loaded(i, old, reg, mem) ==
  LET value  == ReadMem(Address(i, reg), Size(i), mem)
      limit  == Bytes(Size(i))
  IN CASE i.op \in {"LB", "LH"} /\ 2 * value >= limit -> Word(value - limit)
       [] i.op = "LWR" -> (old - (old % ByteSize)) + value \div Bytes(3)
       [] OTHER -> value

(* Memory after a store.  SWR puts the low byte in the place of the high. *)
Stored(i, reg, mem) ==
  LET a == Address(i, reg)
      first == IF i.op = "SWR" THEN a + 3 ELSE a
  IN [b \in Addresses |-> IF b \in first..(a + Size(i) - 1)
                          THEN (reg[i.rt] \div Bytes(b - first)) % ByteSize
                          ELSE mem[b]]

-----------------------------------------------------------------------------
(* What the R2000 asks of compilers.  The instruction after a load, or,    *)
(* for a load in the delay slot of a branch, at its target, neither reads  *)
(* nor writes the register loaded, no branch is followed by a branch or a  *)
(* SYSCALL, and no JALR links through the register it jumps by.            *)
Positions == 0..(CodeSize - 1)
Branches  == Conditional \cup Jumps

Targets(code, b) == CASE code[b].op \in Conditional  -> {Word(4 * (b + 1 + code[b].extra)) \div 4}
                      [] code[b].op \in {"J", "JAL"} -> {Word(4 * code[b].extra) \div 4}
                      [] code[b].op \in {"JR", "JALR"} -> Positions
                      [] OTHER -> {}

(* What may be executed right after the instruction at k. *)
After(code, k) == {k + 1} \cup IF k = 0 THEN {} ELSE Targets(code, k - 1)

WellFormed(code) ==
  \A k \in Positions :
    /\ code[k].op \in Branches /\ k + 1 \in Positions => code[k + 1].op \notin Branches \cup {"SYSCALL"}
    /\ code[k].op = "JALR" => code[k].rs # code[k].rd
    /\ code[k].op \in Loads =>
         \A j \in After(code, k) \cap Positions :
           code[k].rt \in {0} \cup (Registers \ (Reads(code[j]) \cup {Dest(code[j])}))
=============================================================================
