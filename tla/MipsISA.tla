------------------------------ MODULE MipsISA ------------------------------
(***************************************************************************)
(* The machine a compiler for the R2000 counts on: loads take effect at    *)
(* once, memory is always there, and a branch takes effect after the       *)
(* instruction that follows it.  An instruction is executed once or stops  *)
(* the program; the division whose quotient is no word stops it too.       *)
(***************************************************************************)
EXTENDS MipsInstructions

CONSTANT Results  \* what system calls return

VARIABLES code, reg, hl, pc, npc, mem, on

vars == <<code, reg, hl, pc, npc, mem, on>>

Init ==
  /\ WellFormed(code)
  /\ reg \in [Registers -> Words] /\ reg[0] = 0
  /\ hl \in Words \X Words
  /\ pc = 0 /\ npc = 4
  /\ mem \in [Addresses -> 0..(ByteSize - 1)]
  /\ on = TRUE

(* The double-length product of two words. *)
Product(a, b, signed) ==
  LET p == IF signed THEN Signed(a) * Signed(b) ELSE a * b
  IN <<Word(p \div 2^Width), Word(p)>>

Fetched == pc % 4 = 0 /\ pc \div 4 \in Positions
instr   == code[pc \div 4]
Ends    == ~Fetched \/ Stops(instr, reg) \/ HostTraps(instr, reg)

Put(r, v) == reg' = [reg EXCEPT ![r] = IF r = 0 THEN 0 ELSE v]

Stop == on /\ Ends /\ on' = FALSE /\ UNCHANGED <<code, reg, hl, pc, npc, mem>>

Syscall ==
  /\ on /\ ~Ends /\ instr.op = "SYSCALL"
  /\ \E r \in Results \cup {reg[R2]} : Put(R2, r)
  /\ pc' = npc /\ npc' = Word(npc + 4)
  /\ UNCHANGED <<code, hl, mem, on>>

Execute ==
  /\ on /\ ~Ends /\ instr.op # "SYSCALL"
  /\ IF instr.op \in Loads THEN Put(instr.rt, Loaded(instr, reg[instr.rt], reg, mem))
                           ELSE Put(Dest(instr), Value(instr, reg, hl, npc))
  /\ hl' = HiLo(instr, reg, hl, Product(reg[instr.rs], reg[instr.rt], instr.op = "MULT"))
  /\ mem' = IF instr.op \in Stores THEN Stored(instr, reg, mem) ELSE mem
  /\ pc' = npc
  /\ npc' = PcAfter(instr, reg', npc)
  /\ UNCHANGED <<code, on>>

Next == Stop \/ Syscall \/ Execute
Spec == Init /\ [][Next]_vars
=============================================================================
