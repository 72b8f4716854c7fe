---------------------------- MODULE MipsMachine ----------------------------
(***************************************************************************)
(* Nachos's simulated processor running one process: Machine::Run and      *)
(* OneInstruction (machine/mipssim.cc) with delayed loads, instructions    *)
(* that are started again after a page fault, system calls whose handler   *)
(* advances the program counters itself, and other processes that get the  *)
(* processor between two instructions and take pages away.                 *)
(*                                                                         *)
(* Which page gives way is VirtualMemory's subject; here a fault brings    *)
(* one page in and any others may go.  The contents of pages stay.         *)
(***************************************************************************)
EXTENDS MipsInstructions

CONSTANTS Programs,             \* the codes considered, and what registers and
          InitialRegisters(_),  \* memory each of them may be at work on
          InitialMemories,
          Results,              \* what system calls return
          PageSize

ASSUME ProgramAssumption ==
  /\ \A c \in Programs : /\ c \in [Positions -> Instructions] /\ WellFormed(c)
                         /\ InitialRegisters(c) \subseteq {r \in [Registers -> Words] : r[0] = 0}
  /\ InitialMemories \subseteq [Addresses -> 0..(ByteSize - 1)]
  /\ Results \subseteq Words
  /\ PageSize \in Nat /\ PageSize > 0

VARIABLES code,
          registers, \* registers[0..NumGPRegs-1]
          hl,        \* HiReg and LoReg
          load,      \* LoadReg and LoadValueReg
          pc, npc,   \* PCReg, NextPCReg
          mem,
          valid,     \* the pages whose entry is valid
          on

vars == <<code, registers, hl, load, pc, npc, mem, valid, on>>

CodePage == -1
Pages    == {CodePage} \cup {a \div PageSize : a \in Addresses}

NoLoad == [reg |-> 0, value |-> 0]

Init ==
  /\ code \in Programs
  /\ registers \in InitialRegisters(code)
  /\ mem \in InitialMemories
  /\ hl = <<0, 0>>
  /\ load = NoLoad
  /\ pc = 0 /\ npc = 4
  /\ valid = {}
  /\ on = TRUE

(* Mult, bit by bit: after k rounds of its loop a holds the bits of x from *)
(* k on (shifted as a signed int), bHi and bLo hold y * 2^k, and what the  *)
(* bits of x before k contribute is in hi and lo.                          *)
Round(r) ==
  LET odd   == r.a % 2 = 1
      lo    == Word(r.lo + r.bLo)
      carry == IF lo < r.bLo THEN 1 ELSE 0
  IN [a   |-> Word(Signed(r.a) \div 2),
      bHi |-> Word(2 * r.bHi) + (IF Negative(r.bLo) THEN 1 ELSE 0),
      bLo |-> Word(2 * r.bLo),
      hi  |-> IF odd THEN Word(r.hi + carry + r.bHi) ELSE r.hi,
      lo  |-> IF odd THEN lo ELSE r.lo]

Rounds(x, y) ==
  LET round[k \in 0..Width] == IF k = 0 THEN [a |-> x, bHi |-> 0, bLo |-> y, hi |-> 0, lo |-> 0]
                                        ELSE Round(round[k - 1])
  IN round

Positive(w) == IF Negative(w) THEN Word(-w) ELSE w

Mult(x, y, signedArith) ==
  LET negative == signedArith /\ Negative(x) # Negative(y)
      r == IF signedArith THEN Rounds(Positive(x), Positive(y))[Width] ELSE Rounds(x, y)[Width]
  IN IF ~negative \/ x = 0 \/ y = 0 THEN <<r.hi, r.lo>>
     ELSE <<Word(-r.hi - 1 + (IF r.lo = 0 THEN 1 ELSE 0)), Word(-r.lo)>>

-----------------------------------------------------------------------------
(* Mutant of Applied: R0 keeps what was written to it. *)
AppliedToR0(regs) == [regs EXCEPT ![load.reg] = load.value]

(* DelayedLoad: the load in progress arrives, and R0 is zero again. *)
Applied(regs) == [regs EXCEPT ![load.reg] = load.value, ![0] = 0]

(* Mutant of Trapped: the load in progress stays so. *)
TrappedInLoad(regs) == [regs |-> [regs EXCEPT ![0] = 0], load |-> load]

(* RaiseException, or CheckIfDue, finishes it before the kernel runs. *)
Trapped(regs) == [regs |-> Applied(regs), load |-> NoLoad]

Trap == registers' = Trapped(registers).regs /\ load' = Trapped(registers).load

PageFault(page) ==
  /\ Trap
  /\ valid' \in {S \in SUBSET Pages : page \in S}
  /\ UNCHANGED <<code, hl, pc, npc, mem, on>>

(* Every other exception ends in Halt or an assertion. *)
Stop == Trap /\ on' = FALSE /\ UNCHANGED <<code, hl, pc, npc, mem, valid>>

Fetched == pc % 4 = 0 /\ pc \div 4 \in Positions
instr   == code[pc \div 4]

Fetch ==
  /\ on
  /\ \/ ~Fetched /\ Stop
     \/ Fetched /\ CodePage \notin valid /\ PageFault(CodePage)

Executing == on /\ Fetched /\ CodePage \in valid

Exception == Executing /\ Stops(instr, registers) /\ Stop

(* SIGFPE ends the simulator where it stands, and every process with it. *)
HostTrap ==
  /\ Executing /\ HostTraps(instr, registers)
  /\ on' = FALSE
  /\ UNCHANGED <<code, registers, hl, load, pc, npc, mem, valid>>

DataPage == Address(instr, registers) \div PageSize

DataFault ==
  /\ Executing /\ instr.op \in Loads \cup Stores /\ ~Stops(instr, registers)
  /\ DataPage \notin valid
  /\ PageFault(DataPage)

(* The handler leaves its result, if it has one, in R2, and has PC and     *)
(* NextPC each advanced by one instruction; it may sleep and page itself.  *)
Syscall ==
  /\ Executing /\ instr.op = "SYSCALL"
  /\ load' = Trapped(registers).load
  /\ \/ registers' = Trapped(registers).regs
     \/ \E r \in Results : registers' = [Trapped(registers).regs EXCEPT ![R2] = r]
  /\ pc' = Word(pc + 4) /\ npc' = Word(npc + 4)
  /\ valid' \in SUBSET Pages
  /\ UNCHANGED <<code, hl, mem, on>>

(* What LWL and LWR merge with: the load in progress if it is for r. *)
Merged(r) == IF load.reg = r THEN load.value ELSE registers[r]

Execute ==
  LET written == [registers EXCEPT ![Dest(instr)] = Value(instr, registers, hl, npc)]
  IN  /\ Executing /\ instr.op # "SYSCALL" /\ ~Stops(instr, registers) /\ ~HostTraps(instr, registers)
      /\ instr.op \in Loads \cup Stores => DataPage \in valid
      /\ registers' = Applied(written)
      /\ load' = IF instr.op \in Loads
                 THEN [reg |-> instr.rt, value |-> Loaded(instr, Merged(instr.rt), registers, mem)]
                 ELSE NoLoad
      /\ hl' = HiLo(instr, registers, hl, Mult(registers[instr.rs], registers[instr.rt], instr.op = "MULT"))
      /\ mem' = IF instr.op \in Stores THEN Stored(instr, registers, mem) ELSE mem
      /\ pc' = npc
      /\ npc' = PcAfter(instr, written, npc)
      /\ UNCHANGED <<code, valid, on>>

(* An interrupt between two instructions: CheckIfDue finishes the load in  *)
(* progress before the handler runs.  Then others may run and take pages;  *)
(* SaveUserState and RestoreUserState copy all NumTotalRegs registers.     *)
Switch ==
  /\ on
  /\ Trap
  /\ valid' \in SUBSET valid
  /\ UNCHANGED <<code, hl, pc, npc, mem, on>>

Next == Fetch \/ Exception \/ HostTrap \/ DataFault \/ Syscall \/ Execute \/ Switch
Spec == Init /\ [][Next]_vars
-----------------------------------------------------------------------------
(* Every variable has its type, and R0 is zero. *)
TypeOK ==
  /\ code \in Programs
  /\ registers \in [Registers -> Words] /\ registers[0] = 0
  /\ hl \in Words \X Words
  /\ load \in [reg : Registers, value : Words]
  /\ pc \in Words /\ npc \in Words
  /\ mem \in [Addresses -> 0..(ByteSize - 1)]
  /\ valid \subseteq Pages
  /\ on \in BOOLEAN

(* Programs that respect the delay slots run as on a machine whose loads   *)
(* take effect at once and that never faults: delayed loads, instructions  *)
(* begun again, the kernel's visits and other processes are not seen, and  *)
(* MULT gives the product, that of the number without an opposite too.     *)
Seen == [r \in Registers |-> CASE r = 0 -> 0
                               [] r # 0 /\ r = load.reg -> load.value
                               [] r # 0 /\ r # load.reg -> registers[r]]
ISA == INSTANCE MipsISA WITH reg <- Seen
Implements == ISA!Spec
=============================================================================
