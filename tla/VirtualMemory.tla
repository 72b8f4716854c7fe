--------------------------- MODULE VirtualMemory ---------------------------
(***************************************************************************)
(* Demand paging of project_3b: VirtualMemoryManager (second-chance page   *)
(* replacement over a frame table and a swap file), AddrSpace (page table  *)
(* and swap slots of a process), MemoryManager (bitmap of physical pages)  *)
(* and the use and dirty bits Machine::Translate sets.                     *)
(*                                                                         *)
(* A page table entry is named by the pair <<p, v>> of its address space   *)
(* and virtual page.  Page contents are single values.  A user instruction *)
(* that touches memory is Load or Store when the page is resident and      *)
(* PageFault when it is not; the machine then runs it again.  Processes    *)
(* interleave between instructions (Machine::Run ticks the clock after     *)
(* each); a system call or a page fault runs to its end without a switch,  *)
(* because the swap file is a UNIX file (FILESYS_STUB).                    *)
(***************************************************************************)
EXTENDS Integers, FiniteSets

CONSTANTS Spaces,        \* addresses at which an AddrSpace object may be allocated
          Initial,       \* the space of the program the kernel is started with
          NumPages,      \* pages of every address space
          NumPhysPages,  \* physical page frames
          SWAP_SECTORS,  \* page slots of the swap file
          Values,        \* what a page may hold
          Image,         \* Image[v]: what page v holds when a program is loaded
          Zero,          \* contents of memory and of a swap slot never written
          Calls,         \* the system calls the programs make
          HeapZeroed,    \* TRUE: the frame table happens to be allocated on zeroed memory
          NULL,          \* the null pointer
          Garbage        \* a pointer read from memory nobody initialised

Pages   == 0..(NumPages - 1)
Frames  == 0..(NumPhysPages - 1)
Sectors == 0..(SWAP_SECTORS - 1)
Entries == Spaces \X Pages

ASSUME SizeAssumption ==
  /\ NumPages \in Nat \ {0}
  /\ NumPhysPages \in Nat \ {0}
  /\ SWAP_SECTORS \in Nat /\ SWAP_SECTORS >= NumPages
ASSUME SpaceAssumption == Initial \in Spaces
ASSUME ImageAssumption == Image \in [Pages -> Values] /\ Zero \in Values
ASSUME CallAssumption  == Calls \subseteq {"exec", "fork", "read", "exit"}
ASSUME HeapAssumption  == HeapZeroed \in BOOLEAN
ASSUME NullAssumption  ==
  /\ NULL \notin Entries /\ Garbage \notin Entries /\ NULL # Garbage
  /\ NULL \notin Entries \X Values
  /\ NULL \notin Values

VARIABLES
  live,          \* address spaces that exist
  valid,         \* entries whose valid bit is set
  use,           \* entries whose use bit is set
  dirty,         \* entries whose dirty bit is set
  physicalPage,  \* frame number in each entry, -1 before the first load
  swapLocation,  \* swap slot of each page of a live space, -1 otherwise
  owner,         \* physicalMemoryInfo: the entry each frame is recorded to hold
  nextVictim,    \* the clock hand
  pageBits,      \* frames marked in MemoryManager's bitmap
  swapBits,      \* slots marked in swapSectorMap
  mainMemory,    \* contents of each frame
  swapFile,      \* contents of each swap slot
  copyIn,        \* the copy to user memory a Read system call is in the middle of
  halted         \* TRUE once the kernel aborted or followed a bad pointer

tables == <<live, swapLocation, swapBits>>
vars   == <<live, valid, use, dirty, physicalPage, swapLocation, owner, nextVictim,
            pageBits, swapBits, mainMemory, swapFile, copyIn, halted>>

PagesOf(p) == {p} \X Pages

(* The kernel right after StartProcess loaded the first program. *)
Init ==
  /\ live = {Initial}
  /\ valid = {} /\ use = {} /\ dirty = {}
  /\ physicalPage = [e \in Entries |-> -1]
  /\ swapLocation = [e \in Entries |-> IF e[1] = Initial THEN e[2] ELSE -1]
  /\ owner \in IF HeapZeroed THEN {[f \in Frames |-> NULL]} ELSE [Frames -> {NULL, Garbage}]
  /\ nextVictim = 0
  /\ pageBits = {}
  /\ swapBits = Pages
  /\ mainMemory = [f \in Frames |-> Zero]
  /\ swapFile = [s \in Sectors |-> IF s \in Pages THEN Image[s] ELSE Zero]
  /\ copyIn = NULL
  /\ halted = FALSE

(* An ASSERT failed or a pointer to no object was followed: the model stops. *)
Halt == /\ halted' = TRUE
        /\ UNCHANGED <<live, valid, use, dirty, physicalPage, swapLocation, owner,
                       nextVictim, pageBits, swapBits, mainMemory, swapFile>>

-----------------------------------------------------------------------------
(***************************************************************************)
(* swapPageIn: bring page e of the current process in.                     *)
(***************************************************************************)

(* Where the hand moves to.  HandNoWrap is a mutant: it forgets to wrap. *)
HandNoWrap == nextVictim + 1
NextHand == (nextVictim + 1) % NumPhysPages

(* The frame under the hand is recorded as free: take the first physical  *)
(* page the bitmap has, whatever its number, and move the hand on.        *)
FillFreeFrame(e) ==
  /\ owner[nextVictim] = NULL
  /\ \E f \in Frames \ pageBits :
       /\ \A g \in Frames \ pageBits : f <= g
       /\ physicalPage' = [physicalPage EXCEPT ![e] = f]
       /\ pageBits' = pageBits \cup {f}
       /\ mainMemory' = [mainMemory EXCEPT ![f] = swapFile[swapLocation[e]]]
  /\ owner' = [owner EXCEPT ![nextVictim] = e]
  /\ valid' = valid \cup {e}
  /\ nextVictim' = NextHand
  /\ UNCHANGED <<use, dirty, swapFile, tables, halted>>

(* The k-th frame the clock hand looks at, and the entries it passed by then. *)
At(k)     == (nextVictim + k) % NumPhysPages
Passed(k) == {owner[At(j)] : j \in 0..(k - 1)}

(* getPageTableEntry finds an object behind the frame's space pointer. *)
Sound(f) == owner[f] \notin {NULL, Garbage} /\ owner[f][1] \in live

(* The hand clears the use bit of k entries and then looks at frame At(k). *)
HandReaches(k) ==
  \A j \in 0..(k - 1) : Sound(At(j)) /\ owner[At(j)] \in use \ Passed(j)

(* The swap file once the victim is written back, if it is dirty, from its *)
(* physical page.  Mutant: the write-back is forgotten.                    *)
NoWriteBack(victim, page) == swapFile
WriteBack(victim, page) ==
  IF victim \in dirty THEN [swapFile EXCEPT ![swapLocation[victim]] = mainMemory[page]]
                      ELSE swapFile

(* The valid bits once e has the victim's frame.  Mutants: the victim's    *)
(* bit is not cleared; the bit of e is not set.                            *)
VictimStaysValid(victim, e) == valid \cup {e}
NewStaysInvalid(victim, e)  == valid \ {victim}
ValidAfter(victim, e) == (valid \ {victim}) \cup {e}

(* Write the victim back if it is dirty, hand its frame to e, and load e.  *)
(* The hand stays on the frame, and the use bit of e is left clear.        *)
ReplaceVictim(e, f, k) ==
  LET victim == owner[f]
      page   == physicalPage[victim]
  IN  /\ page # -1
      /\ swapFile' = WriteBack(victim, page)
      /\ mainMemory' = [mainMemory EXCEPT ![page] = swapFile'[swapLocation[e]]]
      /\ dirty' = dirty \ {victim}
      /\ use' = use \ Passed(k)
      /\ valid' = ValidAfter(victim, e)
      /\ physicalPage' = [physicalPage EXCEPT ![e] = page]
      /\ owner' = [owner EXCEPT ![f] = e]
      /\ nextVictim' = f
      /\ UNCHANGED <<pageBits, tables, halted>>

(* Mutant: the use bits are ignored. *)
EvictAtHand(e) ==
  owner[nextVictim] # NULL /\ Sound(At(0)) /\ ReplaceVictim(e, At(0), 0)

Evict(e) ==
  /\ owner[nextVictim] # NULL
  /\ \E k \in 0..NumPhysPages :
       /\ HandReaches(k)
       /\ Sound(At(k)) /\ owner[At(k)] \notin use \ Passed(k)
       /\ ReplaceVictim(e, At(k), k)

(* getPage finds no clear bit; the hand meets a frame whose space pointer  *)
(* is null, deleted or was never set; or the victim has no physical page.  *)
FaultHalts ==
  /\ \/ owner[nextVictim] = NULL /\ pageBits = Frames
     \/ /\ owner[nextVictim] # NULL
        /\ \E k \in 0..NumPhysPages :
             /\ HandReaches(k)
             /\ \/ ~Sound(At(k))
                \/ /\ Sound(At(k)) /\ owner[At(k)] \notin use \ Passed(k)
                   /\ physicalPage[owner[At(k)]] = -1
  /\ Halt

SwapPageIn(e) == FillFreeFrame(e) \/ Evict(e) \/ FaultHalts

-----------------------------------------------------------------------------
(***************************************************************************)
(* User instructions.                                                      *)
(***************************************************************************)
Running(p) == ~halted /\ copyIn = NULL /\ p \in live

Load(p, v) ==
  /\ Running(p) /\ <<p, v>> \in valid
  /\ use' = use \cup {<<p, v>>}
  /\ UNCHANGED <<valid, dirty, physicalPage, owner, nextVictim, pageBits, mainMemory,
                 swapFile, tables, copyIn, halted>>

(* The dirty bits after a store to e.  Mutant: Translate leaves them alone. *)
DirtyForgotten(e) == dirty
DirtyAfter(e) == dirty \cup {e}

Store(p, v, d) ==
  /\ Running(p) /\ <<p, v>> \in valid
  /\ use' = use \cup {<<p, v>>}
  /\ dirty' = DirtyAfter(<<p, v>>)
  /\ mainMemory' = [mainMemory EXCEPT ![physicalPage[<<p, v>>]] = d]
  /\ UNCHANGED <<valid, physicalPage, owner, nextVictim, pageBits, swapFile, tables,
                 copyIn, halted>>

PageFault(p, v) ==
  /\ Running(p) /\ <<p, v>> \notin valid
  /\ SwapPageIn(<<p, v>>)
  /\ UNCHANGED copyIn

(***************************************************************************)
(* Read: userReadWrite copies a buffer into the caller's page.  It retries *)
(* Translate until the page is resident, and translates with writing =     *)
(* FALSE, so that the dirty bit stays as it was.                           *)
(***************************************************************************)
CopyIn(p, v, d) ==
  /\ "read" \in Calls
  /\ ~halted /\ p \in live /\ copyIn \in {NULL, <<<<p, v>>, d>>}
  /\ \/ /\ <<p, v>> \in valid
        /\ use' = use \cup {<<p, v>>}
        /\ mainMemory' = [mainMemory EXCEPT ![physicalPage[<<p, v>>]] = d]
        /\ copyIn' = NULL
        /\ UNCHANGED <<valid, dirty, physicalPage, owner, nextVictim, pageBits, swapFile,
                       tables, halted>>
     \/ /\ <<p, v>> \notin valid
        /\ SwapPageIn(<<p, v>>)
        /\ copyIn' = <<<<p, v>>, d>>

-----------------------------------------------------------------------------
(***************************************************************************)
(* Address spaces: the two constructors and the destructor of AddrSpace.   *)
(***************************************************************************)

(* allocSwapSector once per page: BitMap::Find returns the first clear bit. *)
FreeSectors == Sectors \ swapBits
FirstFit(slot) ==
  /\ \A v, w \in Pages : v < w => slot[v] < slot[w]
  /\ \A v \in Pages, s \in FreeSectors : s < slot[v] => \E w \in Pages : slot[w] = s

(* A space with contents content[v] and every page on swap only. *)
NewSpace(p, content) ==
  \E slot \in [Pages -> FreeSectors] :
    /\ FirstFit(slot)
    /\ live' = live \cup {p}
    /\ swapBits' = swapBits \cup {slot[v] : v \in Pages}
    /\ swapLocation' = [e \in Entries |-> IF e[1] = p THEN slot[e[2]] ELSE swapLocation[e]]
    /\ swapFile' = [s \in Sectors |->
                      IF \E v \in Pages : slot[v] = s
                        THEN content[CHOOSE v \in Pages : slot[v] = s]
                        ELSE swapFile[s]]
    /\ physicalPage' = [e \in Entries |-> IF e[1] = p THEN -1 ELSE physicalPage[e]]
    /\ UNCHANGED <<valid, use, dirty, owner, nextVictim, pageBits, mainMemory, halted>>

(* With no clear bit allocSwapSector returns a negative offset, and the    *)
(* first access to the swap file there aborts the kernel.                  *)
SwapExhausted == Cardinality(FreeSectors) < NumPages

Exec(p) ==
  /\ "exec" \in Calls
  /\ ~halted /\ copyIn = NULL /\ live # {} /\ p \notin live
  /\ \/ NewSpace(p, Image)
     \/ SwapExhausted /\ Halt
  /\ UNCHANGED copyIn

(* What the copy constructor copies: the parent's swap slots, and only     *)
(* those.  Mutant: the child is loaded from the executable instead.        *)
ReloadedImage(p) == Image
CopiedPages(p) == [v \in Pages |-> swapFile[swapLocation[<<p, v>>]]]

Fork(p, c) ==
  /\ "fork" \in Calls
  /\ Running(p) /\ c \in Spaces \ live
  /\ \/ NewSpace(c, CopiedPages(p))
     \/ SwapExhausted /\ Halt
  /\ UNCHANGED copyIn

(* The slots an exit gives back.  Mutant: it keeps the one of page 0. *)
ReleasedButFirst(p) == {swapLocation[<<p, v>>] : v \in Pages \ {0}}
ReleasedSlots(p) == {swapLocation[e] : e \in PagesOf(p)}

(* releasePages: the frame table is cleared at the index of the physical page. *)
Exit(p) ==
  LET freed == {physicalPage[e] : e \in valid \cap PagesOf(p)}
  IN  /\ "exit" \in Calls
      /\ Running(p)
      /\ pageBits' = pageBits \ freed
      /\ owner' = [f \in Frames |-> IF f \in freed THEN NULL ELSE owner[f]]
      /\ swapBits' = swapBits \ ReleasedSlots(p)
      /\ live' = live \ {p}
      /\ valid' = valid \ PagesOf(p)
      /\ use' = use \ PagesOf(p)
      /\ dirty' = dirty \ PagesOf(p)
      /\ physicalPage' = [e \in Entries |-> IF e[1] = p THEN -1 ELSE physicalPage[e]]
      /\ swapLocation' = [e \in Entries |-> IF e[1] = p THEN -1 ELSE swapLocation[e]]
      /\ UNCHANGED <<nextVictim, mainMemory, swapFile, copyIn, halted>>

Next ==
  \/ \E p \in Spaces, v \in Pages : Load(p, v) \/ PageFault(p, v)
  \/ \E p \in Spaces, v \in Pages, d \in Values : Store(p, v, d) \/ CopyIn(p, v, d)
  \/ \E p \in Spaces : Exec(p) \/ Exit(p)
  \/ \E p, c \in Spaces : Fork(p, c)

Spec == Init /\ [][Next]_vars

-----------------------------------------------------------------------------
(* Every variable has its type. *)
TypeOK ==
  /\ live \subseteq Spaces
  /\ valid \subseteq live \X Pages /\ use \subseteq live \X Pages /\ dirty \subseteq live \X Pages
  /\ physicalPage \in [Entries -> Frames \cup {-1}]
  /\ swapLocation \in [Entries -> Sectors \cup {-1}]
  /\ owner \in [Frames -> Entries \cup {NULL, Garbage}]
  /\ nextVictim \in Frames
  /\ pageBits \subseteq Frames
  /\ swapBits \subseteq Sectors
  /\ mainMemory \in [Frames -> Values]
  /\ swapFile \in [Sectors -> Values]
  /\ copyIn \in {NULL} \cup (Entries \X Values)
  /\ halted \in BOOLEAN

-----------------------------------------------------------------------------
(***************************************************************************)
(* Properties.                                                             *)
(***************************************************************************)

(* Swap slots are neither shared nor leaked: a slot is marked in           *)
(* swapSectorMap exactly when one page of one existing space uses it       *)
(* (allocSwapSector in the constructors against Clear in releasePages).    *)
SwapSlotsExact ==
  /\ swapBits = {swapLocation[e] : e \in live \X Pages}
  /\ \A d, e \in live \X Pages : swapLocation[d] = swapLocation[e] => d = e

(* The frame table, the page tables and the physical page bitmap agree:    *)
(* "page table entry corresponding to a physical page" of                  *)
(* getPageTableEntry is the entry that maps that very page.                *)
FrameTableExact ==
  /\ \A f \in Frames : owner[f] # NULL =>
       owner[f] \in valid /\ physicalPage[owner[f]] = f
  /\ \A e \in valid : physicalPage[e] \in Frames /\ owner[physicalPage[e]] = e
  /\ pageBits = {f \in Frames : owner[f] # NULL}

(* What a load of page e by its process returns, now or after a page fault. *)
Contents(e) == IF e \in valid THEN mainMemory[physicalPage[e]]
                              ELSE swapFile[swapLocation[e]]

(* A resident page whose dirty bit is clear equals its swap slot, so that  *)
(* swapPageIn may throw it out without writing it back.                    *)
CleanPagesOnSwap ==
  \A e \in valid \ dirty : mainMemory[physicalPage[e]] = swapFile[swapLocation[e]]

(* Every page fault is served: swapPageIn ends with the faulting page      *)
(* resident, and never finds a frame whose owner it cannot look up.        *)
FaultsServed ==
  [][\A p \in Spaces, v \in Pages : PageFault(p, v) => ~halted' /\ <<p, v>> \in valid']_vars

(* Second chance: a page used since the hand last passed it is thrown out  *)
(* only when every resident page has been used.                            *)
SecondChance ==
  [][\A e \in valid \cap use : e[1] \in live' /\ e \notin valid' => valid \subseteq use]_vars

(* A page fault changes no page's contents, of the process that faults or  *)
(* of any other: swapPageIn writes a dirty victim back to its own slot     *)
(* before the frame is reused, and loads the page's own slot.              *)
FaultsInvisible ==
  [][\A p \in Spaces, v \in Pages : PageFault(p, v) /\ ~halted' =>
       \A e \in live \X Pages : Contents(e)' = Contents(e)]_vars
=============================================================================
