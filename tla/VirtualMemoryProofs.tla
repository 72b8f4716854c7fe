------------------------ MODULE VirtualMemoryProofs ------------------------
(* Proofs about VirtualMemory and PagedMemory for every number of spaces,  *)
(* pages, frames and swap slots.                                           *)
EXTENDS PagedMemory, TLAPS

(* The clock hand stays on a frame: a remainder modulo NumPhysPages is one. *)
LEMMA ModInFrames == \A n \in Nat : n % NumPhysPages \in Frames
  BY SizeAssumption DEF Frames

LEMMA AtInFrames ==
  ASSUME TypeOK, NEW k \in Nat
  PROVE  At(k) \in Frames
  <1>1. nextVictim \in Nat BY DEF TypeOK, Frames
  <1>2. nextVictim + k \in Nat BY <1>1
  <1> QED BY <1>2, ModInFrames DEF At

-----------------------------------------------------------------------------
(* Types.  TypeOK alone is not inductive: a fault reads the swap slot of   *)
(* the page and the physical page of the victim, which must exist.         *)
Located ==
  /\ \A e \in live \X Pages : swapLocation[e] \in Sectors
  /\ \A e \in valid : physicalPage[e] \in Frames

TypeInv == TypeOK /\ Located

LEMMA InitTypeInv == Init => TypeInv
  <1> SUFFICES ASSUME Init PROVE TypeInv OBVIOUS
  <1> USE SizeAssumption, SpaceAssumption, ImageAssumption
  <1>1. owner \in [Frames -> Entries \cup {NULL, Garbage}]
    BY HeapAssumption DEF Init
  <1>2. nextVictim \in Frames /\ swapBits \subseteq Sectors
    BY DEF Init, Frames, Pages, Sectors
  <1>3. swapLocation \in [Entries -> Sectors \cup {-1}]
    BY DEF Init, Entries, Pages, Sectors
  <1>4. mainMemory \in [Frames -> Values] /\ swapFile \in [Sectors -> Values]
    BY DEF Init
  <1>5. TypeOK
    BY <1>1, <1>2, <1>3, <1>4 DEF Init, TypeOK
  <1>6. Located
    BY DEF Init, Located, Entries, Pages, Sectors
  <1> QED BY <1>5, <1>6 DEF TypeInv

LEMMA FillTypeInv ==
  ASSUME TypeInv, NEW e \in live \X Pages, FillFreeFrame(e), copyIn' \in {NULL} \cup (Entries \X Values)
  PROVE  TypeInv'
  <1> DEFINE n == nextVictim
  <1>1. e \in Entries /\ swapLocation[e] \in Sectors
    BY DEF TypeInv, TypeOK, Located, Entries
  <1>2. PICK f \in Frames \ pageBits :
          /\ physicalPage' = [physicalPage EXCEPT ![e] = f]
          /\ pageBits' = pageBits \cup {f}
          /\ mainMemory' = [mainMemory EXCEPT ![f] = swapFile[swapLocation[e]]]
    BY DEF NextHand, FillFreeFrame
  <1>3. nextVictim' \in Frames
    <2>1. n + 1 \in Nat BY DEF TypeInv, TypeOK, Frames
    <2> QED BY <2>1, ModInFrames DEF NextHand, FillFreeFrame
  <1>4. UNCHANGED <<use, dirty, swapFile, live, swapLocation, swapBits, halted>>
    BY DEF NextHand, FillFreeFrame, tables
  <1>5. valid' = valid \cup {e} /\ owner' = [owner EXCEPT ![n] = e]
    BY DEF NextHand, FillFreeFrame
  <1>6. TypeOK'
    BY <1>1, <1>2, <1>3, <1>4, <1>5 DEF TypeInv, TypeOK
  <1>7. Located'
    BY <1>1, <1>2, <1>4, <1>5 DEF TypeInv, TypeOK, Located
  <1> QED BY <1>6, <1>7 DEF TypeInv

LEMMA EvictTypeInv ==
  ASSUME TypeInv, NEW e \in live \X Pages, Evict(e), copyIn' \in {NULL} \cup (Entries \X Values)
  PROVE  TypeInv'
  <1>1. e \in Entries /\ swapLocation[e] \in Sectors
    BY DEF TypeInv, TypeOK, Located, Entries
  <1>2. PICK k \in 0..NumPhysPages :
          Sound(At(k)) /\ ReplaceVictim(e, At(k), k)
    BY DEF Evict
  <1> DEFINE f == At(k)
             victim == owner[f]
             page == physicalPage[victim]
  <1>3. f \in Frames
    BY AtInFrames, SizeAssumption DEF TypeInv
  <1>4. victim \in live \X Pages /\ victim \in Entries
    BY <1>2, <1>3 DEF Sound, TypeInv, TypeOK, Entries
  <1>5. page \in Frames
    BY <1>2, <1>4 DEF WriteBack, ValidAfter, ReplaceVictim, TypeInv, TypeOK
  <1>6. swapLocation[victim] \in Sectors
    BY <1>4 DEF TypeInv, Located
  <1>7. swapFile' \in [Sectors -> Values]
    BY <1>2, <1>5, <1>6 DEF WriteBack, ValidAfter, ReplaceVictim, TypeInv, TypeOK
  <1>8. mainMemory' \in [Frames -> Values]
    BY <1>1, <1>2, <1>5, <1>7 DEF WriteBack, ValidAfter, ReplaceVictim, TypeInv, TypeOK
  <1>9. /\ dirty' = dirty \ {victim} /\ use' \subseteq use
        /\ valid' = (valid \ {victim}) \cup {e}
        /\ physicalPage' = [physicalPage EXCEPT ![e] = page]
        /\ owner' = [owner EXCEPT ![f] = e]
        /\ nextVictim' = f
        /\ UNCHANGED <<pageBits, live, swapLocation, swapBits, halted>>
    BY <1>2 DEF WriteBack, ValidAfter, ReplaceVictim, tables
  <1> HIDE DEF page, victim, f
  <1>10. TypeOK'
    BY <1>1, <1>3, <1>5, <1>7, <1>8, <1>9 DEF TypeInv, TypeOK
  <1>11. Located'
    BY <1>1, <1>5, <1>9 DEF TypeInv, TypeOK, Located
  <1> QED BY <1>10, <1>11 DEF TypeInv

LEMMA HaltTypeInv ==
  ASSUME TypeInv, Halt, copyIn' \in {NULL} \cup (Entries \X Values)
  PROVE  TypeInv'
  BY DEF TypeInv, TypeOK, Located, Halt

LEMMA SwapPageInTypeInv ==
  ASSUME TypeInv, NEW e \in live \X Pages, SwapPageIn(e),
         copyIn' \in {NULL} \cup (Entries \X Values)
  PROVE  TypeInv'
  BY FillTypeInv, EvictTypeInv, HaltTypeInv DEF SwapPageIn, FaultHalts

(* The slots of a new space are slots, and distinct pages get distinct ones. *)
LEMMA NewSpaceTypeInv ==
  ASSUME TypeInv, NEW p \in Spaces, NEW content \in [Pages -> Values],
         NewSpace(p, content), p \notin live, UNCHANGED copyIn
  PROVE  TypeInv'
  <1>1. PICK slot \in [Pages -> FreeSectors] :
          /\ live' = live \cup {p}
          /\ swapBits' = swapBits \cup {slot[v] : v \in Pages}
          /\ swapLocation' = [e \in Entries |-> IF e[1] = p THEN slot[e[2]] ELSE swapLocation[e]]
          /\ swapFile' = [s \in Sectors |->
                            IF \E v \in Pages : slot[v] = s
                              THEN content[CHOOSE v \in Pages : slot[v] = s]
                              ELSE swapFile[s]]
          /\ physicalPage' = [e \in Entries |-> IF e[1] = p THEN -1 ELSE physicalPage[e]]
    BY DEF NewSpace
  <1>2. UNCHANGED <<valid, use, dirty, owner, nextVictim, pageBits, mainMemory, halted>>
    BY DEF NewSpace
  <1>3. \A v \in Pages : slot[v] \in Sectors
    BY DEF FreeSectors
  <1>4. swapLocation' \in [Entries -> Sectors \cup {-1}]
    BY <1>1, <1>3 DEF TypeInv, TypeOK, Entries
  <1>5. swapFile' \in [Sectors -> Values]
    BY <1>1 DEF TypeInv, TypeOK
  <1>6. physicalPage' \in [Entries -> Frames \cup {-1}]
    BY <1>1 DEF TypeInv, TypeOK
  <1>7. live' \subseteq Spaces /\ swapBits' \subseteq Sectors /\ live \subseteq live'
    BY <1>1, <1>3 DEF TypeInv, TypeOK
  <1>8. TypeOK'
    BY <1>2, <1>4, <1>5, <1>6, <1>7 DEF TypeInv, TypeOK
  <1>9. \A e \in live' \X Pages : swapLocation'[e] \in Sectors
    BY <1>1, <1>3, <1>7 DEF TypeInv, Located, Entries
  <1>10. \A e \in valid' : physicalPage'[e] \in Frames
    BY <1>1, <1>2 DEF TypeInv, TypeOK, Located, Entries
  <1> QED BY <1>8, <1>9, <1>10 DEF TypeInv, Located

LEMMA ExitTypeInv ==
  ASSUME TypeInv, NEW p \in Spaces, Exit(p)
  PROVE  TypeInv'
  <1>1. TypeOK'
    BY DEF ReleasedSlots, Exit, TypeInv, TypeOK, PagesOf
  <1>2. Located'
    BY DEF ReleasedSlots, Exit, TypeInv, TypeOK, Located, PagesOf, Entries
  <1> QED BY <1>1, <1>2 DEF TypeInv

(* Instructions that touch a resident page. *)
LEMMA AccessTypeInv ==
  ASSUME TypeInv, NEW p \in Spaces, NEW v \in Pages, NEW d \in Values,
         Load(p, v) \/ Store(p, v, d) \/ CopyIn(p, v, d)
  PROVE  TypeInv'
  <1>1. CASE Load(p, v)
    BY <1>1 DEF Load, Running, tables, TypeInv, TypeOK, Located
  <1>2. CASE Store(p, v, d)
    <2>1. physicalPage[<<p, v>>] \in Frames
      BY <1>2 DEF DirtyAfter, Store, TypeInv, Located
    <2>2. TypeOK'
      BY <1>2, <2>1 DEF DirtyAfter, Store, Running, tables, TypeInv, TypeOK
    <2> QED BY <1>2, <2>2 DEF DirtyAfter, Store, tables, TypeInv, Located
  <1>3. CASE CopyIn(p, v, d)
    <2>1. CASE <<p, v>> \in valid
      <3>1. physicalPage[<<p, v>>] \in Frames
        BY <2>1 DEF TypeInv, Located
      <3>2. TypeOK'
        BY <1>3, <2>1, <3>1 DEF CopyIn, tables, TypeInv, TypeOK
      <3> QED BY <1>3, <2>1, <3>2 DEF CopyIn, tables, TypeInv, Located
    <2>2. CASE <<p, v>> \notin valid
      <3>1. <<p, v>> \in live \X Pages /\ <<p, v>> \in Entries
        BY <1>3 DEF CopyIn, Entries
      <3>2. SwapPageIn(<<p, v>>) /\ copyIn' \in {NULL} \cup (Entries \X Values)
        BY <1>3, <2>2, <3>1 DEF CopyIn
      <3> QED BY <3>1, <3>2, SwapPageInTypeInv
    <2> QED BY <2>1, <2>2
  <1> QED BY <1>1, <1>2, <1>3

LEMMA NextTypeInv == TypeInv /\ [Next]_vars => TypeInv'
  <1> SUFFICES ASSUME TypeInv, [Next]_vars PROVE TypeInv' OBVIOUS
  <1>0. copyIn \in {NULL} \cup (Entries \X Values)
    BY DEF TypeInv, TypeOK
  <1>1. ASSUME NEW p \in Spaces, NEW v \in Pages, Load(p, v) PROVE TypeInv'
    BY <1>1, AccessTypeInv, ImageAssumption
  <1>2. ASSUME NEW p \in Spaces, NEW v \in Pages, PageFault(p, v) PROVE TypeInv'
    <2>1. <<p, v>> \in live \X Pages /\ SwapPageIn(<<p, v>>) /\ UNCHANGED copyIn
      BY <1>2 DEF PageFault, Running
    <2> QED BY <2>1, <1>0, SwapPageInTypeInv
  <1>3. ASSUME NEW p \in Spaces, NEW v \in Pages, NEW d \in Values,
               Store(p, v, d) \/ CopyIn(p, v, d)
        PROVE TypeInv'
    BY <1>3, AccessTypeInv
  <1>4. ASSUME NEW p \in Spaces, Exec(p) PROVE TypeInv'
    BY <1>0, <1>4, NewSpaceTypeInv, HaltTypeInv, ImageAssumption DEF Exec
  <1>5. ASSUME NEW p \in Spaces, Exit(p) PROVE TypeInv'
    BY <1>5, ExitTypeInv
  <1>6. ASSUME NEW p \in Spaces, NEW c \in Spaces, Fork(p, c) PROVE TypeInv'
    <2> DEFINE content == [v \in Pages |-> swapFile[swapLocation[<<p, v>>]]]
    <2>1. content \in [Pages -> Values]
      BY <1>6 DEF CopiedPages, Fork, Running, TypeInv, TypeOK, Located
    <2>2. c \notin live /\ UNCHANGED copyIn /\ (NewSpace(c, content) \/ Halt)
      BY <1>6 DEF CopiedPages, Fork
    <2> HIDE DEF content
    <2> QED BY <2>1, <2>2, <1>0, NewSpaceTypeInv, HaltTypeInv
  <1>7. CASE UNCHANGED vars
    BY <1>7 DEF vars, TypeInv, TypeOK, Located
  <1> QED BY <1>1, <1>2, <1>3, <1>4, <1>5, <1>6, <1>7 DEF Next

LEMMA SpecTypeInv == Spec => []TypeInv
  BY InitTypeInv, NextTypeInv, PTL DEF Spec

(* Every variable keeps its type, through page faults, forks and exits. *)
THEOREM TypeCorrect == Spec => []TypeOK
  BY SpecTypeInv, PTL DEF TypeInv

-----------------------------------------------------------------------------
(* Swap slots.  SwapSlotsExact is inductive given the types.               *)

LEMMA InitSwapSlots == Init => SwapSlotsExact
  <1> SUFFICES ASSUME Init PROVE SwapSlotsExact OBVIOUS
  <1> USE SpaceAssumption DEF Init, Entries
  <1>1. \A e \in live \X Pages : e \in Entries /\ e[1] = Initial /\ swapLocation[e] = e[2]
    OBVIOUS
  <1>2. swapBits = {swapLocation[e] : e \in live \X Pages}
    <2>1. ASSUME NEW v \in Pages PROVE v \in {swapLocation[e] : e \in live \X Pages}
      <3>1. <<Initial, v>> \in live \X Pages /\ swapLocation[<<Initial, v>>] = v
        BY <1>1
      <3> QED BY <3>1
    <2> QED BY <2>1, <1>1
  <1>3. ASSUME NEW d \in live \X Pages, NEW e \in live \X Pages,
               swapLocation[d] = swapLocation[e]
        PROVE  d = e
    <2>1. d[1] = e[1] /\ d[2] = e[2]
      BY <1>1, <1>3
    <2> QED BY <2>1
  <1> QED BY <1>2, <1>3 DEF SwapSlotsExact

LEMMA NewSpaceSwapSlots ==
  ASSUME TypeInv, SwapSlotsExact, NEW p \in Spaces, NEW content,
         p \notin live, NewSpace(p, content)
  PROVE  SwapSlotsExact'
  <1>1. PICK slot \in [Pages -> FreeSectors] :
          /\ FirstFit(slot)
          /\ live' = live \cup {p}
          /\ swapBits' = swapBits \cup {slot[v] : v \in Pages}
          /\ swapLocation' = [e \in Entries |-> IF e[1] = p THEN slot[e[2]] ELSE swapLocation[e]]
    BY DEF NewSpace
  <1>2. \A v, w \in Pages : slot[v] = slot[w] => v = w
    BY <1>1 DEF FirstFit, FreeSectors, Pages, Sectors
  <1>3. \A v \in Pages : slot[v] \notin swapBits
    BY DEF FreeSectors
  <1>4. \A e \in live \X Pages : e \in Entries /\ e[1] # p /\ swapLocation'[e] = swapLocation[e]
    BY <1>1 DEF TypeInv, TypeOK, Entries
  <1>5. \A v \in Pages : <<p, v>> \in Entries /\ swapLocation'[<<p, v>>] = slot[v]
    BY <1>1 DEF Entries
  <1>6. \A e \in live' \X Pages :
          e \in live \X Pages \/ \E v \in Pages : e = <<p, v>>
    BY <1>1
  <1>7. \A e \in live \X Pages : swapLocation[e] \in swapBits
    BY DEF SwapSlotsExact
  <1>8. swapBits' = {swapLocation'[e] : e \in live' \X Pages}
    <2>1. ASSUME NEW s \in swapBits' PROVE \E e \in live' \X Pages : s = swapLocation'[e]
      <3>1. CASE s \in swapBits
        BY <1>1, <1>4, <3>1 DEF SwapSlotsExact
      <3>2. CASE \E v \in Pages : s = slot[v]
        <4>1. PICK v \in Pages : s = slot[v] BY <3>2
        <4>2. <<p, v>> \in live' \X Pages BY <1>1
        <4> QED BY <4>1, <4>2, <1>5
      <3> QED BY <1>1, <3>1, <3>2
    <2>2. ASSUME NEW e \in live' \X Pages PROVE swapLocation'[e] \in swapBits'
      BY <1>1, <1>4, <1>5, <1>6, <1>7
    <2> QED BY <2>1, <2>2
  <1>9. ASSUME NEW d \in live' \X Pages, NEW e \in live' \X Pages,
               swapLocation'[d] = swapLocation'[e]
        PROVE  d = e
    BY <1>2, <1>3, <1>4, <1>5, <1>6, <1>7, <1>9 DEF SwapSlotsExact
  <1> QED BY <1>8, <1>9 DEF SwapSlotsExact

LEMMA ExitSwapSlots ==
  ASSUME TypeInv, SwapSlotsExact, NEW p \in Spaces, Exit(p)
  PROVE  SwapSlotsExact'
  <1>1. /\ live' = live \ {p}
        /\ swapBits' = swapBits \ {swapLocation[e] : e \in PagesOf(p)}
        /\ p \in live
    BY DEF ReleasedSlots, Exit, Running
  <1>2. \A e \in live' \X Pages :
          e \in live \X Pages /\ e \notin PagesOf(p) /\ swapLocation'[e] = swapLocation[e]
    BY <1>1 DEF ReleasedSlots, Exit, PagesOf, TypeInv, TypeOK, Entries
  <1>3. PagesOf(p) \subseteq live \X Pages
    BY <1>1 DEF PagesOf
  <1>4. \A e \in live \X Pages : e \in PagesOf(p) \/ e \in live' \X Pages
    BY <1>1 DEF PagesOf
  <1>5. swapBits' = {swapLocation'[e] : e \in live' \X Pages}
    <2>1. ASSUME NEW s \in swapBits' PROVE \E e \in live' \X Pages : s = swapLocation'[e]
      <3>1. PICK e \in live \X Pages : s = swapLocation[e]
        BY <1>1 DEF SwapSlotsExact
      <3>2. e \notin PagesOf(p)
        BY <1>1, <3>1
      <3> QED BY <1>2, <1>4, <3>1, <3>2
    <2>2. ASSUME NEW e \in live' \X Pages PROVE swapLocation'[e] \in swapBits'
      <3>1. swapLocation[e] \in swapBits BY <1>2 DEF SwapSlotsExact
      <3>2. \A d \in PagesOf(p) : swapLocation[d] # swapLocation[e]
        BY <1>2, <1>3 DEF SwapSlotsExact
      <3> QED BY <1>1, <1>2, <3>1, <3>2
    <2> QED BY <2>1, <2>2
  <1> QED BY <1>2, <1>5 DEF SwapSlotsExact

LEMMA PagingKeepsSwapSlots ==
  ASSUME SwapSlotsExact, UNCHANGED tables
  PROVE  SwapSlotsExact'
  BY DEF SwapSlotsExact, tables

LEMMA NextSwapSlots == TypeInv /\ SwapSlotsExact /\ [Next]_vars => SwapSlotsExact'
  <1> SUFFICES ASSUME TypeInv, SwapSlotsExact, [Next]_vars PROVE SwapSlotsExact' OBVIOUS
  <1>1. ASSUME NEW p \in Spaces, NEW v \in Pages, NEW d \in Values,
               \/ Load(p, v) \/ PageFault(p, v) \/ Store(p, v, d) \/ CopyIn(p, v, d)
               \/ UNCHANGED vars
        PROVE  UNCHANGED tables
    <2>1. ASSUME NEW e, SwapPageIn(e) PROVE UNCHANGED tables
      BY <2>1 DEF WriteBack, ValidAfter, NextHand, SwapPageIn, FillFreeFrame, Evict, ReplaceVictim, FaultHalts, Halt, tables
    <2> QED BY <1>1, <2>1 DEF DirtyAfter, Load, PageFault, Store, CopyIn, vars, tables
  <1>2. ASSUME NEW p \in Spaces, Exec(p) PROVE SwapSlotsExact'
    BY <1>2, NewSpaceSwapSlots DEF Exec, Halt, SwapSlotsExact
  <1>3. ASSUME NEW p \in Spaces, NEW c \in Spaces, Fork(p, c) PROVE SwapSlotsExact'
    BY <1>3, NewSpaceSwapSlots DEF CopiedPages, Fork, Halt, SwapSlotsExact
  <1>4. Zero \in Values /\ 0 \in Pages
    BY ImageAssumption, SizeAssumption DEF Pages
  <1> QED
    BY <1>1, <1>2, <1>3, <1>4, ExitSwapSlots, PagingKeepsSwapSlots, SpaceAssumption DEF Next

(* Swap slots are neither shared nor leaked, for any sequence of loads,    *)
(* stores, page faults, execs, forks, reads and exits.                     *)
THEOREM SwapSlotsCorrect == Spec => []SwapSlotsExact
  BY InitSwapSlots, NextSwapSlots, SpecTypeInv, PTL DEF Spec

-----------------------------------------------------------------------------
(* The frame table.  releasePages is what breaks it, so the theorems below *)
(* are about programs that never exit, on a zeroed frame table.  That the  *)
(* first clear bit of the bitmap is the frame under the hand needs that    *)
(* the frames never used yet are exactly those the hand has not reached.   *)
FreeFramesAhead ==
  (\E f \in Frames : owner[f] = NULL) =>
    \A g \in Frames : owner[g] = NULL <=> nextVictim <= g

FrameInv == FrameTableExact /\ FreeFramesAhead

LEMMA InitFrameInv ==
  ASSUME HeapZeroed, Init
  PROVE  FrameInv
  BY DEF Init, FrameInv, FrameTableExact, FreeFramesAhead, Frames

(* The frame getPage returns is the frame under the hand. *)
LEMMA FillTakesVictim ==
  ASSUME TypeInv, FrameInv, owner[nextVictim] = NULL,
         NEW f \in Frames \ pageBits, \A g \in Frames \ pageBits : f <= g
  PROVE  f = nextVictim
  <1>1. nextVictim \in Frames \ pageBits
    BY DEF TypeInv, TypeOK, FrameInv, FrameTableExact
  <1>2. owner[f] = NULL
    BY DEF FrameInv, FrameTableExact
  <1>3. nextVictim <= f
    BY <1>1, <1>2 DEF FrameInv, FreeFramesAhead
  <1>4. f <= nextVictim
    BY <1>1
  <1> QED BY <1>1, <1>3, <1>4 DEF Frames

LEMMA FillFrameInv ==
  ASSUME TypeInv, FrameInv, NEW e \in live \X Pages, e \notin valid, FillFreeFrame(e)
  PROVE  FrameInv'
  <1> DEFINE n == nextVictim
  <1>1. e \in Entries /\ n \in Frames /\ e # NULL
    BY NullAssumption DEF TypeInv, TypeOK, Entries
  <1>2. /\ physicalPage' = [physicalPage EXCEPT ![e] = n]
        /\ pageBits' = pageBits \cup {n}
        /\ owner' = [owner EXCEPT ![n] = e]
        /\ valid' = valid \cup {e}
        /\ nextVictim' = (n + 1) % NumPhysPages
        /\ owner[n] = NULL
    BY FillTakesVictim DEF NextHand, FillFreeFrame
  <1>3. FrameTableExact'
    <2>1. ASSUME NEW f \in Frames, owner'[f] # NULL
          PROVE  owner'[f] \in valid' /\ physicalPage'[owner'[f]] = f
      BY <2>1, <1>1, <1>2 DEF TypeInv, TypeOK, FrameInv, FrameTableExact
    <2>2. ASSUME NEW d \in valid'
          PROVE  physicalPage'[d] \in Frames /\ owner'[physicalPage'[d]] = d
      <3>1. CASE d = e
        BY <3>1, <1>1, <1>2 DEF TypeInv, TypeOK
      <3>2. CASE d # e
        <4>1. d \in valid /\ d \in Entries /\ d # NULL
          BY <2>2, <3>2, <1>2, NullAssumption DEF TypeInv, TypeOK, Entries
        <4>2. physicalPage[d] \in Frames /\ owner[physicalPage[d]] = d
          BY <4>1 DEF FrameInv, FrameTableExact
        <4>3. physicalPage[d] # n /\ physicalPage'[d] = physicalPage[d]
          BY <4>1, <4>2, <3>2, <1>2 DEF TypeInv, TypeOK
        <4> QED BY <4>2, <4>3, <1>1, <1>2 DEF TypeInv, TypeOK
      <3> QED BY <3>1, <3>2
    <2>3. pageBits' = {f \in Frames : owner'[f] # NULL}
      BY <1>1, <1>2 DEF TypeInv, TypeOK, FrameInv, FrameTableExact
    <2> QED BY <2>1, <2>2, <2>3 DEF FrameTableExact
  <1>4. FreeFramesAhead'
    <2>1. \A g \in Frames : owner[g] = NULL <=> n <= g
      BY <1>1, <1>2 DEF FrameInv, FreeFramesAhead
    <2>2. \A g \in Frames : owner'[g] = NULL <=> n < g
      BY <2>1, <1>1, <1>2 DEF TypeInv, TypeOK, Frames
    <2>3. CASE n = NumPhysPages - 1
      BY <2>2, <2>3 DEF FreeFramesAhead, Frames
    <2>4. CASE n # NumPhysPages - 1
      <3>1. n + 1 \in 0..(NumPhysPages - 1) /\ n \in Nat
        BY <1>1, <2>4, SizeAssumption DEF Frames
      <3>2. nextVictim' = n + 1
        BY <3>1, <1>2, SizeAssumption
      <3> QED BY <2>2, <3>1, <3>2 DEF FreeFramesAhead, Frames
    <2> QED BY <2>3, <2>4
  <1> QED BY <1>3, <1>4 DEF FrameInv

(* What an eviction does once the frame table is exact: the victim's frame *)
(* is the frame it is recorded in.                                         *)
LEMMA EvictFacts ==
  ASSUME TypeInv, FrameTableExact, NEW e \in live \X Pages, Evict(e)
  PROVE  \E f \in Frames :
           /\ owner[f] \in valid /\ physicalPage[owner[f]] = f
           /\ swapFile' = IF owner[f] \in dirty
                            THEN [swapFile EXCEPT ![swapLocation[owner[f]]] = mainMemory[f]]
                            ELSE swapFile
           /\ mainMemory' = [mainMemory EXCEPT ![f] = swapFile'[swapLocation[e]]]
           /\ dirty' = dirty \ {owner[f]}
           /\ valid' = (valid \ {owner[f]}) \cup {e}
           /\ physicalPage' = [physicalPage EXCEPT ![e] = f]
           /\ owner' = [owner EXCEPT ![f] = e]
           /\ UNCHANGED <<pageBits, tables, halted>>
  <1>1. PICK k \in 0..NumPhysPages : Sound(At(k)) /\ ReplaceVictim(e, At(k), k)
    BY DEF Evict
  <1> DEFINE f == At(k)
  <1>2. f \in Frames
    BY AtInFrames, SizeAssumption DEF TypeInv
  <1>3. owner[f] # NULL
    BY <1>1 DEF Sound
  <1>4. owner[f] \in valid /\ physicalPage[owner[f]] = f
    BY <1>2, <1>3 DEF FrameTableExact
  <1>5. ReplaceVictim(e, f, k)
    BY <1>1
  <1> HIDE DEF f
  <1> QED BY <1>2, <1>4, <1>5 DEF WriteBack, ValidAfter, ReplaceVictim

LEMMA EvictFrameInv ==
  ASSUME TypeInv, FrameInv, NEW e \in live \X Pages, e \notin valid, Evict(e)
  PROVE  FrameInv'
  <1>0. \A g \in Frames : owner[g] # NULL
    <2>1. nextVictim \in Frames /\ nextVictim <= nextVictim /\ owner[nextVictim] # NULL
      BY DEF Evict, TypeInv, TypeOK, Frames
    <2> QED BY <2>1 DEF FrameInv, FreeFramesAhead
  <1>1. PICK f \in Frames :
          /\ owner[f] \in valid /\ physicalPage[owner[f]] = f
          /\ valid' = (valid \ {owner[f]}) \cup {e}
          /\ physicalPage' = [physicalPage EXCEPT ![e] = f]
          /\ owner' = [owner EXCEPT ![f] = e]
          /\ UNCHANGED pageBits
    BY EvictFacts DEF FrameInv
  <1>2. e \in Entries /\ e # NULL
    BY NullAssumption DEF TypeInv, TypeOK, Entries
  <1>3. \A g \in Frames : owner'[g] = IF g = f THEN e ELSE owner[g]
    BY <1>1 DEF TypeInv, TypeOK
  <1>4. valid \subseteq Entries
    BY DEF TypeInv, TypeOK, Entries
  <1>5. \A d \in valid : physicalPage'[d] = physicalPage[d]
    BY <1>1, <1>4 DEF TypeInv, TypeOK
  <1>6. physicalPage'[e] = f
    BY <1>1, <1>2 DEF TypeInv, TypeOK
  <1>7. ASSUME NEW g \in Frames
        PROVE  owner'[g] \in valid' /\ physicalPage'[owner'[g]] = g
    BY <1>0, <1>1, <1>3, <1>5, <1>6 DEF FrameInv, FrameTableExact
  <1>8. ASSUME NEW d \in valid'
        PROVE  physicalPage'[d] \in Frames /\ owner'[physicalPage'[d]] = d
    BY <1>1, <1>3, <1>5, <1>6 DEF FrameInv, FrameTableExact
  <1>9. \A g \in Frames : owner'[g] # NULL
    BY <1>0, <1>2, <1>3
  <1>10. pageBits' = {g \in Frames : owner'[g] # NULL}
    BY <1>0, <1>1, <1>9 DEF FrameInv, FrameTableExact
  <1> QED BY <1>7, <1>8, <1>9, <1>10 DEF FrameInv, FrameTableExact, FreeFramesAhead

(* With an exact frame table the hand finds an owner in every frame it     *)
(* looks at, so that a page fault never halts the kernel.                  *)
LEMMA FaultNeverHalts ==
  ASSUME TypeInv, FrameInv
  PROVE  ~FaultHalts
  <1>1. nextVictim \in Frames
    BY DEF TypeInv, TypeOK
  <1>2. ASSUME owner[nextVictim] = NULL, pageBits = Frames PROVE FALSE
    BY <1>1, <1>2 DEF FrameInv, FrameTableExact
  <1>3. ASSUME owner[nextVictim] # NULL, NEW k \in 0..NumPhysPages
        PROVE  Sound(At(k)) /\ physicalPage[owner[At(k)]] # -1
    <2>1. At(k) \in Frames
      BY AtInFrames, SizeAssumption DEF TypeInv
    <2>2. owner[At(k)] # NULL
      BY <1>1, <1>3, <2>1 DEF FrameInv, FreeFramesAhead, Frames
    <2>3. owner[At(k)] \in valid /\ physicalPage[owner[At(k)]] = At(k)
      BY <2>1, <2>2 DEF FrameInv, FrameTableExact
    <2>4. owner[At(k)] \in live \X Pages /\ owner[At(k)] \in Entries
      BY <2>3 DEF TypeInv, TypeOK, Entries
    <2> QED BY <2>1, <2>2, <2>3, <2>4, NullAssumption DEF Sound, Frames
  <1> QED BY <1>2, <1>3 DEF FaultHalts

LEMMA FaultFrameInv ==
  ASSUME TypeInv, FrameInv, NEW e \in live \X Pages, e \notin valid, SwapPageIn(e)
  PROVE  FrameInv' /\ e \in valid' /\ halted' = halted
  <1>1. FillFreeFrame(e) \/ Evict(e)
    BY FaultNeverHalts DEF SwapPageIn
  <1>2. CASE FillFreeFrame(e)
    BY <1>2, FillFrameInv DEF NextHand, FillFreeFrame
  <1>3. CASE Evict(e)
    BY <1>3, EvictFrameInv, EvictFacts DEF FrameInv
  <1> QED BY <1>1, <1>2, <1>3

(* A new space has no resident page, so the frame table is as it was. *)
LEMMA NewSpaceFrameInv ==
  ASSUME TypeInv, FrameInv, NEW p \in Spaces \ live, NEW content, NewSpace(p, content)
  PROVE  FrameInv'
  <1>1. /\ physicalPage' = [e \in Entries |-> IF e[1] = p THEN -1 ELSE physicalPage[e]]
        /\ UNCHANGED <<valid, owner, nextVictim, pageBits>>
    BY DEF NewSpace
  <1>2. \A e \in valid : e \in Entries /\ e[1] # p
    BY DEF TypeInv, TypeOK, Entries
  <1>3. \A e \in valid : physicalPage'[e] = physicalPage[e]
    BY <1>1, <1>2
  <1> QED BY <1>1, <1>3 DEF FrameInv, FrameTableExact, FreeFramesAhead

LEMMA NextFrameInv ==
  ASSUME "exit" \notin Calls, TypeInv, FrameInv, [Next]_vars
  PROVE  FrameInv'
  <1> DEFINE frames == <<valid, physicalPage, owner, nextVictim, pageBits>>
  <1>1. ASSUME UNCHANGED frames PROVE FrameInv'
    BY <1>1 DEF FrameInv, FrameTableExact, FreeFramesAhead
  <1>2. ASSUME NEW p \in Spaces, NEW v \in Pages, Load(p, v) PROVE FrameInv'
    BY <1>1, <1>2 DEF Load
  <1>3. ASSUME NEW p \in Spaces, NEW v \in Pages, NEW d \in Values, Store(p, v, d)
        PROVE  FrameInv'
    BY <1>1, <1>3 DEF DirtyAfter, Store
  <1>4. ASSUME NEW p \in Spaces, NEW v \in Pages, PageFault(p, v) PROVE FrameInv'
    BY <1>4, FaultFrameInv DEF PageFault, Running
  <1>5. ASSUME NEW p \in Spaces, NEW v \in Pages, NEW d \in Values, CopyIn(p, v, d)
        PROVE  FrameInv'
    <2>1. CASE <<p, v>> \in valid BY <1>1, <1>5, <2>1 DEF CopyIn
    <2>2. CASE <<p, v>> \notin valid BY <1>5, <2>2, FaultFrameInv DEF CopyIn
    <2> QED BY <2>1, <2>2
  <1>6. ASSUME NEW p \in Spaces, Exec(p) PROVE FrameInv'
    <2>1. CASE NewSpace(p, Image) BY <1>6, <2>1, NewSpaceFrameInv DEF Exec
    <2>2. CASE Halt BY <1>1, <2>2 DEF Halt
    <2> QED BY <1>6, <2>1, <2>2 DEF Exec
  <1>7. ASSUME NEW p \in Spaces, NEW c \in Spaces, Fork(p, c) PROVE FrameInv'
    <2>1. CASE \E content : NewSpace(c, content)
      BY <1>7, <2>1, NewSpaceFrameInv DEF CopiedPages, Fork
    <2>2. CASE Halt BY <1>1, <2>2 DEF Halt
    <2> QED BY <1>7, <2>1, <2>2 DEF CopiedPages, Fork
  <1>8. ASSUME NEW p \in Spaces PROVE ~Exit(p)
    BY DEF ReleasedSlots, Exit
  <1>9. ASSUME UNCHANGED vars PROVE FrameInv'
    BY <1>1, <1>9 DEF vars
  <1> HIDE DEF frames
  <1>10. CASE Next
    BY <1>2, <1>3, <1>4, <1>5, <1>6, <1>7, <1>8, <1>10 DEF Next
  <1> QED BY <1>9, <1>10

LEMMA SpecFrameInv ==
  ASSUME HeapZeroed, "exit" \notin Calls
  PROVE  Spec => [](TypeInv /\ FrameInv)
  <1>1. Init => FrameInv
    BY InitFrameInv
  <1>2. TypeInv /\ FrameInv /\ [Next]_vars => FrameInv'
    BY NextFrameInv
  <1> QED BY <1>1, <1>2, SpecTypeInv, PTL DEF Spec

(* As long as no program exits, and the frame table starts out zeroed, the *)
(* frame table, the page tables and the bitmap of physical pages agree.    *)
THEOREM FrameTableCorrect ==
  ASSUME HeapZeroed, "exit" \notin Calls
  PROVE  Spec => []FrameTableExact
  <1>1. FrameInv => FrameTableExact
    BY DEF FrameInv
  <1> QED BY <1>1, SpecFrameInv, PTL

(* Under the same assumptions every page fault ends with the page resident. *)
THEOREM FaultsServedCorrect ==
  ASSUME HeapZeroed, "exit" \notin Calls
  PROVE  Spec => FaultsServed
  <1> DEFINE Served == \A p \in Spaces, v \in Pages :
                         PageFault(p, v) => ~halted' /\ <<p, v>> \in valid'
  <1>1. ASSUME TypeInv, FrameInv, NEW p \in Spaces, NEW v \in Pages, PageFault(p, v)
        PROVE  ~halted' /\ <<p, v>> \in valid'
    <2>1. <<p, v>> \in live \X Pages /\ <<p, v>> \notin valid /\ ~halted
          /\ SwapPageIn(<<p, v>>)
      BY <1>1 DEF PageFault, Running
    <2> QED BY <1>1, <2>1, FaultFrameInv DEF TypeInv, TypeOK
  <1>2. TypeInv /\ FrameInv /\ [Next]_vars => [Served]_vars
    BY <1>1
  <1>3. Spec => [][Served]_vars
    <2> HIDE DEF Served
    <2> QED BY <1>2, SpecFrameInv, PTL DEF Spec
  <1> QED BY <1>3 DEF FaultsServed

-----------------------------------------------------------------------------
(* Second chance: the clock hand, NumPhysPages frames to a turn.           *)
LEMMA Wrap ==
  ASSUME NEW n \in 0..(2 * NumPhysPages - 1)
  PROVE  n % NumPhysPages = IF n < NumPhysPages THEN n ELSE n - NumPhysPages
  <1> DEFINE N == NumPhysPages
  <1>1. N \in Nat \ {0} /\ n \in Nat
    BY SizeAssumption
  <1>2. CASE n < N
    BY <1>1, <1>2
  <1>3. CASE n >= N
    <2>1. PICK m \in 0..(N - 1) : n = m + N
      <3>1. n - N \in 0..(N - 1) /\ n = (n - N) + N BY <1>1, <1>3
      <3> QED BY <3>1
    <2>2. (m + N) % N = m
      BY <1>1
    <2> QED BY <1>1, <1>3, <2>1, <2>2
  <1> QED BY <1>1, <1>2, <1>3

(* A turn visits every frame, and no frame twice before it is complete. *)
LEMMA TurnVisitsAll ==
  ASSUME nextVictim \in Frames, NEW f \in Frames
  PROVE  \E i \in 0..(NumPhysPages - 1) : At(i) = f
  <1> DEFINE N == NumPhysPages
             n == nextVictim
  <1>1. N \in Nat \ {0} /\ n \in 0..(N - 1) /\ f \in 0..(N - 1)
    BY SizeAssumption DEF Frames
  <1>2. CASE n <= f
    <2>1. f - n \in 0..(N - 1) /\ n + (f - n) = f
      BY <1>1, <1>2
    <2>2. f % N = f
      BY <1>1, Wrap
    <2> QED BY <2>1, <2>2 DEF At
  <1>3. CASE f < n
    <2>1. f + N - n \in 0..(N - 1) /\ n + (f + N - n) = f + N
      BY <1>1, <1>3
    <2>2. PICK m \in 0..(2 * N - 1) : m = f + N
      BY <1>1
    <2>3. m % N = f
      BY <1>1, <2>2, Wrap
    <2> QED BY <2>1, <2>2, <2>3 DEF At
  <1> QED BY <1>1, <1>2, <1>3

LEMMA TurnVisitsOnce ==
  ASSUME nextVictim \in Frames, NEW k \in 0..NumPhysPages, NEW j \in 0..(k - 1),
         At(j) = At(k)
  PROVE  k = NumPhysPages
  <1> DEFINE N == NumPhysPages
             n == nextVictim
  <1>1. /\ N \in Nat \ {0} /\ n \in 0..(N - 1)
        /\ j \in Nat /\ k \in Nat /\ j < k /\ k <= N
    BY SizeAssumption DEF Frames
  <1>2. n + j \in 0..(2 * N - 1) /\ n + k \in 0..(2 * N - 1)
    BY <1>1
  <1>3. (n + j) % N = IF n + j < N THEN n + j ELSE (n + j) - N
    BY <1>2, Wrap
  <1>4. (n + k) % N = IF n + k < N THEN n + k ELSE (n + k) - N
    BY <1>2, Wrap
  <1>5. (n + j) % N = (n + k) % N
    BY DEF At
  <1> QED BY <1>1, <1>3, <1>4, <1>5

(* A used page is thrown out only if the hand passed it on this fault, and *)
(* so went all the way round, over pages that were all used.               *)
LEMMA EvictSecondChance ==
  ASSUME TypeInv, FrameTableExact, NEW e, Evict(e),
         NEW d \in valid \cap use, d \notin valid'
  PROVE  valid \subseteq use
  <1>1. PICK k \in 0..NumPhysPages :
          /\ HandReaches(k)
          /\ Sound(At(k)) /\ owner[At(k)] \notin use \ Passed(k)
          /\ ReplaceVictim(e, At(k), k)
    BY DEF Evict
  <1>2. owner[At(k)] = d
    BY <1>1 DEF ReplaceVictim, ValidAfter
  <1>3. PICK j \in 0..(k - 1) : owner[At(j)] = d
    BY <1>1, <1>2 DEF Passed
  <1>4. nextVictim \in Frames /\ TypeOK
    BY DEF TypeInv, TypeOK
  <1>5. At(j) \in Frames /\ At(k) \in Frames
    BY <1>4, AtInFrames
  <1>6. At(j) = At(k)
    BY <1>1, <1>2, <1>3, <1>5 DEF FrameTableExact, Sound
  <1>7. k = NumPhysPages
    BY <1>4, <1>6, TurnVisitsOnce
  <1>8. ASSUME NEW c \in valid PROVE c \in use
    <2>1. physicalPage[c] \in Frames /\ owner[physicalPage[c]] = c
      BY DEF FrameTableExact
    <2>2. PICK i \in 0..(k - 1) : At(i) = physicalPage[c]
      BY <1>4, <1>7, <2>1, TurnVisitsAll
    <2> QED BY <1>1, <2>1, <2>2 DEF HandReaches
  <1> QED BY <1>8

(* As long as no program exits and the frame table starts out zeroed: a    *)
(* page used since the hand last passed it is thrown out only when every   *)
(* resident page has been used.                                            *)
THEOREM SecondChanceCorrect ==
  ASSUME HeapZeroed, "exit" \notin Calls
  PROVE  Spec => SecondChance
  <1> DEFINE Second == \A e \in valid \cap use :
                         e[1] \in live' /\ e \notin valid' => valid \subseteq use
  <1>1. ASSUME TypeInv, FrameTableExact, Next, NEW d \in valid \cap use, d \notin valid'
        PROVE  valid \subseteq use
    <2>1. \A p \in Spaces : ~Exit(p)
      BY DEF Exit
    <2>2. ASSUME NEW e, SwapPageIn(e) PROVE Evict(e)
      BY <1>1, <2>2 DEF SwapPageIn, FillFreeFrame, FaultHalts, Halt
    <2>3. \E e : Evict(e)
      BY <1>1, <2>1, <2>2
         DEF Next, Load, Store, PageFault, CopyIn, Exec, Fork, NewSpace, Halt
    <2> QED BY <1>1, <2>3, EvictSecondChance
  <1>2. TypeInv /\ FrameInv /\ [Next]_vars => [Second]_vars
    BY <1>1 DEF FrameInv
  <1>3. Spec => [][Second]_vars
    <2> HIDE DEF Second
    <2> QED BY <1>2, SpecFrameInv, PTL DEF Spec
  <1> QED BY <1>3 DEF SecondChance

-----------------------------------------------------------------------------
(* Contents.  What a step does to them rests on the invariants above: no   *)
(* two pages share a slot, no two share a frame.                           *)
ContentsInv == TypeInv /\ SwapSlotsExact /\ FrameTableExact /\ CleanPagesOnSwap

LEMMA FillContents ==
  ASSUME ContentsInv, NEW e \in live \X Pages, e \notin valid, FillFreeFrame(e)
  PROVE  /\ CleanPagesOnSwap'
         /\ \A d \in live \X Pages : Contents(d)' = Contents(d)
  <1>1. e \in Entries
    BY DEF ContentsInv, TypeInv, TypeOK, Entries
  <1>2. PICK f \in Frames \ pageBits :
          /\ physicalPage' = [physicalPage EXCEPT ![e] = f]
          /\ mainMemory' = [mainMemory EXCEPT ![f] = swapFile[swapLocation[e]]]
    BY DEF FillFreeFrame
  <1>3. valid' = valid \cup {e} /\ UNCHANGED <<dirty, swapFile, swapLocation>>
    BY DEF FillFreeFrame, tables
  <1>4. owner[f] = NULL
    BY DEF ContentsInv, FrameTableExact
  <1>5. ASSUME NEW d \in valid
        PROVE  /\ d # e /\ physicalPage'[d] = physicalPage[d]
               /\ mainMemory'[physicalPage[d]] = mainMemory[physicalPage[d]]
    <2>1. d \in Entries /\ d # NULL
      BY NullAssumption DEF ContentsInv, TypeInv, TypeOK, Entries
    <2>2. physicalPage[d] \in Frames /\ owner[physicalPage[d]] = d
      BY DEF ContentsInv, FrameTableExact
    <2>3. physicalPage[d] # f
      BY <2>1, <2>2, <1>4
    <2> QED BY <1>2, <2>1, <2>2, <2>3 DEF ContentsInv, TypeInv, TypeOK
  <1>6. physicalPage'[e] = f /\ mainMemory'[f] = swapFile[swapLocation[e]]
    BY <1>1, <1>2 DEF ContentsInv, TypeInv, TypeOK
  <1>7. CleanPagesOnSwap'
    BY <1>3, <1>5, <1>6 DEF ContentsInv, CleanPagesOnSwap
  <1>8. ASSUME NEW d \in live \X Pages PROVE Contents(d)' = Contents(d)
    <2>1. CASE d \in valid BY <2>1, <1>3, <1>5 DEF Contents
    <2>2. CASE d = e BY <2>2, <1>3, <1>6 DEF Contents
    <2>3. CASE d \notin valid /\ d # e BY <2>3, <1>3 DEF Contents
    <2> QED BY <2>1, <2>2, <2>3
  <1> QED BY <1>7, <1>8

LEMMA EvictContents ==
  ASSUME ContentsInv, NEW e \in live \X Pages, e \notin valid, Evict(e)
  PROVE  /\ CleanPagesOnSwap'
         /\ \A d \in live \X Pages : Contents(d)' = Contents(d)
  <1>1. PICK f \in Frames :
          /\ owner[f] \in valid /\ physicalPage[owner[f]] = f
          /\ swapFile' = IF owner[f] \in dirty
                           THEN [swapFile EXCEPT ![swapLocation[owner[f]]] = mainMemory[f]]
                           ELSE swapFile
          /\ mainMemory' = [mainMemory EXCEPT ![f] = swapFile'[swapLocation[e]]]
          /\ dirty' = dirty \ {owner[f]}
          /\ valid' = (valid \ {owner[f]}) \cup {e}
          /\ physicalPage' = [physicalPage EXCEPT ![e] = f]
          /\ UNCHANGED tables
    BY EvictFacts DEF ContentsInv
  <1> DEFINE victim == owner[f]
  <1>2. /\ victim \in live \X Pages /\ victim # e /\ swapLocation' = swapLocation
        /\ valid \subseteq live \X Pages
    BY <1>1 DEF ContentsInv, TypeInv, TypeOK, tables
  <1>3. swapFile'[swapLocation[victim]] = mainMemory[f]
    <2>1. swapLocation[victim] \in Sectors
      BY <1>2 DEF ContentsInv, TypeInv, Located
    <2>2. CASE victim \in dirty
      BY <2>1, <2>2, <1>1 DEF ContentsInv, TypeInv, TypeOK
    <2>3. CASE victim \notin dirty
      BY <2>3, <1>1 DEF ContentsInv, CleanPagesOnSwap
    <2> QED BY <2>2, <2>3
  <1>4. ASSUME NEW d \in live \X Pages, d # victim
        PROVE  swapFile'[swapLocation[d]] = swapFile[swapLocation[d]]
    <2>1. swapLocation[d] # swapLocation[victim] /\ swapLocation[d] \in Sectors
      BY <1>2, <1>4 DEF ContentsInv, SwapSlotsExact, TypeInv, Located
    <2> QED BY <1>1, <2>1 DEF ContentsInv, TypeInv, TypeOK
  <1>5. ASSUME NEW d \in valid, d # victim
        PROVE  /\ d # e /\ physicalPage'[d] = physicalPage[d]
               /\ mainMemory'[physicalPage[d]] = mainMemory[physicalPage[d]]
    <2>1. physicalPage[d] \in Frames /\ physicalPage[d] # f
      BY <1>1, <1>5 DEF ContentsInv, FrameTableExact
    <2> QED BY <1>1, <2>1 DEF ContentsInv, TypeInv, TypeOK
  <1>6. e \in Entries
    BY DEF ContentsInv, TypeInv, TypeOK, Entries
  <1>7. physicalPage'[e] = f /\ mainMemory'[f] = swapFile'[swapLocation[e]]
    BY <1>1, <1>6 DEF ContentsInv, TypeInv, TypeOK
  <1> HIDE DEF victim
  <1>8. valid' = (valid \ {victim}) \cup {e} /\ dirty' = dirty \ {victim}
    BY <1>1 DEF victim
  <1>9. CleanPagesOnSwap'
    <2> SUFFICES ASSUME NEW d \in valid' \ dirty'
                 PROVE  mainMemory'[physicalPage'[d]] = swapFile'[swapLocation'[d]]
      BY DEF CleanPagesOnSwap
    <2>1. CASE d = e BY <2>1, <1>2, <1>7
    <2>2. CASE d # e
      <3>1. d \in valid /\ d # victim /\ d \notin dirty
        BY <2>2, <1>8
      <3> QED BY <3>1, <1>2, <1>4, <1>5 DEF ContentsInv, CleanPagesOnSwap
    <2> QED BY <2>1, <2>2
  <1>10. ASSUME NEW d \in live \X Pages PROVE Contents(d)' = Contents(d)
    <2>1. CASE d = e
      BY <2>1, <1>2, <1>4, <1>7, <1>8 DEF Contents
    <2>2. CASE d = victim
      BY <2>2, <1>1, <1>2, <1>3, <1>8 DEF Contents, victim
    <2>3. CASE d # e /\ d # victim /\ d \in valid
      BY <2>3, <1>5, <1>8 DEF Contents
    <2>4. CASE d # e /\ d # victim /\ d \notin valid
      BY <2>4, <1>2, <1>4, <1>8 DEF Contents
    <2> QED BY <2>1, <2>2, <2>3, <2>4
  <1> QED BY <1>9, <1>10

(* A page fault keeps the contents of every page, of every process. *)
LEMMA FaultContents ==
  ASSUME ContentsInv, NEW e \in live \X Pages, e \notin valid, SwapPageIn(e)
  PROVE  /\ CleanPagesOnSwap'
         /\ \A d \in live \X Pages : Contents(d)' = Contents(d)
  <1>1. CASE FaultHalts
    <2>1. UNCHANGED <<valid, dirty, physicalPage, swapLocation, mainMemory, swapFile>>
      BY <1>1 DEF FaultHalts, Halt
    <2> QED BY <2>1 DEF ContentsInv, CleanPagesOnSwap, Contents
  <1> QED BY <1>1, FillContents, EvictContents DEF SwapPageIn

(* A store leaves the page it changes dirty, and changes no other page. *)
LEMMA StoreClean ==
  ASSUME ContentsInv, NEW p \in Spaces, NEW v \in Pages, NEW x \in Values, Store(p, v, x)
  PROVE  CleanPagesOnSwap'
  <1> DEFINE e == <<p, v>>
  <1>1. /\ e \in valid /\ dirty' = dirty \cup {e}
        /\ mainMemory' = [mainMemory EXCEPT ![physicalPage[e]] = x]
        /\ UNCHANGED <<valid, physicalPage, swapFile, swapLocation>>
    BY DEF DirtyAfter, Store, tables
  <1> HIDE DEF e
  <1>2. ASSUME NEW d \in valid' \ dirty'
        PROVE  mainMemory'[physicalPage'[d]] = swapFile'[swapLocation'[d]]
    <2>1. d \in valid /\ d \notin dirty /\ d # e
      BY <1>1
    <2>2. physicalPage[d] \in Frames /\ physicalPage[d] # physicalPage[e]
      BY <1>1, <2>1 DEF ContentsInv, FrameTableExact
    <2> QED BY <1>1, <2>1, <2>2 DEF ContentsInv, CleanPagesOnSwap, TypeInv, TypeOK
  <1> QED BY <1>2 DEF CleanPagesOnSwap

(* A new space writes to free slots only, and has no resident page. *)
LEMMA NewSpaceClean ==
  ASSUME ContentsInv, NEW p \in Spaces \ live, NEW content, NewSpace(p, content)
  PROVE  CleanPagesOnSwap'
  <1>1. PICK slot \in [Pages -> FreeSectors] :
          /\ swapLocation' = [e \in Entries |-> IF e[1] = p THEN slot[e[2]] ELSE swapLocation[e]]
          /\ swapFile' = [s \in Sectors |->
                            IF \E v \in Pages : slot[v] = s
                              THEN content[CHOOSE v \in Pages : slot[v] = s]
                              ELSE swapFile[s]]
          /\ physicalPage' = [e \in Entries |-> IF e[1] = p THEN -1 ELSE physicalPage[e]]
          /\ UNCHANGED <<valid, dirty, mainMemory>>
    BY DEF NewSpace
  <1>2. ASSUME NEW d \in valid
        PROVE  /\ physicalPage'[d] = physicalPage[d]
               /\ swapFile'[swapLocation'[d]] = swapFile[swapLocation[d]]
    <2>1. d \in live \X Pages /\ d \in Entries /\ d[1] # p
      BY DEF ContentsInv, TypeInv, TypeOK, Entries
    <2>2. swapLocation[d] \in Sectors /\ swapLocation[d] \in swapBits
      BY <2>1 DEF ContentsInv, TypeInv, Located, SwapSlotsExact
    <2>3. \A v \in Pages : slot[v] # swapLocation[d]
      BY <2>2 DEF FreeSectors
    <2> QED BY <1>1, <2>1, <2>2, <2>3
  <1>3. ASSUME NEW d \in valid' \ dirty'
        PROVE  mainMemory'[physicalPage'[d]] = swapFile'[swapLocation'[d]]
    <2>1. d \in valid \ dirty /\ mainMemory' = mainMemory
      BY <1>1
    <2> QED BY <1>2, <2>1 DEF ContentsInv, CleanPagesOnSwap
  <1> QED BY <1>3 DEF CleanPagesOnSwap

(* A read breaks CleanPagesOnSwap and an exit FrameTableExact, so what     *)
(* follows is about programs that neither exit nor read.                   *)
LEMMA NextClean ==
  ASSUME {"exit", "read"} \cap Calls = {}, ContentsInv, [Next]_vars
  PROVE  CleanPagesOnSwap'
  <1>1. ASSUME UNCHANGED <<valid, dirty, physicalPage, swapLocation, mainMemory, swapFile>>
        PROVE  CleanPagesOnSwap'
    BY <1>1 DEF ContentsInv, CleanPagesOnSwap
  <1>2. ASSUME NEW p \in Spaces, NEW v \in Pages, Load(p, v) PROVE CleanPagesOnSwap'
    BY <1>1, <1>2 DEF Load, tables
  <1>3. ASSUME NEW p \in Spaces, NEW v \in Pages, PageFault(p, v) PROVE CleanPagesOnSwap'
    BY <1>3, FaultContents DEF PageFault, Running
  <1>4. ASSUME NEW p \in Spaces, Exec(p) PROVE CleanPagesOnSwap'
    BY <1>1, <1>4, NewSpaceClean DEF Exec, Halt
  <1>5. ASSUME NEW p \in Spaces, NEW c \in Spaces, Fork(p, c) PROVE CleanPagesOnSwap'
    BY <1>1, <1>5, NewSpaceClean DEF CopiedPages, Fork, Halt
  <1>6. ASSUME NEW p \in Spaces, NEW v \in Pages, NEW d \in Values
        PROVE  ~CopyIn(p, v, d) /\ ~Exit(p)
    BY DEF ReleasedSlots, CopyIn, Exit
  <1>7. 0 \in Pages /\ Zero \in Values
    BY SizeAssumption, ImageAssumption DEF Pages
  <1>8. CASE UNCHANGED vars
    BY <1>1, <1>8 DEF vars
  <1>9. CASE Next
    BY <1>2, <1>3, <1>4, <1>5, <1>6, <1>7, <1>9, StoreClean DEF Next
  <1> QED BY <1>8, <1>9

LEMMA SpecContents ==
  ASSUME HeapZeroed, {"exit", "read"} \cap Calls = {}
  PROVE  Spec => []ContentsInv
  <1>1. Init => CleanPagesOnSwap
    BY DEF Init, CleanPagesOnSwap
  <1>2. ContentsInv /\ [Next]_vars => CleanPagesOnSwap'
    BY NextClean
  <1>3. Spec => [](TypeInv /\ FrameInv)
    BY SpecFrameInv
  <1>4. FrameInv => FrameTableExact
    BY DEF FrameInv
  <1> QED BY <1>1, <1>2, <1>3, <1>4, SwapSlotsCorrect, PTL DEF Spec, ContentsInv

(* Programs that neither exit nor read: a clean resident page is on swap. *)
THEOREM CleanPagesCorrect ==
  ASSUME HeapZeroed, {"exit", "read"} \cap Calls = {}
  PROVE  Spec => []CleanPagesOnSwap
  <1>1. ContentsInv => CleanPagesOnSwap
    BY DEF ContentsInv
  <1> QED BY <1>1, SpecContents, PTL

(* Programs that neither exit nor read: no page fault is visible to any of *)
(* them, whichever frame the clock hand stops at.                          *)
THEOREM FaultsInvisibleCorrect ==
  ASSUME HeapZeroed, {"exit", "read"} \cap Calls = {}
  PROVE  Spec => FaultsInvisible
  <1> DEFINE Invisible ==
        \A p \in Spaces, v \in Pages : PageFault(p, v) /\ ~halted' =>
          \A e \in live \X Pages : Contents(e)' = Contents(e)
  <1>1. ASSUME ContentsInv, NEW p \in Spaces, NEW v \in Pages, PageFault(p, v)
        PROVE  \A e \in live \X Pages : Contents(e)' = Contents(e)
    BY <1>1, FaultContents DEF PageFault, Running
  <1>2. ContentsInv /\ [Next]_vars => [Invisible]_vars
    BY <1>1
  <1>3. Spec => [][Invisible]_vars
    <2> HIDE DEF Invisible
    <2> QED BY <1>2, SpecContents, PTL DEF Spec
  <1> QED BY <1>3 DEF FaultsInvisible

-----------------------------------------------------------------------------
(***************************************************************************)
(* Paging implements a private array of pages for every address space.    *)
(* Each step of ObservedSpec is mapped to a step of AddressSpaceMemory, or *)
(* to a stutter; from ContentsInv when it begins, whatever broke that      *)
(* invariant before or breaks it later.                                    *)
(***************************************************************************)

(* The state of the abstract memory after a step. *)
LEMMA MemAfter ==
  ASSUME NEW m, \A e \in Entries : m[e] = IF e[1] \in live' THEN Contents(e)' ELSE NULL,
         m = [e \in Entries |-> m[e]]
  PROVE  mem' = m
  BY DEF mem

LEMMA MemKept ==
  ASSUME UNCHANGED live, \A e \in live \X Pages : Contents(e)' = Contents(e)
  PROVE  mem' = mem
  <1>1. \A e \in Entries : e[1] \in live => e \in live \X Pages
    BY DEF Entries
  <1>2. \A e \in Entries : mem[e] = IF e[1] \in live' THEN Contents(e)' ELSE NULL
    BY <1>1 DEF mem
  <1>3. mem = [e \in Entries |-> mem[e]]
    BY DEF mem
  <1> QED BY <1>2, <1>3, MemAfter

(* A write to the physical page of e changes the contents of e alone. *)
LEMMA MemWritten ==
  ASSUME ContentsInv, NEW e \in valid, NEW d \in Values,
         mainMemory' = [mainMemory EXCEPT ![physicalPage[e]] = d],
         UNCHANGED <<live, valid, physicalPage, swapFile, swapLocation>>
  PROVE  mem' = [mem EXCEPT ![e] = d]
  <1>1. e \in Entries /\ e[1] \in live /\ physicalPage[e] \in Frames
    BY DEF ContentsInv, TypeInv, TypeOK, Located, Entries
  <1>2. Contents(e)' = d
    BY <1>1 DEF Contents, ContentsInv, TypeInv, TypeOK
  <1>3. ASSUME NEW c \in Entries, c # e PROVE Contents(c)' = Contents(c)
    <2>1. c \in valid => physicalPage[c] \in Frames /\ physicalPage[c] # physicalPage[e]
      BY <1>3 DEF ContentsInv, FrameTableExact
    <2> QED BY <2>1 DEF Contents, ContentsInv, TypeInv, TypeOK
  <1>4. PICK m : m = [mem EXCEPT ![e] = d]
    OBVIOUS
  <1>5. m = [c \in Entries |-> m[c]]
    BY <1>4 DEF mem
  <1>6. ASSUME NEW c \in Entries
        PROVE  m[c] = IF c[1] \in live' THEN Contents(c)' ELSE NULL
    <2>1. CASE c = e BY <2>1, <1>1, <1>2, <1>4 DEF mem
    <2>2. CASE c # e BY <2>2, <1>3, <1>4 DEF mem
    <2> QED BY <2>1, <2>2
  <1>7. mem' = m
    BY <1>5, <1>6, MemAfter
  <1> QED BY <1>4, <1>7

(* A new space holds its content, and the other spaces what they held. *)
LEMMA MemOfNewSpace ==
  ASSUME ContentsInv, NEW p \in Spaces \ live, NEW content, NewSpace(p, content)
  PROVE  /\ live' = live \cup {p}
         /\ mem' = [e \in Entries |-> IF e[1] = p THEN content[e[2]] ELSE mem[e]]
  <1>1. PICK slot \in [Pages -> FreeSectors] :
          /\ FirstFit(slot)
          /\ swapLocation' = [e \in Entries |-> IF e[1] = p THEN slot[e[2]] ELSE swapLocation[e]]
          /\ swapFile' = [s \in Sectors |->
                            IF \E v \in Pages : slot[v] = s
                              THEN content[CHOOSE v \in Pages : slot[v] = s]
                              ELSE swapFile[s]]
          /\ physicalPage' = [e \in Entries |-> IF e[1] = p THEN -1 ELSE physicalPage[e]]
          /\ live' = live \cup {p}
          /\ UNCHANGED <<valid, mainMemory>>
    BY DEF NewSpace
  <1>2. \A v, w \in Pages : slot[v] = slot[w] => v = w
    BY <1>1 DEF FirstFit, FreeSectors, Pages, Sectors
  <1>3. ASSUME NEW e \in Entries, e[1] = p PROVE Contents(e)' = content[e[2]]
    <2>1. e[2] \in Pages /\ e \notin valid
      BY <1>3 DEF ContentsInv, TypeInv, TypeOK, Entries
    <2>2. swapLocation'[e] = slot[e[2]] /\ slot[e[2]] \in Sectors
      BY <1>1, <1>3, <2>1 DEF FreeSectors
    <2>3. (CHOOSE v \in Pages : slot[v] = slot[e[2]]) = e[2]
      BY <1>2, <2>1
    <2>4. swapFile'[slot[e[2]]] = content[e[2]]
      BY <1>1, <2>1, <2>2, <2>3
    <2> QED BY <1>1, <2>1, <2>2, <2>4 DEF Contents
  <1>4. ASSUME NEW e \in live \X Pages PROVE Contents(e)' = Contents(e)
    <2>1. e \in Entries /\ e[1] # p
      BY DEF ContentsInv, TypeInv, TypeOK, Entries
    <2>2. swapLocation[e] \in Sectors /\ swapLocation[e] \in swapBits
      BY DEF ContentsInv, TypeInv, Located, SwapSlotsExact
    <2>3. \A v \in Pages : slot[v] # swapLocation[e]
      BY <2>2 DEF FreeSectors
    <2>4. swapFile'[swapLocation'[e]] = swapFile[swapLocation[e]]
      BY <1>1, <2>1, <2>2, <2>3
    <2>5. physicalPage'[e] = physicalPage[e]
      BY <1>1, <2>1
    <2> QED BY <1>1, <2>4, <2>5 DEF Contents
  <1>5. PICK m : m = [e \in Entries |-> IF e[1] = p THEN content[e[2]] ELSE mem[e]]
    OBVIOUS
  <1>6. m = [e \in Entries |-> m[e]]
    BY <1>5
  <1>7. ASSUME NEW e \in Entries
        PROVE  m[e] = IF e[1] \in live' THEN Contents(e)' ELSE NULL
    <2>1. CASE e[1] = p BY <2>1, <1>1, <1>3, <1>5
    <2>2. CASE e[1] # p
      <3>1. e[1] \in live => e \in live \X Pages
        BY DEF Entries
      <3>2. m[e] = IF e[1] \in live THEN Contents(e) ELSE NULL
        BY <2>2, <1>5 DEF mem
      <3> QED BY <2>2, <3>1, <3>2, <1>1, <1>4
    <2> QED BY <2>1, <2>2
  <1>8. mem' = m
    BY <1>6, <1>7, MemAfter
  <1> QED BY <1>1, <1>5, <1>8

(* The initial states map to initial states. *)
LEMMA InitMaps == ObservedInit => Memory!Init
  <1> SUFFICES ASSUME ObservedInit PROVE Memory!Init OBVIOUS
  <1>1. live = {Initial} /\ last = <<"start", Initial>>
    BY DEF ObservedInit, Init
  <1>2. ASSUME NEW e \in Entries, e[1] = Initial PROVE Contents(e) = Image[e[2]]
    <2>1. e[2] \in Pages /\ e[2] \in Sectors /\ swapLocation[e] = e[2] /\ e \notin valid
      BY <1>2, SizeAssumption DEF ObservedInit, Init, Entries, Pages, Sectors
    <2> QED BY <2>1 DEF Contents, ObservedInit, Init
  <1>3. mem = [e \in Entries |-> IF e[1] = Initial THEN Image[e[2]] ELSE NULL]
    BY <1>1, <1>2 DEF mem
  <1> QED BY <1>1, <1>3 DEF Memory!Init, Memory!Entries, Entries

(* A page fault is a stutter. *)
LEMMA FaultMaps ==
  ASSUME ContentsInv, NEW p \in Spaces, NEW v \in Pages, p \in live, <<p, v>> \notin valid,
         SwapPageIn(<<p, v>>), UNCHANGED last
  PROVE  UNCHANGED Memory!vars
  <1>1. UNCHANGED live
    BY DEF SwapPageIn, FillFreeFrame, Evict, ReplaceVictim, FaultHalts, Halt, tables
  <1>2. <<p, v>> \in live \X Pages
    OBVIOUS
  <1>3. \A e \in live \X Pages : Contents(e)' = Contents(e)
    BY <1>2, FaultContents
  <1>4. mem' = mem
    BY <1>1, <1>3, MemKept
  <1> QED BY <1>1, <1>4 DEF Memory!vars

(* A call that halts the kernel is a stutter. *)
LEMMA HaltMaps ==
  ASSUME Halt, UNCHANGED last
  PROVE  UNCHANGED Memory!vars
  <1>1. /\ UNCHANGED <<live, valid, physicalPage, swapLocation, mainMemory, swapFile>>
    BY DEF Halt
  <1>2. mem' = mem
    BY <1>1, MemKept DEF Contents
  <1> QED BY <1>1, <1>2 DEF Memory!vars

LEMMA LoadMaps ==
  ASSUME ContentsInv, NEW p \in Spaces, NEW v \in Pages, Load(p, v),
         last' = <<"load", <<p, v>>, mainMemory[physicalPage[<<p, v>>]]>>
  PROVE  Memory!Next
  <1>1. /\ p \in live /\ <<p, v>> \in valid
        /\ UNCHANGED <<live, valid, physicalPage, swapLocation, mainMemory, swapFile>>
    BY DEF Load, Running, tables
  <1>2. mem' = mem
    BY <1>1, MemKept DEF Contents
  <1>3. PICK e \in Entries : e = <<p, v>>
    BY DEF Entries
  <1>4. mem[e] = mainMemory[physicalPage[e]] /\ e[1] \in live
    BY <1>1, <1>3 DEF mem, Contents
  <1>5. Memory!LoadPage(e)
    BY <1>1, <1>2, <1>3, <1>4 DEF Memory!LoadPage
  <1>6. e \in Memory!Entries
    BY <1>3 DEF Entries, Memory!Entries
  <1> QED BY <1>5, <1>6 DEF Memory!Next

LEMMA WriteMaps ==
  ASSUME ContentsInv, NEW p \in Spaces, NEW v \in Pages, NEW d \in Values,
         <<p, v>> \in valid,
         mainMemory' = [mainMemory EXCEPT ![physicalPage[<<p, v>>]] = d],
         UNCHANGED <<live, valid, physicalPage, swapFile, swapLocation>>,
         last' = <<"store", <<p, v>>, d>>
  PROVE  Memory!Next
  <1>1. PICK e \in Entries : e = <<p, v>>
    BY DEF Entries
  <1>2. e[1] \in live
    BY <1>1 DEF ContentsInv, TypeInv, TypeOK
  <1>3. mem' = [mem EXCEPT ![e] = d]
    BY <1>1, MemWritten
  <1>4. Memory!StorePage(e, d)
    BY <1>1, <1>2, <1>3 DEF Memory!StorePage
  <1>5. e \in Memory!Entries
    BY <1>1 DEF Entries, Memory!Entries
  <1> QED BY <1>4, <1>5 DEF Memory!Next

LEMMA ExecMaps ==
  ASSUME ContentsInv, NEW p \in Spaces, Exec(p),
         last' = IF halted' THEN last ELSE <<"exec", p>>
  PROVE  Memory!Next \/ UNCHANGED Memory!vars
  <1>1. CASE Halt
    <2>1. UNCHANGED last
      BY <1>1 DEF Halt
    <2> QED BY <1>1, <2>1, HaltMaps
  <1>2. CASE NewSpace(p, Image)
    <2>1. p \in Spaces \ live /\ ~halted' /\ last' = <<"exec", p>>
      BY <1>2 DEF Exec, NewSpace
    <2>2. /\ live' = live \cup {p}
          /\ mem' = [e \in Entries |-> IF e[1] = p THEN Image[e[2]] ELSE mem[e]]
      BY <1>2, <2>1, MemOfNewSpace
    <2>3. Memory!Create(p)
      BY <2>1, <2>2 DEF Memory!Create, Memory!Entries, Entries
    <2> QED BY <2>3 DEF Memory!Next
  <1> QED BY <1>1, <1>2 DEF Exec

LEMMA ForkMaps ==
  ASSUME ContentsInv, NEW p \in Spaces, NEW c \in Spaces, Fork(p, c),
         dirty \cap PagesOf(p) = {},
         last' = IF halted' THEN last ELSE <<"fork", p, c>>
  PROVE  Memory!Next \/ UNCHANGED Memory!vars
  <1>1. CASE Halt
    <2>1. UNCHANGED last
      BY <1>1 DEF Halt
    <2> QED BY <1>1, <2>1, HaltMaps
  <1>2. CASE NewSpace(c, CopiedPages(p))
    <2>1. p \in live /\ c \in Spaces \ live /\ ~halted' /\ last' = <<"fork", p, c>>
      BY <1>2 DEF Fork, Running, NewSpace
    <2>2. /\ live' = live \cup {c}
          /\ mem' = [e \in Entries |-> IF e[1] = c THEN CopiedPages(p)[e[2]] ELSE mem[e]]
      BY <1>2, <2>1, MemOfNewSpace
    <2>3. ASSUME NEW v \in Pages PROVE CopiedPages(p)[v] = mem[<<p, v>>]
      <3>1. <<p, v>> \in Entries /\ <<p, v>> \notin dirty
        BY DEF Entries, PagesOf
      <3>2. Contents(<<p, v>>) = swapFile[swapLocation[<<p, v>>]]
        BY <3>1 DEF Contents, ContentsInv, CleanPagesOnSwap
      <3>3. mem[<<p, v>>] = Contents(<<p, v>>)
        BY <3>1, <2>1 DEF mem
      <3> QED BY <3>2, <3>3 DEF CopiedPages
    <2>4. \A e \in Entries : e[2] \in Pages
      BY DEF Entries
    <2>5. mem' = [e \in Entries |-> IF e[1] = c THEN mem[<<p, e[2]>>] ELSE mem[e]]
      BY <2>2, <2>3, <2>4
    <2>6. Memory!Clone(p, c)
      BY <2>1, <2>2, <2>5 DEF Memory!Clone, Memory!Entries, Entries
    <2> QED BY <2>6 DEF Memory!Next
  <1> QED BY <1>1, <1>2 DEF Fork

(* An exit takes away the pages of its space and of no other. *)
LEMMA ExitMaps ==
  ASSUME ContentsInv, NEW p \in Spaces, Exit(p), last' = <<"exit", p>>
  PROVE  Memory!Next
  <1>1. /\ p \in live /\ live' = live \ {p}
        /\ valid' = valid \ PagesOf(p)
        /\ physicalPage' = [e \in Entries |-> IF e[1] = p THEN -1 ELSE physicalPage[e]]
        /\ swapLocation' = [e \in Entries |-> IF e[1] = p THEN -1 ELSE swapLocation[e]]
        /\ UNCHANGED <<mainMemory, swapFile>>
    BY DEF Exit, Running
  <1>2. ASSUME NEW e \in Entries, e[1] # p PROVE Contents(e)' = Contents(e)
    <2>1. e \notin PagesOf(p)
      BY <1>2 DEF PagesOf
    <2> QED BY <1>1, <1>2, <2>1 DEF Contents
  <1>3. mem' = [e \in Entries |-> IF e[1] = p THEN NULL ELSE mem[e]]
    BY <1>1, <1>2 DEF mem
  <1>4. Memory!Destroy(p)
    BY <1>1, <1>3 DEF Memory!Destroy, Memory!Entries, Entries
  <1> QED BY <1>4 DEF Memory!Next

LEMMA StepMaps ==
  ASSUME ContentsInv, ForksCleanPages, [ObservedNext]_<<vars, last>>
  PROVE  [Memory!Next]_Memory!vars
  <1>1. ASSUME NEW p \in Spaces, NEW v \in Pages, Load(p, v),
               last' = <<"load", <<p, v>>, mainMemory[physicalPage[<<p, v>>]]>>
        PROVE  Memory!Next
    BY <1>1, LoadMaps
  <1>2. ASSUME NEW p \in Spaces, NEW v \in Pages, PageFault(p, v), UNCHANGED last
        PROVE  UNCHANGED Memory!vars
    BY <1>2, FaultMaps DEF PageFault, Running
  <1>3. ASSUME NEW p \in Spaces, NEW v \in Pages, NEW d \in Values, Store(p, v, d),
               last' = <<"store", <<p, v>>, d>>
        PROVE  Memory!Next
    BY <1>3, WriteMaps DEF Store, tables
  <1>4. ASSUME NEW p \in Spaces, NEW v \in Pages, NEW d \in Values, CopyIn(p, v, d),
               last' = IF <<p, v>> \in valid THEN <<"store", <<p, v>>, d>> ELSE last
        PROVE  Memory!Next \/ UNCHANGED Memory!vars
    <2>1. CASE <<p, v>> \in valid
      BY <1>4, <2>1, WriteMaps DEF CopyIn, tables
    <2>2. CASE <<p, v>> \notin valid
      BY <1>4, <2>2, FaultMaps DEF CopyIn
    <2> QED BY <2>1, <2>2
  <1>5. ASSUME NEW p \in Spaces, Exec(p), last' = IF halted' THEN last ELSE <<"exec", p>>
        PROVE  Memory!Next \/ UNCHANGED Memory!vars
    BY <1>5, ExecMaps
  <1>6. ASSUME NEW p \in Spaces, Exit(p), last' = <<"exit", p>>
        PROVE  Memory!Next
    BY <1>6, ExitMaps
  <1>7. ASSUME NEW p \in Spaces, NEW c \in Spaces, Fork(p, c),
               last' = IF halted' THEN last ELSE <<"fork", p, c>>
        PROVE  Memory!Next \/ UNCHANGED Memory!vars
    <2>1. dirty \cap PagesOf(p) = {}
      BY <1>7 DEF ForksCleanPages
    <2> QED BY <1>7, <2>1, ForkMaps
  <1>8. CASE UNCHANGED <<vars, last>>
    <2>1. UNCHANGED <<live, valid, physicalPage, swapLocation, mainMemory, swapFile, last>>
      BY <1>8 DEF vars
    <2>2. mem' = mem
      BY <2>1, MemKept DEF Contents
    <2> QED BY <2>1, <2>2 DEF Memory!vars
  <1>9. CASE ObservedNext
    BY <1>1, <1>2, <1>3, <1>4, <1>5, <1>6, <1>7, <1>9 DEF ObservedNext
  <1> QED BY <1>8, <1>9

(* The history variable only watches. *)
LEMMA ObservedIsSpec == ObservedSpec => Spec
  <1>1. ObservedInit => Init
    BY DEF ObservedInit
  <1>2. ObservedNext => Next
    BY DEF ObservedNext, Next
  <1>3. [ObservedNext]_<<vars, last>> => [Next]_vars
    BY <1>2
  <1> QED BY <1>1, <1>3, PTL DEF ObservedSpec, Spec

(* With every system call, and whatever the frame table started with: a    *)
(* step that begins with an exact frame table and clean pages on swap, and *)
(* is no fork of a dirty page, is to user programs a step of their private *)
(* pages, or nothing at all.                                               *)
THEOREM StepsInvisibleCorrect == ObservedSpec => StepsInvisible
  <1> DEFINE Invisible == FrameTableExact /\ CleanPagesOnSwap /\ ForksCleanPages => Memory!Next
  <1>1. TypeInv /\ SwapSlotsExact /\ [ObservedNext]_<<vars, last>> => [Invisible]_Memory!vars
    BY StepMaps DEF ContentsInv
  <1>2. ObservedSpec => [][Invisible]_Memory!vars
    <2> HIDE DEF Invisible
    <2> QED BY <1>1, ObservedIsSpec, SpecTypeInv, SwapSlotsCorrect, PTL DEF ObservedSpec
  <1>3. ObservedSpec => Memory!Init
    BY InitMaps DEF ObservedSpec
  <1> QED BY <1>2, <1>3 DEF StepsInvisible

(* Programs that neither fork, read nor exit: demand paging is invisible   *)
(* to them, whatever it moves to swap and back.                            *)
THEOREM PagingInvisibleCorrect ==
  ASSUME HeapZeroed, {"exit", "read", "fork"} \cap Calls = {}
  PROVE  ObservedSpec => PagingInvisible
  <1>1. ForksCleanPages
    BY DEF ForksCleanPages, Fork
  <1>2. ContentsInv /\ [ObservedNext]_<<vars, last>> => [Memory!Next]_Memory!vars
    BY <1>1, StepMaps
  <1>3. Spec => []ContentsInv
    BY SpecContents
  <1>4. ObservedSpec => Memory!Spec
    BY <1>2, <1>3, InitMaps, ObservedIsSpec, PTL DEF ObservedSpec, Memory!Spec
  <1> QED BY <1>4 DEF PagingInvisible
=============================================================================
