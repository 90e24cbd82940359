-------------------------- MODULE BlockGraphProofs --------------------------
(***************************************************************************)
(* Proofs about module BlockGraph, for every set of contracts.             *)
(***************************************************************************)
EXTENDS BlockGraph, Reachability, FiniteSetTheorems, WellFoundedInduction, TLAPS

(***************************************************************************)
(* The map of blocks is sound: typed, its links agree in both directions,  *)
(* its xrefs name blocks, and the exit node goes nowhere.                  *)
(***************************************************************************)
Typed(m) == DOMAIN m \subseteq Nat /\ m \in [DOMAIN m -> Block]

Mutual(m) ==
  \A b \in DOMAIN m :
    /\ m[b].nextDefault # NULL =>
         /\ m[b].nextDefault = m[b].dstDefault
         /\ m[b].dstDefault \in DOMAIN m
         /\ b \in m[m[b].dstDefault].references
    /\ m[b].nextJUMPI # NULL =>
         /\ m[b].nextJUMPI = m[b].dstJUMPI
         /\ m[b].dstJUMPI \in DOMAIN m
         /\ b \in m[m[b].dstJUMPI].references

Resolved(m) ==
  /\ NODE_DEADEND \in DOMAIN m
  /\ \A b \in DOMAIN m : m[b].references \subseteq DOMAIN m \ {NODE_DEADEND}
  /\ m[NODE_DEADEND].dstDefault = 0 /\ m[NODE_DEADEND].dstJUMPI = 0

Sound(m) == Typed(m) /\ Mutual(m) /\ Resolved(m)

\* Nothing but the successors and the size of a block in S may differ.
OnlyIn(S, m, r) ==
  \A b \in DOMAIN m \ S : /\ b \in DOMAIN r
                          /\ r[b].dstDefault = m[b].dstDefault
                          /\ r[b].dstJUMPI = m[b].dstJUMPI
                          /\ r[b].size = m[b].size

-----------------------------------------------------------------------------
\* map::insert leaves a sound map sound and its blocks alone (Contract.cpp:50-64).
LEMMA AddBasicBlockSound ==
  ASSUME NEW m, Sound(m), NEW o \in Nat, NEW s \in Nat
  PROVE  /\ Sound(AddBasicBlock(m, o, s))
         /\ DOMAIN AddBasicBlock(m, o, s) = DOMAIN m \cup {o}
         /\ OnlyIn({}, m, AddBasicBlock(m, o, s))
<1> DEFINE r == AddBasicBlock(m, o, s)
<1>1. DOMAIN r = DOMAIN m \cup {o}
  BY DEF AddBasicBlock
<1>2. \A b \in DOMAIN m : r[b] = m[b]
  BY DEF AddBasicBlock
<1>3. o \notin DOMAIN m => r[o] = NewBlock(s)
  BY DEF AddBasicBlock
<1>4. NewBlock(s) \in Block
  BY DEF NewBlock, Block
<1>5. r \in [DOMAIN r -> Block]
  <2>1. \A b \in DOMAIN r : r[b] \in Block
    BY <1>1, <1>2, <1>3, <1>4 DEF Sound, Typed
  <2>2. r = [b \in DOMAIN r |-> r[b]]
    BY DEF AddBasicBlock
  <2>3. QED
    BY <2>1, <2>2
<1>6. Mutual(r)
  <2>1. NewBlock(s).nextDefault = NULL /\ NewBlock(s).nextJUMPI = NULL
    BY DEF NewBlock
  <2>2. QED
    BY <1>1, <1>2, <1>3, <2>1 DEF Mutual, Sound
<1>7. Resolved(r)
  <2>1. NewBlock(s).references = {}
    BY DEF NewBlock
  <2>2. QED
    BY <1>1, <1>2, <1>3, <2>1 DEF Resolved, Sound
<1>8. QED
  BY <1>1, <1>2, <1>5, <1>6, <1>7 DEF Sound, Typed, OnlyIn

\* The record of block b after an xref from src to d (Contract.cpp:464-506).
Referred(m, d, src, s, h, c, b) ==
  [ references  |-> IF b = d THEN m[b].references \cup {src} ELSE m[b].references,
    fnAddrHash  |-> IF b = d THEN h ELSE m[b].fnAddrHash,
    size        |-> IF b = src THEN s ELSE m[b].size,
    nextDefault |-> IF b = src /\ ~c THEN GetBlockAt(m, d) ELSE m[b].nextDefault,
    nextJUMPI   |-> IF b = src /\ c THEN GetBlockAt(m, d) ELSE m[b].nextJUMPI,
    dstDefault  |-> IF b = src /\ ~c THEN d ELSE m[b].dstDefault,
    dstJUMPI    |-> IF b = src /\ c THEN d ELSE m[b].dstJUMPI ]

\* What addBlockReference does to each block (Contract.cpp:464-506).
LEMMA ReferenceRecords ==
  ASSUME NEW m, Typed(m), NEW d, NEW src \in DOMAIN m, NEW s \in Nat,
         NEW h \in Nat, NEW c \in BOOLEAN
  PROVE  AddBlockReference(m, d, src, s, h, c) =
           [ b \in DOMAIN m |-> Referred(m, d, src, s, h, c, b) ]
<1> DEFINE q == AddReferer(m, d, src, h)
           n == GetBlockAt(m, d)
           Recorded(x) ==
             x = [ references |-> x.references, fnAddrHash |-> x.fnAddrHash,
                   size |-> x.size, nextDefault |-> x.nextDefault,
                   nextJUMPI |-> x.nextJUMPI, dstDefault |-> x.dstDefault,
                   dstJUMPI |-> x.dstJUMPI ]
<1>1. ASSUME NEW b \in DOMAIN m PROVE Recorded(m[b])
  <2>1. m[b] \in Block
    BY DEF Typed
  <2>2. QED
    BY <2>1 DEF Block
<1>2. q = [ b \in DOMAIN m |->
              IF b = d
                THEN [m[b] EXCEPT !.references = @ \cup {src}, !.fnAddrHash = h]
                ELSE m[b] ]
  BY DEF AddReferer, Typed
<1>3. q = [ b \in DOMAIN m |->
              [ references  |-> IF b = d THEN m[b].references \cup {src}
                                         ELSE m[b].references,
                fnAddrHash  |-> IF b = d THEN h ELSE m[b].fnAddrHash,
                size        |-> m[b].size,
                nextDefault |-> m[b].nextDefault, nextJUMPI |-> m[b].nextJUMPI,
                dstDefault  |-> m[b].dstDefault,  dstJUMPI  |-> m[b].dstJUMPI ] ]
  <2> DEFINE f(b) == [ references  |-> IF b = d THEN m[b].references \cup {src}
                                                ELSE m[b].references,
                       fnAddrHash  |-> IF b = d THEN h ELSE m[b].fnAddrHash,
                       size        |-> m[b].size,
                       nextDefault |-> m[b].nextDefault,
                       nextJUMPI   |-> m[b].nextJUMPI,
                       dstDefault  |-> m[b].dstDefault,
                       dstJUMPI    |-> m[b].dstJUMPI ]
  <2>1. ASSUME NEW b \in DOMAIN m PROVE q[b] = f(b)
    <3>1. CASE b = d
      <4>1. q[b] = [m[b] EXCEPT !.references = @ \cup {src}, !.fnAddrHash = h]
        BY <1>2, <3>1
      <4>2. QED
        BY <1>1, <3>1, <4>1
    <3>2. CASE b # d
      BY <1>1, <1>2, <3>2
    <3>3. QED
      BY <3>1, <3>2
  <2>2. QED
    BY <1>2, <2>1
<1>4. AddBlockReference(m, d, src, s, h, c) =
        IF c THEN [q EXCEPT ![src].nextJUMPI = n, ![src].dstJUMPI = d,
                            ![src].size = s]
             ELSE [q EXCEPT ![src].nextDefault = n, ![src].dstDefault = d,
                            ![src].size = s]
  BY DEF AddBlockReference
<1> HIDE DEF q, n
<1>5. CASE c
  <2>1. AddBlockReference(m, d, src, s, h, c) =
          [ b \in DOMAIN m |->
              IF b = src THEN [q[b] EXCEPT !.nextJUMPI = n, !.dstJUMPI = d, !.size = s]
                         ELSE q[b] ]
    BY <1>3, <1>4, <1>5
  <2>2. ASSUME NEW b \in DOMAIN m
        PROVE  Referred(m, d, src, s, h, c, b) =
                 IF b = src THEN [q[b] EXCEPT !.nextJUMPI = n, !.dstJUMPI = d, !.size = s]
                            ELSE q[b]
    <3>1. CASE b = src
      BY <1>3, <1>5, <3>1 DEF Referred, n
    <3>2. CASE b # src
      BY <1>3, <1>5, <3>2 DEF Referred
    <3>3. QED
      BY <3>1, <3>2
  <2>3. QED
    BY <2>1, <2>2
<1>6. CASE ~c
  <2>1. AddBlockReference(m, d, src, s, h, c) =
          [ b \in DOMAIN m |->
              IF b = src
                THEN [q[b] EXCEPT !.nextDefault = n, !.dstDefault = d, !.size = s]
                ELSE q[b] ]
    BY <1>3, <1>4, <1>6
  <2>2. ASSUME NEW b \in DOMAIN m
        PROVE  Referred(m, d, src, s, h, c, b) =
                 IF b = src
                   THEN [q[b] EXCEPT !.nextDefault = n, !.dstDefault = d, !.size = s]
                   ELSE q[b]
    <3>1. CASE b = src
      BY <1>3, <1>6, <3>1 DEF Referred, n
    <3>2. CASE b # src
      BY <1>3, <1>6, <3>2 DEF Referred
    <3>3. QED
      BY <3>1, <3>2
  <2>3. QED
    BY <2>1, <2>2
<1>7. QED
  BY <1>5, <1>6

\* An xref between a block and any offset leaves the map sound, and changes the
\* successors and the size of its source only (Contract.cpp:464-506).
LEMMA ReferenceSound ==
  ASSUME NEW m, Sound(m), NEW d \in Nat, NEW src \in DOMAIN m \ {NODE_DEADEND},
         NEW s \in Nat, NEW h \in Nat, NEW c \in BOOLEAN
  PROVE  /\ Sound(AddBlockReference(m, d, src, s, h, c))
         /\ DOMAIN AddBlockReference(m, d, src, s, h, c) = DOMAIN m
         /\ OnlyIn({src}, m, AddBlockReference(m, d, src, s, h, c))
<1> DEFINE r == AddBlockReference(m, d, src, s, h, c)
           n == GetBlockAt(m, d)
<1>1. r = [ b \in DOMAIN m |-> Referred(m, d, src, s, h, c, b) ]
  BY ReferenceRecords DEF Sound
<1>2. n = IF d \in DOMAIN m THEN d ELSE NULL
  BY DEF GetBlockAt
<1>3. ASSUME NEW b \in DOMAIN m
      PROVE  /\ r[b].references = IF b = d THEN m[b].references \cup {src}
                                           ELSE m[b].references
             /\ r[b].fnAddrHash = IF b = d THEN h ELSE m[b].fnAddrHash
             /\ r[b].size = IF b = src THEN s ELSE m[b].size
             /\ r[b].nextDefault = IF b = src /\ ~c THEN n ELSE m[b].nextDefault
             /\ r[b].nextJUMPI = IF b = src /\ c THEN n ELSE m[b].nextJUMPI
             /\ r[b].dstDefault = IF b = src /\ ~c THEN d ELSE m[b].dstDefault
             /\ r[b].dstJUMPI = IF b = src /\ c THEN d ELSE m[b].dstJUMPI
  <2>1. r[b] = Referred(m, d, src, s, h, c, b)
    BY <1>1
  <2>2. QED
    BY <2>1 DEF Referred
<1>4. DOMAIN r = DOMAIN m
  BY <1>1
<1>5. Typed(r)
  <2>1. ASSUME NEW b \in DOMAIN m
        PROVE  Referred(m, d, src, s, h, c, b) \in Block
    <3>1. m[b] \in Block /\ src \in Nat
      BY DEF Sound, Typed
    <3>2. n \in Nat \cup {NULL}
      BY <1>2
    <3>3. QED
      BY <3>1, <3>2 DEF Referred, Block
  <2>2. QED
    BY <1>1, <1>4, <2>1 DEF Sound, Typed
<1> HIDE DEF r, n
<1>6. Mutual(r)
  <2> SUFFICES ASSUME NEW b \in DOMAIN m
               PROVE  /\ r[b].nextDefault # NULL =>
                           /\ r[b].nextDefault = r[b].dstDefault
                           /\ r[b].dstDefault \in DOMAIN m
                           /\ b \in r[r[b].dstDefault].references
                      /\ r[b].nextJUMPI # NULL =>
                           /\ r[b].nextJUMPI = r[b].dstJUMPI
                           /\ r[b].dstJUMPI \in DOMAIN m
                           /\ b \in r[r[b].dstJUMPI].references
    BY <1>4 DEF Mutual
  <2>1. \A x \in DOMAIN m : m[x].references \subseteq r[x].references
    BY <1>3
  <2>2. d \in DOMAIN m => src \in r[d].references
    BY <1>3
  <2>3. m[b].nextDefault # NULL =>
          /\ m[b].nextDefault = m[b].dstDefault
          /\ m[b].dstDefault \in DOMAIN m
          /\ b \in m[m[b].dstDefault].references
    BY DEF Sound, Mutual
  <2>4. m[b].nextJUMPI # NULL =>
          /\ m[b].nextJUMPI = m[b].dstJUMPI
          /\ m[b].dstJUMPI \in DOMAIN m
          /\ b \in m[m[b].dstJUMPI].references
    BY DEF Sound, Mutual
  <2>5. CASE c
    BY <1>2, <1>3, <2>1, <2>2, <2>3, <2>4, <2>5
  <2>6. CASE ~c
    BY <1>2, <1>3, <2>1, <2>2, <2>3, <2>4, <2>6
  <2>7. QED
    BY <2>5, <2>6
<1>7. Resolved(r)
  <2>1. ASSUME NEW b \in DOMAIN m
        PROVE  r[b].references \subseteq DOMAIN m \ {NODE_DEADEND}
    <3>1. m[b].references \subseteq DOMAIN m \ {NODE_DEADEND}
      BY DEF Sound, Resolved
    <3>2. QED
      BY <1>3, <3>1
  <2>2. r[NODE_DEADEND].dstDefault = 0 /\ r[NODE_DEADEND].dstJUMPI = 0
    BY <1>3 DEF Sound, Resolved
  <2>3. QED
    BY <1>4, <2>1, <2>2 DEF Sound, Resolved
<1>8. OnlyIn({src}, m, r)
  BY <1>3, <1>4 DEF OnlyIn
<1>9. QED
  BY <1>4, <1>5, <1>6, <1>7, <1>8 DEF Sound, r

\* setBlockSize changes one size (Contract.cpp:542-553).
LEMMA SetBlockSizeSound ==
  ASSUME NEW m, Sound(m), NEW o \in DOMAIN m, NEW s \in Nat
  PROVE  /\ Sound(SetBlockSize(m, o, s))
         /\ DOMAIN SetBlockSize(m, o, s) = DOMAIN m
         /\ OnlyIn({o}, m, SetBlockSize(m, o, s))
<1> DEFINE r == SetBlockSize(m, o, s)
<1>1. r = [m EXCEPT ![o].size = s]
  BY DEF SetBlockSize
<1>2. ASSUME NEW b \in DOMAIN m
      PROVE  /\ r[b] \in Block
             /\ r[b].references = m[b].references
             /\ r[b].nextDefault = m[b].nextDefault
             /\ r[b].nextJUMPI = m[b].nextJUMPI
             /\ r[b].dstDefault = m[b].dstDefault
             /\ r[b].dstJUMPI = m[b].dstJUMPI
             /\ b # o => r[b].size = m[b].size
  <2>1. m[b] \in Block
    BY DEF Sound, Typed
  <2>2. r[b] = IF b = o THEN [m[b] EXCEPT !.size = s] ELSE m[b]
    BY <1>1 DEF Sound, Typed
  <2>3. CASE b = o
    BY <2>1, <2>2, <2>3 DEF Block
  <2>4. CASE b # o
    BY <2>1, <2>2, <2>4
  <2>5. QED
    BY <2>3, <2>4
<1>3. DOMAIN r = DOMAIN m /\ r = [ b \in DOMAIN m |-> r[b] ]
  BY <1>1 DEF Sound, Typed
<1> HIDE DEF r
<1>4. Typed(r)
  BY <1>2, <1>3 DEF Sound, Typed
<1>5. Mutual(r)
  <2>1. ASSUME NEW b \in DOMAIN m
        PROVE  /\ r[b].nextDefault # NULL =>
                    /\ r[b].nextDefault = r[b].dstDefault
                    /\ r[b].dstDefault \in DOMAIN m
                    /\ b \in r[r[b].dstDefault].references
               /\ r[b].nextJUMPI # NULL =>
                    /\ r[b].nextJUMPI = r[b].dstJUMPI
                    /\ r[b].dstJUMPI \in DOMAIN m
                    /\ b \in r[r[b].dstJUMPI].references
    BY <1>2 DEF Sound, Mutual
  <2>2. QED
    BY <1>3, <2>1 DEF Mutual
<1>6. Resolved(r)
  BY <1>2, <1>3 DEF Sound, Resolved
<1>7. QED
  BY <1>2, <1>3, <1>4, <1>5, <1>6 DEF Sound, OnlyIn, r

-----------------------------------------------------------------------------
(***************************************************************************)
(* The invariant of the pass.  Besides the sound map it knows where the    *)
(* pass is: every block begins at or before the block it is in, or at a    *)
(* JUMPDEST that is still to come.                                         *)
(***************************************************************************)
ListingOK ==
  /\ WellFormed([listing |-> listing, size |-> codeSize])
  /\ codeSize < NODE_DEADEND
  /\ instIndex \in 1 .. Len(listing) + 1

PositionOK ==
  /\ basicBlockOffset \in DOMAIN blocks \ {NODE_DEADEND}
  /\ ~Done => basicBlockOffset <= CurrentOffset
  /\ \A b \in DOMAIN blocks \ {NODE_DEADEND} :
       \/ b <= basicBlockOffset
       \/ \E j \in instIndex .. Len(listing) :
            b = listing[j].offset /\ listing[j].op = "JUMPDEST"
  /\ JumpdestOffsets(listing) \subseteq DOMAIN blocks

ExitsOK == DOMAIN exitNodes \subseteq Nat /\ exitNodes \in [DOMAIN exitNodes -> Nat]

ScanInv == ListingOK /\ Sound(blocks) /\ PositionOK /\ ExitsOK

\* The instruction under the pass and its neighbours (Contract.cpp:112-124).
LEMMA Neighbours ==
  ASSUME ListingOK
  PROVE  /\ listing \in Seq(Instr) /\ codeSize \in Nat
         /\ \A i \in 1 .. Len(listing) : listing[i] \in Instr
         /\ \A i \in 1 .. Len(listing) : listing[i].offset < codeSize
         /\ \A i, j \in 1 .. Len(listing) : j < i => listing[j].offset < listing[i].offset
         /\ Len(listing) > 0 => listing[1].offset = 0
<1> DEFINE p == [listing |-> listing, size |-> codeSize]
<1>1. p.listing = listing /\ p.size = codeSize
  OBVIOUS
<1>2. WellFormed(p)
  BY DEF ListingOK
<1> HIDE DEF p
<1>3. listing \in Seq(Instr) /\ codeSize \in Nat
  BY <1>1, <1>2 DEF WellFormed
<1>4. \A i \in 1 .. Len(listing) :
        /\ listing[i].offset < codeSize
        /\ i = 1 => listing[i].offset = 0
        /\ \A j \in 1 .. i - 1 : listing[j].offset < listing[i].offset
  BY <1>1, <1>2 DEF WellFormed
<1>5. \A i \in 1 .. Len(listing) : listing[i] \in Instr
  BY <1>3
<1>6. Len(listing) \in Nat
  BY <1>3
<1>7. \A i, j \in 1 .. Len(listing) : j < i => listing[j].offset < listing[i].offset
  BY <1>4, <1>6
<1>8. Len(listing) > 0 => listing[1].offset = 0
  BY <1>4, <1>6
<1>9. QED
  BY <1>3, <1>4, <1>5, <1>7, <1>8

\* Sizes are differences that never wrap (Contract.cpp:123-124).
LEMMA SizesNatural ==
  ASSUME ScanInv, ~Done
  PROVE  /\ listing[instIndex] \in Instr /\ CurrentOffset \in Nat
         /\ CurrentOffset < codeSize
         /\ basicBlockOffset \in Nat /\ basicBlockOffset <= CurrentOffset
         /\ HasNext => /\ NextInstr \in Instr
                       /\ CurrentOffset < NextInstr.offset
                       /\ NextInstr.offset < codeSize
         /\ currentBlockSize \in Nat /\ nextInstrBlockSize \in Nat
<1>1. instIndex \in 1 .. Len(listing) /\ Len(listing) \in Nat
  BY Neighbours DEF ScanInv, ListingOK, Done
<1>2. /\ listing[instIndex] \in Instr /\ CurrentOffset \in Nat
      /\ CurrentOffset < codeSize /\ codeSize \in Nat
  BY <1>1, Neighbours DEF ScanInv, CurrentOffset, Instr
<1>3. basicBlockOffset \in Nat /\ basicBlockOffset <= CurrentOffset
  BY DEF ScanInv, PositionOK, Sound, Typed
<1>4. HasNext => /\ NextInstr \in Instr
                 /\ CurrentOffset < NextInstr.offset
                 /\ NextInstr.offset < codeSize
  BY <1>1, Neighbours DEF ScanInv, HasNext, NextInstr, CurrentOffset
<1>5. HasNext => NextInstr.offset \in Nat
  BY <1>4 DEF Instr
<1>6. EndOffset \in Nat /\ CurrentOffset < EndOffset
  BY <1>2, <1>4, <1>5 DEF EndOffset
<1>7. QED
  BY <1>2, <1>3, <1>4, <1>6 DEF currentBlockSize, nextInstrBlockSize

\* The selector of a dispatch is the data of a PUSH4, or 0 (Contract.cpp:199-206).
LEMMA HashNatural ==
  ASSUME ScanInv, NEW i \in 1 .. Len(listing)
  PROVE  DispatchHash(i) \in Nat
<1> DEFINE W == { j \in 1 .. Len(listing) :
                    i - 4 <= j /\ j <= i /\ listing[j].op = "PUSH4" }
<1>1. Len(listing) \in Nat
  BY Neighbours DEF ScanInv
<1>2. CASE W = {}
  BY <1>2 DEF DispatchHash
<1>3. CASE W # {}
  <2>1. W \subseteq {i - 4, i - 3, i - 2, i - 1, i} /\ W \subseteq 1 .. Len(listing)
    BY <1>1
  <2>2. \E j \in W : \A k \in W : j <= k
    <3> HIDE DEF W
    <3>1. CASE i - 4 \in W
      BY <1>1, <2>1, <3>1
    <3>2. CASE i - 4 \notin W /\ i - 3 \in W
      BY <1>1, <2>1, <3>2
    <3>3. CASE i - 4 \notin W /\ i - 3 \notin W /\ i - 2 \in W
      BY <1>1, <2>1, <3>3
    <3>4. CASE i - 4 \notin W /\ i - 3 \notin W /\ i - 2 \notin W /\ i - 1 \in W
      BY <1>1, <2>1, <3>4
    <3>5. CASE W \subseteq {i}
      <4>1. \A k \in W : k = i
        BY <3>5
      <4>2. i \in W
        BY <1>3, <4>1, Zenon
      <4>3. QED
        BY <1>1, <4>1, <4>2
    <3>6. QED
      BY <2>1, <3>1, <3>2, <3>3, <3>4, <3>5
  <2>3. (CHOOSE j \in W : \A k \in W : j <= k) \in W
    <3> HIDE DEF W
    <3>1. QED
      BY <2>2
  <2>4. DispatchHash(i) = listing[CHOOSE j \in W : \A k \in W : j <= k].data
    BY <1>3 DEF DispatchHash
  <2>5. \A j \in W : listing[j].data \in Nat
    BY Neighbours DEF ScanInv, Instr
  <2>6. QED
    BY <2>3, <2>4, <2>5
<1>4. QED
  BY <1>2, <1>3

-----------------------------------------------------------------------------
\* The scan starts from a sound map with the exit node, the entry and a block
\* for each JUMPDEST (Contract.cpp:66-109).
LEMMA ScanInit == Init => ScanInv
<1> SUFFICES ASSUME Init PROVE ScanInv
  OBVIOUS
<1>1. PICK p \in Programs :
        /\ listing = p.listing /\ codeSize = p.size
        /\ blocks = [ o \in {NODE_DEADEND, 0} \cup JumpdestOffsets(p.listing) |->
                        NewBlock(0) ]
        /\ exitNodes = << >>
        /\ instIndex = 1 /\ basicBlockOffset = 0
  BY DEF Init
<1>2. WellFormed([listing |-> listing, size |-> codeSize])
  BY <1>1, ProgramAssumption DEF WellFormed
<1>3. Len(listing) \in Nat
  BY <1>2 DEF WellFormed
<1>4. ListingOK
  BY <1>1, <1>2, <1>3, ProgramAssumption DEF ListingOK
<1>5. JumpdestOffsets(listing) \subseteq Nat
  BY <1>4, Neighbours DEF JumpdestOffsets, Instr
<1>6. DOMAIN blocks = {NODE_DEADEND, 0} \cup JumpdestOffsets(listing)
  BY <1>1
<1>7. \A b \in DOMAIN blocks : blocks[b] = NewBlock(0)
  BY <1>1
<1>8. Sound(blocks)
  <2>1. NewBlock(0) \in Block
    BY DEF NewBlock, Block
  <2>2. Typed(blocks)
    BY <1>1, <1>5, <1>6, <2>1, NodeAssumption DEF Typed
  <2>3. Mutual(blocks)
    BY <1>7 DEF Mutual, NewBlock
  <2>4. Resolved(blocks)
    BY <1>6, <1>7 DEF Resolved, NewBlock
  <2>5. QED
    BY <2>2, <2>3, <2>4 DEF Sound
<1>9. PositionOK
  <2>1. ~Done => basicBlockOffset <= CurrentOffset
    BY <1>1, <1>3, <1>4, Neighbours DEF Done, CurrentOffset
  <2>2. ASSUME NEW b \in DOMAIN blocks \ {NODE_DEADEND}
        PROVE  \/ b <= basicBlockOffset
               \/ \E j \in instIndex .. Len(listing) :
                    b = listing[j].offset /\ listing[j].op = "JUMPDEST"
    BY <1>1, <1>6 DEF JumpdestOffsets
  <2>3. QED
    BY <1>1, <1>6, <2>1, <2>2, NodeAssumption DEF PositionOK
<1>10. ExitsOK
  BY <1>1 DEF ExitsOK
<1>11. QED
  BY <1>4, <1>8, <1>9, <1>10 DEF ScanInv

\* Where a step leaves the pass: in the block of the JUMPDEST it was at, where it
\* was, or in the block behind a JUMPI (Contract.cpp:132, 218).
Arrives ==
  \/ /\ listing[instIndex].op = "JUMPDEST"
     /\ basicBlockOffset' = CurrentOffset
     /\ DOMAIN blocks' = DOMAIN blocks
  \/ /\ listing[instIndex].op # "JUMPDEST"
     /\ basicBlockOffset' = basicBlockOffset
     /\ DOMAIN blocks' = DOMAIN blocks
  \/ /\ HasNext
     /\ listing[instIndex].op # "JUMPDEST"
     /\ basicBlockOffset' = NextInstr.offset
     /\ DOMAIN blocks' = DOMAIN blocks \cup {NextInstr.offset}

\* A step that arrives like that keeps the position right.
LEMMA ArrivesKeepsPosition ==
  ASSUME ScanInv, ~Done, Arrives, instIndex' = instIndex + 1,
         UNCHANGED << listing, codeSize >>
  PROVE  ListingOK' /\ PositionOK'
<1>1. instIndex \in 1 .. Len(listing) /\ Len(listing) \in Nat
  BY Neighbours DEF ScanInv, ListingOK, Done
<1>2. ListingOK'
  BY <1>1 DEF ScanInv, ListingOK
<1>3. /\ CurrentOffset \in Nat /\ CurrentOffset < codeSize /\ codeSize < NODE_DEADEND
      /\ basicBlockOffset \in Nat /\ basicBlockOffset <= CurrentOffset
      /\ HasNext => /\ NextInstr.offset \in Nat
                    /\ CurrentOffset < NextInstr.offset
                    /\ NextInstr.offset < codeSize
      /\ codeSize \in Nat
  BY SizesNatural, Neighbours DEF ScanInv, ListingOK, Instr
<1>4. ~Done' => HasNext /\ CurrentOffset' = NextInstr.offset
  BY <1>1 DEF Done, HasNext, CurrentOffset, NextInstr
<1>5. DOMAIN blocks \subseteq Nat
  BY DEF ScanInv, Sound, Typed
<1>6. JumpdestOffsets(listing)' \subseteq DOMAIN blocks'
  BY DEF ScanInv, PositionOK, Arrives, JumpdestOffsets
<1>7. CASE /\ listing[instIndex].op = "JUMPDEST"
           /\ basicBlockOffset' = CurrentOffset
           /\ DOMAIN blocks' = DOMAIN blocks
  <2>1. CurrentOffset \in DOMAIN blocks
    BY <1>1, <1>7 DEF ScanInv, PositionOK, JumpdestOffsets, CurrentOffset
  <2>2. ASSUME NEW b \in DOMAIN blocks \ {NODE_DEADEND}
        PROVE  \/ b <= CurrentOffset
               \/ \E j \in instIndex + 1 .. Len(listing) :
                    b = listing[j].offset /\ listing[j].op = "JUMPDEST"
    <3>1. CASE b <= basicBlockOffset
      BY <1>3, <1>5, <3>1
    <3>2. CASE \E j \in instIndex .. Len(listing) :
                 b = listing[j].offset /\ listing[j].op = "JUMPDEST"
      <4>1. PICK j \in instIndex .. Len(listing) :
              b = listing[j].offset /\ listing[j].op = "JUMPDEST"
        BY <3>2
      <4>2. CASE j = instIndex
        BY <1>3, <4>1, <4>2 DEF CurrentOffset
      <4>3. CASE j # instIndex
        BY <1>1, <4>1, <4>3
      <4>4. QED
        BY <4>2, <4>3
    <3>3. QED
      BY <3>1, <3>2 DEF ScanInv, PositionOK
  <2>3. ~Done' => basicBlockOffset' <= CurrentOffset'
    BY <1>3, <1>4, <1>7
  <2>4. basicBlockOffset' \in DOMAIN blocks' \ {NODE_DEADEND}
    BY <1>3, <1>7, <2>1
  <2>5. QED
    BY <1>2, <1>6, <1>7, <2>2, <2>3, <2>4 DEF PositionOK
<1>8. CASE /\ listing[instIndex].op # "JUMPDEST"
           /\ basicBlockOffset' = basicBlockOffset
           /\ DOMAIN blocks' = DOMAIN blocks
  <2>1. ASSUME NEW b \in DOMAIN blocks \ {NODE_DEADEND}
        PROVE  \/ b <= basicBlockOffset
               \/ \E j \in instIndex + 1 .. Len(listing) :
                    b = listing[j].offset /\ listing[j].op = "JUMPDEST"
    <3>1. CASE \E j \in instIndex .. Len(listing) :
                 b = listing[j].offset /\ listing[j].op = "JUMPDEST"
      <4>1. PICK j \in instIndex .. Len(listing) :
              b = listing[j].offset /\ listing[j].op = "JUMPDEST"
        BY <3>1
      <4>2. j \in instIndex + 1 .. Len(listing)
        BY <1>1, <1>8, <4>1
      <4>3. QED
        BY <4>1, <4>2
    <3>2. QED
      BY <3>1 DEF ScanInv, PositionOK
  <2>2. ~Done' => basicBlockOffset' <= CurrentOffset'
    BY <1>3, <1>4, <1>8
  <2>3. basicBlockOffset' \in DOMAIN blocks' \ {NODE_DEADEND}
    BY <1>8 DEF ScanInv, PositionOK
  <2>4. QED
    BY <1>2, <1>6, <1>8, <2>1, <2>2, <2>3 DEF PositionOK
<1>9. CASE /\ HasNext
           /\ listing[instIndex].op # "JUMPDEST"
           /\ basicBlockOffset' = NextInstr.offset
           /\ DOMAIN blocks' = DOMAIN blocks \cup {NextInstr.offset}
  <2>1. ASSUME NEW b \in DOMAIN blocks' \ {NODE_DEADEND}
        PROVE  \/ b <= NextInstr.offset
               \/ \E j \in instIndex + 1 .. Len(listing) :
                    b = listing[j].offset /\ listing[j].op = "JUMPDEST"
    <3>1. CASE b = NextInstr.offset
      BY <1>3, <1>9, <3>1
    <3>2. CASE b \in DOMAIN blocks /\ b <= basicBlockOffset
      BY <1>3, <1>5, <1>9, <3>2
    <3>3. CASE \E j \in instIndex .. Len(listing) :
                 b = listing[j].offset /\ listing[j].op = "JUMPDEST"
      <4>1. PICK j \in instIndex .. Len(listing) :
              b = listing[j].offset /\ listing[j].op = "JUMPDEST"
        BY <3>3
      <4>2. j \in instIndex + 1 .. Len(listing)
        BY <1>1, <1>9, <4>1
      <4>3. QED
        BY <4>1, <4>2
    <3>4. QED
      BY <1>9, <3>1, <3>2, <3>3 DEF ScanInv, PositionOK
  <2>2. ~Done' => basicBlockOffset' <= CurrentOffset'
    BY <1>3, <1>4, <1>9
  <2>3. basicBlockOffset' \in DOMAIN blocks' \ {NODE_DEADEND}
    BY <1>3, <1>9
  <2>4. QED
    BY <1>2, <1>6, <1>9, <2>1, <2>2, <2>3 DEF PositionOK
<1>10. QED
  BY <1>7, <1>8, <1>9 DEF Arrives

-----------------------------------------------------------------------------
(***************************************************************************)
(* What each case of the switch does to the map of blocks.                 *)
(***************************************************************************)
\* The map after a step is sound, and only the block the pass was in has a
\* new successor or size.
BlocksStep == Sound(blocks') /\ OnlyIn({basicBlockOffset}, blocks, blocks')

\* What every step of the pass shares.
LEMMA StepFacts ==
  ASSUME ScanInv, NEW op, Step(op)
  PROVE  /\ ~Done /\ instIndex \in 1 .. Len(listing)
         /\ listing[instIndex].op = op /\ instIndex' = instIndex + 1
         /\ UNCHANGED << listing, codeSize >>
         /\ basicBlockOffset \in DOMAIN blocks \ {NODE_DEADEND}
<1>1. instIndex \in 1 .. Len(listing)
  BY Neighbours DEF ScanInv, ListingOK, Step, Done
<1>2. QED
  BY <1>1 DEF Step, ScanInv, PositionOK

\* A map that does not change.
LEMMA BlocksSame ==
  ASSUME ScanInv, UNCHANGED blocks
  PROVE  BlocksStep
  BY DEF BlocksStep, ScanInv, OnlyIn

\* JUMPDEST of a public function (Contract.cpp:143-156).
LEMMA FunctionEntryStep ==
  ASSUME ScanInv, FunctionEntry
  PROVE  ScanInv' /\ BlocksStep
<1>1. Step("JUMPDEST") /\ UNCHANGED blocks /\ basicBlockOffset' = CurrentOffset
  BY DEF FunctionEntry
<1>2. Arrives
  BY <1>1, StepFacts DEF Arrives
<1>3. ListingOK' /\ PositionOK'
  BY <1>1, <1>2, StepFacts, ArrivesKeepsPosition
<1>4. BlocksStep
  BY <1>1, BlocksSame
<1>5. ExitsOK'
  <2> DEFINE h == blocks[CurrentOffset].fnAddrHash
  <2>1. NextInstr.data \in Nat
    BY <1>1, StepFacts, SizesNatural DEF FunctionEntry, EntersFunction, Instr
  <2>2. h \in Nat
    <3>1. CurrentOffset \in DOMAIN blocks
      BY <1>1, StepFacts DEF ScanInv, PositionOK, JumpdestOffsets, CurrentOffset
    <3>2. QED
      BY <3>1 DEF ScanInv, Sound, Typed, Block
  <2>3. exitNodes' = IF NextInstr.op = "PUSH12" /\ h \notin DOMAIN exitNodes
                       THEN [ x \in DOMAIN exitNodes \cup {h} |->
                                IF x = h THEN NextInstr.data ELSE exitNodes[x] ]
                       ELSE exitNodes
    BY DEF FunctionEntry
  <2> HIDE DEF h
  <2>4. QED
    BY <2>1, <2>2, <2>3 DEF ScanInv, ExitsOK
<1>6. QED
  BY <1>3, <1>4, <1>5 DEF ScanInv, BlocksStep

\* JUMPDEST that code falls into (Contract.cpp:157-173).
LEMMA FallIntoBlockStep ==
  ASSUME ScanInv, FallIntoBlock
  PROVE  ScanInv' /\ BlocksStep
<1>1. /\ Step("JUMPDEST") /\ basicBlockOffset' = CurrentOffset
      /\ blocks' = AddBlockReference(blocks, CurrentOffset, basicBlockOffset,
                                     currentBlockSize, 0, FALSE)
      /\ UNCHANGED exitNodes
  BY DEF FallIntoBlock
<1>2. CurrentOffset \in Nat /\ currentBlockSize \in Nat
  BY <1>1, StepFacts, SizesNatural
<1>3. /\ Sound(blocks') /\ DOMAIN blocks' = DOMAIN blocks
      /\ OnlyIn({basicBlockOffset}, blocks, blocks')
  <2>1. Sound(blocks)
    BY DEF ScanInv
  <2>2. basicBlockOffset \in DOMAIN blocks \ {NODE_DEADEND}
    BY <1>1, StepFacts
  <2> DEFINE c == FALSE
             r == AddBlockReference(blocks, CurrentOffset, basicBlockOffset,
                                    currentBlockSize, 0, c)
  <2>3. 0 \in Nat /\ c \in BOOLEAN
    OBVIOUS
  <2> HIDE DEF c
  <2>4. /\ Sound(r) /\ DOMAIN r = DOMAIN blocks
        /\ OnlyIn({basicBlockOffset}, blocks, r)
    BY <1>2, <2>1, <2>2, <2>3, ReferenceSound
  <2>5. QED
    BY <1>1, <2>4 DEF c
<1>4. Arrives
  BY <1>1, <1>3, StepFacts DEF Arrives
<1>5. ListingOK' /\ PositionOK'
  BY <1>1, <1>4, StepFacts, ArrivesKeepsPosition
<1>6. QED
  BY <1>1, <1>3, <1>5 DEF ScanInv, BlocksStep, ExitsOK

\* JUMPDEST behind a jump or halt (Contract.cpp:131-132).
LEMMA EnterBlockStep ==
  ASSUME ScanInv, EnterBlock
  PROVE  ScanInv' /\ BlocksStep
<1>1. /\ Step("JUMPDEST") /\ basicBlockOffset' = CurrentOffset
      /\ UNCHANGED << blocks, exitNodes >>
  BY DEF EnterBlock
<1>2. Arrives
  BY <1>1, StepFacts DEF Arrives
<1>3. ListingOK' /\ PositionOK'
  BY <1>1, <1>2, StepFacts, ArrivesKeepsPosition
<1>4. BlocksStep
  BY <1>1, BlocksSame
<1>5. QED
  BY <1>1, <1>3, <1>4 DEF ScanInv, BlocksStep, ExitsOK

\* STOP and RETURN (Contract.cpp:176-187).
LEMMA HaltStep ==
  ASSUME ScanInv, Halt
  PROVE  ScanInv' /\ BlocksStep
<1>1. PICK op \in {"STOP", "RETURN"} : Step(op)
  BY DEF Halt
<1>2. /\ blocks' = SetBlockSize(blocks, basicBlockOffset, nextInstrBlockSize)
      /\ UNCHANGED << basicBlockOffset, exitNodes >>
  BY DEF Halt
<1>3. nextInstrBlockSize \in Nat
  BY <1>1, StepFacts, SizesNatural
<1>4. /\ Sound(blocks') /\ DOMAIN blocks' = DOMAIN blocks
      /\ OnlyIn({basicBlockOffset}, blocks, blocks')
  BY <1>1, <1>2, <1>3, StepFacts, SetBlockSizeSound DEF ScanInv
<1>5. Arrives
  BY <1>1, <1>2, <1>4, StepFacts DEF Arrives
<1>6. ListingOK' /\ PositionOK'
  BY <1>1, <1>5, StepFacts, ArrivesKeepsPosition
<1>7. QED
  BY <1>2, <1>4, <1>6 DEF ScanInv, BlocksStep, ExitsOK

\* The label a jump takes from the push before it (Contract.cpp:192-197).
LEMMA PrevDataNatural ==
  ASSUME ScanInv, ~Done, NEW S, PrevIs(S)
  PROVE  PrevData \in Nat
<1>1. instIndex - 1 \in 1 .. Len(listing)
  BY Neighbours DEF ScanInv, ListingOK, Done, PrevIs
<1>2. QED
  BY <1>1, Neighbours DEF ScanInv, PrevData, Instr

\* JUMP (Contract.cpp:228-248).
LEMMA JumpStep ==
  ASSUME ScanInv, Jump
  PROVE  ScanInv' /\ BlocksStep
<1>1. Step("JUMP") /\ UNCHANGED << basicBlockOffset, exitNodes >>
  BY DEF Jump
<1>2. nextInstrBlockSize \in Nat
  BY <1>1, StepFacts, SizesNatural
<1>3. Sound(blocks') /\ DOMAIN blocks' = DOMAIN blocks
        /\ OnlyIn({basicBlockOffset}, blocks, blocks')
  <2>1. CASE instIndex = 1
    BY <2>1 DEF Jump, ScanInv, OnlyIn
  <2>2. CASE instIndex # 1
    <3> DEFINE d == IF PrevIs({"PUSH12"}) THEN PrevData ELSE NODE_DEADEND
    <3>1. blocks' = AddBlockReference(blocks, d, basicBlockOffset,
                                      nextInstrBlockSize, 0, FALSE)
      BY <2>2 DEF Jump
    <3>2. d \in Nat
      BY <1>1, StepFacts, PrevDataNatural, NodeAssumption
    <3> HIDE DEF d
    <3>3. Sound(blocks)
      BY DEF ScanInv
    <3>4. basicBlockOffset \in DOMAIN blocks \ {NODE_DEADEND}
      BY <1>1, StepFacts
    <3> DEFINE c == FALSE
               r == AddBlockReference(blocks, d, basicBlockOffset,
                                      nextInstrBlockSize, 0, c)
    <3>5. 0 \in Nat /\ c \in BOOLEAN
      OBVIOUS
    <3> HIDE DEF c
    <3>6. /\ Sound(r) /\ DOMAIN r = DOMAIN blocks
          /\ OnlyIn({basicBlockOffset}, blocks, r)
      BY <1>2, <3>2, <3>3, <3>4, <3>5, ReferenceSound
    <3>7. QED
      BY <3>1, <3>6 DEF c
  <2>3. QED
    BY <2>1, <2>2
<1>4. Arrives
  BY <1>1, <1>3, StepFacts DEF Arrives
<1>5. ListingOK' /\ PositionOK'
  BY <1>1, <1>4, StepFacts, ArrivesKeepsPosition
<1>6. QED
  BY <1>1, <1>3, <1>5 DEF ScanInv, BlocksStep, ExitsOK

\* JUMPI: the branch, the block behind it and the fall into that
\* (Contract.cpp:188-227).
LEMMA ConditionalJumpStep ==
  ASSUME ScanInv, ConditionalJump
  PROVE  ScanInv' /\ BlocksStep
<1>1. Step("JUMPI") /\ UNCHANGED exitNodes
  BY DEF ConditionalJump
<1>2. nextInstrBlockSize \in Nat
  BY <1>1, StepFacts, SizesNatural
<1>3. /\ Sound(BranchTaken) /\ DOMAIN BranchTaken = DOMAIN blocks
      /\ OnlyIn({basicBlockOffset}, blocks, BranchTaken)
  <2>1. CASE PrevIs({"PUSH12"})
    <3>1. PrevData \in Nat
      BY <1>1, <2>1, StepFacts, PrevDataNatural
    <3>2. DispatchHash(instIndex) \in Nat
      BY <1>1, StepFacts, HashNatural
    <3>3. Sound(blocks)
      BY DEF ScanInv
    <3>4. basicBlockOffset \in DOMAIN blocks \ {NODE_DEADEND}
      BY <1>1, StepFacts
    <3> DEFINE c == TRUE
               r == AddBlockReference(blocks, PrevData, basicBlockOffset,
                      nextInstrBlockSize, DispatchHash(instIndex), c)
    <3>5. c \in BOOLEAN
      OBVIOUS
    <3> HIDE DEF c
    <3>6. /\ Sound(r) /\ DOMAIN r = DOMAIN blocks
          /\ OnlyIn({basicBlockOffset}, blocks, r)
      BY <1>2, <3>1, <3>2, <3>3, <3>4, <3>5, ReferenceSound
    <3>7. BranchTaken = r
      BY <2>1 DEF BranchTaken, c
    <3>8. QED
      BY <3>6, <3>7
  <2>2. CASE ~PrevIs({"PUSH12"})
    BY <2>2 DEF BranchTaken, ScanInv, OnlyIn
  <2>3. QED
    BY <2>1, <2>2
<1>4. CASE HasNext
  <2> DEFINE o == NextInstr.offset
             m == AddBasicBlock(BranchTaken, o, nextInstrBlockSize)
  <2>1. /\ basicBlockOffset' = o
        /\ blocks' = AddBlockReference(m, o, basicBlockOffset,
                                       nextInstrBlockSize, 0, FALSE)
    BY <1>4 DEF ConditionalJump
  <2>2. o \in Nat
    BY <1>1, <1>4, StepFacts, SizesNatural DEF Instr
  <2> HIDE DEF o
  <2>3. /\ Sound(m) /\ DOMAIN m = DOMAIN blocks \cup {o}
        /\ OnlyIn({}, BranchTaken, m)
    <3>1. Sound(BranchTaken)
      BY <1>3
    <3>2. /\ Sound(m) /\ DOMAIN m = DOMAIN BranchTaken \cup {o}
          /\ OnlyIn({}, BranchTaken, m)
      BY <1>2, <2>2, <3>1, AddBasicBlockSound
    <3>3. QED
      BY <1>3, <3>2
  <2> HIDE DEF m
  <2>4. /\ Sound(blocks') /\ DOMAIN blocks' = DOMAIN m
        /\ OnlyIn({basicBlockOffset}, m, blocks')
    <3>1. basicBlockOffset \in DOMAIN m \ {NODE_DEADEND}
      BY <1>1, <2>3, StepFacts
    <3> DEFINE c == FALSE
               r == AddBlockReference(m, o, basicBlockOffset,
                                      nextInstrBlockSize, 0, c)
    <3>2. 0 \in Nat /\ c \in BOOLEAN
      OBVIOUS
    <3> HIDE DEF c
    <3>3. Sound(r) /\ DOMAIN r = DOMAIN m /\ OnlyIn({basicBlockOffset}, m, r)
      BY <1>2, <2>2, <2>3, <3>1, <3>2, ReferenceSound
    <3>4. QED
      BY <2>1, <3>3 DEF c
  <2>5. OnlyIn({basicBlockOffset}, blocks, blocks')
    BY <1>3, <2>3, <2>4 DEF OnlyIn
  <2>6. Arrives
    <3>1. listing[instIndex].op # "JUMPDEST"
      BY <1>1, StepFacts
    <3>2. /\ basicBlockOffset' = NextInstr.offset
          /\ DOMAIN blocks' = DOMAIN blocks \cup {NextInstr.offset}
      BY <2>1, <2>3, <2>4 DEF o
    <3>3. QED
      BY <1>4, <3>1, <3>2 DEF Arrives
  <2>7. ListingOK' /\ PositionOK'
    BY <1>1, <2>6, StepFacts, ArrivesKeepsPosition
  <2>8. QED
    BY <1>1, <2>4, <2>5, <2>7 DEF ScanInv, BlocksStep, ExitsOK
<1>5. CASE ~HasNext
  <2>1. UNCHANGED basicBlockOffset /\ blocks' = BranchTaken
    BY <1>5 DEF ConditionalJump
  <2>2. Arrives
    BY <1>1, <1>3, <2>1, StepFacts DEF Arrives
  <2>3. ListingOK' /\ PositionOK'
    BY <1>1, <2>2, StepFacts, ArrivesKeepsPosition
  <2>4. QED
    BY <1>1, <1>3, <2>1, <2>3 DEF ScanInv, BlocksStep, ExitsOK
<1>6. QED
  BY <1>4, <1>5

\* Every other opcode (Contract.cpp:250-252).
LEMMA SkipStep ==
  ASSUME ScanInv, Skip
  PROVE  ScanInv' /\ BlocksStep
<1>1. PICK op \in Ops \ {"JUMPDEST", "STOP", "RETURN", "JUMPI", "JUMP"} : Step(op)
  BY DEF Skip
<1>2. UNCHANGED << basicBlockOffset, blocks, exitNodes >>
  BY DEF Skip
<1>3. Arrives
  BY <1>1, <1>2, StepFacts DEF Arrives
<1>4. ListingOK' /\ PositionOK'
  BY <1>1, <1>3, StepFacts, ArrivesKeepsPosition
<1>5. BlocksStep
  BY <1>2, BlocksSame
<1>6. QED
  BY <1>2, <1>4, <1>5 DEF ScanInv, BlocksStep, ExitsOK

-----------------------------------------------------------------------------
\* The pass keeps its invariant, and writes to the block it is in only.
LEMMA ScanKeepsInv ==
  ASSUME ScanInv, [Next]_vars
  PROVE  ScanInv' /\ BlocksStep
<1>1. CASE UNCHANGED vars
  <2>1. BlocksStep
    BY <1>1, BlocksSame DEF vars
  <2>2. ScanInv'
    BY <1>1 DEF vars, ScanInv, ListingOK, PositionOK, ExitsOK, Done,
                CurrentOffset, JumpdestOffsets
  <2>3. QED
    BY <2>1, <2>2
<1>2. CASE Scan
  BY <1>2, FunctionEntryStep, FallIntoBlockStep, EnterBlockStep, HaltStep,
     ConditionalJumpStep, JumpStep, SkipStep DEF Scan
<1>3. QED
  BY <1>1, <1>2 DEF Next, Terminated

\* The invariant of the pass holds throughout, whatever the contract.
LEMMA ScanInvariant == Spec => []ScanInv
<1>1. ScanInv /\ [Next]_vars => ScanInv'
  BY ScanKeepsInv
<1>2. QED
  BY ScanInit, <1>1, PTL DEF Spec

\* The state of the pass keeps its types, whatever the contract: no size is a
\* negative difference, and the pass is always in a block of the map.
THEOREM ScanTypeCorrect == Spec => []TypeOK
<1>1. ScanInv => TypeOK
  BY DEF ScanInv, ListingOK, Sound, Typed, PositionOK, ExitsOK, TypeOK
<1>2. QED
  BY ScanInvariant, <1>1, PTL

\* Pointers, offsets and xrefs of all edges agree at every moment
\* (Contract.cpp:464-506).
THEOREM EdgesAgree == Spec => []LinksMutual
<1>1. ScanInv => LinksMutual
  BY DEF ScanInv, Sound, Mutual, LinksMutual
<1>2. QED
  BY ScanInvariant, <1>1, PTL

\* No xref is left without its block when the exit node goes, so the early exit
\* in computeDominators is never taken (Contract.cpp:266, 322-323).
THEOREM XrefsResolve == Spec => []ReferencesResolve
<1>1. ScanInv => ReferencesResolve
  BY DEF ScanInv, Sound, Resolved, ReferencesResolve
<1>2. QED
  BY ScanInvariant, <1>1, PTL

\* The pass is in the last block that begins at or before the instruction it is
\* at (Contract.cpp:132, 218).
THEOREM PassInInnermostBlock == Spec => []InInnermostBlock
<1>1. ScanInv => InInnermostBlock
  <2> SUFFICES ASSUME ScanInv, ~Done,
                      NEW b \in DOMAIN blocks \ {NODE_DEADEND}, b < CurrentOffset
               PROVE  b <= basicBlockOffset
    BY DEF InInnermostBlock, ScanInv, PositionOK
  <2>1. instIndex \in 1 .. Len(listing) /\ Len(listing) \in Nat
    BY Neighbours DEF ScanInv, ListingOK, Done
  <2>2. ASSUME NEW j \in instIndex .. Len(listing), b = listing[j].offset
        PROVE  FALSE
    <3>1. CurrentOffset <= listing[j].offset
      <4>1. listing[instIndex].offset \in Nat
        BY <2>1, Neighbours, SizesNatural DEF ScanInv, Instr
      <4>2. CASE j = instIndex
        BY <4>1, <4>2 DEF CurrentOffset
      <4>3. CASE j # instIndex
        <5>1. /\ ListingOK /\ j \in 1 .. Len(listing) /\ instIndex < j
              /\ instIndex \in 1 .. Len(listing)
          BY <2>1, <4>3 DEF ScanInv
        <5>2. listing[instIndex].offset < listing[j].offset
          BY <5>1, Neighbours
        <5>3. listing[j].offset \in Nat
          BY <5>1, Neighbours DEF Instr
        <5>4. QED
          BY <4>1, <5>2, <5>3 DEF CurrentOffset
      <4>4. QED
        BY <4>2, <4>3
    <3>2. listing[j].offset \in Nat /\ CurrentOffset \in Nat
      BY <2>1, Neighbours, SizesNatural DEF ScanInv, Instr
    <3>3. QED
      BY <2>2, <3>1, <3>2
  <2>3. QED
    BY <2>2 DEF ScanInv, PositionOK
<1>2. QED
  BY ScanInvariant, <1>1, PTL

\* What the pass has left it never rewrites (Contract.cpp:491-503).
THEOREM PassNeverReturns == Spec => LeftBlocksFrozen
<1>1. ScanInv /\ [Next]_vars =>
        [\A b \in DOMAIN blocks : b < basicBlockOffset =>
           /\ blocks'[b].dstDefault = blocks[b].dstDefault
           /\ blocks'[b].dstJUMPI = blocks[b].dstJUMPI
           /\ blocks'[b].size = blocks[b].size]_vars
  <2> SUFFICES ASSUME ScanInv, [Next]_vars,
                      NEW b \in DOMAIN blocks, b < basicBlockOffset
               PROVE  /\ blocks'[b].dstDefault = blocks[b].dstDefault
                      /\ blocks'[b].dstJUMPI = blocks[b].dstJUMPI
                      /\ blocks'[b].size = blocks[b].size
    OBVIOUS
  <2>1. b # basicBlockOffset
    BY DEF ScanInv, PositionOK, Sound, Typed
  <2>2. QED
    BY <2>1, ScanKeepsInv DEF BlocksStep, OnlyIn
<1>2. QED
  BY ScanInvariant, <1>1, PTL DEF Spec, LeftBlocksFrozen

-----------------------------------------------------------------------------
(***************************************************************************)
(* The finished graph is exactly what the listing says.                    *)
(*                                                                         *)
(* The properties speak of the end of the pass.  The invariant says the    *)
(* same of the instructions whose edges the pass has already written down: *)
(* all it is past, but for a fall into the JUMPDEST it is at.              *)
(***************************************************************************)
Targets(i) == DefaultTargets(i) \cup BranchTargets(i)

Ender(i) == listing[i].op \in {"STOP", "RETURN"} \/ Targets(i) # {}

\* Instructions whose edges are in the map.
Settled ==
  { i \in 1 .. Len(listing) : /\ i < instIndex
                              /\ FallsInto(i) => i + 1 < instIndex }

\* Instructions of S in block b of the map m.
Inside(m, S, b) ==
  { i \in S : /\ b <= OffsetOf(i)
              /\ \A k \in DOMAIN m : k <= OffsetOf(i) => k <= b }

\* The five parts of the invariant: of the map m, for the instructions in S.
DefaultsKnown(m, S) ==
  \A b \in DOMAIN m \ {NODE_DEADEND} :
    \/ /\ m[b].dstDefault = 0
       /\ \A i \in Inside(m, S, b) : DefaultTargets(i) = {}
    \/ \E i \in Inside(m, S, b) :
         /\ m[b].dstDefault \in DefaultTargets(i)
         /\ \A j \in Inside(m, S, b) : j > i => DefaultTargets(j) = {}

BranchesKnown(m, S) ==
  \A b \in DOMAIN m \ {NODE_DEADEND} :
    \/ /\ m[b].dstJUMPI = 0
       /\ \A i \in Inside(m, S, b) : BranchTargets(i) = {}
    \/ \E i \in Inside(m, S, b) :
         /\ m[b].dstJUMPI \in BranchTargets(i)
         /\ \A j \in Inside(m, S, b) : j > i => BranchTargets(j) = {}

RefsKnown(m, S) ==
  \A b \in DOMAIN m \ {NODE_DEADEND}, t \in DOMAIN m :
    b \in m[t].references <=> \E i \in Inside(m, S, b) : t \in Targets(i)

SizesKnown(m, S) ==
  \A b \in DOMAIN m \ {NODE_DEADEND} :
    \/ \A i \in Inside(m, S, b) : ~Ender(i)
    \/ \E i \in Inside(m, S, b) :
         /\ Ender(i) /\ m[b].size = EndOf(i) - b
         /\ \A j \in Inside(m, S, b) : Ender(j) => j <= i

HashesKnown(m, S) ==
  \A b \in JumpdestOffsets(listing) :
    \/ m[b].fnAddrHash = 0 /\ \A i \in S : b \notin Targets(i)
    \/ \E i \in S :
         /\ b \in Targets(i) /\ \A j \in S : b \in Targets(j) => j <= i
         /\ m[b].fnAddrHash = IF b \in DefaultTargets(i) THEN 0
                                                         ELSE DispatchHash(i)

Known(m, S) ==
  /\ DefaultsKnown(m, S) /\ BranchesKnown(m, S)
  /\ SizesKnown(m, S) /\ HashesKnown(m, S)
  /\ LabelsAreDests => RefsKnown(m, S)

\* The pass is behind the start of its block, unless a JUMPI has just ended one.
Behind ==
  instIndex > 1 /\ listing[instIndex - 1].op # "JUMPI" =>
    basicBlockOffset <= OffsetOf(instIndex - 1)

GraphInv == ScanInv /\ Behind /\ Known(blocks, Settled)

-----------------------------------------------------------------------------
(***************************************************************************)
(* What one step adds.                                                     *)
(***************************************************************************)
\* From map m to r, and from the settled instructions S to T, nothing that is
\* known changes sides.
Grows(m, S, r, T) ==
  /\ DOMAIN m \subseteq DOMAIN r /\ S \subseteq T /\ T \subseteq 1 .. Len(listing)
  /\ \A b \in DOMAIN m : Inside(r, T, b) = Inside(m, T, b)
  /\ \A b \in DOMAIN r \ DOMAIN m : Inside(r, T, b) = {}

\* A step that writes nothing, and is past nothing that goes anywhere.
Quiet(m, S, r, T) ==
  Grows(m, S, r, T) /\ r = m /\ \A i \in T \ S : ~Ender(i)

\* What instruction e, of block c, does to the record of block b.
Moves(m, r, e, c, b) ==
  /\ IF b = c /\ DefaultTargets(e) # {}
       THEN r[b].dstDefault \in DefaultTargets(e)
       ELSE r[b].dstDefault = m[b].dstDefault
  /\ IF b = c /\ BranchTargets(e) # {}
       THEN r[b].dstJUMPI \in BranchTargets(e)
       ELSE r[b].dstJUMPI = m[b].dstJUMPI
  /\ r[b].size = IF b = c THEN EndOf(e) - b ELSE m[b].size
  /\ r[b].references = IF b \in Targets(e) THEN m[b].references \cup {c}
                                           ELSE m[b].references
  /\ r[b].fnAddrHash = IF b \in DefaultTargets(e) THEN 0
                       ELSE IF b \in BranchTargets(e) THEN DispatchHash(e)
                       ELSE m[b].fnAddrHash

\* A block that instruction e adds to the map.
Fresh(m, S, r, e, c, b) ==
  /\ r[b].dstDefault = 0 /\ r[b].dstJUMPI = 0 /\ r[b].references = {c}
  /\ b \in Targets(e) /\ b \notin JumpdestOffsets(listing)
  /\ \A t \in DOMAIN m : b \notin m[t].references
  /\ LabelsAreDests => \A i \in S : b \notin Targets(i)

\* A step that settles instruction e of block c.
Settles(m, S, r, T, e, c) ==
  /\ Grows(m, S, r, T)
  /\ c \in DOMAIN m \ {NODE_DEADEND} /\ e \in T \ S /\ Ender(e)
  /\ \A b \in DOMAIN m \ {NODE_DEADEND} : e \in Inside(m, T, b) <=> b = c
  /\ \A i \in S : i < e
  /\ \A i \in T \ S : i # e => ~Ender(i)
  /\ \A b \in DOMAIN m : Moves(m, r, e, c, b)
  /\ \A b \in DOMAIN r \ DOMAIN m : Fresh(m, S, r, e, c, b)

-----------------------------------------------------------------------------
(***************************************************************************)
(* Each part of the invariant survives both kinds of step.                 *)
(***************************************************************************)
\* An instruction that ends nothing goes nowhere.
LEMMA NotEnder ==
  ASSUME NEW i, ~Ender(i)
  PROVE  Targets(i) = {} /\ DefaultTargets(i) = {} /\ BranchTargets(i) = {}
  BY DEF Ender, Targets

\* What is inside a block after a step.
LEMMA InsideGrows ==
  ASSUME NEW m, NEW S, NEW r, NEW T, Grows(m, S, r, T)
  PROVE  /\ \A b \in DOMAIN m : /\ Inside(m, S, b) \subseteq Inside(r, T, b)
                                /\ \A i \in Inside(r, T, b) :
                                     i \in Inside(m, S, b) \/ i \in T \ S
         /\ \A b \in DOMAIN r : Inside(r, T, b) \subseteq T
         /\ \A b \in DOMAIN m : Inside(m, S, b) \subseteq S
  BY DEF Grows, Inside

LEMMA InsideSettles ==
  ASSUME NEW m, NEW S, NEW r, NEW T, NEW e, NEW c, Settles(m, S, r, T, e, c)
  PROVE  /\ \A b \in DOMAIN m \ {NODE_DEADEND} :
              \A i \in Inside(r, T, b) :
                \/ i \in Inside(m, S, b)
                \/ i = e /\ b = c
                \/ ~Ender(i) /\ DefaultTargets(i) = {} /\ BranchTargets(i) = {}
         /\ e \in Inside(r, T, c) /\ e \notin S /\ e \in Int
         /\ S \subseteq Int /\ \A i \in S : i < e
         /\ \A i \in T \ S : i = e \/ Targets(i) = {}
<1>1. Grows(m, S, r, T) /\ c \in DOMAIN m \ {NODE_DEADEND} /\ e \in T \ S
  BY DEF Settles
<1>2. \A b \in DOMAIN m \ {NODE_DEADEND} : e \in Inside(r, T, b) <=> b = c
  BY <1>1 DEF Settles, Grows
<1>3. \A i \in T \ S : i # e => ~Ender(i)
  BY DEF Settles
<1>4. T \subseteq Int /\ S \subseteq Int
  BY <1>1 DEF Grows
<1>5. \A i \in S : i < e
  BY DEF Settles
<1>6. ASSUME NEW b \in DOMAIN m \ {NODE_DEADEND}, NEW i \in Inside(r, T, b)
      PROVE  \/ i \in Inside(m, S, b)
             \/ i = e /\ b = c
             \/ ~Ender(i) /\ DefaultTargets(i) = {} /\ BranchTargets(i) = {}
  <2>1. i \in Inside(m, S, b) \/ i \in T \ S
    BY <1>1, InsideGrows
  <2>2. QED
    BY <1>2, <1>3, <2>1, NotEnder
<1>7. QED
  BY <1>1, <1>2, <1>3, <1>4, <1>5, <1>6, NotEnder

\* Nothing known is lost in a quiet step.
LEMMA QuietKeepsKnown ==
  ASSUME NEW m, NEW S, NEW r, NEW T, Quiet(m, S, r, T), Known(m, S)
  PROVE  Known(r, T)
<1>1. Grows(m, S, r, T) /\ r = m /\ S \subseteq T
  BY DEF Quiet, Grows
<1>2. \A i \in T \ S : ~Ender(i) /\ Targets(i) = {}
        /\ DefaultTargets(i) = {} /\ BranchTargets(i) = {}
  BY NotEnder DEF Quiet
<1>3. \A b \in DOMAIN m :
        /\ Inside(m, S, b) \subseteq Inside(m, T, b)
        /\ \A i \in Inside(m, T, b) : i \in Inside(m, S, b) \/ i \in T \ S
  BY <1>1, InsideGrows
<1>4. DefaultsKnown(m, T)
  BY <1>2, <1>3 DEF Known, DefaultsKnown
<1>5. BranchesKnown(m, T)
  BY <1>2, <1>3 DEF Known, BranchesKnown
<1>6. SizesKnown(m, T)
  BY <1>2, <1>3 DEF Known, SizesKnown
<1>7. HashesKnown(m, T)
  BY <1>1, <1>2 DEF Known, HashesKnown
<1>8. LabelsAreDests => RefsKnown(m, T)
  BY <1>2, <1>3 DEF Known, RefsKnown
<1>9. QED
  BY <1>1, <1>4, <1>5, <1>6, <1>7, <1>8 DEF Known

\* A default successor, however often the block gets one (Contract.cpp:497-498).
LEMMA SettlesKeepsDefaults ==
  ASSUME NEW m, NEW S, NEW r, NEW T, NEW e, NEW c,
         Settles(m, S, r, T, e, c), DefaultsKnown(m, S)
  PROVE  DefaultsKnown(r, T)
<1> SUFFICES ASSUME NEW b \in DOMAIN r \ {NODE_DEADEND}
             PROVE  \/ /\ r[b].dstDefault = 0
                       /\ \A i \in Inside(r, T, b) : DefaultTargets(i) = {}
                    \/ \E i \in Inside(r, T, b) :
                         /\ r[b].dstDefault \in DefaultTargets(i)
                         /\ \A j \in Inside(r, T, b) :
                              j > i => DefaultTargets(j) = {}
  BY DEF DefaultsKnown
<1>1. CASE b \notin DOMAIN m
  BY <1>1 DEF Settles, Grows, Fresh
<1>2. CASE b \in DOMAIN m
  <2>1. IF b = c /\ DefaultTargets(e) # {}
          THEN r[b].dstDefault \in DefaultTargets(e)
          ELSE r[b].dstDefault = m[b].dstDefault
    BY <1>2 DEF Settles, Moves
  <2>2. /\ Inside(m, S, b) \subseteq Inside(r, T, b)
        /\ Inside(m, S, b) \subseteq S
    BY <1>2, InsideGrows DEF Settles
  <2>3. CASE b = c /\ DefaultTargets(e) # {}
    <3>1. e \in Inside(r, T, b) /\ r[b].dstDefault \in DefaultTargets(e)
      BY <2>1, <2>3, InsideSettles
    <3>2. ASSUME NEW j \in Inside(r, T, b), j > e PROVE DefaultTargets(j) = {}
      <4>1. j \notin S /\ j # e
        BY <3>2, InsideSettles
      <4>2. QED
        BY <1>2, <2>2, <4>1, InsideSettles
    <3>3. QED
      BY <3>1, <3>2
  <2>4. CASE ~(b = c /\ DefaultTargets(e) # {})
    <3>1. \A i \in Inside(r, T, b) : i \in Inside(m, S, b) \/ DefaultTargets(i) = {}
      BY <1>2, <2>4, InsideSettles
    <3>2. r[b].dstDefault = m[b].dstDefault
      BY <2>1, <2>4
    <3>3. QED
      BY <1>2, <2>2, <3>1, <3>2 DEF DefaultsKnown
  <2>5. QED
    BY <2>3, <2>4
<1>3. QED
  BY <1>1, <1>2

\* A conditional successor (Contract.cpp:493-494).
LEMMA SettlesKeepsBranches ==
  ASSUME NEW m, NEW S, NEW r, NEW T, NEW e, NEW c,
         Settles(m, S, r, T, e, c), BranchesKnown(m, S)
  PROVE  BranchesKnown(r, T)
<1> SUFFICES ASSUME NEW b \in DOMAIN r \ {NODE_DEADEND}
             PROVE  \/ /\ r[b].dstJUMPI = 0
                       /\ \A i \in Inside(r, T, b) : BranchTargets(i) = {}
                    \/ \E i \in Inside(r, T, b) :
                         /\ r[b].dstJUMPI \in BranchTargets(i)
                         /\ \A j \in Inside(r, T, b) :
                              j > i => BranchTargets(j) = {}
  BY DEF BranchesKnown
<1>1. CASE b \notin DOMAIN m
  BY <1>1 DEF Settles, Grows, Fresh
<1>2. CASE b \in DOMAIN m
  <2>1. IF b = c /\ BranchTargets(e) # {}
          THEN r[b].dstJUMPI \in BranchTargets(e)
          ELSE r[b].dstJUMPI = m[b].dstJUMPI
    BY <1>2 DEF Settles, Moves
  <2>2. /\ Inside(m, S, b) \subseteq Inside(r, T, b)
        /\ Inside(m, S, b) \subseteq S
    BY <1>2, InsideGrows DEF Settles
  <2>3. CASE b = c /\ BranchTargets(e) # {}
    <3>1. e \in Inside(r, T, b) /\ r[b].dstJUMPI \in BranchTargets(e)
      BY <2>1, <2>3, InsideSettles
    <3>2. ASSUME NEW j \in Inside(r, T, b), j > e PROVE BranchTargets(j) = {}
      <4>1. j \notin S /\ j # e
        BY <3>2, InsideSettles
      <4>2. QED
        BY <1>2, <2>2, <4>1, InsideSettles
    <3>3. QED
      BY <3>1, <3>2
  <2>4. CASE ~(b = c /\ BranchTargets(e) # {})
    <3>1. \A i \in Inside(r, T, b) : i \in Inside(m, S, b) \/ BranchTargets(i) = {}
      BY <1>2, <2>4, InsideSettles
    <3>2. r[b].dstJUMPI = m[b].dstJUMPI
      BY <2>1, <2>4
    <3>3. QED
      BY <1>2, <2>2, <3>1, <3>2 DEF BranchesKnown
  <2>5. QED
    BY <2>3, <2>4
<1>3. QED
  BY <1>1, <1>2

\* The xrefs of a block (Contract.cpp:464-489).
LEMMA SettlesKeepsRefs ==
  ASSUME NEW m, NEW S, NEW r, NEW T, NEW e, NEW c,
         Settles(m, S, r, T, e, c), RefsKnown(m, S), LabelsAreDests
  PROVE  RefsKnown(r, T)
<1> SUFFICES ASSUME NEW b \in DOMAIN r \ {NODE_DEADEND}, NEW t \in DOMAIN r
             PROVE  b \in r[t].references <=>
                      \E i \in Inside(r, T, b) : t \in Targets(i)
  BY DEF RefsKnown
<1>1. c \in DOMAIN m
  BY DEF Settles
<1>2. CASE b \notin DOMAIN m
  <2>1. Inside(r, T, b) = {} /\ b # c
    BY <1>1, <1>2 DEF Settles, Grows
  <2>2. CASE t \in DOMAIN m
    <3>1. r[t].references = IF t \in Targets(e) THEN m[t].references \cup {c}
                                                ELSE m[t].references
      BY <2>2 DEF Settles, Moves
    <3>2. b \notin m[t].references
      BY <1>2, <2>2 DEF Settles, Fresh
    <3>3. QED
      BY <2>1, <3>1, <3>2
  <2>3. CASE t \notin DOMAIN m
    BY <2>1, <2>3 DEF Settles, Fresh
  <2>4. QED
    BY <2>2, <2>3
<1>3. CASE b \in DOMAIN m
  <2>1. /\ Inside(m, S, b) \subseteq Inside(r, T, b)
        /\ Inside(m, S, b) \subseteq S
    BY <1>3, InsideGrows DEF Settles
  <2>2. \A i \in Inside(r, T, b) :
          i \in Inside(m, S, b) \/ (i = e /\ b = c) \/ Targets(i) = {}
    BY <1>3, InsideSettles DEF Targets
  <2>3. e \in Inside(r, T, c)
    BY InsideSettles
  <2>4. CASE t \in DOMAIN m
    <3>1. r[t].references = IF t \in Targets(e) THEN m[t].references \cup {c}
                                                ELSE m[t].references
      BY <2>4 DEF Settles, Moves
    <3>2. b \in m[t].references <=> \E i \in Inside(m, S, b) : t \in Targets(i)
      BY <1>3, <2>4 DEF RefsKnown
    <3>3. QED
      BY <2>1, <2>2, <2>3, <3>1, <3>2
  <2>5. CASE t \notin DOMAIN m
    <3>1. r[t].references = {c} /\ t \in Targets(e)
            /\ \A i \in S : t \notin Targets(i)
      BY <2>5 DEF Settles, Fresh
    <3>2. QED
      BY <2>1, <2>2, <2>3, <3>1
  <2>6. QED
    BY <2>4, <2>5
<1>4. QED
  BY <1>2, <1>3

\* The size of a block (Contract.cpp:501).
LEMMA SettlesKeepsSizes ==
  ASSUME NEW m, NEW S, NEW r, NEW T, NEW e, NEW c,
         Settles(m, S, r, T, e, c), SizesKnown(m, S)
  PROVE  SizesKnown(r, T)
<1> SUFFICES ASSUME NEW b \in DOMAIN r \ {NODE_DEADEND}
             PROVE  \/ \A i \in Inside(r, T, b) : ~Ender(i)
                    \/ \E i \in Inside(r, T, b) :
                         /\ Ender(i) /\ r[b].size = EndOf(i) - b
                         /\ \A j \in Inside(r, T, b) : Ender(j) => j <= i
  BY DEF SizesKnown
<1>1. CASE b \notin DOMAIN m
  BY <1>1 DEF Settles, Grows
<1>2. CASE b \in DOMAIN m
  <2>1. r[b].size = IF b = c THEN EndOf(e) - b ELSE m[b].size
    BY <1>2 DEF Settles, Moves
  <2>2. /\ Inside(m, S, b) \subseteq Inside(r, T, b)
        /\ Inside(m, S, b) \subseteq S
    BY <1>2, InsideGrows DEF Settles
  <2>3. \A i \in Inside(r, T, b) :
          i \in Inside(m, S, b) \/ (i = e /\ b = c) \/ ~Ender(i)
    BY <1>2, InsideSettles
  <2>4. CASE b = c
    <3>1. e \in Inside(r, T, b) /\ Ender(e) /\ r[b].size = EndOf(e) - b
      BY <2>1, <2>4, InsideSettles DEF Settles
    <3>2. ASSUME NEW j \in Inside(r, T, b), Ender(j) PROVE j <= e
      <4>1. j = e \/ j \in S
        BY <2>2, <2>3, <3>2
      <4>2. QED
        BY <4>1, InsideSettles
    <3>3. QED
      BY <3>1, <3>2
  <2>5. CASE b # c
    BY <1>2, <2>1, <2>2, <2>3, <2>5 DEF SizesKnown
  <2>6. QED
    BY <2>4, <2>5
<1>3. QED
  BY <1>1, <1>2

\* The hash of a block that begins with a JUMPDEST (Contract.cpp:484).
LEMMA SettlesKeepsHashes ==
  ASSUME NEW m, NEW S, NEW r, NEW T, NEW e, NEW c,
         Settles(m, S, r, T, e, c), HashesKnown(m, S),
         JumpdestOffsets(listing) \subseteq DOMAIN m
  PROVE  HashesKnown(r, T)
<1> SUFFICES ASSUME NEW b \in JumpdestOffsets(listing)
             PROVE  \/ r[b].fnAddrHash = 0 /\ \A i \in T : b \notin Targets(i)
                    \/ \E i \in T :
                         /\ b \in Targets(i)
                         /\ \A j \in T : b \in Targets(j) => j <= i
                         /\ r[b].fnAddrHash = IF b \in DefaultTargets(i) THEN 0
                                              ELSE DispatchHash(i)
  BY DEF HashesKnown
<1>1. b \in DOMAIN m
  OBVIOUS
<1>2. r[b].fnAddrHash = IF b \in DefaultTargets(e) THEN 0
                        ELSE IF b \in BranchTargets(e) THEN DispatchHash(e)
                        ELSE m[b].fnAddrHash
  BY <1>1 DEF Settles, Moves
<1>3. /\ S \subseteq Int /\ e \in Int /\ e \in T /\ S \subseteq T
      /\ \A i \in S : i < e
      /\ \A i \in T : i \in S \/ i = e \/ Targets(i) = {}
  <2>1. e \in T /\ S \subseteq T
    BY DEF Settles, Grows
  <2>2. QED
    BY <2>1, InsideSettles
<1>4. CASE b \in Targets(e)
  <2>1. r[b].fnAddrHash = IF b \in DefaultTargets(e) THEN 0 ELSE DispatchHash(e)
    BY <1>2, <1>4 DEF Targets
  <2>2. \A j \in T : b \in Targets(j) => j <= e
    BY <1>3
  <2>3. QED
    BY <1>3, <1>4, <2>1, <2>2
<1>5. CASE b \notin Targets(e)
  <2>1. r[b].fnAddrHash = m[b].fnAddrHash
    BY <1>2, <1>5 DEF Targets
  <2>2. \A j \in T : b \in Targets(j) => j \in S
    BY <1>3, <1>5
  <2>3. CASE m[b].fnAddrHash = 0 /\ \A i \in S : b \notin Targets(i)
    BY <2>1, <2>2, <2>3
  <2>4. CASE \E i \in S :
               /\ b \in Targets(i) /\ \A j \in S : b \in Targets(j) => j <= i
               /\ m[b].fnAddrHash = IF b \in DefaultTargets(i) THEN 0
                                                               ELSE DispatchHash(i)
    BY <1>3, <2>1, <2>2, <2>4
  <2>5. QED
    BY <2>3, <2>4 DEF HashesKnown
<1>6. QED
  BY <1>4, <1>5

LEMMA SettlesKeepsKnown ==
  ASSUME NEW m, NEW S, NEW r, NEW T, NEW e, NEW c,
         Settles(m, S, r, T, e, c), Known(m, S),
         JumpdestOffsets(listing) \subseteq DOMAIN m
  PROVE  Known(r, T)
  BY SettlesKeepsDefaults, SettlesKeepsBranches, SettlesKeepsRefs,
     SettlesKeepsSizes, SettlesKeepsHashes DEF Known

-----------------------------------------------------------------------------
(***************************************************************************)
(* Where a step takes the settled instructions.                            *)
(***************************************************************************)
\* The pass does not write to the listing.
LEMMA FallsSame ==
  ASSUME listing' = listing
  PROVE  \A i : FallsInto(i)' <=> FallsInto(i)
<1>1. \A i : DispatchHash(i)' = DispatchHash(i)
  BY DEF DispatchHash
<1>2. \A i : OffsetOf(i)' = OffsetOf(i) /\ (Pushed(i)' <=> Pushed(i))
  BY DEF OffsetOf, Pushed
<1>3. \A i : BranchTargets(i)' = BranchTargets(i) /\ JumpTargets(i)' = JumpTargets(i)
  BY <1>2 DEF BranchTargets, JumpTargets
<1>4. \A i : IsEntry(i)' <=> IsEntry(i)
  BY <1>1, <1>2, <1>3 DEF IsEntry
<1>5. QED
  BY <1>4 DEF FallsInto

\* What the instructions say is theirs alone.
LEMMA TargetsSame ==
  ASSUME UNCHANGED << listing, codeSize >>
  PROVE  /\ \A i : DispatchHash(i)' = DispatchHash(i)
         /\ \A i : OffsetOf(i)' = OffsetOf(i) /\ EndOf(i)' = EndOf(i)
         /\ \A i : BranchTargets(i)' = BranchTargets(i)
         /\ \A i : DefaultTargets(i)' = DefaultTargets(i)
         /\ \A i : Targets(i)' = Targets(i) /\ (Ender(i)' <=> Ender(i))
         /\ JumpdestOffsets(listing)' = JumpdestOffsets(listing)
         /\ LabelsAreDests' <=> LabelsAreDests
<1>1. \A i : DispatchHash(i)' = DispatchHash(i)
  BY DEF DispatchHash
<1>2. \A i : /\ Pushed(i)' <=> Pushed(i)
            /\ OffsetOf(i)' = OffsetOf(i) /\ EndOf(i)' = EndOf(i)
  BY DEF Pushed, OffsetOf, EndOf
<1>3. \A i : BranchTargets(i)' = BranchTargets(i) /\ JumpTargets(i)' = JumpTargets(i)
  BY <1>2 DEF BranchTargets, JumpTargets
<1>4. \A i : FallsInto(i)' <=> FallsInto(i)
  BY FallsSame
<1>5. \A i : DefaultTargets(i)' = DefaultTargets(i)
  BY <1>2, <1>3, <1>4 DEF DefaultTargets
<1>6. \A i : Targets(i)' = Targets(i) /\ (Ender(i)' <=> Ender(i))
  BY <1>3, <1>5 DEF Targets, Ender
<1>7. JumpdestOffsets(listing)' = JumpdestOffsets(listing)
  BY DEF JumpdestOffsets
<1>8. LabelsAreDests' <=> LabelsAreDests
  BY <1>2, <1>7 DEF LabelsAreDests
<1>9. QED
  BY <1>1, <1>2, <1>3, <1>5, <1>6, <1>7, <1>8

LEMMA ListingSame ==
  ASSUME UNCHANGED << listing, codeSize >>
  PROVE  Known(blocks, Settled)' <=> Known(blocks', Settled')
<1>1. /\ \A i : DispatchHash(i)' = DispatchHash(i)
      /\ JumpdestOffsets(listing)' = JumpdestOffsets(listing)
      /\ LabelsAreDests' <=> LabelsAreDests
  BY TargetsSame
<1>2. \A i : OffsetOf(i)' = OffsetOf(i) /\ EndOf(i)' = EndOf(i)
  BY TargetsSame
<1>3. \A i : BranchTargets(i)' = BranchTargets(i) /\ DefaultTargets(i)' = DefaultTargets(i)
  BY TargetsSame
<1>4. \A i : Targets(i)' = Targets(i) /\ (Ender(i)' <=> Ender(i))
  BY TargetsSame
<1>5. \A b : Inside(blocks, Settled, b)' = Inside(blocks', Settled', b)
  BY <1>2 DEF Inside
<1>6. DefaultsKnown(blocks, Settled)' <=> DefaultsKnown(blocks', Settled')
  BY <1>3, <1>5 DEF DefaultsKnown
<1>7. BranchesKnown(blocks, Settled)' <=> BranchesKnown(blocks', Settled')
  BY <1>3, <1>5 DEF BranchesKnown
<1>8. RefsKnown(blocks, Settled)' <=> RefsKnown(blocks', Settled')
  BY <1>4, <1>5 DEF RefsKnown
<1>9. SizesKnown(blocks, Settled)' <=> SizesKnown(blocks', Settled')
  BY <1>2, <1>4, <1>5 DEF SizesKnown
<1>10. HashesKnown(blocks, Settled)' <=> HashesKnown(blocks', Settled')
  BY <1>1, <1>3, <1>4 DEF HashesKnown
<1>11. QED
  BY <1>1, <1>6, <1>7, <1>8, <1>9, <1>10 DEF Known

\* Past instruction k, an edge is settled when it is k's own, unless k falls into
\* the next block, or the fall into the block of k.
LEMMA SettledStep ==
  ASSUME ScanInv, NEW op, Step(op)
  PROVE  /\ instIndex \in 1 .. Len(listing) /\ Len(listing) \in Nat
         /\ Settled \subseteq Settled' /\ Settled' \subseteq 1 .. Len(listing)
         /\ \A i \in Settled : i < instIndex /\ (FallsInto(i) => i + 1 < instIndex)
         /\ \A i \in Settled' : i <= instIndex
         /\ \A i \in Settled' \ Settled :
              \/ i = instIndex /\ ~FallsInto(instIndex)
              \/ i = instIndex - 1 /\ FallsInto(instIndex - 1)
         /\ instIndex > 1 /\ FallsInto(instIndex - 1) =>
              instIndex - 1 \in Settled' \ Settled
         /\ ~FallsInto(instIndex) => instIndex \in Settled' \ Settled
<1>1. /\ instIndex \in 1 .. Len(listing) /\ instIndex' = instIndex + 1
      /\ listing' = listing
  BY StepFacts
<1>2. Len(listing) \in Nat
  BY Neighbours DEF ScanInv
<1>3. Settled' = { i \in 1 .. Len(listing) :
                     /\ i < instIndex + 1
                     /\ FallsInto(i) => i + 1 < instIndex + 1 }
  <2>1. \A i : FallsInto(i)' <=> FallsInto(i)
    BY <1>1, FallsSame
  <2>2. QED
    BY <1>1, <2>1 DEF Settled
<1>4. QED
  BY <1>1, <1>2, <1>3 DEF Settled

\* Offsets in listing and in map are numbers, and rise.
LEMMA OffsetsRise ==
  ASSUME ScanInv
  PROVE  /\ Len(listing) \in Nat
         /\ \A i \in 1 .. Len(listing) :
              OffsetOf(i) \in Nat /\ OffsetOf(i) < NODE_DEADEND
         /\ \A i, j \in 1 .. Len(listing) : j < i => OffsetOf(j) < OffsetOf(i)
         /\ DOMAIN blocks \subseteq Nat
<1>1. ListingOK
  BY DEF ScanInv
<1>2. /\ listing \in Seq(Instr) /\ codeSize \in Nat /\ codeSize < NODE_DEADEND
      /\ \A i \in 1 .. Len(listing) : listing[i] \in Instr
      /\ \A i \in 1 .. Len(listing) : listing[i].offset < codeSize
      /\ \A i, j \in 1 .. Len(listing) : j < i => listing[j].offset < listing[i].offset
  BY <1>1, Neighbours DEF ListingOK
<1>3. QED
  BY <1>2, NodeAssumption DEF OffsetOf, Instr, ScanInv, Sound, Typed

\* A new block begins behind everything the pass is past.
LEMMA StepGrows ==
  ASSUME ScanInv, NEW op, Step(op), Arrives
  PROVE  Grows(blocks, Settled, blocks', Settled')
<1>1. /\ Settled \subseteq Settled' /\ Settled' \subseteq 1 .. Len(listing)
      /\ \A i \in Settled' : i <= instIndex
      /\ instIndex \in 1 .. Len(listing) /\ Len(listing) \in Nat
  BY SettledStep
<1>2. DOMAIN blocks \subseteq DOMAIN blocks'
  BY DEF Arrives
<1>3. ASSUME NEW b \in DOMAIN blocks' \ DOMAIN blocks, NEW i \in Settled'
      PROVE  OffsetOf(i) < b /\ OffsetOf(i) \in Nat /\ b \in Nat
  <2>1. HasNext /\ b = OffsetOf(instIndex + 1)
    BY <1>3 DEF Arrives, OffsetOf, NextInstr
  <2>2. instIndex + 1 \in 1 .. Len(listing) /\ i \in 1 .. Len(listing) /\ i < instIndex + 1
    BY <1>1, <2>1 DEF HasNext
  <2>3. QED
    BY <2>1, <2>2, OffsetsRise
<1>4. \A b \in DOMAIN blocks : Inside(blocks', Settled', b) = Inside(blocks, Settled', b)
  BY <1>2, <1>3 DEF Inside
<1>5. \A b \in DOMAIN blocks' \ DOMAIN blocks : Inside(blocks', Settled', b) = {}
  BY <1>3 DEF Inside
<1>6. QED
  BY <1>1, <1>2, <1>4, <1>5 DEF Grows

\* An instruction the pass is at, or just past, is in the block it is in.
LEMMA InThisBlock ==
  ASSUME ScanInv, ~Done, NEW e \in 1 .. Len(listing), NEW T, e \in T,
         basicBlockOffset <= OffsetOf(e),
         \/ e < instIndex
         \/ e = instIndex /\ listing[e].op # "JUMPDEST"
  PROVE  \A b \in DOMAIN blocks \ {NODE_DEADEND} :
           e \in Inside(blocks, T, b) <=> b = basicBlockOffset
<1>1. basicBlockOffset \in DOMAIN blocks \ {NODE_DEADEND}
  BY DEF ScanInv, PositionOK
<1>2. instIndex \in 1 .. Len(listing)
  BY OffsetsRise DEF ScanInv, ListingOK, Done
<1>3. ASSUME NEW k \in DOMAIN blocks, k <= OffsetOf(e) PROVE k <= basicBlockOffset
  <2>1. k # NODE_DEADEND
    BY <1>3, OffsetsRise, NodeAssumption
  <2>2. ASSUME NEW j \in instIndex .. Len(listing), k = listing[j].offset,
               listing[j].op = "JUMPDEST"
        PROVE  FALSE
    <3>1. j \in 1 .. Len(listing) /\ e < j
      BY <1>2, <2>2, OffsetsRise
    <3>2. QED
      BY <1>3, <2>2, <3>1, OffsetsRise DEF OffsetOf
  <2>3. QED
    BY <2>1, <2>2 DEF ScanInv, PositionOK
<1>4. ASSUME NEW b \in DOMAIN blocks \ {NODE_DEADEND}
      PROVE  e \in Inside(blocks, T, b) <=> b = basicBlockOffset
  <2>1. CASE b = basicBlockOffset
    BY <1>3, <2>1 DEF Inside
  <2>2. CASE e \in Inside(blocks, T, b)
    <3>1. b <= OffsetOf(e) /\ basicBlockOffset <= b
      BY <1>1, <2>2 DEF Inside
    <3>2. b <= basicBlockOffset
      BY <1>3, <3>1
    <3>3. b \in Nat /\ basicBlockOffset \in Nat
      BY <1>1, OffsetsRise
    <3>4. b = basicBlockOffset
      BY <3>1, <3>2, <3>3
    <3>5. QED
      BY <2>2, <3>4
  <2>3. QED
    BY <2>1, <2>2
<1>5. QED
  BY <1>4

-----------------------------------------------------------------------------
(***************************************************************************)
(* What each case of the switch settles.                                   *)
(***************************************************************************)
\* A step that writes no edge and passes none.
LEMMA QuietStep ==
  ASSUME GraphInv, NEW op, Step(op), Arrives, UNCHANGED blocks,
         \A i \in Settled' \ Settled : ~Ender(i)
  PROVE  Known(blocks', Settled')
<1>1. Grows(blocks, Settled, blocks', Settled')
  BY StepGrows DEF GraphInv
<1>2. Quiet(blocks, Settled, blocks', Settled')
  BY <1>1 DEF Quiet
<1>3. QED
  BY <1>2, QuietKeepsKnown DEF GraphInv

\* A step that writes down the edges of e.
LEMMA ActiveStep ==
  ASSUME GraphInv, NEW op, Step(op), Arrives,
         NEW e \in Settled' \ Settled, Ender(e),
         basicBlockOffset <= OffsetOf(e),
         e < instIndex \/ listing[e].op # "JUMPDEST",
         \A i \in Settled : i < e,
         \A i \in Settled' \ Settled : i # e => ~Ender(i),
         \A b \in DOMAIN blocks : Moves(blocks, blocks', e, basicBlockOffset, b),
         \A b \in DOMAIN blocks' \ DOMAIN blocks :
           Fresh(blocks, Settled, blocks', e, basicBlockOffset, b)
  PROVE  Known(blocks', Settled')
<1>1. Grows(blocks, Settled, blocks', Settled')
  BY StepGrows DEF GraphInv
<1>2. basicBlockOffset \in DOMAIN blocks \ {NODE_DEADEND} /\ ~Done
  BY StepFacts DEF GraphInv
<1>3. e \in 1 .. Len(listing) /\ (e < instIndex \/ e = instIndex)
  BY SettledStep DEF GraphInv
<1>4. \A b \in DOMAIN blocks \ {NODE_DEADEND} :
        e \in Inside(blocks, Settled', b) <=> b = basicBlockOffset
  <2> DEFINE T == Settled'
  <2>1. e \in T
    OBVIOUS
  <2> HIDE DEF T
  <2>2. \A b \in DOMAIN blocks \ {NODE_DEADEND} :
          e \in Inside(blocks, T, b) <=> b = basicBlockOffset
    BY <1>2, <1>3, <2>1, InThisBlock DEF GraphInv
  <2>3. QED
    BY <2>2 DEF T
<1>5. Settles(blocks, Settled, blocks', Settled', e, basicBlockOffset)
  BY <1>1, <1>2, <1>4 DEF Settles
<1>6. JumpdestOffsets(listing) \subseteq DOMAIN blocks
  BY DEF GraphInv, ScanInv, PositionOK
<1>7. QED
  BY <1>5, <1>6, SettlesKeepsKnown DEF GraphInv

\* The instructions that end nothing: all but halts and jumps, when they do not
\* fall into a block.
LEMMA PlainEndsNothing ==
  ASSUME NEW i, listing[i].op \notin {"STOP", "RETURN", "JUMP", "JUMPI"}, ~FallsInto(i)
  PROVE  ~Ender(i)
  BY DEF Ender, Targets, DefaultTargets, JumpTargets, BranchTargets

\* Only at a JUMPDEST does a step settle an instruction before its own.
LEMMA OnlyOwn ==
  ASSUME ScanInv, NEW op, Step(op), op # "JUMPDEST"
  PROVE  /\ \A i \in Settled' \ Settled : i = instIndex
         /\ \A i \in Settled : i < instIndex
         /\ OffsetOf(instIndex) = CurrentOffset
         /\ basicBlockOffset <= OffsetOf(instIndex)
<1>1. ~FallsInto(instIndex - 1)
  BY SettledStep, StepFacts DEF FallsInto
<1>2. QED
  BY <1>1, SettledStep, StepFacts DEF ScanInv, PositionOK, OffsetOf, CurrentOffset

\* What a new referer does to the record of block b (Contract.cpp:464-489).
Refers(m, q, d, src, h, b) ==
  /\ q[b] \in Block
  /\ q[b].references = IF b = d THEN m[b].references \cup {src}
                                ELSE m[b].references
  /\ q[b].fnAddrHash = IF b = d THEN h ELSE m[b].fnAddrHash
  /\ q[b].size = m[b].size
  /\ q[b].dstDefault = m[b].dstDefault
  /\ q[b].dstJUMPI = m[b].dstJUMPI

LEMMA RefererFields ==
  ASSUME NEW m, Sound(m), NEW d \in Nat, NEW src \in DOMAIN m, NEW h \in Nat
  PROVE  /\ DOMAIN AddReferer(m, d, src, h) = DOMAIN m
         /\ \A b \in DOMAIN m : Refers(m, AddReferer(m, d, src, h), d, src, h, b)
<1> DEFINE q == AddReferer(m, d, src, h)
<1>1. DOMAIN m \subseteq Nat /\ m \in [DOMAIN m -> Block]
  BY DEF Sound, Typed
<1>2. DOMAIN q = DOMAIN m /\ \A b \in DOMAIN m : b # d => q[b] = m[b]
  BY <1>1 DEF AddReferer
<1>3. d \in DOMAIN m =>
        q[d] = [m[d] EXCEPT !.references = @ \cup {src}, !.fnAddrHash = h]
  BY <1>1 DEF AddReferer
<1> HIDE DEF q
<1>4. ASSUME d \in DOMAIN m
      PROVE  /\ q[d] \in Block
             /\ q[d].references = m[d].references \cup {src}
             /\ q[d].fnAddrHash = h /\ q[d].size = m[d].size
             /\ q[d].dstDefault = m[d].dstDefault
             /\ q[d].dstJUMPI = m[d].dstJUMPI
  <2> DEFINE R == m[d].references \cup {src}
  <2>1. m[d] \in Block
    BY <1>1, <1>4
  <2>2. R \in SUBSET Nat
    BY <1>1, <2>1 DEF Block
  <2>3. q[d] = [m[d] EXCEPT !.references = R, !.fnAddrHash = h]
    BY <1>3, <1>4
  <2> HIDE DEF R
  <2>4. q[d] \in Block
    BY <2>1, <2>2, <2>3 DEF Block
  <2>5. /\ q[d].references = R /\ q[d].fnAddrHash = h
        /\ q[d].size = m[d].size /\ q[d].dstDefault = m[d].dstDefault
        /\ q[d].dstJUMPI = m[d].dstJUMPI
    BY <2>1, <2>3 DEF Block
  <2>6. QED
    BY <2>4, <2>5 DEF R
<1>5. ASSUME NEW b \in DOMAIN m PROVE Refers(m, q, d, src, h, b)
  BY <1>1, <1>2, <1>4 DEF Refers
<1>6. QED
  BY <1>2, <1>5 DEF q

\* What a reference by default from the block src does to all blocks
\* (Contract.cpp:464-506) ...
ByDefault(m, r, d, src, s) ==
  /\ DOMAIN r = DOMAIN m
  /\ \A b \in DOMAIN m :
       /\ r[b].references = IF b = d THEN m[b].references \cup {src}
                                     ELSE m[b].references
       /\ r[b].fnAddrHash = IF b = d THEN 0 ELSE m[b].fnAddrHash
       /\ r[b].size = IF b = src THEN s ELSE m[b].size
       /\ r[b].dstDefault = IF b = src THEN d ELSE m[b].dstDefault
       /\ r[b].dstJUMPI = m[b].dstJUMPI

LEMMA DefaultFields ==
  ASSUME NEW m, Sound(m), NEW d \in Nat, NEW src \in DOMAIN m \ {NODE_DEADEND},
         NEW s \in Nat, NEW r, r = AddBlockReference(m, d, src, s, 0, FALSE)
  PROVE  ByDefault(m, r, d, src, s)
<1> DEFINE q == AddReferer(m, d, src, 0)
           n == GetBlockAt(m, d)
<1>1. DOMAIN q = DOMAIN m /\ \A b \in DOMAIN m : Refers(m, q, d, src, 0, b)
  <2>1. src \in DOMAIN m /\ 0 \in Nat
    OBVIOUS
  <2>2. QED
    BY <2>1, RefererFields
<1>2. r = [q EXCEPT ![src].nextDefault = n, ![src].dstDefault = d, ![src].size = s]
  BY DEF AddBlockReference
<1> HIDE DEF q, n
<1>3. DOMAIN r = DOMAIN m
  BY <1>1, <1>2
<1>4. ASSUME NEW b \in DOMAIN m, b # src PROVE r[b] = q[b]
  BY <1>1, <1>2, <1>4
<1>5. r[src] = [q[src] EXCEPT !.nextDefault = n, !.dstDefault = d, !.size = s]
  BY <1>1, <1>2
<1>6. /\ r[src].references = q[src].references
      /\ r[src].fnAddrHash = q[src].fnAddrHash
      /\ r[src].size = s
      /\ r[src].dstDefault = d
      /\ r[src].dstJUMPI = q[src].dstJUMPI
  BY <1>1, <1>5 DEF Block, Refers
<1>7. ASSUME NEW b \in DOMAIN m
      PROVE  /\ r[b].references = IF b = d THEN m[b].references \cup {src}
                                           ELSE m[b].references
             /\ r[b].fnAddrHash = IF b = d THEN 0 ELSE m[b].fnAddrHash
             /\ r[b].size = IF b = src THEN s ELSE m[b].size
             /\ r[b].dstDefault = IF b = src THEN d ELSE m[b].dstDefault
             /\ r[b].dstJUMPI = m[b].dstJUMPI
  <2>1. CASE b = src
    BY <1>1, <1>6, <2>1 DEF Refers
  <2>2. CASE b # src
    BY <1>1, <1>4, <2>2 DEF Refers
  <2>3. QED
    BY <2>1, <2>2
<1>8. QED
  BY <1>3, <1>7 DEF ByDefault

\* ... and one on a condition.
ByBranch(m, r, d, src, s, h) ==
  /\ DOMAIN r = DOMAIN m
  /\ \A b \in DOMAIN m :
       /\ r[b].references = IF b = d THEN m[b].references \cup {src}
                                     ELSE m[b].references
       /\ r[b].fnAddrHash = IF b = d THEN h ELSE m[b].fnAddrHash
       /\ r[b].size = IF b = src THEN s ELSE m[b].size
       /\ r[b].dstDefault = m[b].dstDefault
       /\ r[b].dstJUMPI = IF b = src THEN d ELSE m[b].dstJUMPI

LEMMA BranchFields ==
  ASSUME NEW m, Sound(m), NEW d \in Nat, NEW src \in DOMAIN m \ {NODE_DEADEND},
         NEW s \in Nat, NEW h \in Nat,
         NEW r, r = AddBlockReference(m, d, src, s, h, TRUE)
  PROVE  ByBranch(m, r, d, src, s, h)
<1> DEFINE q == AddReferer(m, d, src, h)
           n == GetBlockAt(m, d)
<1>1. DOMAIN q = DOMAIN m /\ \A b \in DOMAIN m : Refers(m, q, d, src, h, b)
  <2>1. src \in DOMAIN m /\ 0 \in Nat
    OBVIOUS
  <2>2. QED
    BY <2>1, RefererFields
<1>2. r = [q EXCEPT ![src].nextJUMPI = n, ![src].dstJUMPI = d, ![src].size = s]
  BY DEF AddBlockReference
<1> HIDE DEF q, n
<1>3. DOMAIN r = DOMAIN m
  BY <1>1, <1>2
<1>4. ASSUME NEW b \in DOMAIN m, b # src PROVE r[b] = q[b]
  BY <1>1, <1>2, <1>4
<1>5. r[src] = [q[src] EXCEPT !.nextJUMPI = n, !.dstJUMPI = d, !.size = s]
  BY <1>1, <1>2
<1>6. /\ r[src].references = q[src].references
      /\ r[src].fnAddrHash = q[src].fnAddrHash
      /\ r[src].size = s
      /\ r[src].dstDefault = q[src].dstDefault
      /\ r[src].dstJUMPI = d
  BY <1>1, <1>5 DEF Block, Refers
<1>7. ASSUME NEW b \in DOMAIN m
      PROVE  /\ r[b].references = IF b = d THEN m[b].references \cup {src}
                                           ELSE m[b].references
             /\ r[b].fnAddrHash = IF b = d THEN h ELSE m[b].fnAddrHash
             /\ r[b].size = IF b = src THEN s ELSE m[b].size
             /\ r[b].dstDefault = m[b].dstDefault
             /\ r[b].dstJUMPI = IF b = src THEN d ELSE m[b].dstJUMPI
  <2>1. CASE b = src
    BY <1>1, <1>6, <2>1 DEF Refers
  <2>2. CASE b # src
    BY <1>1, <1>4, <2>2 DEF Refers
  <2>3. QED
    BY <2>1, <2>2
<1>8. QED
  BY <1>3, <1>7 DEF ByBranch

\* The instruction a step is at, and the one before it.
LEMMA AtInstruction ==
  ASSUME ScanInv, NEW op, Step(op)
  PROVE  /\ instIndex \in 1 .. Len(listing) /\ Len(listing) \in Nat
         /\ listing[instIndex].op = op
         /\ instIndex' = instIndex + 1 /\ listing' = listing
         /\ CurrentOffset = OffsetOf(instIndex) /\ CurrentOffset \in Nat
         /\ EndOffset = EndOf(instIndex)
         /\ currentBlockSize \in Nat /\ nextInstrBlockSize \in Nat
         /\ basicBlockOffset \in DOMAIN blocks \ {NODE_DEADEND}
         /\ Sound(blocks)
         /\ \A S : PrevIs(S) <=> instIndex > 1 /\ listing[instIndex - 1].op \in S
<1>1. ~Done
  BY StepFacts
<1>2. QED
  BY <1>1, StepFacts, SettledStep, SizesNatural
     DEF ScanInv, CurrentOffset, OffsetOf, EndOffset, EndOf, HasNext, NextInstr, PrevIs

\* The test for the entry of a public function, at a JUMPDEST, is about the jumps
\* before it (Contract.cpp:143).
LEMMA EntryIsDispatch ==
  ASSUME GraphInv, Step("JUMPDEST")
  PROVE  EntersFunction <=> IsEntry(instIndex)
<1> DEFINE b == CurrentOffset
           k == instIndex
<1>1. /\ ScanInv /\ k \in 1 .. Len(listing) /\ Len(listing) \in Nat
      /\ listing[k].op = "JUMPDEST" /\ b = OffsetOf(k)
  BY AtInstruction DEF GraphInv
<1>2. b \in JumpdestOffsets(listing)
  BY <1>1 DEF JumpdestOffsets, OffsetOf
<1>3. EntersFunction <=> blocks[b].fnAddrHash # 0 /\ k < Len(listing)
  BY DEF EntersFunction, HasNext
<1> HIDE DEF b
<1>4. ASSUME NEW i \in Settled
      PROVE  /\ i \in 1 .. k - 1
             /\ b \in DefaultTargets(i) <=> b \in JumpTargets(i)
             /\ b \in Targets(i) <=> b \in BranchTargets(i) \cup JumpTargets(i)
  <2>1. i \in 1 .. Len(listing) /\ i < k /\ (FallsInto(i) => i + 1 < k)
    BY DEF Settled
  <2>2. FallsInto(i) => OffsetOf(i + 1) # b
    <3>1. SUFFICES ASSUME FallsInto(i) PROVE OffsetOf(i + 1) # b
      OBVIOUS
    <3>2. i + 1 \in 1 .. Len(listing) /\ i + 1 < k
      BY <1>1, <2>1, <3>1
    <3>3. QED
      BY <1>1, <3>2, OffsetsRise
  <2>3. QED
    BY <1>1, <2>1, <2>2 DEF DefaultTargets, Targets
<1>5. ASSUME NEW i \in 1 .. k - 1, b \in BranchTargets(i) \cup JumpTargets(i)
      PROVE  i \in Settled
  <2>1. listing[i].op \in {"JUMP", "JUMPI"}
    BY <1>5 DEF BranchTargets, JumpTargets
  <2>2. ~FallsInto(i)
    BY <2>1 DEF FallsInto, NoFall
  <2>3. QED
    BY <1>1, <2>2 DEF Settled
<1>6. HashesKnown(blocks, Settled)
  BY DEF GraphInv, Known
<1>7. ASSUME blocks[b].fnAddrHash # 0, k < Len(listing) PROVE IsEntry(k)
  <2>1. PICK i \in Settled :
          /\ b \in Targets(i) /\ \A j \in Settled : b \in Targets(j) => j <= i
          /\ blocks[b].fnAddrHash = IF b \in DefaultTargets(i) THEN 0
                                                              ELSE DispatchHash(i)
    BY <1>2, <1>6, <1>7 DEF HashesKnown
  <2>2. /\ i \in 1 .. k - 1 /\ b \in BranchTargets(i) \ JumpTargets(i)
        /\ DispatchHash(i) # 0
    BY <1>4, <1>7, <2>1
  <2>3. ASSUME NEW j \in i + 1 .. k - 1, b \in BranchTargets(j) \cup JumpTargets(j)
        PROVE  FALSE
    <3>1. j \in 1 .. k - 1 /\ ~(j <= i)
      BY <1>1, <2>2
    <3>2. j \in Settled
      BY <1>5, <2>3, <3>1
    <3>3. QED
      BY <1>4, <2>1, <2>3, <3>1, <3>2
  <2>4. QED
    BY <1>1, <1>7, <2>2, <2>3 DEF IsEntry
<1>8. ASSUME IsEntry(k) PROVE blocks[b].fnAddrHash # 0 /\ k < Len(listing)
  <2>1. PICK i \in 1 .. k - 1 :
          /\ b \in BranchTargets(i) \ JumpTargets(i) /\ DispatchHash(i) # 0
          /\ \A j \in i + 1 .. k - 1 : b \notin BranchTargets(j) \cup JumpTargets(j)
    BY <1>1, <1>8 DEF IsEntry
  <2>2. i \in Settled /\ b \in Targets(i) /\ b \notin DefaultTargets(i)
    BY <1>4, <1>5, <2>1
  <2>3. PICK l \in Settled :
          /\ b \in Targets(l) /\ \A j \in Settled : b \in Targets(j) => j <= l
          /\ blocks[b].fnAddrHash = IF b \in DefaultTargets(l) THEN 0
                                                              ELSE DispatchHash(l)
    BY <1>2, <1>6, <2>2 DEF HashesKnown
  <2>4. i <= l /\ l \in 1 .. k - 1 /\ b \in BranchTargets(l) \cup JumpTargets(l)
    BY <1>4, <2>2, <2>3
  <2>5. l = i
    BY <1>1, <2>1, <2>4
  <2>6. QED
    BY <1>8, <2>1, <2>2, <2>3, <2>5 DEF IsEntry
<1>9. QED
  BY <1>3, <1>7, <1>8

\* JUMPDEST of a public function: a fall into it is no edge (Contract.cpp:143-156).
LEMMA FunctionEntrySettles ==
  ASSUME GraphInv, FunctionEntry
  PROVE  Known(blocks', Settled') /\ Behind'
<1>1. Step("JUMPDEST") /\ UNCHANGED blocks /\ basicBlockOffset' = CurrentOffset
  BY DEF FunctionEntry
<1>2. ScanInv /\ instIndex \in 1 .. Len(listing) /\ listing[instIndex].op = "JUMPDEST"
  BY <1>1, StepFacts DEF GraphInv
<1>3. Behind'
  BY <1>1, <1>2, OffsetsRise DEF Step, Behind, OffsetOf, CurrentOffset
<1>4. Arrives
  BY <1>1, <1>2 DEF Arrives
<1>5. IsEntry(instIndex)
  BY <1>1, EntryIsDispatch DEF FunctionEntry
<1>6. instIndex > 1 => ~FallsInto(instIndex - 1)
  <2>1. (instIndex - 1) + 1 = instIndex
    BY <1>2
  <2>2. QED
    BY <1>5, <2>1 DEF FallsInto
<1>7. ASSUME NEW j \in Settled' \ Settled PROVE ~Ender(j)
  <2>1. j = instIndex /\ ~FallsInto(instIndex)
    BY <1>1, <1>2, <1>6, SettledStep
  <2>2. QED
    BY <1>2, <2>1, PlainEndsNothing
<1>8. QED
  BY <1>1, <1>3, <1>4, <1>7, QuietStep

\* JUMPDEST behind a jump or halt (Contract.cpp:131-132).
LEMMA EnterBlockSettles ==
  ASSUME GraphInv, EnterBlock
  PROVE  Known(blocks', Settled') /\ Behind'
<1>1. Step("JUMPDEST") /\ UNCHANGED blocks /\ basicBlockOffset' = CurrentOffset
  BY DEF EnterBlock
<1>2. ScanInv /\ instIndex \in 1 .. Len(listing) /\ listing[instIndex].op = "JUMPDEST"
  BY <1>1, StepFacts DEF GraphInv
<1>3. Behind'
  BY <1>1, <1>2, OffsetsRise DEF Step, Behind, OffsetOf, CurrentOffset
<1>4. Arrives
  BY <1>1, <1>2 DEF Arrives
<1>5. instIndex > 1 => ~FallsInto(instIndex - 1)
  BY <1>2 DEF EnterBlock, PrevIs, FallsInto
<1>6. ASSUME NEW j \in Settled' \ Settled PROVE ~Ender(j)
  <2>1. j = instIndex /\ ~FallsInto(instIndex)
    BY <1>1, <1>2, <1>5, SettledStep
  <2>2. QED
    BY <1>2, <2>1, PlainEndsNothing
<1>7. QED
  BY <1>1, <1>3, <1>4, <1>6, QuietStep

\* Opcodes that stay in the block (Contract.cpp:250-252).
LEMMA SkipSettles ==
  ASSUME GraphInv, Skip
  PROVE  Known(blocks', Settled') /\ Behind'
<1>1. PICK op \in Ops \ {"JUMPDEST", "STOP", "RETURN", "JUMPI", "JUMP"} : Step(op)
  BY DEF Skip
<1>2. UNCHANGED << basicBlockOffset, blocks >>
  BY DEF Skip
<1>3. /\ ScanInv /\ instIndex \in 1 .. Len(listing) /\ listing[instIndex].op = op
      /\ instIndex' = instIndex + 1 /\ listing' = listing
  BY <1>1, StepFacts DEF GraphInv
<1>4. /\ \A i \in Settled' \ Settled : i = instIndex
      /\ basicBlockOffset <= OffsetOf(instIndex)
  BY <1>1, <1>3, OnlyOwn
<1>5. Behind'
  BY <1>2, <1>3, <1>4, OffsetsRise DEF Behind, OffsetOf
<1>6. Arrives
  BY <1>1, <1>2, <1>3 DEF Arrives
<1>7. ASSUME NEW j \in Settled' \ Settled PROVE ~Ender(j)
  <2>1. j = instIndex /\ ~FallsInto(instIndex)
    BY <1>1, <1>3, <1>4, <1>7, SettledStep
  <2>2. QED
    BY <1>1, <1>3, <2>1, PlainEndsNothing
<1>8. QED
  BY <1>1, <1>2, <1>5, <1>6, <1>7, QuietStep

\* JUMPDEST that code falls into: the edge of the instruction before it
\* (Contract.cpp:157-173).
LEMMA FallIntoBlockSettles ==
  ASSUME GraphInv, FallIntoBlock
  PROVE  Known(blocks', Settled') /\ Behind'
<1> DEFINE e == instIndex - 1
<1>1. /\ Step("JUMPDEST") /\ basicBlockOffset' = CurrentOffset
      /\ instIndex > 1 /\ ~PrevIs(NoFall)
      /\ blocks' = AddBlockReference(blocks, CurrentOffset, basicBlockOffset,
                                     currentBlockSize, 0, FALSE)
  BY DEF FallIntoBlock
<1>2. /\ ScanInv /\ instIndex \in 1 .. Len(listing) /\ Len(listing) \in Nat
      /\ listing[instIndex].op = "JUMPDEST"
      /\ instIndex' = instIndex + 1 /\ listing' = listing
      /\ CurrentOffset = OffsetOf(instIndex) /\ CurrentOffset \in Nat
      /\ currentBlockSize \in Nat
      /\ basicBlockOffset \in DOMAIN blocks \ {NODE_DEADEND} /\ Sound(blocks)
  BY <1>1, AtInstruction DEF GraphInv
<1>3. Behind'
  BY <1>1, <1>2 DEF Behind, OffsetOf
<1>4. e \in 1 .. Len(listing) /\ e + 1 = instIndex /\ e < instIndex /\ e < Len(listing)
  BY <1>1, <1>2
<1>5. listing[e].op \notin NoFall
  BY <1>1, <1>2 DEF PrevIs
<1> HIDE DEF e
<1>6. FallsInto(e)
  <2>1. ~IsEntry(instIndex)
    BY <1>1, EntryIsDispatch DEF FallIntoBlock
  <2>2. QED
    BY <1>2, <1>4, <1>5, <2>1 DEF FallsInto
<1>7. DefaultTargets(e) = {CurrentOffset} /\ BranchTargets(e) = {}
  BY <1>2, <1>4, <1>5, <1>6 DEF DefaultTargets, JumpTargets, BranchTargets, NoFall
<1>8. Targets(e) = {CurrentOffset} /\ Ender(e) /\ EndOf(e) = CurrentOffset
  BY <1>2, <1>4, <1>7 DEF Targets, Ender, EndOf, OffsetOf
<1>9. ByDefault(blocks, blocks', CurrentOffset, basicBlockOffset, currentBlockSize)
  BY <1>1, <1>2, DefaultFields, Zenon
<1>10. Arrives /\ DOMAIN blocks' = DOMAIN blocks
  BY <1>1, <1>2, <1>9 DEF Arrives, ByDefault
<1>11. e \in Settled' \ Settled
  BY <1>1, <1>2, <1>4, <1>6, SettledStep DEF e
<1>12. \A i \in Settled : i < e
  <2>1. ASSUME NEW i \in Settled PROVE i < e
    <3>1. i < instIndex /\ (FallsInto(i) => i + 1 < instIndex) /\ i \in 1 .. Len(listing)
      BY <1>1, <1>2, SettledStep
    <3>2. i # e
      BY <1>4, <1>6, <3>1
    <3>3. QED
      BY <1>2, <1>4, <3>1, <3>2
  <2>2. QED
    BY <2>1
<1>13. ASSUME NEW i \in Settled' \ Settled, i # e PROVE ~Ender(i)
  <2>1. i = instIndex /\ ~FallsInto(instIndex)
    BY <1>1, <1>2, <1>13, SettledStep DEF e
  <2>2. QED
    BY <1>2, <2>1, PlainEndsNothing
<1>14. basicBlockOffset <= OffsetOf(e)
  BY <1>1, <1>5 DEF GraphInv, Behind, NoFall, e
<1>15. ASSUME NEW b \in DOMAIN blocks
       PROVE  Moves(blocks, blocks', e, basicBlockOffset, b)
  <2>1. currentBlockSize = EndOf(e) - basicBlockOffset
    BY <1>8 DEF currentBlockSize
  <2>2. QED
    BY <1>7, <1>8, <1>9, <2>1 DEF ByDefault, Moves
<1>16. Known(blocks', Settled')
  BY <1>1, <1>4, <1>8, <1>9, <1>10, <1>11, <1>12, <1>13, <1>14, <1>15, ActiveStep
<1>17. QED
  BY <1>3, <1>16

\* STOP and RETURN (Contract.cpp:176-187).
LEMMA HaltSettles ==
  ASSUME GraphInv, Halt
  PROVE  Known(blocks', Settled') /\ Behind'
<1> DEFINE e == instIndex
<1>1. PICK op \in {"STOP", "RETURN"} : Step(op)
  BY DEF Halt
<1>2. /\ blocks' = SetBlockSize(blocks, basicBlockOffset, nextInstrBlockSize)
      /\ UNCHANGED basicBlockOffset
  BY DEF Halt
<1>3. /\ ScanInv /\ e \in 1 .. Len(listing) /\ Len(listing) \in Nat
      /\ listing[e].op = op /\ instIndex' = e + 1 /\ listing' = listing
      /\ EndOffset = EndOf(e)
      /\ basicBlockOffset \in DOMAIN blocks \ {NODE_DEADEND} /\ Sound(blocks)
  BY <1>1, AtInstruction DEF GraphInv
<1>4. /\ \A i \in Settled' \ Settled : i = e
      /\ \A i \in Settled : i < e
      /\ basicBlockOffset <= OffsetOf(e)
  BY <1>1, <1>3, OnlyOwn
<1>5. Behind'
  BY <1>2, <1>3, <1>4 DEF Behind, OffsetOf
<1>6. ~FallsInto(e) /\ Targets(e) = {} /\ DefaultTargets(e) = {} /\ BranchTargets(e) = {}
  BY <1>1, <1>3 DEF FallsInto, NoFall, Targets, DefaultTargets, JumpTargets, BranchTargets
<1>7. Ender(e) /\ e \in Settled' \ Settled
  BY <1>1, <1>3, <1>6, SettledStep DEF Ender
<1>8. blocks' = [blocks EXCEPT ![basicBlockOffset].size = nextInstrBlockSize]
  BY <1>2, <1>3 DEF SetBlockSize
<1>9. DOMAIN blocks' = DOMAIN blocks
  BY <1>8
<1>10. Arrives
  BY <1>1, <1>2, <1>3, <1>9 DEF Arrives
<1>11. ASSUME NEW b \in DOMAIN blocks
       PROVE  Moves(blocks, blocks', e, basicBlockOffset, b)
  <2>1. blocks[b] \in Block
    BY <1>3 DEF Sound, Typed
  <2>2. nextInstrBlockSize = EndOf(e) - basicBlockOffset
    BY <1>3 DEF nextInstrBlockSize
  <2>3. CASE b = basicBlockOffset
    <3>1. blocks'[b] = [blocks[b] EXCEPT !.size = nextInstrBlockSize]
      BY <1>8, <2>3
    <3>2. QED
      BY <1>6, <2>1, <2>2, <2>3, <3>1 DEF Moves, Block
  <2>4. CASE b # basicBlockOffset
    <3>1. blocks'[b] = blocks[b]
      BY <1>8, <2>4
    <3>2. QED
      BY <1>6, <2>4, <3>1 DEF Moves
  <2>5. QED
    BY <2>3, <2>4
<1>12. listing[e].op # "JUMPDEST"
  BY <1>1, <1>3
<1> HIDE DEF e
<1>13. Known(blocks', Settled')
  BY <1>1, <1>4, <1>7, <1>9, <1>10, <1>11, <1>12, ActiveStep
<1>14. QED
  BY <1>5, <1>13

\* JUMP: to its label, or out of the function (Contract.cpp:228-248).
LEMMA JumpSettles ==
  ASSUME GraphInv, Jump
  PROVE  Known(blocks', Settled') /\ Behind'
<1> DEFINE e == instIndex
<1>1. Step("JUMP") /\ UNCHANGED basicBlockOffset
  BY DEF Jump
<1>2. /\ ScanInv /\ e \in 1 .. Len(listing) /\ Len(listing) \in Nat
      /\ listing[e].op = "JUMP" /\ instIndex' = e + 1 /\ listing' = listing
      /\ EndOffset = EndOf(e) /\ nextInstrBlockSize \in Nat
      /\ basicBlockOffset \in DOMAIN blocks \ {NODE_DEADEND} /\ Sound(blocks)
      /\ PrevIs({"PUSH12"}) <=> Pushed(e)
  BY <1>1, AtInstruction DEF GraphInv, Pushed
<1>3. /\ \A i \in Settled' \ Settled : i = e
      /\ \A i \in Settled : i < e
      /\ basicBlockOffset <= OffsetOf(e)
  BY <1>1, <1>2, OnlyOwn
<1>4. Behind'
  BY <1>1, <1>2, <1>3 DEF Behind, OffsetOf
<1>5. ~FallsInto(e) /\ BranchTargets(e) = {} /\ e \in Settled' \ Settled
  <2>1. ~FallsInto(e)
    BY <1>2 DEF FallsInto, NoFall
  <2>2. QED
    BY <1>1, <1>2, <2>1, SettledStep DEF BranchTargets
<1>6. CASE e = 1
  <2>1. UNCHANGED blocks
    BY <1>6 DEF Jump
  <2>2. Arrives
    BY <1>1, <1>2, <2>1 DEF Arrives
  <2>3. ~Ender(e)
    BY <1>2, <1>5, <1>6 DEF Ender, Targets, DefaultTargets, JumpTargets
  <2>4. QED
    BY <1>1, <1>3, <1>4, <2>1, <2>2, <2>3, QuietStep
<1>7. CASE e # 1
  <2> DEFINE d == IF PrevIs({"PUSH12"}) THEN PrevData ELSE NODE_DEADEND
  <2>1. blocks' = AddBlockReference(blocks, d, basicBlockOffset,
                                    nextInstrBlockSize, 0, FALSE)
    BY <1>7 DEF Jump
  <2>2. d \in Nat
    BY <1>1, <1>2, StepFacts, PrevDataNatural, NodeAssumption
  <2>3. DefaultTargets(e) = {d}
    BY <1>2, <1>5, <1>7 DEF DefaultTargets, JumpTargets, PrevData
  <2> HIDE DEF d
  <2>4. Targets(e) = {d} /\ Ender(e)
    BY <1>5, <2>3 DEF Targets, Ender
  <2>5. ByDefault(blocks, blocks', d, basicBlockOffset, nextInstrBlockSize)
    BY <1>2, <2>1, <2>2, DefaultFields, Zenon
  <2>6. Arrives /\ DOMAIN blocks' = DOMAIN blocks
    BY <1>1, <1>2, <2>5 DEF Arrives, ByDefault
  <2>7. ASSUME NEW b \in DOMAIN blocks
        PROVE  Moves(blocks, blocks', e, basicBlockOffset, b)
    <3>1. nextInstrBlockSize = EndOf(e) - basicBlockOffset
      BY <1>2 DEF nextInstrBlockSize
    <3>2. QED
      BY <1>5, <2>3, <2>4, <2>5, <3>1 DEF ByDefault, Moves
  <2>8. listing[e].op # "JUMPDEST"
    BY <1>2
  <2> HIDE DEF e
  <2>9. QED
    BY <1>1, <1>3, <1>4, <1>5, <2>4, <2>6, <2>7, <2>8, ActiveStep
<1>8. QED
  BY <1>6, <1>7

\* What the pass is past goes to blocks in the map, or not beyond where it is.
LEMMA OldTargets ==
  ASSUME ScanInv, LabelsAreDests, NEW op, Step(op),
         NEW i \in Settled, NEW t \in Targets(i)
  PROVE  t \in DOMAIN blocks \/ t <= OffsetOf(instIndex)
<1>1. /\ i \in 1 .. Len(listing) /\ i < instIndex /\ Len(listing) \in Nat
      /\ instIndex \in 1 .. Len(listing)
  BY SettledStep
<1>2. JumpdestOffsets(listing) \subseteq DOMAIN blocks /\ NODE_DEADEND \in DOMAIN blocks
  BY DEF ScanInv, PositionOK, Sound, Resolved
<1>3. Pushed(i) /\ listing[i].op \in {"JUMP", "JUMPI"} =>
        listing[i - 1].data \in DOMAIN blocks
  BY <1>1, <1>2 DEF LabelsAreDests
<1>4. i + 1 \in 1 .. Len(listing) /\ OffsetOf(i + 1) <= OffsetOf(instIndex)
  <2>1. i + 1 \in 1 .. Len(listing) /\ (i + 1 < instIndex \/ i + 1 = instIndex)
    BY <1>1
  <2>2. QED
    BY <1>1, <2>1, OffsetsRise
<1>5. CASE t \in BranchTargets(i)
  BY <1>3, <1>5 DEF BranchTargets
<1>6. CASE t \in DefaultTargets(i)
  BY <1>2, <1>3, <1>4, <1>6 DEF DefaultTargets, JumpTargets
<1>7. QED
  BY <1>5, <1>6 DEF Targets

\* JUMPI: the branch, and the fall into the block behind it, which may be new
\* (Contract.cpp:188-227).
LEMMA ConditionalJumpSettles ==
  ASSUME GraphInv, ConditionalJump
  PROVE  Known(blocks', Settled') /\ Behind'
<1> DEFINE e == instIndex
           c == basicBlockOffset
           n == nextInstrBlockSize
           h == DispatchHash(instIndex)
<1>1. Step("JUMPI")
  BY DEF ConditionalJump
<1>2. /\ ScanInv /\ e \in 1 .. Len(listing) /\ Len(listing) \in Nat
      /\ listing[e].op = "JUMPI" /\ instIndex' = e + 1 /\ listing' = listing
      /\ EndOffset = EndOf(e) /\ n \in Nat
      /\ c \in DOMAIN blocks \ {NODE_DEADEND} /\ Sound(blocks)
      /\ PrevIs({"PUSH12"}) <=> Pushed(e)
  BY <1>1, AtInstruction DEF GraphInv, Pushed
<1>3. /\ \A i \in Settled' \ Settled : i = e
      /\ \A i \in Settled : i < e
      /\ c <= OffsetOf(e)
  BY <1>1, <1>2, OnlyOwn
<1>4. Behind'
  BY <1>2 DEF Behind
<1>5. ~FallsInto(e) /\ e \in Settled' \ Settled /\ listing[e].op # "JUMPDEST"
  <2>1. ~FallsInto(e)
    BY <1>2 DEF FallsInto, NoFall
  <2>2. QED
    BY <1>1, <1>2, <2>1, SettledStep
<1>6. BranchTargets(e) = IF Pushed(e) THEN {PrevData} ELSE {}
  BY <1>2 DEF BranchTargets, PrevData
<1>7. DefaultTargets(e) = IF HasNext THEN {NextInstr.offset} ELSE {}
  BY <1>2, <1>5 DEF DefaultTargets, JumpTargets, HasNext, NextInstr, OffsetOf
<1>8. n = EndOf(e) - c
  BY <1>2 DEF nextInstrBlockSize
<1>9. Pushed(e) => ByBranch(blocks, BranchTaken, PrevData, c, n, h)
  <2>1. SUFFICES ASSUME Pushed(e) PROVE ByBranch(blocks, BranchTaken, PrevData, c, n, h)
    OBVIOUS
  <2>2. PrevData \in Nat
    BY <1>1, <1>2, <2>1, StepFacts, PrevDataNatural
  <2>3. h \in Nat
    BY <1>2, HashNatural
  <2>4. BranchTaken = AddBlockReference(blocks, PrevData, c, n, h, TRUE)
    BY <1>2, <2>1 DEF BranchTaken
  <2>5. QED
    BY <1>2, <2>2, <2>3, <2>4, BranchFields, Zenon
<1>10. ~Pushed(e) => BranchTaken = blocks
  BY <1>2 DEF BranchTaken
<1>11. DOMAIN BranchTaken = DOMAIN blocks
  BY <1>9, <1>10 DEF ByBranch
<1> HIDE DEF n, h
<1>12. CASE ~HasNext
  <2>1. blocks' = BranchTaken /\ UNCHANGED basicBlockOffset
    BY <1>12 DEF ConditionalJump
  <2>2. Arrives /\ DOMAIN blocks' = DOMAIN blocks
    BY <1>2, <1>5, <1>11, <2>1 DEF Arrives
  <2>3. CASE Pushed(e)
    <3>1. Targets(e) = {PrevData} /\ Ender(e)
      BY <1>6, <1>7, <1>12, <2>3 DEF Targets, Ender
    <3>2. ASSUME NEW b \in DOMAIN blocks PROVE Moves(blocks, blocks', e, c, b)
      BY <1>6, <1>7, <1>8, <1>9, <1>12, <2>1, <2>3, <3>1 DEF ByBranch, Moves, h
    <3> HIDE DEF e
    <3>3. QED
      BY <1>1, <1>3, <1>4, <1>5, <2>2, <3>1, <3>2, ActiveStep
  <2>4. CASE ~Pushed(e)
    <3>1. ~Ender(e)
      BY <1>2, <1>6, <1>7, <1>12, <2>4 DEF Targets, Ender
    <3>2. QED
      BY <1>1, <1>3, <1>4, <1>10, <2>1, <2>2, <2>4, <3>1, QuietStep
  <2>5. QED
    BY <2>3, <2>4
<1>13. CASE HasNext
  <2> DEFINE o == NextInstr.offset
             m == AddBasicBlock(BranchTaken, o, n)
  <2>1. basicBlockOffset' = o /\ blocks' = AddBlockReference(m, o, c, n, 0, FALSE)
    BY <1>13 DEF ConditionalJump, n
  <2>2. o \in Nat /\ o = OffsetOf(e + 1) /\ OffsetOf(e) < o /\ OffsetOf(e) \in Nat
    BY <1>2, <1>13, OffsetsRise DEF HasNext, NextInstr, OffsetOf
  <2>3. Sound(BranchTaken)
    <3>1. CASE Pushed(e)
      <4> DEFINE k == TRUE
                 r == AddBlockReference(blocks, PrevData, c, n, h, k)
      <4>1. PrevData \in Nat
        BY <1>1, <1>2, <3>1, StepFacts, PrevDataNatural
      <4>2. h \in Nat
        BY <1>2, HashNatural DEF h
      <4>3. BranchTaken = r
        BY <1>2, <3>1 DEF BranchTaken, n, h
      <4>4. k \in BOOLEAN
        OBVIOUS
      <4> HIDE DEF k
      <4>5. Sound(r)
        BY <1>2, <4>1, <4>2, <4>4, ReferenceSound
      <4>6. QED
        BY <4>3, <4>5
    <3>2. CASE ~Pushed(e)
      BY <1>2, <1>10, <3>2
    <3>3. QED
      BY <3>1, <3>2
  <2>4. /\ DOMAIN m = DOMAIN blocks \cup {o}
        /\ \A b \in DOMAIN blocks : m[b] = BranchTaken[b]
        /\ o \notin DOMAIN blocks => m[o] = NewBlock(n)
    BY <1>11 DEF AddBasicBlock
  <2>5. Sound(m)
    BY <1>2, <2>2, <2>3, AddBasicBlockSound
  <2>6. DefaultTargets(e) = {o} /\ o \in Targets(e) /\ Ender(e)
    BY <1>7, <1>13 DEF Targets, Ender
  <2>7. Targets(e) = IF Pushed(e) THEN {o, PrevData} ELSE {o}
    BY <1>6, <2>6 DEF Targets
  <2> HIDE DEF o, m
  <2>8. ByDefault(m, blocks', o, c, n)
    <3>1. c \in DOMAIN m \ {NODE_DEADEND}
      BY <1>2, <2>4
    <3>2. QED
      BY <1>2, <2>1, <2>2, <2>5, <3>1, DefaultFields, Zenon
  <2>9. DOMAIN blocks' = DOMAIN blocks \cup {o}
    BY <2>4, <2>8 DEF ByDefault
  <2>10. Arrives
    BY <1>2, <1>5, <1>13, <2>1, <2>9 DEF Arrives, o
  <2>11. ASSUME NEW b \in DOMAIN blocks PROVE Moves(blocks, blocks', e, c, b)
    <3>1. b \in DOMAIN m /\ m[b] = BranchTaken[b]
      BY <2>4
    <3>2. CASE Pushed(e)
      BY <1>6, <1>8, <1>9, <2>6, <2>7, <2>8, <3>1, <3>2 DEF ByBranch, ByDefault, Moves, h
    <3>3. CASE ~Pushed(e)
      BY <1>6, <1>8, <1>10, <2>6, <2>7, <2>8, <3>1, <3>3 DEF ByDefault, Moves
    <3>4. QED
      BY <3>2, <3>3
  <2>12. ASSUME NEW b \in DOMAIN blocks' \ DOMAIN blocks
         PROVE  Fresh(blocks, Settled, blocks', e, c, b)
    <3>1. b = o /\ o \notin DOMAIN blocks /\ o # c /\ o \in DOMAIN m
      BY <1>2, <2>4, <2>9, <2>12
    <3>2. m[o] = NewBlock(n)
      BY <2>4, <3>1
    <3>3. /\ blocks'[o].dstDefault = 0 /\ blocks'[o].dstJUMPI = 0
          /\ blocks'[o].references = {c}
      <4>1. /\ m[o].references = {} /\ m[o].dstDefault = 0 /\ m[o].dstJUMPI = 0
        BY <3>2 DEF NewBlock
      <4>2. /\ blocks'[o].references = m[o].references \cup {c}
            /\ blocks'[o].dstDefault = m[o].dstDefault
            /\ blocks'[o].dstJUMPI = m[o].dstJUMPI
        BY <2>8, <3>1 DEF ByDefault
      <4>3. QED
        BY <4>1, <4>2
    <3>4. b \notin JumpdestOffsets(listing) /\ \A t \in DOMAIN blocks : b \notin blocks[t].references
      BY <1>2, <3>1 DEF ScanInv, PositionOK, Sound, Resolved
    <3>5. LabelsAreDests => \A i \in Settled : b \notin Targets(i)
      <4>1. SUFFICES ASSUME LabelsAreDests, NEW i \in Settled, b \in Targets(i)
                     PROVE  FALSE
        OBVIOUS
      <4>2. b \in DOMAIN blocks \/ b <= OffsetOf(e)
        BY <1>1, <1>2, <4>1, OldTargets
      <4>3. QED
        BY <2>2, <3>1, <4>2
    <3>6. QED
      BY <2>6, <3>1, <3>3, <3>4, <3>5 DEF Fresh
  <2> HIDE DEF e
  <2>13. QED
    BY <1>1, <1>3, <1>4, <1>5, <2>6, <2>10, <2>11, <2>12, ActiveStep
<1>14. QED
  BY <1>12, <1>13

-----------------------------------------------------------------------------
\* Nothing is settled and nothing known before the pass.
LEMMA GraphInit == Init => GraphInv
<1> SUFFICES ASSUME Init PROVE GraphInv
  OBVIOUS
<1>1. ScanInv
  BY ScanInit
<1>2. instIndex = 1
  BY DEF Init
<1>3. Settled = {}
  BY <1>2 DEF Settled
<1>4. Behind
  BY <1>2 DEF Behind
<1>5. \A S \in {{}} : \A b : Inside(blocks, S, b) = {}
  BY DEF Inside
<1>6. PICK p \in Programs :
        /\ listing = p.listing
        /\ blocks = [ o \in {NODE_DEADEND, 0} \cup JumpdestOffsets(p.listing) |->
                        NewBlock(0) ]
  BY DEF Init
<1>7. \A b \in DOMAIN blocks :
        /\ blocks[b].dstDefault = 0 /\ blocks[b].dstJUMPI = 0
        /\ blocks[b].references = {} /\ blocks[b].fnAddrHash = 0
  BY <1>6 DEF NewBlock
<1>8. Known(blocks, {})
  BY <1>5, <1>6, <1>7 DEF Known, DefaultsKnown, BranchesKnown, RefsKnown,
                          SizesKnown, HashesKnown
<1>9. QED
  BY <1>1, <1>3, <1>4, <1>8 DEF GraphInv

\* Every step of the pass keeps what is known.
LEMMA GraphStep ==
  ASSUME GraphInv, [Next]_vars
  PROVE  GraphInv'
<1>1. ScanInv'
  BY ScanKeepsInv DEF GraphInv
<1>2. CASE UNCHANGED vars
  <2>1. Settled' = Settled /\ Behind'
    <3>1. \A i : FallsInto(i)' <=> FallsInto(i)
      BY <1>2, FallsSame DEF vars
    <3>2. QED
      BY <1>2, <3>1 DEF vars, Settled, GraphInv, Behind, OffsetOf
  <2>2. Known(blocks', Settled')
    BY <1>2, <2>1 DEF vars, GraphInv
  <2>3. QED
    BY <1>1, <1>2, <2>1, <2>2, ListingSame DEF vars, GraphInv
<1>3. CASE Scan
  <2>1. Known(blocks', Settled') /\ Behind'
    BY <1>3, FunctionEntrySettles, FallIntoBlockSettles, EnterBlockSettles,
       HaltSettles, ConditionalJumpSettles, JumpSettles, SkipSettles DEF Scan
  <2>2. UNCHANGED << listing, codeSize >>
    BY <1>3 DEF Scan, FunctionEntry, FallIntoBlock, EnterBlock, Halt,
                ConditionalJump, Jump, Skip, Step
  <2>3. QED
    BY <1>1, <2>1, <2>2, ListingSame DEF GraphInv
<1>4. QED
  BY <1>2, <1>3 DEF Next, Terminated

LEMMA GraphInvariant == Spec => []GraphInv
<1>1. GraphInv /\ [Next]_vars => GraphInv'
  BY GraphStep
<1>2. QED
  BY GraphInit, <1>1, PTL DEF Spec

\* At the end every instruction is settled.
LEMMA AllSettled ==
  ASSUME GraphInv, Done
  PROVE  /\ Settled = 1 .. Len(listing)
         /\ \A b : Inside(blocks, Settled, b) = Extent(b)
<1>1. Len(listing) \in Nat /\ instIndex \in Nat /\ instIndex > Len(listing)
  BY OffsetsRise DEF GraphInv, ScanInv, ListingOK, Done
<1>2. ASSUME NEW i \in 1 .. Len(listing) PROVE i \in Settled
  BY <1>1 DEF Settled, FallsInto
<1>3. Settled = 1 .. Len(listing)
  BY <1>2 DEF Settled
<1>4. QED
  BY <1>3 DEF Inside, Extent

\* The size of a block reaches to the end of its last jump, halt or fall,
\* whatever the contract (Contract.cpp:123-124, 179, 185, 501).
THEOREM SizesAreExact == Spec => []SizesExact
<1>1. GraphInv => SizesExact
  <2> SUFFICES ASSUME GraphInv, Done,
                      NEW b \in DOMAIN blocks \ {NODE_DEADEND},
                      NEW e \in Extent(b), Ender(e)
               PROVE  \E i \in Extent(b) :
                        /\ Ender(i) /\ blocks[b].size = EndOf(i) - b
                        /\ \A j \in Extent(b) : Ender(j) => j <= i
    BY DEF SizesExact, Ender, Targets
  <2>1. Inside(blocks, Settled, b) = Extent(b)
    BY AllSettled
  <2>2. SizesKnown(blocks, Settled)
    BY DEF GraphInv, Known
  <2>3. QED
    BY <2>1, <2>2 DEF SizesKnown
<1>2. QED
  BY GraphInvariant, <1>1, PTL

\* The last reference to a block decides whether it is listed as a public
\* function, whatever the contract (Contract.cpp:157-171, 188-224, 484).
THEOREM LastReferenceDecides == Spec => []ListedByLastReference
<1>1. GraphInv => ListedByLastReference
  <2> SUFFICES ASSUME GraphInv, Done,
                      NEW b \in JumpdestOffsets(listing)
               PROVE  \/ /\ blocks[b].fnAddrHash = 0
                         /\ \A i \in 1 .. Len(listing) : b \notin Targets(i)
                      \/ \E i \in 1 .. Len(listing) :
                           /\ b \in Targets(i)
                           /\ \A j \in 1 .. Len(listing) : b \in Targets(j) => j <= i
                           /\ blocks[b].fnAddrHash =
                                IF b \in DefaultTargets(i) THEN 0 ELSE DispatchHash(i)
    BY DEF ListedByLastReference, Targets
  <2>1. Settled = 1 .. Len(listing)
    BY AllSettled
  <2>2. HashesKnown(blocks, Settled)
    BY DEF GraphInv, Known
  <2>3. QED
    BY <2>1, <2>2 DEF HashesKnown
<1>2. QED
  BY GraphInvariant, <1>1, PTL

-----------------------------------------------------------------------------
(***************************************************************************)
(* Where blocks begin.                                                     *)
(***************************************************************************)
\* Neither a new xref nor a size makes a block (Contract.cpp:464-506).
SameBlocks(m, r) == DOMAIN r = DOMAIN m

LEMMA ReferenceDomain ==
  ASSUME NEW m, NEW d, NEW src, NEW s, NEW h, NEW c,
         NEW r, r = AddBlockReference(m, d, src, s, h, c)
  PROVE  SameBlocks(m, r)
  BY DEF AddBlockReference, AddReferer, SameBlocks

\* What a step does to the set of blocks (Contract.cpp:50-64, 218-224).
LEMMA DomainStep ==
  ASSUME Scan
  PROVE  DOMAIN blocks' =
           DOMAIN blocks \cup (IF listing[instIndex].op = "JUMPI" /\ HasNext
                                 THEN {NextInstr.offset} ELSE {})
<1>1. CASE FunctionEntry \/ EnterBlock \/ Skip
  BY <1>1 DEF FunctionEntry, EnterBlock, Skip, Step
<1>2. CASE FallIntoBlock
  <2>1. blocks' = AddBlockReference(blocks, CurrentOffset, basicBlockOffset,
                                    currentBlockSize, 0, FALSE)
    BY <1>2 DEF FallIntoBlock
  <2>2. SameBlocks(blocks, blocks')
    BY <2>1, ReferenceDomain, Zenon
  <2>3. QED
    BY <1>2, <2>2 DEF SameBlocks, FallIntoBlock, Step
<1>3. CASE Jump
  <2> DEFINE d == IF PrevIs({"PUSH12"}) THEN PrevData ELSE NODE_DEADEND
  <2>1. \/ blocks' = blocks
        \/ blocks' = AddBlockReference(blocks, d, basicBlockOffset,
                                       nextInstrBlockSize, 0, FALSE)
    BY <1>3 DEF Jump
  <2> HIDE DEF d
  <2>2. blocks' = blocks \/ SameBlocks(blocks, blocks')
    BY <2>1, ReferenceDomain, Zenon
  <2>3. QED
    BY <1>3, <2>2 DEF SameBlocks, Jump, Step
<1>4. CASE Halt
  BY <1>4 DEF Halt, Step, SetBlockSize
<1>5. CASE ConditionalJump
  <2> DEFINE q == BranchTaken
             o == NextInstr.offset
             m == AddBasicBlock(q, o, nextInstrBlockSize)
  <2>1. DOMAIN q = DOMAIN blocks
    <3>1. \/ q = blocks
          \/ q = AddBlockReference(blocks, PrevData, basicBlockOffset,
                                   nextInstrBlockSize, DispatchHash(instIndex), TRUE)
      BY DEF BranchTaken
    <3> HIDE DEF q
    <3>2. q = blocks \/ SameBlocks(blocks, q)
      BY <3>1, ReferenceDomain, Zenon
    <3>3. QED
      BY <3>2 DEF SameBlocks
  <2>2. HasNext => blocks' = AddBlockReference(m, o, basicBlockOffset,
                                               nextInstrBlockSize, 0, FALSE)
    BY <1>5 DEF ConditionalJump
  <2>3. ~HasNext => blocks' = q
    BY <1>5 DEF ConditionalJump
  <2> HIDE DEF q, o
  <2>4. DOMAIN m = DOMAIN blocks \cup {o}
    BY <2>1 DEF AddBasicBlock
  <2> HIDE DEF m
  <2>5. HasNext => SameBlocks(m, blocks')
    BY <2>2, ReferenceDomain, Zenon
  <2>6. listing[instIndex].op = "JUMPI"
    BY <1>5 DEF ConditionalJump, Step
  <2>7. QED
    BY <2>1, <2>3, <2>4, <2>5, <2>6 DEF SameBlocks, o
<1>6. QED
  BY <1>1, <1>2, <1>3, <1>4, <1>5 DEF Scan

StartsBefore(n) ==
  {0} \cup JumpdestOffsets(listing)
    \cup { OffsetOf(i + 1) :
             i \in { j \in 1 .. Len(listing) - 1 : j < n /\ listing[j].op = "JUMPI" } }

BlocksBefore(n) == DOMAIN blocks = {NODE_DEADEND} \cup StartsBefore(n)

LEMMA OffsetsInCode ==
  ASSUME ListingOK
  PROVE  /\ Len(listing) \in Nat
         /\ \A i \in 1 .. Len(listing) :
              OffsetOf(i) \in Nat /\ OffsetOf(i) < NODE_DEADEND
<1>1. /\ listing \in Seq(Instr) /\ codeSize \in Nat
      /\ \A i \in 1 .. Len(listing) : listing[i] \in Instr
      /\ \A i \in 1 .. Len(listing) : listing[i].offset < codeSize
  BY Neighbours
<1>2. codeSize < NODE_DEADEND
  BY DEF ListingOK
<1>3. ASSUME NEW i \in 1 .. Len(listing)
      PROVE  OffsetOf(i) \in Nat /\ OffsetOf(i) < NODE_DEADEND
  <2>1. listing[i].offset \in Nat /\ listing[i].offset < codeSize
    BY <1>1 DEF Instr
  <2>2. QED
    BY <1>1, <1>2, <2>1, NodeAssumption DEF OffsetOf
<1>4. QED
  BY <1>1, <1>3

\* The scan has made the blocks of the code up to where it is.
LEMMA ScanStarts ==
  ASSUME ListingOK, BlocksBefore(instIndex), Scan
  PROVE  BlocksBefore(instIndex)'
<1>1. PICK op : Step(op)
  BY DEF Scan, FunctionEntry, FallIntoBlock, EnterBlock, Halt, ConditionalJump,
         Jump, Skip
<1>2. /\ instIndex \in 1 .. Len(listing) /\ Len(listing) \in Nat
      /\ instIndex' = instIndex + 1 /\ listing' = listing
  BY <1>1, Neighbours DEF ListingOK, Step, Done
<1>3. HasNext <=> instIndex \in 1 .. Len(listing) - 1
  BY <1>2 DEF HasNext
<1> DEFINE behind(n) ==
             { OffsetOf(i + 1) :
                i \in { j \in 1 .. Len(listing) - 1 : j < n /\ listing[j].op = "JUMPI" } }
<1>4. behind(instIndex + 1) =
        behind(instIndex) \cup (IF listing[instIndex].op = "JUMPI" /\ HasNext
                                  THEN {OffsetOf(instIndex + 1)} ELSE {})
  BY <1>2, <1>3
<1>5. \A n : StartsBefore(n) = {0} \cup JumpdestOffsets(listing) \cup behind(n)
  BY DEF StartsBefore
<1> HIDE DEF behind
<1>6. NextInstr.offset = OffsetOf(instIndex + 1)
  BY DEF NextInstr, OffsetOf
<1>7. DOMAIN blocks' = {NODE_DEADEND} \cup StartsBefore(instIndex + 1)
  BY <1>4, <1>5, <1>6, DomainStep DEF BlocksBefore
<1>8. StartsBefore(instIndex)' = StartsBefore(instIndex + 1)
  BY <1>2 DEF StartsBefore, OffsetOf
<1>9. QED
  BY <1>7, <1>8 DEF BlocksBefore

LEMMA StartsAtEnd ==
  ASSUME ListingOK, Done
  PROVE  StartsBefore(instIndex) = BlockStarts(listing)
<1>1. Len(listing) \in Nat /\ instIndex \in Nat /\ instIndex > Len(listing)
  BY OffsetsInCode DEF ListingOK, Done
<1>2. { j \in 1 .. Len(listing) - 1 : j < instIndex /\ listing[j].op = "JUMPI" }
        = { j \in 1 .. Len(listing) - 1 : listing[j].op = "JUMPI" }
  BY <1>1
<1>3. QED
  BY <1>2 DEF StartsBefore, BlockStarts, OffsetOf

-----------------------------------------------------------------------------
(***************************************************************************)
(* The edges of the code.                                                  *)
(***************************************************************************)
LEMMA StartsInit == Init => BlocksBefore(instIndex)
<1> SUFFICES ASSUME Init PROVE BlocksBefore(instIndex)
  OBVIOUS
<1>1. PICK p \in Programs :
        /\ listing = p.listing /\ instIndex = 1
        /\ DOMAIN blocks = {NODE_DEADEND, 0} \cup JumpdestOffsets(p.listing)
  BY DEF Init
<1>2. QED
  BY <1>1 DEF BlocksBefore, StartsBefore

LEMMA StartsInvariant == Spec => [](GraphInv /\ BlocksBefore(instIndex))
<1>1. Init => GraphInv /\ BlocksBefore(instIndex)
  BY GraphInit, StartsInit
<1>2. GraphInv /\ BlocksBefore(instIndex) /\ [Next]_vars
        => (GraphInv /\ BlocksBefore(instIndex))'
  <2> SUFFICES ASSUME GraphInv, BlocksBefore(instIndex), [Next]_vars
               PROVE  GraphInv' /\ BlocksBefore(instIndex)'
    OBVIOUS
  <2>1. GraphInv'
    BY GraphStep
  <2>2. CASE Scan
    BY <2>1, <2>2, ScanStarts DEF GraphInv, ScanInv
  <2>3. CASE UNCHANGED vars
    BY <2>1, <2>3 DEF BlocksBefore, StartsBefore, OffsetOf, vars
  <2>4. QED
    BY <2>2, <2>3 DEF Next, Terminated
<1>3. QED
  BY <1>1, <1>2, PTL DEF Spec

\* At the end the blocks are those of the code, with the same instructions.
LEMMA BlocksOfCode ==
  ASSUME GraphInv, BlocksBefore(instIndex), Done
  PROVE  /\ DOMAIN blocks = BlockStarts(listing) \cup {NODE_DEADEND}
         /\ NODE_DEADEND \notin BlockStarts(listing)
         /\ \A b : CodeOf(b) = Extent(b)
<1>1. /\ ListingOK /\ Len(listing) \in Nat /\ instIndex \in Nat
      /\ instIndex > Len(listing)
      /\ \A i \in 1 .. Len(listing) : OffsetOf(i) \in Nat /\ OffsetOf(i) < NODE_DEADEND
  BY OffsetsRise DEF GraphInv, ScanInv, ListingOK, Done
<1>3. StartsBefore(instIndex) = BlockStarts(listing)
  BY <1>1, StartsAtEnd
<1>4. DOMAIN blocks = BlockStarts(listing) \cup {NODE_DEADEND}
  BY <1>3 DEF BlocksBefore
<1>5. NODE_DEADEND \notin BlockStarts(listing)
  BY <1>1, NodeAssumption DEF BlockStarts, JumpdestOffsets, OffsetOf
<1>6. \A i \in 1 .. Len(listing) : ~(NODE_DEADEND <= OffsetOf(i))
  BY <1>1, NodeAssumption
<1>7. QED
  BY <1>4, <1>5, <1>6 DEF CodeOf, Extent

\* What the scan takes a dispatch to go to is in the code.
LEMMA EntryIsDispatched ==
  ASSUME NEW k, IsEntry(k), Len(listing) \in Nat, k \in Nat
  PROVE  OffsetOf(k) \in Dispatched
<1>1. PICK i \in 1 .. k - 1 :
        OffsetOf(k) \in BranchTargets(i) /\ DispatchHash(i) # 0
  BY DEF IsEntry
<1>2. k < Len(listing)
  BY DEF IsEntry
<1>3. i \in 1 .. Len(listing)
  BY <1>2
<1>4. /\ listing[i].op = "JUMPI" /\ Pushed(i)
      /\ OffsetOf(k) = listing[i - 1].data
  BY <1>1 DEF BranchTargets
<1>5. IsFunction(i)
  BY <1>1, <1>4 DEF IsFunction
<1>6. QED
  BY <1>3, <1>4, <1>5 DEF Dispatched

\* In a block that can be read, each instruction goes where the scan has it go.
LEMMA ReadableTargets ==
  ASSUME GraphInv, BlocksBefore(instIndex), Done, NEW b \in BlockStarts(listing), Readable(b),
         NEW i \in CodeOf(b)
  PROVE  DefaultTargets(i) = GoesOn(i)
<1>1. /\ Len(listing) \in Nat /\ i \in 1 .. Len(listing)
      /\ \A k \in 1 .. Len(listing) : OffsetOf(k) \in Nat
      /\ \A k, l \in 1 .. Len(listing) : l < k => OffsetOf(l) < OffsetOf(k)
  BY OffsetsRise DEF GraphInv, CodeOf
<1> DEFINE op == listing[i].op
<1>2. op \notin {"JUMPC", "JUMPCI"}
  BY DEF Readable
<1>3. CASE op = "JUMPI"
  <2>1. ~FallsInto(i) /\ op \notin Stopping
    BY <1>3 DEF FallsInto, NoFall, Stopping
  <2>2. i < Len(listing) => OffsetOf(i + 1) \in BlockStarts(listing)
    <3> SUFFICES ASSUME i < Len(listing) PROVE OffsetOf(i + 1) \in BlockStarts(listing)
      OBVIOUS
    <3>1. i \in { k \in 1 .. Len(listing) - 1 : listing[k].op = "JUMPI" }
      BY <1>1, <1>3
    <3>2. QED
      BY <3>1 DEF BlockStarts, OffsetOf
  <2>3. JumpTargets(i) = IF i < Len(listing) THEN {OffsetOf(i + 1)} ELSE {}
    BY <1>3 DEF JumpTargets
  <2>4. QED
    BY <2>1, <2>2, <2>3 DEF DefaultTargets, GoesOn
<1>4. CASE op \in Stopping
  <2>1. ~FallsInto(i)
    <3> SUFFICES ASSUME i < Len(listing), listing[i + 1].op = "JUMPDEST", op \notin NoFall
                 PROVE  FALSE
      BY DEF FallsInto
    <3>1. op \in {"REVERT", "INVALID"}
      BY <1>4 DEF Stopping, NoFall
    <3>2. QED
      BY <3>1 DEF Readable
  <2>2. QED
    BY <1>4, <2>1 DEF DefaultTargets, GoesOn
<1>5. CASE op \notin Stopping /\ op # "JUMPI"
  <2>1. JumpTargets(i) = {} /\ op \notin NoFall
    BY <1>2, <1>5 DEF JumpTargets, NoFall, Stopping
  <2>2. i < Len(listing) => (OffsetOf(i + 1) \in BlockStarts(listing) <=> listing[i + 1].op = "JUMPDEST")
    <3> SUFFICES ASSUME i < Len(listing)
                 PROVE  OffsetOf(i + 1) \in BlockStarts(listing) <=> listing[i + 1].op = "JUMPDEST"
      OBVIOUS
    <3>1. i + 1 \in 1 .. Len(listing) /\ OffsetOf(i) < OffsetOf(i + 1)
          /\ OffsetOf(i) \in Nat /\ OffsetOf(i + 1) \in Nat
      BY <1>1
    <3>2. OffsetOf(i + 1) # 0
      BY <3>1
    <3>3. \A k \in 1 .. Len(listing) : OffsetOf(k) = OffsetOf(i + 1) => k = i + 1
      BY <1>1, <3>1
    <3>4. ASSUME NEW k \in 1 .. Len(listing) - 1, listing[k].op = "JUMPI",
                 OffsetOf(k + 1) = OffsetOf(i + 1)
          PROVE  FALSE
      <4>1. k + 1 \in 1 .. Len(listing)
        BY <1>1
      <4>2. k + 1 = i + 1
        BY <3>3, <3>4, <4>1
      <4>3. k = i
        BY <1>1, <4>2
      <4>4. QED
        BY <1>5, <3>4, <4>3
    <3>5. OffsetOf(i + 1) \in JumpdestOffsets(listing) <=> listing[i + 1].op = "JUMPDEST"
      BY <3>1, <3>3 DEF JumpdestOffsets, OffsetOf
    <3>6. OffsetOf(i + 1) \in BlockStarts(listing) <=> OffsetOf(i + 1) \in JumpdestOffsets(listing)
      BY <3>2, <3>4 DEF BlockStarts, OffsetOf
    <3>7. QED
      BY <3>5, <3>6
  <2>3. i < Len(listing) /\ listing[i + 1].op = "JUMPDEST" => ~IsEntry(i + 1)
    <3> SUFFICES ASSUME i < Len(listing), listing[i + 1].op = "JUMPDEST", IsEntry(i + 1)
                 PROVE  FALSE
      OBVIOUS
    <3>1. OffsetOf(i + 1) \in Dispatched
      BY <1>1, EntryIsDispatched
    <3>2. QED
      BY <1>5, <3>1 DEF Readable
  <2>4. QED
    BY <1>5, <2>1, <2>2, <2>3 DEF DefaultTargets, GoesOn, FallsInto
<1>6. QED
  BY <1>3, <1>4, <1>5

\* Only the last instruction of such a block goes anywhere without a condition.
LEMMA ReadableEnds ==
  ASSUME GraphInv, BlocksBefore(instIndex), Done, NEW b \in BlockStarts(listing), Readable(b),
         NEW i \in CodeOf(b), GoesOn(i) # {} \/ BranchTargets(i) # {},
         NEW j \in CodeOf(b)
  PROVE  j <= i
<1>1. /\ Len(listing) \in Nat /\ i \in 1 .. Len(listing) /\ j \in 1 .. Len(listing)
      /\ \A k \in 1 .. Len(listing) : OffsetOf(k) \in Nat
      /\ \A k, l \in 1 .. Len(listing) : l < k => OffsetOf(l) < OffsetOf(k)
  BY OffsetsRise DEF GraphInv, CodeOf
<1>2. CASE listing[i].op \in Stopping
  BY <1>2 DEF Readable
<1>3. CASE listing[i].op \notin Stopping
  <2> SUFFICES ASSUME i < j PROVE FALSE
    BY <1>1
  <2>1. i + 1 \in 1 .. Len(listing) /\ i < Len(listing)
    BY <1>1
  <2>2. OffsetOf(i + 1) \in BlockStarts(listing)
    <3>1. CASE listing[i].op = "JUMPI"
      <4>1. i \in { k \in 1 .. Len(listing) - 1 : listing[k].op = "JUMPI" }
        BY <1>1, <2>1, <3>1
      <4>2. QED
        BY <4>1 DEF BlockStarts, OffsetOf
    <3>2. CASE listing[i].op # "JUMPI"
      <4>1. GoesOn(i) # {}
        BY <3>2 DEF BranchTargets
      <4>2. QED
        BY <1>3, <4>1 DEF GoesOn
    <3>3. QED
      BY <3>1, <3>2
  <2>3. OffsetOf(i + 1) <= OffsetOf(j) /\ OffsetOf(i) < OffsetOf(i + 1)
    <3>1. i + 1 = j \/ i + 1 < j
      BY <1>1
    <3>2. QED
      BY <1>1, <2>1, <3>1
  <2>4. OffsetOf(i + 1) <= b /\ b <= OffsetOf(i)
    BY <2>2, <2>3 DEF CodeOf
  <2>5. b \in Nat
    BY BlocksOfCode, OffsetsRise DEF GraphInv
  <2>6. QED
    BY <1>1, <2>1, <2>3, <2>4, <2>5
<1>4. QED
  BY <1>2, <1>3

\* What an instruction goes to is a block, when labels are JUMPDESTs.
LEMMA TargetsInMap ==
  ASSUME GraphInv, BlocksBefore(instIndex), Done, LabelsAreDests,
         NEW i \in 1 .. Len(listing), NEW t \in Targets(i)
  PROVE  t \in DOMAIN blocks
<1>1. DOMAIN blocks = BlockStarts(listing) \cup {NODE_DEADEND} /\ Len(listing) \in Nat
  BY BlocksOfCode, OffsetsRise DEF GraphInv
<1>2. t \in BranchTargets(i) => t \in JumpdestOffsets(listing)
  BY DEF BranchTargets, LabelsAreDests
<1>3. t \in JumpTargets(i) =>
        t \in JumpdestOffsets(listing) \cup {NODE_DEADEND} \/ t \in BlockStarts(listing)
  <2>1. CASE listing[i].op = "JUMP"
    BY <2>1 DEF JumpTargets, LabelsAreDests
  <2>2. CASE listing[i].op = "JUMPI" /\ i < Len(listing)
    <3>1. i \in { k \in 1 .. Len(listing) - 1 : listing[k].op = "JUMPI" }
      BY <1>1, <2>2
    <3>2. OffsetOf(i + 1) \in BlockStarts(listing)
      BY <3>1 DEF BlockStarts, OffsetOf
    <3>3. QED
      BY <2>2, <3>2 DEF JumpTargets
  <2>3. QED
    BY <2>1, <2>2 DEF JumpTargets
<1>4. FallsInto(i) => OffsetOf(i + 1) \in JumpdestOffsets(listing)
  <2> SUFFICES ASSUME FallsInto(i) PROVE OffsetOf(i + 1) \in JumpdestOffsets(listing)
    OBVIOUS
  <2>1. i + 1 \in 1 .. Len(listing) /\ listing[i + 1].op = "JUMPDEST"
    BY <1>1 DEF FallsInto
  <2>2. QED
    BY <2>1 DEF JumpdestOffsets, OffsetOf
<1>5. JumpdestOffsets(listing) \subseteq BlockStarts(listing)
  BY DEF BlockStarts
<1>6. QED
  BY <1>1, <1>2, <1>3, <1>4, <1>5 DEF Targets, DefaultTargets

\* The scan finds each edge of the blocks that it can read, and no other, in any
\* contract whose labels are JUMPDESTs (Contract.cpp:111-253).
THEOREM EdgesAreExact == Spec => []EdgesExact
<1>1. GraphInv /\ BlocksBefore(instIndex) => EdgesExact
  <2> SUFFICES ASSUME GraphInv, BlocksBefore(instIndex), Done, LabelsAreDests,
                      NEW b \in BlockStarts(listing), Readable(b)
               PROVE  LET on     == UNION { GoesOn(i) : i \in CodeOf(b) }
                          branch == UNION { BranchTargets(i) : i \in CodeOf(b) }
                      IN  /\ {blocks[b].dstDefault} \ {0} = on \ {0}
                          /\ {blocks[b].dstJUMPI} \ {0} = branch \ {0}
                          /\ { t \in DOMAIN blocks : b \in blocks[t].references }
                               = on \cup branch
    BY BlocksOfCode DEF EdgesExact
  <2> DEFINE E == CodeOf(b)
  <2>1. /\ b \in DOMAIN blocks \ {NODE_DEADEND} /\ E = Extent(b)
        /\ DOMAIN blocks = BlockStarts(listing) \cup {NODE_DEADEND}
        /\ E = Inside(blocks, Settled, b) /\ \A i \in E : i \in 1 .. Len(listing)
    BY BlocksOfCode, AllSettled DEF Extent
  <2>2. \A i \in E : DefaultTargets(i) = GoesOn(i)
    BY ReadableTargets
  <2>3. \A i, j \in E : GoesOn(i) # {} \/ BranchTargets(i) # {} => j <= i
    BY ReadableEnds
  <2>4. /\ DefaultsKnown(blocks, Settled) /\ BranchesKnown(blocks, Settled)
        /\ RefsKnown(blocks, Settled)
    BY DEF GraphInv, Known
  <2> HIDE DEF E
  <2>5. \A i, j \in E : i <= j /\ j <= i => i = j
    BY <2>1
  <2>6. \A i, j \in E : GoesOn(i) # {} /\ GoesOn(j) # {} => i = j
    BY <2>3, <2>5
  <2>7. \A i, j \in E : BranchTargets(i) # {} /\ BranchTargets(j) # {} => i = j
    BY <2>3, <2>5
  <2>8. \A i : \A d \in BranchTargets(i) : BranchTargets(i) = {d}
    BY DEF BranchTargets
  <2>9. \A i : \A d \in GoesOn(i) : GoesOn(i) = {d}
    BY DEF GoesOn, JumpTargets
  <2>10. {blocks[b].dstDefault} \ {0} = (UNION { GoesOn(i) : i \in E }) \ {0}
    <3>1. \/ blocks[b].dstDefault = 0 /\ \A i \in E : GoesOn(i) = {}
          \/ \E i \in E : blocks[b].dstDefault \in GoesOn(i)
      BY <2>1, <2>2, <2>4 DEF DefaultsKnown
    <3>2. QED
      BY <2>6, <2>9, <3>1
  <2>11. {blocks[b].dstJUMPI} \ {0} = (UNION { BranchTargets(i) : i \in E }) \ {0}
    <3>1. \/ blocks[b].dstJUMPI = 0 /\ \A i \in E : BranchTargets(i) = {}
          \/ \E i \in E : blocks[b].dstJUMPI \in BranchTargets(i)
      BY <2>1, <2>4 DEF BranchesKnown
    <3>2. QED
      BY <2>7, <2>8, <3>1
  <2>12. \A t \in DOMAIN blocks :
           b \in blocks[t].references <=> \E i \in E : t \in GoesOn(i) \cup BranchTargets(i)
    BY <2>1, <2>2, <2>4 DEF RefsKnown, Targets
  <2>13. \A i \in E : GoesOn(i) \cup BranchTargets(i) \subseteq DOMAIN blocks
    <3> SUFFICES ASSUME NEW i \in E, NEW t \in Targets(i) PROVE t \in DOMAIN blocks
      BY <2>2 DEF Targets
    <3>1. i \in 1 .. Len(listing)
      BY <2>1
    <3>2. QED
      BY <2>1, <2>2, <3>1, TargetsInMap
  <2>14. { t \in DOMAIN blocks : b \in blocks[t].references }
           = (UNION { GoesOn(i) : i \in E }) \cup (UNION { BranchTargets(i) : i \in E })
    BY <2>12, <2>13
  <2>15. QED
    BY <2>10, <2>11, <2>14 DEF E
<1>2. QED
  BY StartsInvariant, <1>1, PTL

-----------------------------------------------------------------------------
(***************************************************************************)
(* Reachability in any finite graph: the least set that no edge leaves.    *)
(***************************************************************************)
\* r holds what up to n steps come to, for each number of steps.
Steps(D, E, F, n, r) ==
  r = [ k \in 0 .. n |-> IF k = 0 THEN F \cap D ELSE WithNext(E, r[k - 1]) ]

\* A property of 0 that goes from each number to the next holds of all: the
\* least number without it would be 0 or the next of one that has it.
LEMMA UpFromZero ==
  ASSUME NEW Good \in SUBSET Nat, 0 \in Good,
         \A n \in Nat : n \in Good => n + 1 \in Good
  PROVE  Good = Nat
<1> SUFFICES ASSUME Good # Nat PROVE FALSE
  OBVIOUS
<1> DEFINE bad == Nat \ Good
<1>1. bad \subseteq Nat /\ bad # {}
  OBVIOUS
<1>2. PICK n \in bad : \A m \in bad : ~(m < n)
  <2>1. IsWellFoundedOn(OpToRel(<, Nat), Nat)
    BY NatLessThanWellFounded
  <2>2. PICK n \in bad : \A m \in bad : ~(<< m, n >> \in OpToRel(<, Nat))
    BY <1>1, <2>1, WFMin
  <2>3. \A m \in bad : m < n => << m, n >> \in OpToRel(<, Nat)
    BY <1>1 DEF OpToRel
  <2>4. QED
    BY <2>2, <2>3
<1>3. n # 0 /\ n - 1 \in Nat
  BY <1>1
<1>4. n - 1 \in Good
  BY <1>1, <1>2, <1>3
<1>5. QED
  BY <1>3, <1>4

LEMMA StepsExist ==
  ASSUME NEW D, NEW E, NEW F, NEW n \in Nat
  PROVE  \E r : Steps(D, E, F, n, r)
<1> DEFINE Good == { k \in Nat : \E r : Steps(D, E, F, k, r) }
<1>1. 0 \in Good
  <2>1. Steps(D, E, F, 0, [ k \in 0 .. 0 |-> F \cap D ])
    BY DEF Steps
  <2>2. QED
    BY <2>1
<1>2. ASSUME NEW k \in Nat, k \in Good PROVE k + 1 \in Good
  <2>1. PICK r : Steps(D, E, F, k, r)
    BY <1>2
  <2> DEFINE s == [ i \in 0 .. k + 1 |-> IF i = k + 1 THEN WithNext(E, r[k]) ELSE r[i] ]
  <2>2. DOMAIN r = 0 .. k
    BY <2>1 DEF Steps
  <2>3. \A i \in 0 .. k : r[i] = IF i = 0 THEN F \cap D ELSE WithNext(E, r[i - 1])
    BY <2>1 DEF Steps
  <2>4. ASSUME NEW i \in 0 .. k + 1
        PROVE  s[i] = IF i = 0 THEN F \cap D ELSE WithNext(E, s[i - 1])
    <3>1. CASE i = k + 1
      <4>1. i # 0 /\ i - 1 = k /\ k \in 0 .. k + 1 /\ k # k + 1
        BY <3>1
      <4>2. s[i] = WithNext(E, r[k]) /\ s[k] = r[k]
        BY <3>1, <4>1
      <4>3. QED
        BY <4>1, <4>2
    <3>2. CASE i # k + 1
      <4>1. i \in 0 .. k /\ s[i] = r[i]
        BY <3>2
      <4>2. i # 0 => i - 1 \in 0 .. k + 1 /\ i - 1 # k + 1
        BY <4>1
      <4>3. i # 0 => s[i - 1] = r[i - 1]
        BY <4>2
      <4> HIDE DEF s
      <4>4. QED
        BY <2>3, <4>1, <4>3
    <3>3. QED
      BY <3>1, <3>2
  <2>5. s = [ i \in 0 .. k + 1 |-> IF i = 0 THEN F \cap D ELSE WithNext(E, s[i - 1]) ]
    BY <2>4
  <2> HIDE DEF s
  <2>6. Steps(D, E, F, k + 1, s)
    BY <2>5 DEF Steps
  <2>7. QED
    BY <2>6
<1>3. Good = Nat
  <2> HIDE DEF Good
  <2>1. \A k \in Nat : k \in Good => k + 1 \in Good
    BY <1>2
  <2>2. Good \subseteq Nat
    BY DEF Good
  <2>3. QED
    BY <1>1, <2>1, <2>2, UpFromZero
<1>4. QED
  BY <1>3

\* Reached is what the last of the steps comes to.
LEMMA ReachedSteps ==
  ASSUME NEW D, IsFiniteSet(D), NEW E, NEW F
  PROVE  \E r : /\ Cardinality(D) \in Nat /\ Reached(D, E, F) = r[Cardinality(D)]
               /\ r[0] = F \cap D
               /\ \A k \in 1 .. Cardinality(D) : r[k] = WithNext(E, r[k - 1])
<1> DEFINE r == CHOOSE s : Steps(D, E, F, Cardinality(D), s)
<1>1. Cardinality(D) \in Nat
  BY FS_CardinalityType
<1>2. Steps(D, E, F, Cardinality(D), r)
  <2>1. \E s : Steps(D, E, F, Cardinality(D), s)
    BY <1>1, StepsExist
  <2>2. QED
    BY <2>1, Zenon
<1>3. Reached(D, E, F) = r[Cardinality(D)]
  BY Zenon DEF Reached, Steps
<1> HIDE DEF r
<1>4. ASSUME NEW n \in Nat, Steps(D, E, F, n, r)
      PROVE  r[0] = F \cap D /\ \A k \in 1 .. n : r[k] = WithNext(E, r[k - 1])
  <2>1. \A k \in 0 .. n : r[k] = IF k = 0 THEN F \cap D ELSE WithNext(E, r[k - 1])
    BY <1>4 DEF Steps
  <2>2. QED
    BY <2>1
<1>5. QED
  BY <1>1, <1>2, <1>3, <1>4

Closed(E, S) == \A e \in E : e[1] \in S => e[2] \in S

LEMMA ClosedNext ==
  ASSUME NEW E, NEW S
  PROVE  /\ S \subseteq WithNext(E, S)
         /\ WithNext(E, S) = S <=> Closed(E, S)
  BY DEF WithNext, Closed

LEMMA NextWithin ==
  ASSUME NEW E, NEW S, NEW T, Closed(E, T), S \subseteq T
  PROVE  WithNext(E, S) \subseteq T
  BY DEF WithNext, Closed

\* What is reached is the least set of nodes with those in F that no edge leads
\* out of: with each step that finds another node the set gains one.
LEMMA ReachedLeast ==
  ASSUME NEW D, IsFiniteSet(D), NEW E, NEW F, NEW T, Closed(E, T), F \cap D \subseteq T
  PROVE  Reached(D, E, F) \subseteq T
<1>1. PICK r : /\ Cardinality(D) \in Nat /\ Reached(D, E, F) = r[Cardinality(D)]
               /\ r[0] = F \cap D
               /\ \A k \in 1 .. Cardinality(D) : r[k] = WithNext(E, r[k - 1])
  BY ReachedSteps
<1> DEFINE Good == { k \in Nat : k <= Cardinality(D) => r[k] \subseteq T }
<1>2. 0 \in Good
  BY <1>1
<1>3. ASSUME NEW k \in Nat, k \in Good PROVE k + 1 \in Good
  <2>1. CASE k + 1 <= Cardinality(D)
    <3>1. r[k] \subseteq T /\ k + 1 \in 1 .. Cardinality(D) /\ (k + 1) - 1 = k
      BY <1>1, <1>3, <2>1
    <3>2. r[k + 1] = WithNext(E, r[k])
      BY <1>1, <3>1
    <3>3. QED
      BY <3>1, <3>2, NextWithin
  <2>2. QED
    BY <2>1
<1>4. Good = Nat
  <2> HIDE DEF Good
  <2>1. \A k \in Nat : k \in Good => k + 1 \in Good
    BY <1>3
  <2>2. Good \subseteq Nat
    BY DEF Good
  <2>3. QED
    BY <1>2, <2>1, <2>2, UpFromZero
<1>5. QED
  BY <1>1, <1>4

LEMMA ReachedClosed ==
  ASSUME NEW D, IsFiniteSet(D), NEW E, \A e \in E : e[2] \in D, NEW F
  PROVE  /\ Reached(D, E, F) \subseteq D
         /\ F \cap D \subseteq Reached(D, E, F)
         /\ Closed(E, Reached(D, E, F))
<1>1. PICK r : /\ Cardinality(D) \in Nat /\ Reached(D, E, F) = r[Cardinality(D)]
               /\ r[0] = F \cap D
               /\ \A k \in 1 .. Cardinality(D) : r[k] = WithNext(E, r[k - 1])
  BY ReachedSteps
<1>2. Reached(D, E, F) \subseteq D
  <2>1. Closed(E, D) /\ F \cap D \subseteq D
    BY DEF Closed
  <2>2. QED
    BY <2>1, ReachedLeast
<1> DEFINE OK(k) == /\ r[k] \subseteq D /\ F \cap D \subseteq r[k]
                    /\ Closed(E, r[k]) \/ k < Cardinality(r[k])
           Good == { k \in Nat : k <= Cardinality(D) => OK(k) }
<1>3. 0 \in Good
  <2>1. IsFiniteSet(r[0])
    BY <1>1, FS_Subset
  <2>2. CASE r[0] = {}
    BY <1>1, <2>2 DEF Closed
  <2>3. CASE r[0] # {}
    <3>1. Cardinality(r[0]) \in Nat /\ Cardinality(r[0]) # 0
      BY <2>1, <2>3, FS_CardinalityType, FS_EmptySet
    <3>2. 0 < Cardinality(r[0])
      BY <3>1
    <3>3. QED
      BY <1>1, <3>2
  <2>4. QED
    BY <2>2, <2>3
<1>4. ASSUME NEW k \in Nat, k \in Good PROVE k + 1 \in Good
  <2> SUFFICES ASSUME k + 1 <= Cardinality(D) PROVE OK(k + 1)
    OBVIOUS
  <2>1. OK(k) /\ k + 1 \in 1 .. Cardinality(D) /\ (k + 1) - 1 = k
    BY <1>1, <1>4
  <2>2. r[k + 1] = WithNext(E, r[k])
    BY <1>1, <2>1
  <2>3. r[k] \subseteq r[k + 1] /\ (r[k + 1] = r[k] <=> Closed(E, r[k]))
    BY <2>2, ClosedNext
  <2>4. r[k + 1] \subseteq D
    <3>1. Closed(E, D)
      BY DEF Closed
    <3>2. QED
      BY <2>1, <2>2, <3>1, NextWithin
  <2>5. CASE Closed(E, r[k])
    BY <2>1, <2>3, <2>4, <2>5
  <2>6. CASE ~Closed(E, r[k])
    <3>1. IsFiniteSet(r[k + 1]) /\ IsFiniteSet(r[k])
      BY <2>1, <2>4, FS_Subset
    <3>2. Cardinality(r[k]) < Cardinality(r[k + 1])
      <4>1. Cardinality(r[k]) <= Cardinality(r[k + 1])
        BY <2>3, <3>1, FS_Subset
      <4>2. Cardinality(r[k]) # Cardinality(r[k + 1])
        BY <2>3, <2>6, <3>1, FS_Subset
      <4>3. QED
        BY <3>1, <4>1, <4>2, FS_CardinalityType
    <3>3. Cardinality(r[k]) \in Nat /\ Cardinality(r[k + 1]) \in Nat
      BY <3>1, FS_CardinalityType
    <3>4. k + 1 < Cardinality(r[k + 1])
      BY <2>1, <2>6, <3>2, <3>3
    <3>5. QED
      BY <2>1, <2>3, <2>4, <3>4
  <2>7. QED
    BY <2>5, <2>6
<1>5. Good = Nat
  <2> HIDE DEF Good
  <2>1. \A k \in Nat : k \in Good => k + 1 \in Good
    BY <1>4
  <2>2. Good \subseteq Nat
    BY DEF Good
  <2>3. QED
    BY <1>3, <2>1, <2>2, UpFromZero
<1>6. OK(Cardinality(D))
  BY <1>1, <1>5
<1>7. Closed(E, r[Cardinality(D)])
  <2>1. IsFiniteSet(r[Cardinality(D)]) /\ Cardinality(r[Cardinality(D)]) <= Cardinality(D)
    BY <1>6, FS_Subset
  <2>2. QED
    BY <1>1, <1>6, <2>1, FS_CardinalityType
<1>8. QED
  BY <1>1, <1>2, <1>6, <1>7

\* What is reached from what is reached is reached.
LEMMA ReachedOn ==
  ASSUME NEW D, IsFiniteSet(D), NEW E, \A e \in E : e[2] \in D, NEW F, NEW G,
         G \cap D \subseteq Reached(D, E, F)
  PROVE  Reached(D, E, G) \subseteq Reached(D, E, F)
  BY ReachedClosed, ReachedLeast

\* More edges reach no less.
LEMMA ReachedGrows ==
  ASSUME NEW D, IsFiniteSet(D), NEW E, NEW H, \A e \in H : e[2] \in D, E \subseteq H,
         NEW F
  PROVE  Reached(D, E, F) \subseteq Reached(D, H, F)
<1>1. Closed(E, Reached(D, H, F)) /\ F \cap D \subseteq Reached(D, H, F)
  BY ReachedClosed DEF Closed
<1>2. QED
  BY <1>1, ReachedLeast

\* A search that marks nodes: the edges from a set S of nodes stay in S, but for
\* those from marked ones, and from each marked node those of X that it reaches are
\* in S.
Searched(D, E, X, W, S) ==
  /\ S \subseteq D
  /\ \A e \in E : e[1] \in S => e[2] \in S \/ e[1] \in W
  /\ \A w \in W : X \cap Reached(D, E, {w}) \subseteq S

\* Then they are for each node of S.
LEMMA MarkedSearch ==
  ASSUME NEW D, IsFiniteSet(D), NEW E, \A e \in E : e[1] \in D /\ e[2] \in D,
         NEW X, NEW W, NEW S, Searched(D, E, X, W, S), NEW n \in S
  PROVE  X \cap Reached(D, E, {n}) \subseteq S
<1> DEFINE T == S \cup { b \in D : X \cap Reached(D, E, {b}) \subseteq S }
<1>1. Closed(E, T)
  <2> SUFFICES ASSUME NEW e \in E, e[1] \in T, e[2] \notin S
               PROVE  e[2] \in D /\ X \cap Reached(D, E, {e[2]}) \subseteq S
    BY DEF Closed
  <2>1. X \cap Reached(D, E, {e[1]}) \subseteq S
    BY DEF Searched
  <2>2. {e[1]} \cap D \subseteq Reached(D, E, {e[1]}) /\ Closed(E, Reached(D, E, {e[1]}))
    BY ReachedClosed
  <2>3. {e[2]} \cap D \subseteq Reached(D, E, {e[1]})
    BY <2>2 DEF Closed
  <2>4. Reached(D, E, {e[2]}) \subseteq Reached(D, E, {e[1]})
    BY <2>3, ReachedOn
  <2>5. QED
    BY <2>1, <2>4
<1>2. Reached(D, E, {n}) \subseteq T
  <2>1. {n} \cap D \subseteq T
    BY DEF Searched
  <2> HIDE DEF T
  <2>2. QED
    BY <1>1, <2>1, ReachedLeast
<1>3. \A b \in Reached(D, E, {n}) : b \in Reached(D, E, {b})
  BY ReachedClosed
<1>4. QED
  BY <1>2, <1>3

\* A node that no edge leads to is not missed where the search does not begin with it.
LEMMA ReachedWithout ==
  ASSUME NEW D, IsFiniteSet(D), NEW x, NEW E, NEW H, NEW F,
         H \subseteq E, \A e \in E : e[2] \in D \ {x} /\ (e[1] # x => e \in H),
         x \notin F
  PROVE  Reached(D \ {x}, H, F) = Reached(D, E, F)
<1> DEFINE C == D \ {x}
<1>1. IsFiniteSet(C)
  BY FS_Subset
<1>2. /\ F \cap D \subseteq Reached(D, E, F) /\ Closed(E, Reached(D, E, F))
  BY ReachedClosed
<1>3. Closed(H, Reached(D, E, F)) /\ F \cap C \subseteq Reached(D, E, F)
  BY <1>2 DEF Closed
<1>4. \A e \in H : e[2] \in C
  OBVIOUS
<1> HIDE DEF C
<1>5. Reached(C, H, F) \subseteq Reached(D, E, F)
  BY <1>1, <1>3, ReachedLeast
<1>6. /\ Reached(C, H, F) \subseteq C /\ F \cap C \subseteq Reached(C, H, F)
      /\ Closed(H, Reached(C, H, F))
  BY <1>1, <1>4, ReachedClosed
<1>7. Closed(E, Reached(C, H, F)) /\ F \cap D \subseteq Reached(C, H, F)
  BY <1>6 DEF Closed, C
<1>8. Reached(D, E, F) \subseteq Reached(C, H, F)
  BY <1>7, ReachedLeast
<1>9. QED
  BY <1>5, <1>8 DEF C

\* What is reached is reached from one of the nodes.
LEMMA ReachedFromOne ==
  ASSUME NEW D, IsFiniteSet(D), NEW E, \A e \in E : e[2] \in D, NEW F,
         NEW b \in Reached(D, E, F)
  PROVE  \E f \in F : b \in Reached(D, E, {f})
<1> DEFINE T == { c \in D : \E f \in F : c \in Reached(D, E, {f}) }
<1>1. \A f : /\ {f} \cap D \subseteq Reached(D, E, {f})
             /\ Closed(E, Reached(D, E, {f}))
  BY ReachedClosed
<1>2. Closed(E, T) /\ F \cap D \subseteq T
  BY <1>1 DEF Closed
<1> HIDE DEF T
<1>3. Reached(D, E, F) \subseteq T
  BY <1>2, ReachedLeast
<1>4. QED
  BY <1>3 DEF T
=============================================================================
