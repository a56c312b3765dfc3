---------------------------- MODULE Arena_proofs ----------------------------
(***************************************************************************)
(* The memory guarantees of the arena, for every block size, every request *)
(* and every placement operator new may choose.                            *)
(*                                                                         *)
(* RegionsDisjoint is not inductive: bumping is safe only because no       *)
(* region reaches into the free zone [current_, end_), and that zone stays *)
(* inside one owned block, which overlaps no other.  MemoryInv says so.    *)
(* That reset() destroys the youngest object first needs OrderInv: the     *)
(* destructors are registered in the order of the regions, and no two      *)
(* regions share an address, so each call destroys one object only.        *)
(***************************************************************************)
EXTENDS Arena, SequenceTheorems, TLAPS

(* align_ptr rounds up by less than the alignment, to a multiple of it.    *)
LEMMA AlignPtrProperties ==
  ASSUME NEW p \in Nat, NEW a \in Nat \ {0}
  PROVE  /\ AlignPtr(p, a) \in Nat
         /\ p <= AlignPtr(p, a)
         /\ AlignPtr(p, a) <= p + a - 1
         /\ AlignPtr(p, a) % a = 0
<1> DEFINE q == p + a - 1
<1>1. q \in Nat /\ q % a \in 0 .. a - 1
  OBVIOUS
<1>2. (q - (q % a)) % a = 0
  OBVIOUS
<1> QED BY <1>1, <1>2 DEF AlignPtr

LEMMA OrOneProperties ==
  ASSUME NEW n \in Nat
  PROVE  OrOne(n) \in Nat \ {0}
BY DEF OrOne

---------------------------------------------------------------------------

BlocksApart ==
  \A i, j \in DOMAIN blocks_ :
     i # j => Disjoint(blocks_[i].base, blocks_[i].size,
                       blocks_[j].base, blocks_[j].size)

BlocksReal == \A i \in DOMAIN blocks_ : blocks_[i].base > 0

(* Where allocate_raw() bumps: nowhere yet, or the tail of an owned block. *)
OpenBlock ==
  \/ current_ = 0 /\ end_ = 0
  \/ \E j \in DOMAIN blocks_ :
        /\ blocks_[j].base <= current_
        /\ current_ <= end_
        /\ end_ = blocks_[j].base + blocks_[j].size

FreeZoneUnused ==
  \A i \in DOMAIN regions :
     \/ regions[i].addr + regions[i].size <= current_
     \/ end_ <= regions[i].addr

RegionsReal ==
  \A i \in DOMAIN regions : regions[i].size > 0 /\ regions[i].alignment > 0

MemoryInv ==
  /\ BlocksApart /\ BlocksReal /\ OpenBlock /\ FreeZoneUnused /\ RegionsReal
  /\ RegionsOwned /\ RegionsDisjoint /\ RegionsAligned

IInv == TypeOK /\ MemoryInv

LEMMA TypesOfParts ==
  ASSUME TypeOK
  PROVE  /\ DOMAIN blocks_ = 1 .. Len(blocks_) /\ Len(blocks_) \in Nat
         /\ \A i \in DOMAIN blocks_ :
              blocks_[i].base \in Nat /\ blocks_[i].size \in Nat
         /\ DOMAIN regions = 1 .. Len(regions) /\ Len(regions) \in Nat
         /\ \A i \in DOMAIN regions :
              /\ regions[i].addr \in Nat /\ regions[i].size \in Nat
              /\ regions[i].alignment \in Nat
<1>0. blocks_ \in Seq(Block) /\ regions \in Seq(Region)
  BY DEF TypeOK
<1>1. \A i \in 1 .. Len(blocks_) : blocks_[i] \in Block
  BY <1>0, ElementOfSeq
<1>2. \A i \in 1 .. Len(regions) : regions[i] \in Region
  BY <1>0, ElementOfSeq
<1>3. /\ DOMAIN blocks_ = 1 .. Len(blocks_) /\ Len(blocks_) \in Nat
      /\ DOMAIN regions = 1 .. Len(regions) /\ Len(regions) \in Nat
  BY <1>0
<1> QED BY <1>1, <1>2, <1>3 DEF Block, Region

(* What lies in a block is apart from all that the block is apart from.    *)
LEMMA WithinApart ==
  ASSUME NEW x \in Nat, NEW y \in Nat, NEW b \in Nat, NEW n \in Nat,
         NEW p \in Nat, NEW s \in Nat, b <= p, p + s <= b + n
  PROVE  /\ Disjoint(x, y, b, n) => Disjoint(x, y, p, s)
         /\ Disjoint(b, n, x, y) => Disjoint(p, s, x, y)
BY DEF Disjoint

(* A new block overlaps neither the owned blocks nor, therefore, a region. *)
LEMMA NewBlock ==
  ASSUME TypeOK, MemoryInv, NEW n \in Nat \ {0}, NEW b \in FreshBases(n),
         blocks_' = Append(blocks_, [base |-> b, size |-> n])
  PROVE  /\ b \in Nat \ {0}
         /\ blocks_' \in Seq(Block)
         /\ DOMAIN blocks_' = 1 .. Len(blocks_) + 1
         /\ \A i \in DOMAIN blocks_ : blocks_'[i] = blocks_[i]
         /\ blocks_'[Len(blocks_) + 1] = [base |-> b, size |-> n]
         /\ BlocksApart' /\ BlocksReal'
         /\ \A i \in DOMAIN blocks_ :
              Disjoint(b, n, blocks_[i].base, blocks_[i].size)
         /\ \A i \in DOMAIN regions :
              Disjoint(regions[i].addr, regions[i].size, b, n)
<1>0. blocks_ \in Seq(Block)
  BY DEF TypeOK
<1>1. /\ b \in Nat \ {0}
      /\ \A i \in DOMAIN blocks_ :
           Disjoint(b, n, blocks_[i].base, blocks_[i].size)
  BY ArenaAssumption DEF FreshBases
<1>2. [base |-> b, size |-> n] \in Block
  BY <1>1 DEF Block
<1>3. /\ blocks_' \in Seq(Block)
      /\ Len(blocks_') = Len(blocks_) + 1
      /\ \A i \in 1 .. Len(blocks_) : blocks_'[i] = blocks_[i]
      /\ blocks_'[Len(blocks_) + 1] = [base |-> b, size |-> n]
  BY <1>0, <1>2, AppendProperties
<1>4. DOMAIN blocks_' = 1 .. Len(blocks_) + 1
  BY <1>3
<1>5. BlocksReal'
  BY <1>1, <1>3, <1>4, TypesOfParts DEF BlocksReal, MemoryInv
<1>6. BlocksApart'
  <2>1. ASSUME NEW i \in DOMAIN blocks_', NEW j \in DOMAIN blocks_', i # j
        PROVE  Disjoint(blocks_'[i].base, blocks_'[i].size,
                        blocks_'[j].base, blocks_'[j].size)
    <3>1. CASE i \in DOMAIN blocks_ /\ j \in DOMAIN blocks_
      BY <2>1, <3>1, <1>3, TypesOfParts DEF MemoryInv, BlocksApart
    <3>2. CASE i = Len(blocks_) + 1
      <4>1. j \in DOMAIN blocks_
        BY <2>1, <3>2, <1>4, TypesOfParts
      <4> QED BY <3>2, <4>1, <1>1, <1>3, TypesOfParts
    <3>3. CASE j = Len(blocks_) + 1
      <4>1. i \in DOMAIN blocks_
        BY <2>1, <3>3, <1>4, TypesOfParts
      <4> QED BY <3>3, <4>1, <1>1, <1>3, TypesOfParts DEF Disjoint
    <3> QED BY <2>1, <3>1, <3>2, <3>3, <1>4, TypesOfParts
  <2> QED BY <2>1 DEF BlocksApart
<1>7. ASSUME NEW i \in DOMAIN regions
      PROVE  Disjoint(regions[i].addr, regions[i].size, b, n)
  <2>1. PICK j \in DOMAIN blocks_ : InBlock(regions[i], blocks_[j])
    BY <1>7 DEF MemoryInv, RegionsOwned
  <2> DEFINE addr == regions[i].addr
             size == regions[i].size
             base == blocks_[j].base
             length == blocks_[j].size
  <2>2. /\ addr \in Nat /\ size \in Nat /\ base \in Nat /\ length \in Nat
        /\ b \in Nat /\ n \in Nat
    BY <1>1, <1>7, <2>1, TypesOfParts
  <2>3. Disjoint(b, n, base, length)
    BY <1>1
  <2>4. base <= addr /\ addr + size <= base + length
    BY <2>1 DEF InBlock
  <2> HIDE DEF addr, size, base, length
  <2>5. Disjoint(addr, size, b, n)
    BY <2>2, <2>3, <2>4 DEF Disjoint
  <2> QED BY <2>5 DEF addr, size
<1> QED BY <1>1, <1>3, <1>4, <1>5, <1>6, <1>7, TypesOfParts

(* What one request does to the memory, whichever branch serves it: the    *)
(* region it hands out lies in an owned block and in none of the others.   *)
LEMMA ServeProperties ==
  ASSUME IInv, NEW s \in Nat \ {0}, NEW a \in Nat \ {0}, NEW p, Serve(s, a, p)
  PROVE  /\ p \in Nat /\ p % a = 0
         /\ blocks_' \in Seq(Block)
         /\ end_' \in Nat /\ current_' \in 0 .. end_'
         /\ DOMAIN blocks_ \subseteq DOMAIN blocks_'
         /\ \A i \in DOMAIN blocks_ : blocks_'[i] = blocks_[i]
         /\ BlocksApart' /\ BlocksReal' /\ OpenBlock'
         /\ \E j \in DOMAIN blocks_' :
              blocks_'[j].base <= p /\ p + s <= blocks_'[j].base + blocks_'[j].size
         /\ p + s <= current_' \/ end_' <= p
         /\ \A i \in DOMAIN regions :
              /\ \/ regions[i].addr + regions[i].size <= current_'
                 \/ end_' <= regions[i].addr
              /\ Disjoint(regions[i].addr, regions[i].size, p, s)
<1>0. /\ TypeOK /\ MemoryInv
      /\ blocks_ \in Seq(Block) /\ end_ \in Nat /\ current_ \in 0 .. end_
      /\ BLOCK_SIZE \in Nat \ {0}
  BY ArenaAssumption DEF IInv, TypeOK
<1>t. /\ DOMAIN blocks_ = 1 .. Len(blocks_) /\ Len(blocks_) \in Nat
      /\ \A i \in DOMAIN blocks_ :
           blocks_[i].base \in Nat /\ blocks_[i].size \in Nat
      /\ \A i \in DOMAIN regions :
           regions[i].addr \in Nat /\ regions[i].size \in Nat
  BY <1>0, TypesOfParts
<1>1. CASE Dedicated(s, a, p)
  <2> DEFINE n == s + a - 1
  <2>1. PICK b \in FreshBases(n) :
          p = AlignPtr(b, a) /\ blocks_' = Append(blocks_, [base |-> b, size |-> n])
    BY <1>1 DEF Dedicated
  <2>2. n \in Nat \ {0} /\ UNCHANGED <<current_, end_>>
    BY <1>1 DEF Dedicated
  <2> HIDE DEF n
  <2>3. /\ b \in Nat \ {0}
        /\ blocks_' \in Seq(Block)
        /\ DOMAIN blocks_' = 1 .. Len(blocks_) + 1
        /\ \A i \in DOMAIN blocks_ : blocks_'[i] = blocks_[i]
        /\ blocks_'[Len(blocks_) + 1] = [base |-> b, size |-> n]
        /\ BlocksApart' /\ BlocksReal'
        /\ \A i \in DOMAIN blocks_ :
             Disjoint(b, n, blocks_[i].base, blocks_[i].size)
        /\ \A i \in DOMAIN regions :
             Disjoint(regions[i].addr, regions[i].size, b, n)
    BY <1>0, <2>1, <2>2, NewBlock
  <2>4. p \in Nat /\ b <= p /\ p <= b + a - 1 /\ p % a = 0
    BY <2>1, <2>3, AlignPtrProperties
  <2>5. b <= p /\ p + s <= b + n
    BY <2>3, <2>4 DEF n
  <2>6. OpenBlock'
    BY <1>0, <1>t, <2>2, <2>3 DEF OpenBlock, MemoryInv
  <2>7. p + s <= current_' \/ end_' <= p
    <3>1. CASE current_ = 0 /\ end_ = 0
      BY <3>1, <2>2, <2>4
    <3>2. CASE \E j \in DOMAIN blocks_ :
                 /\ blocks_[j].base <= current_
                 /\ current_ <= end_
                 /\ end_ = blocks_[j].base + blocks_[j].size
      <4>1. PICK j \in DOMAIN blocks_ :
              blocks_[j].base <= current_ /\ end_ = blocks_[j].base + blocks_[j].size
        BY <3>2
      <4>2. b + n <= blocks_[j].base \/ end_ <= b
        BY <2>3, <4>1 DEF Disjoint
      <4> DEFINE base == blocks_[j].base
      <4>3. /\ base \in Nat /\ n \in Nat /\ b \in Nat
            /\ current_ \in Nat /\ base <= current_
            /\ b + n <= base \/ end_ <= b
        BY <1>0, <1>t, <2>2, <2>3, <4>1, <4>2
      <4> HIDE DEF base
      <4>4. p + s <= current_ \/ end_ <= p
        BY <1>0, <2>4, <2>5, <4>3
      <4> QED BY <2>2, <4>4
    <3> QED BY <1>0, <3>1, <3>2 DEF MemoryInv, OpenBlock
  <2>8. \A i \in DOMAIN regions :
          /\ \/ regions[i].addr + regions[i].size <= current_'
             \/ end_' <= regions[i].addr
          /\ Disjoint(regions[i].addr, regions[i].size, p, s)
    <3>1. ASSUME NEW i \in DOMAIN regions
          PROVE  Disjoint(regions[i].addr, regions[i].size, p, s)
      <4>1. /\ Disjoint(regions[i].addr, regions[i].size, b, n)
            /\ regions[i].addr \in Nat /\ regions[i].size \in Nat
            /\ b \in Nat /\ n \in Nat
        BY <1>t, <2>2, <2>3
      <4> QED BY <4>1, <2>4, <2>5, <1>0, WithinApart
    <3> QED BY <1>0, <2>2, <3>1 DEF MemoryInv, FreeZoneUnused
  <2>9. \E j \in DOMAIN blocks_' :
          blocks_'[j].base <= p /\ p + s <= blocks_'[j].base + blocks_'[j].size
    BY <1>t, <2>3, <2>5
  <2> QED BY <1>0, <1>t, <2>2, <2>3, <2>4, <2>6, <2>7, <2>8, <2>9
<1>2. CASE Bump(s, a, p)
  <2>1. /\ p = AlignPtr(current_, a) /\ p < end_ /\ s <= end_ - p
        /\ current_' = p + s
        /\ UNCHANGED <<blocks_, end_>>
    BY <1>2 DEF Bump, Fits
  <2>2. p \in Nat /\ current_ <= p /\ p % a = 0
    BY <1>0, <2>1, AlignPtrProperties
  <2>3. PICK j \in DOMAIN blocks_ :
          /\ blocks_[j].base <= current_
          /\ end_ = blocks_[j].base + blocks_[j].size
    BY <1>0, <2>1, <2>2 DEF MemoryInv, OpenBlock
  <2>4. current_' <= end_'
    BY <1>0, <2>1, <2>2
  <2>5. BlocksApart' /\ BlocksReal'
    BY <1>0, <2>1 DEF MemoryInv, BlocksApart, BlocksReal
  <2>6. OpenBlock'
    <3>1. blocks_[j].base <= current_'
      BY <1>0, <1>t, <2>1, <2>2, <2>3
    <3> QED BY <2>1, <2>3, <2>4, <3>1 DEF OpenBlock
  <2>7. ASSUME NEW i \in DOMAIN regions
        PROVE  /\ \/ regions[i].addr + regions[i].size <= current_'
                  \/ end_' <= regions[i].addr
               /\ Disjoint(regions[i].addr, regions[i].size, p, s)
    <3>1. /\ regions[i].addr \in Nat /\ regions[i].size \in Nat
          /\ \/ regions[i].addr + regions[i].size <= current_
             \/ end_ <= regions[i].addr
      BY <1>0, <1>t DEF MemoryInv, FreeZoneUnused
    <3>2. /\ current_ \in Nat /\ current_ <= p /\ p \in Nat
          /\ end_ \in Nat /\ p + s <= end_
      BY <1>0, <2>1, <2>2
    <3> DEFINE x == regions[i].addr
               y == regions[i].size
    <3> HIDE DEF x, y
    <3>3. /\ x + y <= p + s \/ end_ <= x
          /\ x + y <= p \/ p + s <= x
      BY <3>1, <3>2 DEF x, y
    <3> QED BY <2>1, <3>3 DEF Disjoint, x, y
  <2>8. blocks_[j].base <= p /\ p + s <= blocks_[j].base + blocks_[j].size
    <3> DEFINE base == blocks_[j].base
               size == blocks_[j].size
    <3>1. base \in Nat /\ base <= current_ /\ end_ = base + size
      BY <1>t, <2>3
    <3>2. current_ \in Nat /\ end_ \in Nat /\ size \in Nat
      BY <1>0, <1>t, <2>3
    <3> HIDE DEF base, size
    <3>3. base <= p /\ p + s <= base + size
      BY <3>1, <3>2, <2>1, <2>2
    <3> QED BY <3>3 DEF base, size
  <2>9. \E k \in DOMAIN blocks_' :
          blocks_'[k].base <= p /\ p + s <= blocks_'[k].base + blocks_'[k].size
    BY <2>1, <2>8
  <2>10. /\ blocks_' \in Seq(Block)
         /\ end_' \in Nat /\ current_' \in 0 .. end_'
         /\ p + s <= current_' \/ end_' <= p
    BY <1>0, <2>1, <2>2, <2>4
  <2> QED BY <2>1, <2>2, <2>5, <2>6, <2>7, <2>9, <2>10
<1>3. CASE FreshBlock(s, a, p)
  <2>1. PICK b \in FreshBases(BLOCK_SIZE) :
          /\ p = AlignPtr(b, a)
          /\ blocks_' = Append(blocks_, [base |-> b, size |-> BLOCK_SIZE])
          /\ end_' = b + BLOCK_SIZE
          /\ current_' = p + s
    BY <1>3 DEF FreshBlock
  <2>2. s + a - 1 <= BLOCK_SIZE
    BY <1>3 DEF FreshBlock
  <2>3. /\ b \in Nat \ {0}
        /\ blocks_' \in Seq(Block)
        /\ DOMAIN blocks_' = 1 .. Len(blocks_) + 1
        /\ \A i \in DOMAIN blocks_ : blocks_'[i] = blocks_[i]
        /\ blocks_'[Len(blocks_) + 1] = [base |-> b, size |-> BLOCK_SIZE]
        /\ BlocksApart' /\ BlocksReal'
        /\ \A i \in DOMAIN regions :
             Disjoint(regions[i].addr, regions[i].size, b, BLOCK_SIZE)
    BY <1>0, <2>1, NewBlock
  <2>4. p \in Nat /\ b <= p /\ p <= b + a - 1 /\ p % a = 0
    BY <2>1, <2>3, AlignPtrProperties
  <2>5. p + s <= b + BLOCK_SIZE
    BY <1>0, <2>2, <2>3, <2>4
  <2>6. OpenBlock' /\ \E j \in DOMAIN blocks_' :
          blocks_'[j].base <= p /\ p + s <= blocks_'[j].base + blocks_'[j].size
    <3> DEFINE l == Len(blocks_) + 1
    <3>1. l \in DOMAIN blocks_'
      BY <1>t, <2>3
    <3>2. blocks_'[l].base = b /\ blocks_'[l].size = BLOCK_SIZE
      BY <2>3
    <3>3. b <= current_' /\ current_' <= end_' /\ end_' = b + BLOCK_SIZE
      BY <1>0, <2>1, <2>3, <2>4, <2>5
    <3> HIDE DEF l
    <3> QED BY <2>4, <2>5, <3>1, <3>2, <3>3 DEF OpenBlock
  <2>7. ASSUME NEW i \in DOMAIN regions
        PROVE  /\ \/ regions[i].addr + regions[i].size <= current_'
                  \/ end_' <= regions[i].addr
               /\ Disjoint(regions[i].addr, regions[i].size, p, s)
    <3> DEFINE x == regions[i].addr
               y == regions[i].size
    <3>1. /\ x \in Nat /\ y \in Nat
          /\ x + y <= b \/ b + BLOCK_SIZE <= x
      BY <1>t, <2>3, <2>7 DEF Disjoint
    <3>2. b \in Nat /\ b <= p /\ p \in Nat /\ p + s <= b + BLOCK_SIZE
      BY <2>3, <2>4, <2>5
    <3> HIDE DEF x, y
    <3>3. /\ x + y <= p + s \/ b + BLOCK_SIZE <= x
          /\ x + y <= p \/ p + s <= x
      BY <1>0, <3>1, <3>2
    <3> QED BY <2>1, <3>3 DEF Disjoint, x, y
  <2>8. end_' \in Nat /\ current_' \in 0 .. end_' /\ p + s <= current_'
    <3>1. b \in Nat /\ BLOCK_SIZE \in Nat /\ s \in Nat /\ p \in Nat
      BY <2>3, <2>4, ArenaAssumption
    <3> QED BY <2>1, <2>5, <3>1
  <2>9. DOMAIN blocks_ \subseteq DOMAIN blocks_'
    BY <1>t, <2>3
  <2> QED BY <2>3, <2>4, <2>6, <2>7, <2>8, <2>9
<1> QED BY <1>1, <1>2, <1>3 DEF Serve

(* Handing the region out preserves the invariant.                         *)
LEMMA HandOutPreserves ==
  ASSUME IInv, NEW s \in Nat \ {0}, NEW a \in Nat \ {0}, NEW p,
         Serve(s, a, p), HandOut(p, s, a)
  PROVE  /\ MemoryInv'
         /\ regions' \in Seq(Region) /\ Len(regions') = Len(regions) + 1
         /\ blocks_' \in Seq(Block) /\ end_' \in Nat /\ current_' \in 0 .. end_'
         /\ p \in Nat
<1> DEFINE r == [addr |-> p, size |-> s, alignment |-> a]
<1>1. /\ p \in Nat /\ p % a = 0
      /\ blocks_' \in Seq(Block)
      /\ end_' \in Nat /\ current_' \in 0 .. end_'
      /\ DOMAIN blocks_ \subseteq DOMAIN blocks_'
      /\ \A i \in DOMAIN blocks_ : blocks_'[i] = blocks_[i]
      /\ BlocksApart' /\ BlocksReal' /\ OpenBlock'
      /\ \E j \in DOMAIN blocks_' :
           blocks_'[j].base <= p /\ p + s <= blocks_'[j].base + blocks_'[j].size
      /\ p + s <= current_' \/ end_' <= p
      /\ \A i \in DOMAIN regions :
           /\ \/ regions[i].addr + regions[i].size <= current_'
              \/ end_' <= regions[i].addr
           /\ Disjoint(regions[i].addr, regions[i].size, p, s)
  BY ServeProperties
<1>2. r \in Region /\ regions \in Seq(Region) /\ regions' = Append(regions, r)
  BY <1>1 DEF Region, IInv, TypeOK, HandOut
<1>3. /\ regions' \in Seq(Region)
      /\ Len(regions') = Len(regions) + 1
      /\ \A i \in 1 .. Len(regions) : regions'[i] = regions[i]
      /\ regions'[Len(regions) + 1] = r
  <2> HIDE DEF r
  <2> QED BY <1>2, AppendProperties
<1>4. /\ DOMAIN regions' = DOMAIN regions \cup {Len(regions) + 1}
      /\ DOMAIN regions = 1 .. Len(regions) /\ Len(regions) \in Nat
  BY <1>2, <1>3
<1>t. \A i \in DOMAIN regions :
        regions[i].addr \in Nat /\ regions[i].size \in Nat
  BY TypesOfParts DEF IInv
<1>5. RegionsReal' /\ RegionsAligned'
  BY <1>1, <1>3, <1>4 DEF IInv, MemoryInv, RegionsReal, RegionsAligned
<1>6. FreeZoneUnused'
  BY <1>1, <1>3, <1>4 DEF FreeZoneUnused
<1>7. RegionsOwned'
  <2>1. ASSUME NEW i \in DOMAIN regions
        PROVE  \E j \in DOMAIN blocks_' : InBlock(regions'[i], blocks_'[j])
    <3>1. PICK j \in DOMAIN blocks_ : InBlock(regions[i], blocks_[j])
      BY DEF IInv, MemoryInv, RegionsOwned
    <3> QED BY <1>1, <1>3, <1>4, <2>1, <3>1
  <2>2. \E j \in DOMAIN blocks_' : InBlock(regions'[Len(regions) + 1], blocks_'[j])
    BY <1>1, <1>3 DEF InBlock
  <2> QED BY <1>4, <2>1, <2>2 DEF RegionsOwned
<1>8. RegionsDisjoint'
  <2>1. ASSUME NEW i \in DOMAIN regions', NEW j \in DOMAIN regions', i # j
        PROVE  Disjoint(regions'[i].addr, regions'[i].size,
                        regions'[j].addr, regions'[j].size)
    <3>1. CASE i \in DOMAIN regions /\ j \in DOMAIN regions
      BY <2>1, <3>1, <1>3, <1>4 DEF IInv, MemoryInv, RegionsDisjoint
    <3>2. CASE i = Len(regions) + 1 /\ j \in DOMAIN regions
      <4>1. Disjoint(regions[j].addr, regions[j].size, p, s)
        BY <3>2, <1>1
      <4>2. regions'[i] = r /\ regions'[j] = regions[j]
        BY <3>2, <1>3, <1>4
      <4> QED BY <4>1, <4>2 DEF Disjoint
    <3>3. CASE j = Len(regions) + 1 /\ i \in DOMAIN regions
      BY <3>3, <1>1, <1>3, <1>4, <1>t
    <3> QED BY <2>1, <3>1, <3>2, <3>3, <1>4
  <2> QED BY <2>1 DEF RegionsDisjoint
<1> QED BY <1>1, <1>3, <1>5, <1>6, <1>7, <1>8 DEF MemoryInv

LEMMA InvInit == Init => IInv
BY DEF Init, IInv, TypeOK, MemoryInv, BlocksApart, BlocksReal, OpenBlock,
       FreeZoneUnused, RegionsReal, RegionsOwned, RegionsDisjoint, RegionsAligned

LEMMA InvStep == IInv /\ [Next]_vars => IInv'
<1> SUFFICES ASSUME IInv, [Next]_vars PROVE IInv'
  OBVIOUS
<1>0. TypeOK /\ MemoryInv /\ Len(destructors_) \in Nat
  BY DEF IInv, TypeOK
<1>1. ASSUME NEW size \in Size, NEW al \in Alignment, AllocateRaw(size, al)
      PROVE  IInv'
  <2>1. OrOne(size) \in Nat \ {0} /\ OrOne(al) \in Nat \ {0}
    BY ArenaAssumption, OrOneProperties
  <2>2. PICK p : Serve(OrOne(size), OrOne(al), p) /\ HandOut(p, OrOne(size), OrOne(al))
    BY <1>1 DEF AllocateRaw
  <2>3. /\ MemoryInv' /\ regions' \in Seq(Region)
        /\ blocks_' \in Seq(Block) /\ end_' \in Nat /\ current_' \in 0 .. end_'
    BY <2>1, <2>2, HandOutPreserves
  <2>4. UNCHANGED <<destructors_, cursor, alive>>
    BY <1>1 DEF AllocateRaw
  <2> QED BY <1>0, <2>3, <2>4 DEF IInv, TypeOK
<1>2. ASSUME NEW size \in Size, NEW al \in Alignment, Allocate(size, al)
      PROVE  IInv'
  <2>1. OrOne(size) \in Nat \ {0} /\ OrOne(al) \in Nat \ {0}
    BY ArenaAssumption, OrOneProperties
  <2>2. PICK p : /\ Serve(OrOne(size), OrOne(al), p)
                 /\ HandOut(p, OrOne(size), OrOne(al))
                 /\ destructors_' = Append(destructors_, p)
                 /\ alive' = alive \cup {Len(regions')}
    BY <1>2 DEF Allocate
  <2>3. /\ MemoryInv' /\ regions' \in Seq(Region)
        /\ blocks_' \in Seq(Block) /\ end_' \in Nat /\ current_' \in 0 .. end_'
        /\ p \in Nat
    BY <2>1, <2>2, HandOutPreserves
  <2>4. destructors_' \in Seq(Nat) /\ Len(destructors_') = Len(destructors_) + 1
    BY <1>0, <2>2, <2>3, AppendProperties DEF TypeOK
  <2>5. cursor' = cursor /\ Len(regions') \in Nat
    BY <1>2, <2>3 DEF Allocate
  <2>6. cursor' \in -1 .. Len(destructors_')
    BY <1>0, <2>4, <2>5 DEF TypeOK
  <2>7. alive' \subseteq Nat
    BY <1>0, <2>2, <2>5 DEF TypeOK
  <2> QED BY <2>3, <2>4, <2>6, <2>7 DEF IInv, TypeOK
<1>3. CASE BeginReset \/ Destroy
  <2>1. UNCHANGED <<blocks_, current_, end_, regions, destructors_>>
    BY <1>3 DEF BeginReset, Destroy
  <2>2. MemoryInv'
    BY <1>0, <2>1 DEF MemoryInv, BlocksApart, BlocksReal, OpenBlock,
       FreeZoneUnused, RegionsReal, RegionsOwned, RegionsDisjoint, RegionsAligned
  <2>3. alive' \subseteq Nat
    BY <1>0, <1>3 DEF TypeOK, BeginReset, Destroy, StillAlive
  <2>4. cursor' \in -1 .. Len(destructors_)
    BY <1>0, <1>3 DEF TypeOK, BeginReset, Destroy
  <2>5. TypeOK'
    BY <1>0, <2>1, <2>3, <2>4 DEF TypeOK
  <2> QED BY <2>2, <2>5 DEF IInv
<1>4. CASE Release
  BY <1>0, <1>4 DEF IInv, Release, TypeOK, MemoryInv, BlocksApart, BlocksReal,
     OpenBlock, FreeZoneUnused, RegionsReal, RegionsOwned, RegionsDisjoint,
     RegionsAligned
<1>5. CASE UNCHANGED vars
  BY <1>0, <1>5 DEF vars, IInv, TypeOK, MemoryInv, BlocksApart, BlocksReal,
     OpenBlock, FreeZoneUnused, RegionsReal, RegionsOwned, RegionsDisjoint,
     RegionsAligned, InBlock
<1> QED BY <1>1, <1>2, <1>3, <1>4, <1>5 DEF Next

LEMMA Invariance == Spec => []IInv
BY InvInit, InvStep, PTL DEF Spec

(* Types hold; in particular the bump pointer never passes the end of its  *)
(* block, so end_ - ptr in arena.cpp:36 is only formed when it is not      *)
(* negative.                                                               *)
THEOREM ArenaTypeCorrect == Spec => []TypeOK
BY Invariance, PTL DEF IInv

(* Pointers stay inside memory the arena owns until reset().               *)
THEOREM ArenaRegionsOwned == Spec => []RegionsOwned
BY Invariance, PTL DEF IInv, MemoryInv

(* Pointers handed out never overlap.                                      *)
THEOREM ArenaRegionsDisjoint == Spec => []RegionsDisjoint
BY Invariance, PTL DEF IInv, MemoryInv

(* Pointers handed out are aligned as asked.                               *)
THEOREM ArenaRegionsAligned == Spec => []RegionsAligned
BY Invariance, PTL DEF IInv, MemoryInv

---------------------------------------------------------------------------
(* The order of destruction.  h gives each registered destructor the       *)
(* position of its region; it increases, because a destructor is           *)
(* registered with its region, and the first n of them are the objects     *)
(* alive.                                                                  *)

Order(h, ds, rs, living, n) ==
  /\ h \in Seq(Nat) /\ Len(h) = Len(ds)
  /\ \A j \in 1 .. Len(ds) : h[j] \in DOMAIN rs /\ rs[h[j]].addr = ds[j]
  /\ \A j, k \in 1 .. Len(ds) : j < k => h[j] < h[k]
  /\ living = {h[j] : j \in 1 .. n}

StillToRun == IF cursor = -1 THEN Len(destructors_) ELSE cursor

OrderInv == \E h : Order(h, destructors_, regions, alive, StillToRun)

(* Every allocation adds one region to the ones that are there.            *)
LEMMA RegionsGrow ==
  ASSUME IInv, NEW s \in Nat \ {0}, NEW a \in Nat \ {0}, NEW p,
         Serve(s, a, p), HandOut(p, s, a)
  PROVE  /\ p \in Nat
         /\ Len(regions) \in Nat /\ DOMAIN regions = 1 .. Len(regions)
         /\ Len(regions') = Len(regions) + 1
         /\ DOMAIN regions' = 1 .. Len(regions) + 1
         /\ \A i \in DOMAIN regions : regions'[i] = regions[i]
         /\ regions'[Len(regions) + 1].addr = p
<1> DEFINE r == [addr |-> p, size |-> s, alignment |-> a]
<1>1. p \in Nat
  BY ServeProperties
<1>2. r \in Region /\ regions \in Seq(Region) /\ regions' = Append(regions, r)
  BY <1>1 DEF Region, IInv, TypeOK, HandOut
<1>3. r.addr = p
  OBVIOUS
<1> HIDE DEF r
<1>4. /\ Len(regions') = Len(regions) + 1
      /\ \A i \in 1 .. Len(regions) : regions'[i] = regions[i]
      /\ regions'[Len(regions) + 1] = r
      /\ regions' \in Seq(Region)
  BY <1>2, AppendProperties
<1> QED BY <1>1, <1>2, <1>3, <1>4

(* Two regions at one address would overlap.                               *)
LEMMA AddressesDiffer ==
  ASSUME IInv, NEW i \in DOMAIN regions, NEW j \in DOMAIN regions,
         regions[i].addr = regions[j].addr
  PROVE  i = j
<1>1. /\ regions[i].addr \in Nat /\ regions[i].size \in Nat /\ regions[i].size > 0
      /\ regions[j].addr \in Nat /\ regions[j].size \in Nat /\ regions[j].size > 0
  BY TypesOfParts DEF IInv, MemoryInv, RegionsReal
<1>2. i # j => Disjoint(regions[i].addr, regions[i].size,
                        regions[j].addr, regions[j].size)
  BY DEF IInv, MemoryInv, RegionsDisjoint
<1> QED BY <1>1, <1>2 DEF Disjoint

(* The destructor reset() calls next belongs to the youngest object alive. *)
LEMMA DestroyYoungest ==
  ASSUME IInv, NEW h, Order(h, destructors_, regions, alive, cursor), Destroy
  PROVE  /\ h[cursor] \in alive
         /\ alive' = alive \ {h[cursor]}
         /\ alive' = {h[j] : j \in 1 .. cursor - 1}
         /\ \A i \in alive' : i < h[cursor]
<1>1. /\ cursor \in 1 .. Len(destructors_) /\ Len(destructors_) \in Nat
      /\ alive' = {i \in alive : regions[i].addr # destructors_[cursor]}
  BY DEF IInv, TypeOK, Destroy, StillAlive, NextDestructor
<1>2. /\ alive = {h[j] : j \in 1 .. cursor}
      /\ \A j \in 1 .. cursor :
           h[j] \in DOMAIN regions /\ regions[h[j]].addr = destructors_[j]
      /\ \A j \in 1 .. cursor - 1 : h[j] < h[cursor]
      /\ \A j \in 1 .. cursor : h[j] \in Nat
  BY <1>1 DEF Order
<1>3. ASSUME NEW i \in alive
      PROVE  regions[i].addr = destructors_[cursor] <=> i = h[cursor]
  BY <1>1, <1>2, <1>3, AddressesDiffer
<1>4. h[cursor] \in alive /\ alive' = alive \ {h[cursor]}
  BY <1>1, <1>2, <1>3
<1>5. \A j \in 1 .. cursor : j = cursor \/ j \in 1 .. cursor - 1
  BY <1>1
<1>6. \A j \in 1 .. cursor - 1 : j \in 1 .. cursor /\ h[j] # h[cursor]
  BY <1>1, <1>2
<1>7. alive' = {h[j] : j \in 1 .. cursor - 1}
  BY <1>2, <1>4, <1>5, <1>6
<1> QED BY <1>2, <1>4, <1>7

LEMMA OrderInit == Init => OrderInv
<1> SUFFICES ASSUME Init PROVE Order(<<>>, destructors_, regions, alive, StillToRun)
  BY DEF OrderInv
<1> QED BY DEF Init, Order, StillToRun

LEMMA OrderStep == IInv /\ OrderInv /\ [Next]_vars => OrderInv'
<1> SUFFICES ASSUME IInv, OrderInv, [Next]_vars PROVE OrderInv'
  OBVIOUS
<1>0. PICK h : Order(h, destructors_, regions, alive, StillToRun)
  BY DEF OrderInv
<1>t. /\ destructors_ \in Seq(Nat) /\ Len(destructors_) \in Nat
      /\ cursor \in -1 .. Len(destructors_)
  BY DEF IInv, TypeOK
<1>1. ASSUME NEW size \in Size, NEW al \in Alignment, AllocateRaw(size, al)
      PROVE  OrderInv'
  <2>1. OrOne(size) \in Nat \ {0} /\ OrOne(al) \in Nat \ {0}
    BY ArenaAssumption, OrOneProperties
  <2>2. PICK p : Serve(OrOne(size), OrOne(al), p) /\ HandOut(p, OrOne(size), OrOne(al))
    BY <1>1 DEF AllocateRaw
  <2>3. /\ DOMAIN regions \subseteq DOMAIN regions'
        /\ \A i \in DOMAIN regions : regions'[i] = regions[i]
    BY <2>1, <2>2, RegionsGrow
  <2>4. UNCHANGED <<destructors_, cursor, alive>>
    BY <1>1 DEF AllocateRaw
  <2>5. Order(h, destructors_', regions', alive', StillToRun')
    BY <1>0, <2>3, <2>4 DEF Order, StillToRun
  <2> QED BY <2>5 DEF OrderInv
<1>2. ASSUME NEW size \in Size, NEW al \in Alignment, Allocate(size, al)
      PROVE  OrderInv'
  <2>1. OrOne(size) \in Nat \ {0} /\ OrOne(al) \in Nat \ {0}
    BY ArenaAssumption, OrOneProperties
  <2>2. PICK p : /\ Serve(OrOne(size), OrOne(al), p)
                 /\ HandOut(p, OrOne(size), OrOne(al))
                 /\ destructors_' = Append(destructors_, p)
                 /\ alive' = alive \cup {Len(regions')}
    BY <1>2 DEF Allocate
  <2>3. /\ p \in Nat
        /\ Len(regions) \in Nat /\ DOMAIN regions = 1 .. Len(regions)
        /\ Len(regions') = Len(regions) + 1
        /\ DOMAIN regions' = 1 .. Len(regions) + 1
        /\ \A i \in DOMAIN regions : regions'[i] = regions[i]
        /\ regions'[Len(regions) + 1].addr = p
    BY <2>1, <2>2, RegionsGrow
  <2>4. cursor = -1 /\ cursor' = -1
    BY <1>2 DEF Allocate, InUse
  <2> DEFINE r == Len(regions) + 1
             n == Len(destructors_)
             g == Append(h, r)
  <2>5. /\ h \in Seq(Nat) /\ Len(h) = n
        /\ \A j \in 1 .. n : /\ h[j] \in DOMAIN regions
                             /\ regions[h[j]].addr = destructors_[j]
        /\ \A j, k \in 1 .. n : j < k => h[j] < h[k]
        /\ alive = {h[j] : j \in 1 .. n}
    BY <1>0, <2>4 DEF Order, StillToRun
  <2>6. /\ g \in Seq(Nat) /\ Len(g) = n + 1
        /\ \A j \in 1 .. n : g[j] = h[j]
        /\ g[n + 1] = r
    <3> HIDE DEF r
    <3>1. r \in Nat
      BY <2>3 DEF r
    <3> QED BY <2>5, <3>1, AppendProperties
  <2>7. /\ Len(destructors_') = n + 1
        /\ \A j \in 1 .. n : destructors_'[j] = destructors_[j]
        /\ destructors_'[n + 1] = p
    BY <1>t, <2>2, <2>3, AppendProperties
  <2>r. r \in DOMAIN regions' /\ regions'[r].addr = p /\ Len(regions') = r
        /\ \A i \in DOMAIN regions : i < r /\ i \in DOMAIN regions'
    BY <2>3
  <2> HIDE DEF g, r, n
  <2>n. n \in Nat /\ \A j \in 1 .. n + 1 : j = n + 1 \/ j \in 1 .. n
    BY <1>t DEF n
  <2>8. \A j \in 1 .. n + 1 : /\ g[j] \in DOMAIN regions'
                             /\ regions'[g[j]].addr = destructors_'[j]
    BY <2>3, <2>5, <2>6, <2>7, <2>r, <2>n
  <2>9. \A j, k \in 1 .. n + 1 : j < k => g[j] < g[k]
    <3> SUFFICES ASSUME NEW j \in 1 .. n + 1, NEW k \in 1 .. n + 1, j < k
                 PROVE  g[j] < g[k]
      OBVIOUS
    <3>1. j \in 1 .. n
      BY <2>n
    <3>2. CASE k \in 1 .. n
      BY <2>5, <2>6, <3>1, <3>2
    <3>3. CASE k = n + 1
      BY <2>5, <2>6, <2>r, <3>1, <3>3
    <3> QED BY <2>n, <3>2, <3>3
  <2>10. alive' = {g[j] : j \in 1 .. n + 1}
    <3>1. alive' = {h[j] : j \in 1 .. n} \cup {r}
      BY <2>2, <2>5, <2>r
    <3>2. {g[j] : j \in 1 .. n + 1} = {g[j] : j \in 1 .. n} \cup {g[n + 1]}
      BY <2>n
    <3>3. {g[j] : j \in 1 .. n} = {h[j] : j \in 1 .. n}
      BY <2>6
    <3> QED BY <2>6, <3>1, <3>2, <3>3
  <2>11. Order(g, destructors_', regions', alive', n + 1)
    BY <2>6, <2>7, <2>8, <2>9, <2>10 DEF Order
  <2>12. StillToRun' = n + 1
    BY <2>4, <2>7 DEF StillToRun
  <2> QED BY <2>11, <2>12 DEF OrderInv
<1>3. CASE BeginReset
  <2>1. /\ StillToRun' = StillToRun
        /\ UNCHANGED <<destructors_, regions, alive>>
    BY <1>t, <1>3 DEF BeginReset, InUse, StillToRun
  <2> QED BY <1>0, <2>1 DEF OrderInv
<1>4. CASE Destroy
  <2>1. StillToRun = cursor /\ StillToRun' = cursor - 1 /\ cursor \in Nat \ {0}
        /\ UNCHANGED <<destructors_, regions>>
    BY <1>t, <1>4 DEF Destroy, StillToRun
  <2>2. alive' = {h[j] : j \in 1 .. cursor - 1}
    BY <1>0, <1>4, <2>1, DestroyYoungest
  <2>3. Order(h, destructors_', regions', alive', cursor - 1)
    BY <1>0, <2>1, <2>2 DEF Order
  <2> QED BY <2>1, <2>3 DEF OrderInv
<1>5. CASE Release
  <2>1. StillToRun = 0 /\ StillToRun' = 0 /\ destructors_' = <<>> /\ alive' = alive
    BY <1>5 DEF Release, StillToRun
  <2>2. alive' = {}
    BY <1>0, <2>1 DEF Order
  <2>3. Order(<<>>, destructors_', regions', alive', 0)
    BY <2>1, <2>2 DEF Order
  <2> QED BY <2>1, <2>3 DEF OrderInv
<1>6. CASE UNCHANGED vars
  BY <1>0, <1>6 DEF vars, OrderInv, StillToRun
<1> QED BY <1>1, <1>2, <1>3, <1>4, <1>5, <1>6 DEF Next

(* reset() destroys the youngest object first and frees the blocks after   *)
(* the last one (arena.hpp:96-105).                                        *)
THEOREM ArenaDestroysInReverse == Spec => DestroyedInReverse
<1> DEFINE YoungestFirst ==
      /\ cursor' \in 0 .. cursor - 1 =>
           \E i \in alive : alive' = alive \ {i} /\ \A j \in alive' : j < i
      /\ blocks_' = <<>> /\ blocks_ # <<>> => alive = {}
<1>1. ASSUME IInv, OrderInv, [Next]_vars PROVE YoungestFirst
  <2>0. PICK h : Order(h, destructors_, regions, alive, StillToRun)
    BY <1>1 DEF OrderInv
  <2>t. /\ blocks_ \in Seq(Block) /\ Len(destructors_) \in Nat
        /\ cursor \in -1 .. Len(destructors_)
    BY <1>1 DEF IInv, TypeOK
  <2>1. ASSUME cursor' \in 0 .. cursor - 1
        PROVE  \E i \in alive : alive' = alive \ {i} /\ \A j \in alive' : j < i
    <3>1. Destroy
      BY <1>1, <2>1, <2>t
         DEF Next, vars, AllocateRaw, Allocate, InUse, BeginReset, Release
    <3>2. StillToRun = cursor
      BY <2>1, <2>t DEF StillToRun
    <3> QED BY <1>1, <2>0, <3>1, <3>2, DestroyYoungest
  <2>2. ASSUME blocks_' = <<>>, blocks_ # <<>> PROVE alive = {}
    <3>1. ASSUME NEW s, NEW a, NEW p, Serve(s, a, p) PROVE FALSE
      <4>1. blocks_' = blocks_ \/ \E r : blocks_' = Append(blocks_, r)
        BY <3>1 DEF Serve, Dedicated, Bump, FreshBlock
      <4>2. \A r : Append(blocks_, r) # <<>>
        <5> SUFFICES ASSUME NEW r PROVE Append(blocks_, r) # <<>>
          OBVIOUS
        <5>1. blocks_ \in Seq(Block \cup {r}) /\ r \in Block \cup {r}
          BY <2>t
        <5> QED BY <5>1, AppendProperties
      <4> QED BY <2>2, <4>1, <4>2
    <3>2. Release
      BY <1>1, <2>2, <3>1 DEF Next, vars, AllocateRaw, Allocate, BeginReset, Destroy
    <3>3. StillToRun = 0
      BY <3>2 DEF Release, StillToRun
    <3> QED BY <2>0, <3>3 DEF Order
  <2> QED BY <2>1, <2>2
<1>2. IInv /\ OrderInv /\ [Next]_vars => [YoungestFirst]_vars
  BY <1>1
<1>3. Spec => []OrderInv
  BY OrderInit, OrderStep, Invariance, PTL DEF Spec
<1> QED BY <1>2, <1>3, Invariance, PTL DEF Spec, DestroyedInReverse
=============================================================================
