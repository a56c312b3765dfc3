------------------------------- MODULE Arena -------------------------------
(***************************************************************************)
(* core::arena, the region allocator that owns every AST node              *)
(* (include/core/memory/arena.hpp, src/core/memory/arena.cpp).  Addresses  *)
(* are natural numbers and 0 is the null pointer; operator new may place a *)
(* block at any address that overlaps no block the arena holds.            *)
(*                                                                         *)
(* regions and alive record history: what allocate_raw() has handed out    *)
(* since the last reset(), and the positions there of the objects whose    *)
(* destructor is registered and has not run.                               *)
(***************************************************************************)
EXTENDS SequencesExt, Integers

CONSTANTS BLOCK_SIZE,
          Addr,         \* addresses operator new may return
          Size,         \* sizes clients ask for
          Alignment,    \* alignments clients ask for
          MaxRegions    \* bound on the regions handed out, for model checking

(* alignof is a power of two; only then does align_ptr's mask clear the    *)
(* remainder.  0 is accepted and means 1.                                  *)
ASSUME ArenaAssumption ==
  /\ BLOCK_SIZE \in Nat \ {0}
  /\ Addr \subseteq Nat \ {0}
  /\ Size \subseteq Nat
  /\ Alignment \subseteq Nat
  /\ MaxRegions \in Nat

VARIABLES blocks_,       \* sequence of [base, size]
          destructors_,  \* addresses of the objects to destroy, oldest first
          current_, end_,
          cursor,        \* destructors reset() still has to run, -1 outside reset()
          regions,
          alive

vars == <<blocks_, destructors_, current_, end_, cursor, regions, alive>>

Block == [base : Nat, size : Nat]
Region == [addr : Nat, size : Nat, alignment : Nat]

TypeOK ==
  /\ blocks_ \in Seq(Block)
  /\ destructors_ \in Seq(Nat)
  /\ end_ \in Nat /\ current_ \in 0 .. end_
  /\ cursor \in -1 .. Len(destructors_)
  /\ regions \in Seq(Region)
  /\ alive \subseteq Nat

Init ==
  /\ blocks_ = <<>> /\ destructors_ = <<>>
  /\ current_ = 0 /\ end_ = 0 /\ cursor = -1
  /\ regions = <<>> /\ alive = {}

InUse == cursor = -1

---------------------------------------------------------------------------
(* Faulty variants.                                                        *)

MaskDropped(p, a) == p + a - 1
FitsLoosely(p, s) == p <= end_ /\ s <= end_ - p + 1
OldestDestructor == Len(destructors_) - cursor + 1
---------------------------------------------------------------------------

(* align_ptr: the first multiple of a at or after p.                       *)
AlignPtr(p, a) == (p + a - 1) - ((p + a - 1) % a)

Disjoint(b1, s1, b2, s2) == b1 + s1 <= b2 \/ b2 + s2 <= b1

(* What make_unique_for_overwrite<byte[]>(n) may return.                   *)
FreshBases(n) ==
  {b \in Addr : \A i \in DOMAIN blocks_ :
                   Disjoint(b, n, blocks_[i].base, blocks_[i].size)}

Fits(p, s) == p < end_ /\ s <= end_ - p

HandOut(p, s, a) ==
  regions' = Append(regions, [addr |-> p, size |-> s, alignment |-> a])

(* A request no standard block can serve gets a block of its own and       *)
(* leaves the current block open.                                          *)
Dedicated(s, a, p) ==
  /\ s + a - 1 > BLOCK_SIZE
  /\ \E b \in FreshBases(s + a - 1) :
       /\ p = AlignPtr(b, a)
       /\ blocks_' = Append(blocks_, [base |-> b, size |-> s + a - 1])
  /\ UNCHANGED <<current_, end_>>

BumpDropsPadding(s, a, p) ==  \* faulty variant
  /\ s + a - 1 <= BLOCK_SIZE
  /\ p = AlignPtr(current_, a)
  /\ Fits(p, s)
  /\ current_' = current_ + s
  /\ UNCHANGED <<blocks_, end_>>

Bump(s, a, p) ==
  /\ s + a - 1 <= BLOCK_SIZE
  /\ p = AlignPtr(current_, a)
  /\ Fits(p, s)
  /\ current_' = p + s
  /\ UNCHANGED <<blocks_, end_>>

FreshBlock(s, a, p) ==
  /\ s + a - 1 <= BLOCK_SIZE
  /\ ~ Fits(AlignPtr(current_, a), s)
  /\ \E b \in FreshBases(BLOCK_SIZE) :
       /\ p = AlignPtr(b, a)
       /\ blocks_' = Append(blocks_, [base |-> b, size |-> BLOCK_SIZE])
       /\ end_' = b + BLOCK_SIZE
       /\ current_' = p + s

Serve(s, a, p) == Dedicated(s, a, p) \/ Bump(s, a, p) \/ FreshBlock(s, a, p)

OrOne(n) == IF n = 0 THEN 1 ELSE n

(* Addresses a request can be served at.                                   *)
Candidates(a) == {AlignPtr(b, a) : b \in Addr \cup {current_}}

(* allocate_raw(); also allocate<T>() when T has a trivial destructor or   *)
(* its constructor throws: the memory is taken and nothing is registered.  *)
AllocateRaw(size, alignment) ==
  LET s == OrOne(size) a == OrOne(alignment)
  IN /\ InUse
     /\ Len(regions) < MaxRegions
     /\ \E p \in Candidates(a) : Serve(s, a, p) /\ HandOut(p, s, a)
     /\ UNCHANGED <<destructors_, cursor, alive>>

(* allocate<T>() for a T whose destructor has to run.                      *)
Allocate(size, alignment) ==
  LET s == OrOne(size) a == OrOne(alignment)
  IN /\ InUse
     /\ Len(regions) < MaxRegions
     /\ \E p \in Candidates(a) :
          /\ Serve(s, a, p)
          /\ HandOut(p, s, a)
          /\ destructors_' = Append(destructors_, p)
          /\ alive' = alive \cup {Len(regions')}
     /\ UNCHANGED cursor

BeginReset ==
  /\ InUse
  /\ cursor' = Len(destructors_)
  /\ UNCHANGED <<blocks_, destructors_, current_, end_, regions, alive>>

StillAlive(obj) == {i \in alive : regions[i].addr # obj}

(* The index of the destructor the loop calls next: it runs backwards.     *)
NextDestructor == cursor

DestroyWithoutAdvance ==  \* faulty variant
  /\ cursor > 0
  /\ alive' = StillAlive(destructors_[NextDestructor])
  /\ UNCHANGED <<blocks_, destructors_, current_, end_, cursor, regions>>

Destroy ==
  /\ cursor > 0
  /\ cursor' = cursor - 1
  /\ alive' = StillAlive(destructors_[NextDestructor])
  /\ UNCHANGED <<blocks_, destructors_, current_, end_, regions>>

ReleaseKeepsCurrent ==  \* faulty variant
  /\ cursor = 0
  /\ blocks_' = <<>> /\ destructors_' = <<>> /\ regions' = <<>>
  /\ cursor' = -1
  /\ UNCHANGED <<current_, end_, alive>>

Release ==
  /\ cursor = 0
  /\ destructors_' = <<>>
  /\ blocks_' = <<>>
  /\ current_' = 0 /\ end_' = 0
  /\ cursor' = -1
  /\ regions' = <<>>
  /\ UNCHANGED alive

Next ==
  \/ \E size \in Size, al \in Alignment : AllocateRaw(size, al)
  \/ \E size \in Size, al \in Alignment : Allocate(size, al)
  \/ BeginReset
  \/ Destroy
  \/ Release

(* reset() is one call of a single thread: once begun it runs on.          *)
Spec == Init /\ [][Next]_vars /\ WF_vars(Destroy) /\ WF_vars(Release)

---------------------------------------------------------------------------

InBlock(r, b) == b.base <= r.addr /\ r.addr + r.size <= b.base + b.size

(* Every pointer handed out since the last reset() lies wholly inside a    *)
(* block the arena still owns (the @invariant at arena.hpp:38-39).         *)
RegionsOwned ==
  \A i \in DOMAIN regions :
     \E j \in DOMAIN blocks_ : InBlock(regions[i], blocks_[j])

(* No two of them overlap, whichever mixture of bumping, fresh blocks and  *)
(* dedicated blocks served them (arena.cpp:22-45).                         *)
RegionsDisjoint ==
  \A i, j \in DOMAIN regions :
     i # j => Disjoint(regions[i].addr, regions[i].size,
                       regions[j].addr, regions[j].size)

(* Each is aligned as asked, for any address operator new returns          *)
(* (arena.cpp:14-18).                                                      *)
RegionsAligned ==
  \A i \in DOMAIN regions : regions[i].addr % regions[i].alignment = 0

(* Each call of the loop destroys one object, the youngest that is alive,  *)
(* so a node can still reach the children allocated before it; the blocks  *)
(* go only when nothing is alive (reset(), arena.hpp:96-105).              *)
DestroyedInReverse ==
  [][/\ cursor' \in 0 .. cursor - 1 =>
          \E i \in alive : alive' = alive \ {i} /\ \A j \in alive' : j < i
     /\ blocks_' = <<>> /\ blocks_ # <<>> => alive = {}]_vars

(* reset() reaches the state in which the arena can be used again.         *)
ResetCompletes == cursor >= 0 ~> InUse
===========================================================================
