------------------------------ MODULE CoverProofs ------------------------------
(***************************************************************************)
(* Proofs about the merging of coverage profiles, for any arguments that   *)
(* ParseProfiles can return.                                               *)
(***************************************************************************)
EXTENDS Cover, SumProofs

\* The union of the two blocks that start at the same place.
Joined(b, c) == [b EXCEPT !.count = @ + c.count]

\* Block d of the result comes from the first x - 1 blocks of p and the first
\* y - 1 of r, by the rules of merge.
ComesFrom(d, p, r, x, y) ==
  \/ \E a \in 1..(x - 1) : d = p[a] /\ \A b \in 1..Len(r) : ~SameStart(d, r[b])
  \/ \E b \in 1..(y - 1) : d = r[b] /\ \A a \in 1..Len(p) : ~SameStart(d, p[a])
  \/ \E a \in 1..(x - 1), b \in 1..(y - 1) :
       SameStart(p[a], r[b]) /\ p[a].shape = r[b].shape /\ d = Joined(p[a], r[b])

\* q is the merge of the first x - 1 blocks of p and the first y - 1 of r, and
\* all of it lies before what is left of either.
Partial(q, p, r, x, y) ==
  /\ x \in 1..(Len(p) + 1) /\ y \in 1..(Len(r) + 1)
  /\ Ordered(q)
  /\ \A k \in 1..Len(q) :
       /\ x <= Len(p) => Before(q[k], p[x])
       /\ y <= Len(r) => Before(q[k], r[y])
       /\ ComesFrom(q[k], p, r, x, y)
  /\ \A a \in 1..(x - 1) : \E k \in 1..Len(q) : SameStart(q[k], p[a])
  /\ \A b \in 1..(y - 1) : \E k \in 1..Len(q) : SameStart(q[k], r[b])

\* The files left to handle have a profile, profiles are sorted, and merge has
\* done its part of the two lists.
CoverInv ==
  /\ \A f \in todo : n \in 1..InputCount /\ inputs[n][f] # NoProfile
  /\ \A f \in Files : output[f] # NoProfile => Ordered(output[f])
  /\ pc = "merge" => file \in todo /\ output[file] # NoProfile /\ Partial(blocks, p1, p2, i, j)

(***************************************************************************)
(* Blocks by where they start                                              *)
(***************************************************************************)
\* Before and SameStart are an order and an equivalence that go together.
LEMMA BlockOrder ==
  ASSUME NEW b \in Block, NEW c \in Block, NEW d \in Block
  PROVE  /\ Before(b, c) /\ Before(c, d) => Before(b, d)
         /\ Before(b, c) => ~SameStart(b, c) /\ ~SameStart(c, b) /\ ~Before(c, b)
         /\ SameStart(b, c) /\ Before(c, d) => Before(b, d)
         /\ SameStart(b, c) /\ Before(b, d) => Before(c, d)
         /\ ~SameStart(b, c) /\ ~Before(b, c) => Before(c, b)
         /\ SameStart(b, b) /\ (SameStart(b, c) => SameStart(c, b))
  BY DEF Block, Before, SameStart

\* The union of two blocks is a block where the first one starts.
LEMMA JoinedBlock ==
  ASSUME NEW b \in Block, NEW c \in Block
  PROVE  Joined(b, c) \in Block /\ SameStart(Joined(b, c), b)
  BY DEF Joined, Block, SameStart

\* A list of blocks that a later block is put at the end of.
LEMMA Appended ==
  ASSUME NEW q \in Seq(Block), NEW d \in Block
  PROVE  /\ Append(q, d) \in Seq(Block) /\ Len(Append(q, d)) = Len(q) + 1
         /\ \A k \in 1..Len(q) : Append(q, d)[k] = q[k]
         /\ Append(q, d)[Len(q) + 1] = d
  OBVIOUS

\* A sorted list stays sorted when a later block is put at its end.
LEMMA OrderedAppend ==
  ASSUME NEW q \in Seq(Block), NEW d \in Block, Ordered(q),
         \A k \in 1..Len(q) : Before(q[k], d)
  PROVE  Ordered(Append(q, d))
  BY Appended DEF Ordered

\* Sources stay sources when the indexes grow.
LEMMA ComesFromGrows ==
  ASSUME NEW d, NEW p, NEW r, NEW x \in Nat, NEW y \in Nat, NEW x2 \in Nat, NEW y2 \in Nat,
         x <= x2, y <= y2, ComesFrom(d, p, r, x, y)
  PROVE  ComesFrom(d, p, r, x2, y2)
  <1>1. 1..(x - 1) \subseteq 1..(x2 - 1) /\ 1..(y - 1) \subseteq 1..(y2 - 1)
    OBVIOUS
  <1>2. QED
    BY <1>1 DEF ComesFrom

\* One more block at the end of the result keeps Partial if the block comes
\* after what is there and before what is then left, and accounts for the block
\* or blocks that are passed.
LEMMA PartialAppend ==
  ASSUME NEW p \in Seq(Block), NEW r \in Seq(Block), NEW q \in Seq(Block), NEW d \in Block,
         NEW x \in Nat, NEW y \in Nat, NEW x2 \in {x, x + 1}, NEW y2 \in {y, y + 1},
         Ordered(p), Ordered(r), Partial(q, p, r, x, y),
         x2 <= Len(p) + 1, y2 <= Len(r) + 1,
         \A k \in 1..Len(q) : Before(q[k], d),
         x2 <= Len(p) => Before(d, p[x2]),
         y2 <= Len(r) => Before(d, r[y2]),
         ComesFrom(d, p, r, x2, y2),
         x2 = x + 1 => SameStart(d, p[x]),
         y2 = y + 1 => SameStart(d, r[y])
  PROVE  Partial(Append(q, d), p, r, x2, y2)
  <1> DEFINE e == Append(q, d)
  <1>1. /\ e \in Seq(Block) /\ Len(e) = Len(q) + 1
        /\ \A k \in 1..Len(q) : e[k] = q[k]
        /\ e[Len(q) + 1] = d
    BY Appended
  <1>2. Ordered(e)
    BY OrderedAppend DEF Partial
  <1> HIDE DEF e
  <1>3. x2 \in 1..(Len(p) + 1) /\ y2 \in 1..(Len(r) + 1) /\ x <= x2 /\ y <= y2
    BY DEF Partial
  <1>4. ASSUME NEW k \in 1..Len(q)
        PROVE  /\ x2 <= Len(p) => Before(q[k], p[x2])
               /\ y2 <= Len(r) => Before(q[k], r[y2])
               /\ ComesFrom(q[k], p, r, x2, y2)
    <2>1. q[k] \in Block /\ Before(q[k], d)
      OBVIOUS
    <2>2. ComesFrom(q[k], p, r, x2, y2)
      <3>1. ComesFrom(q[k], p, r, x, y)
        BY DEF Partial
      <3>2. QED
        BY <1>3, <3>1, ComesFromGrows
    <2>3. x2 <= Len(p) => Before(q[k], p[x2])
      <3>1. x2 <= Len(p) => p[x2] \in Block
        BY <1>3
      <3>2. QED
        BY <2>1, <3>1, BlockOrder
    <2>4. y2 <= Len(r) => Before(q[k], r[y2])
      <3>1. y2 <= Len(r) => r[y2] \in Block
        BY <1>3
      <3>2. QED
        BY <2>1, <3>1, BlockOrder
    <2>5. QED
      BY <2>2, <2>3, <2>4
  <1>5. ASSUME NEW k \in 1..Len(e)
        PROVE  /\ x2 <= Len(p) => Before(e[k], p[x2])
               /\ y2 <= Len(r) => Before(e[k], r[y2])
               /\ ComesFrom(e[k], p, r, x2, y2)
    <2>1. k \in 1..Len(q) \/ k = Len(q) + 1
      BY <1>1
    <2>2. QED
      BY <1>1, <1>4, <2>1
  <1>6. ASSUME NEW a \in 1..(x2 - 1) PROVE \E k \in 1..Len(e) : SameStart(e[k], p[a])
    <2>1. CASE a \in 1..(x - 1)
      <3>1. PICK k \in 1..Len(q) : SameStart(q[k], p[a])
        BY <2>1 DEF Partial
      <3>2. k \in 1..Len(e) /\ e[k] = q[k]
        BY <1>1
      <3>3. QED
        BY <3>1, <3>2
    <2>2. CASE a = x /\ x2 = x + 1
      <3>1. Len(q) + 1 \in 1..Len(e)
        BY <1>1
      <3>2. QED
        BY <1>1, <2>2, <3>1
    <2>3. QED
      BY <2>1, <2>2
  <1>7. ASSUME NEW b \in 1..(y2 - 1) PROVE \E k \in 1..Len(e) : SameStart(e[k], r[b])
    <2>1. CASE b \in 1..(y - 1)
      <3>1. PICK k \in 1..Len(q) : SameStart(q[k], r[b])
        BY <2>1 DEF Partial
      <3>2. k \in 1..Len(e) /\ e[k] = q[k]
        BY <1>1
      <3>3. QED
        BY <3>1, <3>2
    <2>2. CASE b = y /\ y2 = y + 1
      <3>1. Len(q) + 1 \in 1..Len(e)
        BY <1>1
      <3>2. QED
        BY <1>1, <2>2, <3>1
    <2>3. QED
      BY <2>1, <2>2
  <1>8. QED
    BY <1>2, <1>3, <1>5, <1>6, <1>7 DEF Partial, e

(***************************************************************************)
(* The three cases of the loop                                             *)
(***************************************************************************)
\* Blocks of r do not start where d does: those that were passed lie before d,
\* those that are left after it.
LEMMA NotInOther ==
  ASSUME NEW q \in Seq(Block), NEW r \in Seq(Block), NEW d \in Block, NEW y \in 1..(Len(r) + 1),
         Ordered(r),
         \A k \in 1..Len(q) : Before(q[k], d),
         \A b \in 1..(y - 1) : \E k \in 1..Len(q) : SameStart(q[k], r[b]),
         y <= Len(r) => Before(d, r[y])
  PROVE  \A b \in 1..Len(r) : ~SameStart(d, r[b])
  <1> SUFFICES ASSUME NEW b \in 1..Len(r) PROVE ~SameStart(d, r[b])
    OBVIOUS
  <1>1. r[b] \in Block
    OBVIOUS
  <1>2. CASE b < y
    <2>1. PICK k \in 1..Len(q) : SameStart(q[k], r[b])
      BY <1>2
    <2>2. q[k] \in Block /\ Before(q[k], d)
      OBVIOUS
    <2>3. Before(r[b], d)
      BY <1>1, <2>1, <2>2, BlockOrder
    <2>4. QED
      BY <1>1, <2>3, BlockOrder
  <1>3. CASE b = y
    BY <1>1, <1>3, BlockOrder
  <1>4. CASE b > y
    <2>1. y \in 1..Len(r) /\ r[y] \in Block /\ Before(r[y], r[b]) /\ Before(d, r[y])
      BY <1>4 DEF Ordered
    <2>2. QED
      BY <1>1, <2>1, BlockOrder
  <1>5. QED
    BY <1>2, <1>3, <1>4

\* The block of the left list comes first (Left).
LEMMA LeftKeeps ==
  ASSUME NEW p \in Seq(Block), NEW r \in Seq(Block), NEW q \in Seq(Block), NEW x \in Nat, NEW y \in Nat,
         Ordered(p), Ordered(r), Partial(q, p, r, x, y),
         x <= Len(p), y <= Len(r) => Before(p[x], r[y])
  PROVE  Partial(Append(q, p[x]), p, r, x + 1, y)
  <1>1. x \in 1..Len(p) /\ y \in 1..(Len(r) + 1) /\ p[x] \in Block
    BY DEF Partial
  <1>2. \A k \in 1..Len(q) : Before(q[k], p[x])
    BY <1>1 DEF Partial
  <1>3. \A b \in 1..Len(r) : ~SameStart(p[x], r[b])
    BY <1>1, <1>2, NotInOther DEF Partial
  <1>4. ComesFrom(p[x], p, r, x + 1, y)
    BY <1>1, <1>3 DEF ComesFrom
  <1>5. x + 1 <= Len(p) => Before(p[x], p[x + 1])
    <2>1. x + 1 <= Len(p) => x \in 1..Len(p) /\ x + 1 \in 1..Len(p) /\ x < x + 1
      BY <1>1
    <2>2. QED
      BY <2>1 DEF Ordered
  <1>6. SameStart(p[x], p[x])
    BY DEF SameStart
  <1>7. QED
    BY <1>1, <1>2, <1>4, <1>5, <1>6, PartialAppend

\* The block of the right list comes first (Right).
LEMMA RightKeeps ==
  ASSUME NEW p \in Seq(Block), NEW r \in Seq(Block), NEW q \in Seq(Block), NEW x \in Nat, NEW y \in Nat,
         Ordered(p), Ordered(r), Partial(q, p, r, x, y),
         y <= Len(r), x <= Len(p) => ~SameStart(p[x], r[y]) /\ ~Before(p[x], r[y])
  PROVE  Partial(Append(q, r[y]), p, r, x, y + 1)
  <1>1. y \in 1..Len(r) /\ x \in 1..(Len(p) + 1) /\ r[y] \in Block
    BY DEF Partial
  <1>2. \A k \in 1..Len(q) : Before(q[k], r[y])
    BY <1>1 DEF Partial
  <1>3. x <= Len(p) => Before(r[y], p[x])
    <2>1. x <= Len(p) => p[x] \in Block
      BY <1>1
    <2>2. QED
      BY <1>1, <2>1, BlockOrder
  <1>4. \A a \in 1..Len(p) : ~SameStart(r[y], p[a])
    BY <1>1, <1>2, <1>3, NotInOther DEF Partial
  <1>5. ComesFrom(r[y], p, r, x, y + 1)
    BY <1>1, <1>4 DEF ComesFrom
  <1>6. y + 1 <= Len(r) => Before(r[y], r[y + 1])
    BY <1>1 DEF Ordered
  <1>7. SameStart(r[y], r[y])
    BY DEF SameStart
  <1>8. /\ x \in {x, x + 1} /\ y + 1 \in {y, y + 1} /\ x # x + 1
        /\ x <= Len(p) + 1 /\ y + 1 <= Len(r) + 1
    BY <1>1
  <1>9. QED
    BY <1>1, <1>2, <1>3, <1>5, <1>6, <1>7, <1>8, PartialAppend

\* Both lists have a block at the same place (Both).
LEMMA JoinKeeps ==
  ASSUME NEW p \in Seq(Block), NEW r \in Seq(Block), NEW q \in Seq(Block), NEW x \in Nat, NEW y \in Nat,
         Ordered(p), Ordered(r), Partial(q, p, r, x, y),
         x <= Len(p), y <= Len(r), SameStart(p[x], r[y]), p[x].shape = r[y].shape
  PROVE  Partial(Append(q, Joined(p[x], r[y])), p, r, x + 1, y + 1)
  <1> DEFINE d == Joined(p[x], r[y])
  <1>1. x \in 1..Len(p) /\ y \in 1..Len(r) /\ p[x] \in Block /\ r[y] \in Block
    BY DEF Partial
  <1>2. d \in Block /\ SameStart(d, p[x])
    BY <1>1, JoinedBlock
  <1>3. ComesFrom(d, p, r, x + 1, y + 1)
    BY <1>1 DEF ComesFrom
  <1> HIDE DEF d
  <1>4. SameStart(d, r[y])
    BY <1>2 DEF SameStart
  <1>5. ASSUME NEW k \in 1..Len(q) PROVE Before(q[k], d)
    <2>1. Before(q[k], p[x])
      BY <1>1 DEF Partial
    <2>2. QED
      BY <1>2, <2>1 DEF Before, SameStart
  <1>6. x + 1 <= Len(p) => Before(d, p[x + 1])
    <2>1. x + 1 <= Len(p) => Before(p[x], p[x + 1])
      BY <1>1 DEF Ordered
    <2>2. QED
      BY <1>2, <2>1 DEF Before, SameStart
  <1>7. y + 1 <= Len(r) => Before(d, r[y + 1])
    <2>1. y + 1 <= Len(r) => Before(r[y], r[y + 1])
      BY <1>1 DEF Ordered
    <2>2. QED
      BY <1>4, <2>1 DEF Before, SameStart
  <1>8. Partial(Append(q, d), p, r, x + 1, y + 1)
    BY <1>1, <1>2, <1>3, <1>4, <1>5, <1>6, <1>7, PartialAppend
  <1>9. QED
    BY <1>8 DEF d

(***************************************************************************)
(* main and merge                                                          *)
(***************************************************************************)
\* The profile of a file that is left to handle is a sorted list of blocks.
LEMMA ProfileOfInput ==
  ASSUME TypeOK, CoverInv, NEW f \in todo
  PROVE  f \in Files /\ inputs[n][f] \in Seq(Block) /\ Ordered(inputs[n][f])
  <1>1. f \in Files /\ n \in 1..InputCount /\ inputs[n][f] # NoProfile
    BY DEF TypeOK, CoverInv
  <1>2. inputs[n] \in Inputs
    BY <1>1 DEF TypeOK
  <1>3. QED
    BY <1>1, <1>2, CoverAssumption

\* While merge runs, both of its lists are sorted lists of blocks.
LEMMA MergeLists ==
  ASSUME TypeOK, CoverInv, pc = "merge"
  PROVE  /\ p1 \in Seq(Block) /\ Ordered(p1) /\ p2 \in Seq(Block) /\ Ordered(p2)
         /\ Partial(blocks, p1, p2, i, j)
  <1>1. file \in todo /\ output[file] # NoProfile /\ Partial(blocks, p1, p2, i, j)
    BY DEF CoverInv
  <1>2. p2 \in Seq(Block) /\ Ordered(p2)
    BY <1>1, ProfileOfInput DEF p2
  <1>3. p1 \in Seq(Block) /\ Ordered(p1)
    BY <1>1 DEF p1, TypeOK, CoverInv
  <1>4. QED
    BY <1>1, <1>2, <1>3

\* Every step of main and merge keeps the types.
LEMMA TypePreserved ==
  ASSUME TypeOK, CoverInv, [Next]_vars PROVE TypeOK'
  <1> USE DEF TypeOK, loop
  <1>1. CASE ReadInput
    BY <1>1, CoverAssumption DEF ReadInput
  <1>2. CASE InputDone \/ PrintAll
    BY <1>2 DEF InputDone, PrintAll
  <1>3. ASSUME NEW f \in Files, FirstProfile(f) PROVE TypeOK'
    <2>1. inputs[n][f] \in Seq(Block)
      BY <1>3, ProfileOfInput DEF FirstProfile
    <2>2. QED
      BY <1>3, <2>1 DEF FirstProfile
  <1>4. ASSUME NEW f \in Files, StartMerge(f) PROVE TypeOK'
    BY <1>4 DEF StartMerge
  <1>5. CASE Both
    <2>1. p1[i] \in Block /\ p2[j] \in Block
      BY <1>5, MergeLists DEF Both, Partial
    <2>2. Joined(p1[i], p2[j]) \in Block
      BY <2>1, JoinedBlock
    <2>3. Append(blocks, Joined(p1[i], p2[j])) \in Seq(Block)
      BY <2>2
    <2>4. blocks' \in Seq(Block)
      BY <1>5, <2>3 DEF Both, Joined
    <2>5. QED
      BY <1>5, <2>4 DEF Both
  <1>6. CASE Left
    <2>1. p1[i] \in Block
      BY <1>6, MergeLists DEF Left, Partial
    <2>2. blocks' \in Seq(Block)
      BY <1>6, <2>1 DEF Left
    <2>3. QED
      BY <1>6, <2>2 DEF Left
  <1>7. CASE Right
    <2>1. p2[j] \in Block
      BY <1>7, MergeLists DEF Right, Partial
    <2>2. blocks' \in Seq(Block)
      BY <1>7, <2>1 DEF Right
    <2>3. QED
      BY <1>7, <2>2 DEF Right
  <1>8. CASE EndMerge
    BY <1>8 DEF EndMerge
  <1>9. CASE UNCHANGED vars
    BY <1>9 DEF vars
  <1>10. QED
    BY <1>1, <1>2, <1>3, <1>4, <1>5, <1>6, <1>7, <1>8, <1>9 DEF Next, merge

\* Every step of main and merge keeps CoverInv.
LEMMA InvPreserved ==
  ASSUME TypeOK, TypeOK', CoverInv, [Next]_vars PROVE CoverInv'
  <1> USE DEF TypeOK, loop
  <1>1. CASE ReadInput
    BY <1>1, CoverAssumption DEF ReadInput, CoverInv
  <1>2. CASE InputDone \/ PrintAll
    BY <1>2 DEF InputDone, PrintAll, CoverInv
  <1>3. ASSUME NEW f \in Files, FirstProfile(f) PROVE CoverInv'
    <2>1. Ordered(inputs[n][f])
      BY <1>3, ProfileOfInput DEF FirstProfile
    <2>2. QED
      BY <1>3, <2>1 DEF FirstProfile, CoverInv
  <1>4. ASSUME NEW f \in Files, StartMerge(f) PROVE CoverInv'
    <2>1. inputs[n][f] \in Seq(Block) /\ output[f] \in Seq(Block)
      BY <1>4, ProfileOfInput DEF StartMerge
    <2>2. Partial(<<>>, output[f], inputs[n][f], 1, 1)
      BY <2>1 DEF Partial, Ordered
    <2>3. Partial(blocks, p1, p2, i, j)'
      BY <1>4, <2>2 DEF StartMerge, p1, p2
    <2>4. QED
      BY <1>4, <2>3 DEF StartMerge, CoverInv
  <1>5. ASSUME pc = "merge", pc' = "merge", UNCHANGED <<inputs, n, todo, output, file>>,
               Partial(blocks', p1, p2, i', j')
        PROVE  CoverInv'
    <2>1. p1' = p1 /\ p2' = p2
      BY <1>5 DEF p1, p2
    <2>2. Partial(blocks, p1, p2, i, j)'
      BY <1>5, <2>1
    <2>3. QED
      BY <1>5, <2>2 DEF CoverInv
  <1>6. CASE Both
    <2>1. CASE p1[i].shape = p2[j].shape
      <3>1. Partial(Append(blocks, Joined(p1[i], p2[j])), p1, p2, i + 1, j + 1)
        BY <1>6, <2>1, MergeLists, JoinKeeps DEF Both
      <3>2. blocks' = Append(blocks, Joined(p1[i], p2[j])) /\ i' = i + 1 /\ j' = j + 1 /\ pc' = pc
        BY <1>6, <2>1 DEF Both, Joined
      <3>3. QED
        BY <1>5, <1>6, <3>1, <3>2 DEF Both
    <2>2. CASE p1[i].shape # p2[j].shape
      BY <1>6, <2>2 DEF Both, CoverInv
    <2>3. QED
      BY <2>1, <2>2
  <1>7. CASE Left
    <2>1. Partial(Append(blocks, p1[i]), p1, p2, i + 1, j)
      BY <1>7, MergeLists, LeftKeeps DEF Left
    <2>2. QED
      BY <1>5, <1>7, <2>1 DEF Left
  <1>8. CASE Right
    <2>1. Partial(Append(blocks, p2[j]), p1, p2, i, j + 1)
      BY <1>8, MergeLists, RightKeeps DEF Right
    <2>2. QED
      BY <1>5, <1>8, <2>1 DEF Right
  <1>9. CASE EndMerge
    <2>1. Ordered(blocks)
      BY <1>9, MergeLists DEF EndMerge, Merged, Partial
    <2>2. QED
      BY <1>9, <2>1 DEF EndMerge, Merged, CoverInv
  <1>10. CASE UNCHANGED vars
    BY <1>10 DEF vars, CoverInv, p1, p2
  <1>11. QED
    BY <1>1, <1>2, <1>3, <1>4, <1>6, <1>7, <1>8, <1>9, <1>10 DEF Next, merge

\* CoverInv holds whatever the arguments.
LEMMA Invariance == Spec => [](TypeOK /\ CoverInv)
  <1>1. Init => TypeOK /\ CoverInv
    <2> SUFFICES ASSUME Init PROVE TypeOK /\ CoverInv
      OBVIOUS
    <2>1. file \in Files
      BY CoverAssumption DEF Init
    <2>2. blocks \in Seq(Block)
      BY DEF Init
    <2>3. QED
      BY <2>1, <2>2, CoverAssumption DEF Init, TypeOK, CoverInv
  <1>2. TypeOK /\ CoverInv /\ [Next]_vars => (TypeOK /\ CoverInv)'
    BY TypePreserved, InvPreserved
  <1>3. QED
    BY <1>1, <1>2, PTL DEF Spec

\* The lists that main and merge build are lists of blocks, and the indexes are
\* numbers.
THEOREM TypeCorrect == Spec => []TypeOK
  BY Invariance, PTL

\* When both lists are used up, the partial merge is the whole one.
LEMMA MergeDone == TypeOK /\ CoverInv => MergeIsRight
  <1> SUFFICES ASSUME TypeOK, CoverInv, Merged PROVE IsMergeOf(blocks, p1, p2)
    BY DEF MergeIsRight
  <1>1. /\ p1 \in Seq(Block) /\ p2 \in Seq(Block) /\ Partial(blocks, p1, p2, i, j)
    BY MergeLists DEF Merged
  <1>2. i = Len(p1) + 1 /\ j = Len(p2) + 1
    BY <1>1 DEF Merged, Partial
  <1>3. 1..(i - 1) = 1..Len(p1) /\ 1..(j - 1) = 1..Len(p2)
    BY <1>1, <1>2
  <1>4. ASSUME NEW k \in 1..Len(blocks)
        PROVE  \/ \E a \in 1..Len(p1) : blocks[k] = p1[a] /\ \A b \in 1..Len(p2) : ~SameStart(blocks[k], p2[b])
               \/ \E b \in 1..Len(p2) : blocks[k] = p2[b] /\ \A a \in 1..Len(p1) : ~SameStart(blocks[k], p1[a])
               \/ \E a \in 1..Len(p1), b \in 1..Len(p2) :
                    /\ SameStart(p1[a], p2[b]) /\ p1[a].shape = p2[b].shape
                    /\ blocks[k] = Joined(p1[a], p2[b])
    <2>1. ComesFrom(blocks[k], p1, p2, i, j)
      BY <1>1 DEF Partial
    <2>2. QED
      BY <1>3, <2>1, Zenon DEF ComesFrom
  <1>5. /\ Ordered(blocks)
        /\ \A a \in 1..Len(p1) : \E k \in 1..Len(blocks) : SameStart(blocks[k], p1[a])
        /\ \A b \in 1..Len(p2) : \E k \in 1..Len(blocks) : SameStart(blocks[k], p2[b])
    BY <1>1, <1>3, Zenon DEF Partial
  <1>6. QED
    BY <1>4, <1>5, Zenon DEF Joined, IsMergeOf

\* merge (cover.go:19-51) returns the right list for any two sorted lists of
\* blocks.
THEOREM MergeRight == Spec => []MergeIsRight
  BY MergeDone, Invariance, PTL

(***************************************************************************)
(* Profiles of different sources                                           *)
(***************************************************************************)
\* merge does not tell the two blocks apart but for their counts.
Like(b, c) == SameStart(b, c) /\ b.shape = c.shape

\* The k-th argument's profile of f is in the output.
Handled(k, f) == k \in 1..n /\ (k = n => f \notin todo)

\* Every block of the output is like one of an argument, and the other way round
\* for what has been handled.
SourceInv ==
  /\ pc \in {"input", "printed"} => todo = {}
  /\ pc = "printed" => n = InputCount
  /\ \A f \in Files : output[f] # NoProfile =>
       \A l \in 1..Len(output[f]) : \E m \in 1..InputCount : \E b \in BlocksIn(m, f) : Like(b, output[f][l])
  /\ \A f \in Files, k \in 1..InputCount : Handled(k, f) =>
       \A b \in BlocksIn(k, f) :
         output[f] # NoProfile /\ \E l \in 1..Len(output[f]) : Like(b, output[f][l])
  /\ pc = "panic" => Different

\* The blocks of an argument are blocks.
LEMMA BlocksTyped ==
  ASSUME TypeOK, NEW k \in 1..InputCount, NEW f \in Files, NEW b \in BlocksIn(k, f)
  PROVE  b \in Block
  <1>1. inputs[k] \in Inputs /\ inputs[k][f] # NoProfile
    BY DEF TypeOK, BlocksIn
  <1>2. inputs[k][f] \in Seq(Block)
    BY <1>1, CoverAssumption
  <1>3. QED
    BY <1>1, <1>2 DEF BlocksIn

\* Like is transitive.
LEMMA LikeTransitive ==
  ASSUME NEW b, NEW c, NEW d, Like(b, c), Like(c, d) PROVE Like(b, d)
  BY DEF Like, SameStart

\* Blocks of a sorted list that start at the same place are the same.
LEMMA SameStartSame ==
  ASSUME NEW p \in Seq(Block), Ordered(p), NEW k \in 1..Len(p), NEW l \in 1..Len(p), SameStart(p[k], p[l])
  PROVE  k = l
  <1>1. p[k] \in Block /\ p[l] \in Block
    OBVIOUS
  <1>2. ~Before(p[k], p[l]) /\ ~Before(p[l], p[k])
    BY <1>1 DEF Before, SameStart, Block
  <1>3. QED
    BY <1>2 DEF Ordered

\* Every block of a merge is like one of the two lists, and every block of the
\* lists is like one of the merge.
LEMMA MergeAlike ==
  ASSUME NEW p \in Seq(Block), NEW r \in Seq(Block), NEW q \in Seq(Block),
         Ordered(p), Ordered(r), IsMergeOf(q, p, r)
  PROVE  /\ \A k \in 1..Len(q) : \/ \E a \in 1..Len(p) : Like(p[a], q[k])
                                 \/ \E b \in 1..Len(r) : Like(r[b], q[k])
         /\ \A a \in 1..Len(p) : \E k \in 1..Len(q) : Like(p[a], q[k])
         /\ \A b \in 1..Len(r) : \E k \in 1..Len(q) : Like(r[b], q[k])
  <1>1. ASSUME NEW k \in 1..Len(q)
        PROVE  \/ \E a \in 1..Len(p) : q[k] = p[a] /\ \A b \in 1..Len(r) : ~SameStart(q[k], r[b])
               \/ \E b \in 1..Len(r) : q[k] = r[b] /\ \A a \in 1..Len(p) : ~SameStart(q[k], p[a])
               \/ \E a \in 1..Len(p), b \in 1..Len(r) :
                    /\ SameStart(p[a], r[b]) /\ p[a].shape = r[b].shape
                    /\ q[k] = [p[a] EXCEPT !.count = @ + r[b].count]
    BY DEF IsMergeOf
  <1>2. ASSUME NEW a \in 1..Len(p), NEW b \in 1..Len(r), NEW k \in 1..Len(q),
               SameStart(p[a], r[b]), p[a].shape = r[b].shape,
               q[k] = [p[a] EXCEPT !.count = @ + r[b].count]
        PROVE  Like(p[a], q[k]) /\ Like(r[b], q[k])
    <2>1. p[a] \in Block
      OBVIOUS
    <2>2. q[k].line = p[a].line /\ q[k].col = p[a].col /\ q[k].shape = p[a].shape
      BY <1>2, <2>1 DEF Block
    <2>3. QED
      BY <1>2, <2>2 DEF Like, SameStart
  <1>3. \A b \in Block : Like(b, b)
    BY DEF Like, SameStart
  <1>4. ASSUME NEW k \in 1..Len(q)
        PROVE  \/ \E a \in 1..Len(p) : Like(p[a], q[k])
               \/ \E b \in 1..Len(r) : Like(r[b], q[k])
    <2>1. \A a \in 1..Len(p) : Like(p[a], p[a])
      BY <1>3
    <2>2. \A b \in 1..Len(r) : Like(r[b], r[b])
      BY <1>3
    <2>3. QED
      BY <1>1, <1>2, <2>1, <2>2
  <1>5. ASSUME NEW a \in 1..Len(p) PROVE \E k \in 1..Len(q) : Like(p[a], q[k])
    <2>1. PICK k \in 1..Len(q) : SameStart(q[k], p[a])
      BY DEF IsMergeOf
    <2>2. ASSUME NEW c \in 1..Len(p), Like(p[c], q[k]) PROVE Like(p[a], q[k])
      <3>1. SameStart(p[c], p[a])
        BY <2>1, <2>2 DEF Like, SameStart
      <3>2. c = a
        BY <3>1, SameStartSame
      <3>3. QED
        BY <2>2, <3>2
    <2>3. ASSUME NEW b \in 1..Len(r), q[k] = r[b], \A c \in 1..Len(p) : ~SameStart(q[k], p[c]) PROVE FALSE
      BY <2>1, <2>3
    <2>4. \A c \in 1..Len(p) : Like(p[c], p[c])
      BY <1>3
    <2>5. QED
      BY <1>1, <1>2, <2>2, <2>3, <2>4
  <1>6. ASSUME NEW b \in 1..Len(r) PROVE \E k \in 1..Len(q) : Like(r[b], q[k])
    <2>1. PICK k \in 1..Len(q) : SameStart(q[k], r[b])
      BY DEF IsMergeOf
    <2>2. ASSUME NEW c \in 1..Len(r), Like(r[c], q[k]) PROVE Like(r[b], q[k])
      <3>1. SameStart(r[c], r[b])
        BY <2>1, <2>2 DEF Like, SameStart
      <3>2. c = b
        BY <3>1, SameStartSame
      <3>3. QED
        BY <2>2, <3>2
    <2>3. ASSUME NEW a \in 1..Len(p), q[k] = p[a], \A c \in 1..Len(r) : ~SameStart(q[k], r[c]) PROVE FALSE
      BY <2>1, <2>3
    <2>4. \A c \in 1..Len(r) : Like(r[c], r[c])
      BY <1>3
    <2>5. QED
      BY <1>1, <1>2, <2>2, <2>3, <2>4
  <1>7. QED
    BY <1>4, <1>5, <1>6

\* A step that leaves the output and what is handled alone.
LEMMA SourceInvUnchanged ==
  ASSUME TypeOK, SourceInv, UNCHANGED <<inputs, n, todo, output>>,
         pc' \in {"input", "printed"} => todo = {},
         pc' = "printed" => n = InputCount,
         pc' = "panic" => Different
  PROVE  SourceInv'
  BY DEF SourceInv, Handled, BlocksIn, Different

\* A profile is added to the output of f: what was there is kept, the blocks of
\* the argument join it, and no others.
LEMMA SourceInvAdds ==
  ASSUME TypeOK, TypeOK', CoverInv, SourceInv, NEW f \in todo,
         UNCHANGED <<inputs, n>>, pc = "files" \/ pc = "merge", pc' = "files", todo' = todo \ {f},
         NEW q \in Seq(Block), output' = [output EXCEPT ![f] = q],
         output[f] # NoProfile =>
           \A l \in 1..Len(output[f]) : \E k \in 1..Len(q) : Like(output[f][l], q[k]),
         \A b \in BlocksIn(n, f) : \E k \in 1..Len(q) : Like(b, q[k]),
         \A k \in 1..Len(q) :
           \/ output[f] # NoProfile /\ \E l \in 1..Len(output[f]) : Like(output[f][l], q[k])
           \/ \E b \in BlocksIn(n, f) : Like(b, q[k])
  PROVE  SourceInv'
  <1>1. f \in Files /\ n \in 1..InputCount /\ q # NoProfile
    BY CoverAssumption DEF TypeOK, CoverInv
  <1>2. \A m \in 1..InputCount, g \in Files : BlocksIn(m, g)' = BlocksIn(m, g)
    BY DEF BlocksIn
  <1>3. output'[f] = q /\ \A g \in Files \ {f} : output'[g] = output[g]
    BY <1>1 DEF TypeOK
  <1>4. ASSUME NEW g \in Files, output'[g] # NoProfile, NEW l \in 1..Len(output'[g])
        PROVE  \E m \in 1..InputCount : \E b \in BlocksIn(m, g) : Like(b, output'[g][l])
    <2>1. CASE g # f
      BY <1>3, <1>4, <2>1 DEF SourceInv
    <2>2. CASE g = f
      <3>1. ASSUME output[f] # NoProfile, NEW a \in 1..Len(output[f]), Like(output[f][a], q[l])
            PROVE  \E m \in 1..InputCount : \E b \in BlocksIn(m, f) : Like(b, q[l])
        <4>1. PICK m \in 1..InputCount : \E b \in BlocksIn(m, f) : Like(b, output[f][a])
          BY <1>1, <3>1 DEF SourceInv
        <4>2. QED
          BY <3>1, <4>1, LikeTransitive
      <3>2. QED
        BY <1>1, <1>3, <2>2, <3>1
    <2>3. QED
      BY <2>1, <2>2
  <1>5. ASSUME NEW g \in Files, NEW k \in 1..InputCount, Handled(k, g)', NEW b \in BlocksIn(k, g)
        PROVE  output'[g] # NoProfile /\ \E l \in 1..Len(output'[g]) : Like(b, output'[g][l])
    <2>1. CASE g # f
      <3>1. Handled(k, g)
        BY <1>5, <2>1 DEF Handled
      <3>2. QED
        BY <1>3, <1>5, <2>1, <3>1 DEF SourceInv
    <2>2. CASE g = f /\ k = n
      BY <1>1, <1>3, <1>5, <2>2
    <2>3. CASE g = f /\ k # n
      <3>1. Handled(k, f)
        BY <1>5, <2>3 DEF Handled
      <3>2. PICK l \in 1..Len(output[f]) : output[f] # NoProfile /\ Like(b, output[f][l])
        BY <1>1, <1>5, <2>3, <3>1 DEF SourceInv
      <3>3. PICK a \in 1..Len(q) : Like(output[f][l], q[a])
        BY <3>2
      <3>4. QED
        BY <1>1, <1>3, <2>3, <3>2, <3>3, LikeTransitive
    <2>4. QED
      BY <2>1, <2>2, <2>3
  <1>6. QED
    BY <1>2, <1>4, <1>5 DEF SourceInv

\* Every step of main and merge keeps SourceInv.
LEMMA SourceInvPreserved ==
  ASSUME TypeOK, TypeOK', CoverInv, SourceInv, [Next]_vars PROVE SourceInv'
  <1> USE DEF loop
  <1>1. CASE ReadInput
    <2>1. CASE pc' = "unreadable" /\ UNCHANGED <<n, todo>>
      BY <1>1, <2>1, SourceInvUnchanged DEF ReadInput
    <2>2. CASE n' = n + 1 /\ todo' = {f \in Files : inputs[n + 1][f] # NoProfile} /\ pc' = "files"
      <3>1. UNCHANGED <<inputs, output>> /\ todo = {} /\ n \in Nat
        BY <1>1 DEF ReadInput, SourceInv, TypeOK
      <3>2. \A m \in 1..InputCount, g \in Files : BlocksIn(m, g)' = BlocksIn(m, g)
        BY <3>1 DEF BlocksIn
      <3>3. ASSUME NEW g \in Files, NEW k \in 1..InputCount, Handled(k, g)', NEW b \in BlocksIn(k, g)
            PROVE  Handled(k, g)
        <4>1. k # n + 1
          BY <2>2, <3>3 DEF Handled, BlocksIn
        <4>2. QED
          BY <2>2, <3>1, <3>3, <4>1 DEF Handled
      <3>4. QED
        BY <2>2, <3>1, <3>2, <3>3 DEF SourceInv
    <2>3. QED
      BY <1>1, <2>1, <2>2 DEF ReadInput
  <1>2. CASE InputDone \/ PrintAll
    BY <1>2, SourceInvUnchanged DEF InputDone, PrintAll, SourceInv
  <1>3. ASSUME NEW f \in Files, FirstProfile(f) PROVE SourceInv'
    <2>1. f \in todo /\ inputs[n][f] \in Seq(Block) /\ inputs[n][f] # NoProfile
      BY <1>3, ProfileOfInput DEF FirstProfile, CoverInv
    <2>2. BlocksIn(n, f) = {inputs[n][f][l] : l \in 1..Len(inputs[n][f])}
      BY <2>1 DEF BlocksIn
    <2>3. \A b \in Block : Like(b, b)
      BY DEF Like, SameStart
    <2>4. /\ \A b \in BlocksIn(n, f) : \E k \in 1..Len(inputs[n][f]) : Like(b, inputs[n][f][k])
          /\ \A k \in 1..Len(inputs[n][f]) : \E b \in BlocksIn(n, f) : Like(b, inputs[n][f][k])
      BY <2>1, <2>2, <2>3
    <2>5. QED
      BY <1>3, <2>1, <2>4, SourceInvAdds DEF FirstProfile
  <1>4. ASSUME NEW f \in Files, StartMerge(f) PROVE SourceInv'
    BY <1>4, SourceInvUnchanged DEF StartMerge
  <1>5. CASE Both
    <2>1. CASE p1[i].shape = p2[j].shape
      BY <1>5, <2>1, SourceInvUnchanged DEF Both
    <2>2. CASE p1[i].shape # p2[j].shape
      <3>1. /\ p1 \in Seq(Block) /\ p2 \in Seq(Block) /\ i \in 1..Len(p1) /\ j \in 1..Len(p2)
            /\ SameStart(p1[i], p2[j])
        BY <1>5, MergeLists DEF Both, Partial
      <3>2. file \in Files /\ n \in 1..InputCount /\ p2 # NoProfile /\ output[file] # NoProfile
        BY <1>5 DEF Both, CoverInv, TypeOK, p2
      <3>3. PICK m \in 1..InputCount : \E b \in BlocksIn(m, file) : Like(b, p1[i])
        BY <3>1, <3>2 DEF SourceInv, p1
      <3>4. PICK b \in BlocksIn(m, file) : Like(b, p1[i])
        BY <3>3
      <3>5. p2[j] \in BlocksIn(n, file)
        BY <3>1, <3>2 DEF BlocksIn, p2
      <3>6. SameStart(b, p2[j]) /\ b.shape # p2[j].shape
        BY <2>2, <3>1, <3>4 DEF Like, SameStart
      <3>7. Different
        BY <3>2, <3>5, <3>6 DEF Different
      <3>8. QED
        BY <1>5, <2>2, <3>7, SourceInvUnchanged DEF Both
    <2>3. QED
      BY <2>1, <2>2
  <1>6. CASE Left \/ Right
    BY <1>6, SourceInvUnchanged DEF Left, Right
  <1>7. CASE EndMerge
    <2>1. /\ p1 \in Seq(Block) /\ Ordered(p1) /\ p2 \in Seq(Block) /\ Ordered(p2)
      BY <1>7, MergeLists DEF EndMerge, Merged
    <2>2. IsMergeOf(blocks, p1, p2) /\ blocks \in Seq(Block)
      BY <1>7, MergeDone DEF EndMerge, MergeIsRight, TypeOK
    <2>3. file \in todo /\ file \in Files /\ p2 # NoProfile /\ p1 # NoProfile
      BY <1>7 DEF EndMerge, Merged, CoverInv, TypeOK, p1, p2
    <2>4. BlocksIn(n, file) = {p2[l] : l \in 1..Len(p2)}
      BY <2>3 DEF BlocksIn, p2
    <2>5. /\ \A k \in 1..Len(blocks) : \/ \E a \in 1..Len(p1) : Like(p1[a], blocks[k])
                                       \/ \E b \in 1..Len(p2) : Like(p2[b], blocks[k])
          /\ \A a \in 1..Len(p1) : \E k \in 1..Len(blocks) : Like(p1[a], blocks[k])
          /\ \A b \in 1..Len(p2) : \E k \in 1..Len(blocks) : Like(p2[b], blocks[k])
      BY <2>1, <2>2, MergeAlike
    <2>6. /\ \A b \in BlocksIn(n, file) : \E k \in 1..Len(blocks) : Like(b, blocks[k])
          /\ \A k \in 1..Len(blocks) : \/ \E a \in 1..Len(p1) : Like(p1[a], blocks[k])
                                       \/ \E b \in BlocksIn(n, file) : Like(b, blocks[k])
      BY <2>4, <2>5
    <2>7. pc = "merge" /\ pc' = "files" /\ todo' = todo \ {file} /\ UNCHANGED <<inputs, n>>
          /\ output' = [output EXCEPT ![file] = blocks]
      BY <1>7 DEF EndMerge, Merged
    <2>8. QED
      BY <2>2, <2>3, <2>5, <2>6, <2>7, SourceInvAdds DEF p1
  <1>8. CASE UNCHANGED vars
    BY <1>8, SourceInvUnchanged DEF vars, SourceInv
  <1>9. QED
    BY <1>1, <1>2, <1>3, <1>4, <1>5, <1>6, <1>7, <1>8 DEF Next, merge

\* SourceInv holds whenever the program is between two steps.
LEMMA SourceInvariance == Spec => []SourceInv
  <1>1. Init => SourceInv
    <2> SUFFICES ASSUME Init PROVE SourceInv
      OBVIOUS
    <2>1. \A k \in 1..InputCount, f \in Files : ~Handled(k, f)
      BY DEF Init, Handled
    <2>2. QED
      BY <2>1 DEF Init, SourceInv
  <1>2. TypeOK /\ TypeOK' /\ CoverInv /\ SourceInv /\ [Next]_vars => SourceInv'
    BY SourceInvPreserved
  <1>3. QED
    BY <1>1, <1>2, Invariance, PTL DEF Spec

\* Nothing is printed for profiles of different sources, however many arguments
\* lie between them, and merge panics for no other reason (cover.go:22).
THEOREM SourcesChecked == Spec => []DifferentSourcesRefused
  <1>1. TypeOK /\ CoverInv /\ SourceInv => DifferentSourcesRefused
    <2> SUFFICES ASSUME TypeOK, CoverInv, SourceInv, pc = "printed", Different PROVE FALSE
      BY DEF DifferentSourcesRefused, SourceInv
    <2>1. PICK k \in 1..InputCount, m \in 1..InputCount, f \in Files :
            \E b \in BlocksIn(k, f), c \in BlocksIn(m, f) : SameStart(b, c) /\ b.shape # c.shape
      BY DEF Different
    <2>2. PICK b \in BlocksIn(k, f), c \in BlocksIn(m, f) : SameStart(b, c) /\ b.shape # c.shape
      BY <2>1
    <2>3. Handled(k, f) /\ Handled(m, f)
      BY DEF Handled, SourceInv
    <2>4. PICK x \in 1..Len(output[f]) : output[f] # NoProfile /\ Like(b, output[f][x])
      BY <2>3 DEF SourceInv
    <2>5. PICK y \in 1..Len(output[f]) : Like(c, output[f][y])
      BY <2>3 DEF SourceInv
    <2>6. SameStart(output[f][x], output[f][y])
      BY <2>2, <2>4, <2>5 DEF Like, SameStart
    <2>7. x = y
      BY <2>4, <2>6, SameStartSame DEF TypeOK, CoverInv
    <2>8. QED
      BY <2>2, <2>4, <2>5, <2>7 DEF Like
  <1>2. QED
    BY <1>1, Invariance, SourceInvariance, PTL

(***************************************************************************)
(* Totals                                                                  *)
(***************************************************************************)
\* The count at b's start, argument by argument.
Counts(f, b) == [m \in 1..InputCount |-> CountIn(m, f, b)]

\* The arguments whose profile of f is in the output.
HandledIn(f) == {m \in 1..InputCount : Handled(m, f)}

\* The blocks of the output.
OutBlocks(f) == IF output[f] = NoProfile THEN {} ELSE {output[f][l] : l \in 1..Len(output[f])}

\* A block of the output has the sum of the counts of the arguments handled so
\* far.
TotalInv ==
  \A f \in Files : \A b \in OutBlocks(f) :
    b.count = SumFunctionOnSet(Counts(f, b), HandledIn(f))

\* At most one block of an argument starts where b does: the count is its count.
LEMMA CountIs ==
  ASSUME TypeOK, NEW k \in 1..InputCount, NEW f \in Files, NEW b \in Block
  PROVE  /\ CountIn(k, f, b) \in Nat
         /\ (\A c \in BlocksIn(k, f) : ~SameStart(b, c)) => CountIn(k, f, b) = 0
         /\ \A c \in BlocksIn(k, f) : SameStart(b, c) => CountIn(k, f, b) = c.count
  <1> DEFINE D == {d \in BlocksIn(k, f) : SameStart(b, d)}
             F == [c \in D |-> c.count]
  <1>1. CountIn(k, f, b) = SumFunctionOnSet(F, D)
    BY DEF CountIn, SumFunction
  <1>2. CASE D = {}
    BY <1>1, <1>2, SumEmpty
  <1>3. ASSUME NEW c \in D PROVE D = {c} /\ c.count \in Nat
    <2>1. inputs[k] \in Inputs /\ inputs[k][f] # NoProfile
      BY <1>3 DEF TypeOK, BlocksIn
    <2>2. inputs[k][f] \in Seq(Block) /\ Ordered(inputs[k][f])
      BY <2>1, CoverAssumption
    <2>3. c \in Block
      BY <1>3, BlocksTyped
    <2>4. ASSUME NEW d \in D PROVE d = c
      <3>1. PICK x \in 1..Len(inputs[k][f]) : c = inputs[k][f][x]
        BY <2>1, <1>3 DEF BlocksIn
      <3>2. PICK y \in 1..Len(inputs[k][f]) : d = inputs[k][f][y]
        BY <2>1, <2>4 DEF BlocksIn
      <3>3. SameStart(inputs[k][f][x], inputs[k][f][y])
        BY <1>3, <2>4, <3>1, <3>2 DEF SameStart
      <3>4. x = y
        BY <2>2, <3>3, SameStartSame
      <3> QED
        BY <3>1, <3>2, <3>4
    <2> QED
      BY <1>3, <2>3, <2>4 DEF Block
  <1>4. ASSUME NEW c \in D PROVE CountIn(k, f, b) = c.count
    <2>1. D = {c} /\ F[c] = c.count /\ F[c] \in Nat
      BY <1>3, <1>4
    <2> HIDE DEF D, F
    <2>2. SumFunctionOnSet(F, {c}) = F[c]
      BY <2>1, SumSingle
    <2> QED
      BY <1>1, <2>1, <2>2
  <1>5. CASE D # {}
    BY <1>3, <1>4, <1>5
  <1> QED
    BY <1>2, <1>4, <1>5

\* The counts are numbers, and there are finitely many arguments.
LEMMA CountsTyped ==
  ASSUME TypeOK, NEW f \in Files, NEW b \in Block
  PROVE  /\ \A m \in 1..InputCount : Counts(f, b)[m] = CountIn(m, f, b) /\ Counts(f, b)[m] \in Nat
         /\ IsFiniteSet(HandledIn(f))
  <1>1. IsFiniteSet(1..InputCount)
    BY CoverAssumption, FS_Interval
  <1>2. HandledIn(f) \in SUBSET (1..InputCount)
    BY DEF HandledIn
  <1>3. IsFiniteSet(HandledIn(f))
    BY <1>1, <1>2, FS_Subset
  <1>4. \A m \in 1..InputCount : CountIn(m, f, b) \in Nat
    BY CountIs
  <1> QED
    BY <1>3, <1>4 DEF Counts

\* Blocks that start at the same place have the same counts.
LEMMA CountsSameStart ==
  ASSUME NEW f, NEW b, NEW c, SameStart(b, c)
  PROVE  Counts(f, b) = Counts(f, c)
  <1>1. ASSUME NEW m \in 1..InputCount PROVE CountIn(m, f, b) = CountIn(m, f, c)
    <2>1. {d \in BlocksIn(m, f) : SameStart(b, d)} = {d \in BlocksIn(m, f) : SameStart(c, d)}
      BY DEF SameStart
    <2> QED
      BY <2>1 DEF CountIn
  <1> QED
    BY <1>1 DEF Counts

\* A block that starts where none of the output does was in no argument so far.
LEMMA NotYetCounted ==
  ASSUME TypeOK, SourceInv, NEW f \in Files, NEW b \in Block,
         \A c \in OutBlocks(f) : ~SameStart(b, c)
  PROVE  SumFunctionOnSet(Counts(f, b), HandledIn(f)) = 0
  <1>1. ASSUME NEW m \in HandledIn(f) PROVE Counts(f, b)[m] = 0
    <2>1. m \in 1..InputCount /\ Handled(m, f)
      BY DEF HandledIn
    <2>2. ASSUME NEW c \in BlocksIn(m, f) PROVE ~SameStart(b, c)
      <3>1. PICK l \in 1..Len(output[f]) : output[f] # NoProfile /\ Like(c, output[f][l])
        BY <2>1 DEF SourceInv
      <3>2. output[f][l] \in OutBlocks(f)
        BY <3>1 DEF OutBlocks
      <3> QED
        BY <3>1, <3>2 DEF Like, SameStart
    <2>3. CountIn(m, f, b) = 0
      BY <2>1, <2>2, CountIs
    <2> QED
      BY <2>1, <2>3 DEF Counts
  <1> QED
    BY <1>1, CountsTyped, SumZero

\* The blocks of the output are blocks.
LEMMA OutBlocksTyped == TypeOK => \A f \in Files : OutBlocks(f) \subseteq Block
  <1> SUFFICES ASSUME TypeOK, NEW f \in Files, output[f] # NoProfile
               PROVE  {output[f][l] : l \in 1..Len(output[f])} \subseteq Block
    BY DEF OutBlocks
  <1>1. output[f] \in Seq(Block)
    BY DEF TypeOK
  <1> QED
    BY <1>1

\* The profile of f is added to the output: every block has its total of before
\* and its count in the argument.
LEMMA TotalInvAdds ==
  ASSUME TypeOK, TypeOK', CoverInv, TotalInv, NEW f \in todo,
         UNCHANGED <<inputs, n>>, todo' = todo \ {f},
         NEW q \in Seq(Block), output' = [output EXCEPT ![f] = q],
         \A k \in 1..Len(q) :
           q[k].count = SumFunctionOnSet(Counts(f, q[k]), HandledIn(f)) + CountIn(n, f, q[k])
  PROVE  TotalInv'
  <1>1. f \in Files /\ n \in 1..InputCount /\ q # NoProfile
    BY CoverAssumption DEF TypeOK, CoverInv
  <1>2. \A g, b : Counts(g, b)' = Counts(g, b)
    BY DEF Counts, CountIn, BlocksIn
  <1>3. output'[f] = q /\ \A g \in Files \ {f} : output'[g] = output[g]
    BY <1>1 DEF TypeOK
  <1>4. HandledIn(f)' = HandledIn(f) \cup {n} /\ n \notin HandledIn(f)
    BY <1>1 DEF HandledIn, Handled
  <1>5. \A g \in Files \ {f} : HandledIn(g)' = HandledIn(g) /\ OutBlocks(g)' = OutBlocks(g)
    BY <1>3 DEF HandledIn, Handled, OutBlocks
  <1>6. ASSUME NEW b \in OutBlocks(f)'
        PROVE  b.count = SumFunctionOnSet(Counts(f, b)', HandledIn(f)')
    <2>1. PICK k \in 1..Len(q) : b = q[k]
      BY <1>1, <1>3, <1>6 DEF OutBlocks
    <2>2. b \in Block
      BY <2>1
    <2>3. /\ \A m \in 1..InputCount : Counts(f, b)[m] = CountIn(m, f, b) /\ Counts(f, b)[m] \in Nat
          /\ IsFiniteSet(HandledIn(f))
      BY <1>1, <2>2, CountsTyped
    <2>4. \A m \in HandledIn(f) \cup {n} : Counts(f, b)[m] \in Nat
      BY <1>1, <2>3 DEF HandledIn
    <2>5. /\ SumFunctionOnSet(Counts(f, b), HandledIn(f) \cup {n})
             = Counts(f, b)[n] + SumFunctionOnSet(Counts(f, b), HandledIn(f))
          /\ SumFunctionOnSet(Counts(f, b), HandledIn(f)) \in Nat /\ Counts(f, b)[n] \in Nat
      BY <1>4, <2>3, <2>4, SumAdd
    <2>6. b.count = Counts(f, b)[n] + SumFunctionOnSet(Counts(f, b), HandledIn(f))
      BY <1>1, <2>1, <2>3, <2>5
    <2> QED
      BY <1>2, <1>4, <2>5, <2>6
  <1>7. ASSUME NEW g \in Files \ {f}, NEW b \in OutBlocks(g)'
        PROVE  b.count = SumFunctionOnSet(Counts(g, b)', HandledIn(g)')
    BY <1>2, <1>5, <1>7 DEF TotalInv
  <1> QED
    BY <1>6, <1>7 DEF TotalInv

\* Every step of main and merge keeps TotalInv.
LEMMA TotalInvPreserved ==
  ASSUME TypeOK, TypeOK', CoverInv, SourceInv, TotalInv, [Next]_vars PROVE TotalInv'
  <1> USE DEF loop
  <1>1. ASSUME UNCHANGED <<inputs, n, todo, output>> PROVE TotalInv'
    BY <1>1 DEF TotalInv, Counts, CountIn, BlocksIn, HandledIn, Handled, OutBlocks
  <1>2. CASE ReadInput
    <2>1. CASE UNCHANGED <<n, todo>>
      BY <1>1, <1>2, <2>1 DEF ReadInput
    <2>2. CASE n' = n + 1 /\ todo' = {f \in Files : inputs[n + 1][f] # NoProfile}
      <3>1. UNCHANGED <<inputs, output>> /\ todo = {} /\ n \in Nat /\ n + 1 \in 1..InputCount
        BY <1>2, CoverAssumption DEF ReadInput, SourceInv, TypeOK
      <3>2. \A f, b : Counts(f, b)' = Counts(f, b)
        BY <3>1 DEF Counts, CountIn, BlocksIn
      <3>3. \A f \in Files : OutBlocks(f)' = OutBlocks(f)
        BY <3>1 DEF OutBlocks
      <3>4. ASSUME NEW f \in Files, NEW b \in OutBlocks(f)
            PROVE  SumFunctionOnSet(Counts(f, b), HandledIn(f)')
                   = SumFunctionOnSet(Counts(f, b), HandledIn(f))
        <4>1. CASE f \in todo'
          <5>1. HandledIn(f)' = HandledIn(f)
            BY <2>2, <3>1, <4>1 DEF HandledIn, Handled
          <5> QED
            BY <5>1
        <4>2. CASE f \notin todo'
          <5>1. HandledIn(f)' = HandledIn(f) \cup {n + 1} /\ n + 1 \notin HandledIn(f)
            BY <2>2, <3>1, <4>2 DEF HandledIn, Handled
          <5>2. b \in Block
            BY <3>4, OutBlocksTyped
          <5>3. BlocksIn(n + 1, f) = {}
            BY <2>2, <4>2 DEF BlocksIn
          <5>4. CountIn(n + 1, f, b) = 0
            BY <3>1, <5>2, <5>3, CountIs
          <5>5. /\ \A m \in 1..InputCount : Counts(f, b)[m] = CountIn(m, f, b)
                                            /\ Counts(f, b)[m] \in Nat
                /\ IsFiniteSet(HandledIn(f))
            BY <5>2, CountsTyped
          <5>6. \A m \in HandledIn(f) \cup {n + 1} : Counts(f, b)[m] \in Nat
            BY <3>1, <5>5 DEF HandledIn
          <5>7. /\ SumFunctionOnSet(Counts(f, b), HandledIn(f) \cup {n + 1})
                   = Counts(f, b)[n + 1] + SumFunctionOnSet(Counts(f, b), HandledIn(f))
                /\ SumFunctionOnSet(Counts(f, b), HandledIn(f)) \in Nat
            BY <5>1, <5>5, <5>6, SumAdd
          <5>8. Counts(f, b)[n + 1] = 0
            BY <3>1, <5>4, <5>5
          <5> QED
            BY <5>1, <5>7, <5>8
        <4> QED
          BY <4>1, <4>2
      <3> QED
        BY <3>2, <3>3, <3>4 DEF TotalInv
    <2> QED
      BY <1>2, <2>1, <2>2 DEF ReadInput
  <1>3. CASE InputDone \/ PrintAll \/ Both \/ Left \/ Right \/ UNCHANGED vars
    BY <1>1, <1>3 DEF InputDone, PrintAll, Both, Left, Right, vars
  <1>4. ASSUME NEW f \in Files, StartMerge(f) PROVE TotalInv'
    BY <1>1, <1>4 DEF StartMerge
  <1>5. ASSUME NEW f \in Files, FirstProfile(f) PROVE TotalInv'
    <2>1. PICK q : q = inputs[n][f]
      OBVIOUS
    <2>2. f \in todo /\ q \in Seq(Block) /\ q # NoProfile /\ n \in 1..InputCount
      BY <1>5, <2>1, ProfileOfInput DEF FirstProfile, CoverInv
    <2>3. BlocksIn(n, f) = {q[l] : l \in 1..Len(q)}
      BY <2>1, <2>2 DEF BlocksIn
    <2>4. OutBlocks(f) = {}
      BY <1>5 DEF FirstProfile, OutBlocks
    <2>5. ASSUME NEW k \in 1..Len(q)
          PROVE  q[k].count = SumFunctionOnSet(Counts(f, q[k]), HandledIn(f)) + CountIn(n, f, q[k])
      <3>1. q[k] \in Block /\ q[k].count \in Nat /\ q[k] \in BlocksIn(n, f)
        <4>1. q[k] \in Block
          BY <2>2
        <4>2. q[k] \in BlocksIn(n, f)
          BY <2>3
        <4> QED
          BY <4>1, <4>2 DEF Block
      <3>2. CountIn(n, f, q[k]) = q[k].count
        BY <2>2, <3>1, CountIs DEF SameStart
      <3>3. SumFunctionOnSet(Counts(f, q[k]), HandledIn(f)) = 0
        BY <2>4, <3>1, NotYetCounted
      <3> QED
        BY <3>1, <3>2, <3>3
    <2>6. todo' = todo \ {f} /\ UNCHANGED <<inputs, n>> /\ output' = [output EXCEPT ![f] = q]
      BY <1>5, <2>1 DEF FirstProfile
    <2> QED
      BY <2>2, <2>5, <2>6, TotalInvAdds
  <1>6. CASE EndMerge
    <2>1. PICK p, r, q, f : p = p1 /\ r = p2 /\ q = blocks /\ f = file
      OBVIOUS
    <2>2. /\ p \in Seq(Block) /\ Ordered(p) /\ r \in Seq(Block) /\ Ordered(r)
          /\ q \in Seq(Block) /\ IsMergeOf(q, p, r)
      BY <1>6, <2>1, MergeLists, MergeDone DEF EndMerge, Merged, MergeIsRight, TypeOK
    <2>3. f \in todo /\ f \in Files /\ r # NoProfile /\ p # NoProfile /\ n \in 1..InputCount
      BY <1>6, <2>1 DEF EndMerge, Merged, CoverInv, TypeOK, p1, p2
    <2>4. BlocksIn(n, f) = {r[l] : l \in 1..Len(r)} /\ OutBlocks(f) = {p[l] : l \in 1..Len(p)}
      BY <2>1, <2>3 DEF BlocksIn, OutBlocks, p1, p2
    <2>5. ASSUME NEW k \in 1..Len(q)
          PROVE  q[k].count = SumFunctionOnSet(Counts(f, q[k]), HandledIn(f)) + CountIn(n, f, q[k])
      <3>1. q[k] \in Block
        BY <2>2
      <3>2. ASSUME NEW a \in 1..Len(p), SameStart(q[k], p[a])
            PROVE  /\ SumFunctionOnSet(Counts(f, q[k]), HandledIn(f)) = p[a].count
                   /\ p[a].count \in Nat
        <4>1. Counts(f, q[k]) = Counts(f, p[a])
          BY <3>2, CountsSameStart
        <4>2. p[a] \in OutBlocks(f) /\ p[a] \in Block
          BY <2>2, <2>4
        <4>3. p[a].count = SumFunctionOnSet(Counts(f, p[a]), HandledIn(f))
          BY <2>3, <4>2 DEF TotalInv
        <4> QED
          BY <4>1, <4>2, <4>3 DEF Block
      <3>3. ASSUME NEW b \in 1..Len(r), SameStart(q[k], r[b])
            PROVE  CountIn(n, f, q[k]) = r[b].count /\ r[b].count \in Nat
        <4>1. r[b] \in BlocksIn(n, f) /\ r[b] \in Block
          BY <2>2, <2>4
        <4> QED
          BY <2>3, <3>1, <3>3, <4>1, CountIs DEF Block
      <3>4. (\A b \in 1..Len(r) : ~SameStart(q[k], r[b])) => CountIn(n, f, q[k]) = 0
        BY <2>3, <2>4, <3>1, CountIs
      <3>5. (\A a \in 1..Len(p) : ~SameStart(q[k], p[a])) =>
               SumFunctionOnSet(Counts(f, q[k]), HandledIn(f)) = 0
        BY <2>3, <2>4, <3>1, NotYetCounted
      <3>6. CASE \E a \in 1..Len(p) : q[k] = p[a] /\ \A b \in 1..Len(r) : ~SameStart(q[k], r[b])
        <4>1. PICK a \in 1..Len(p) : q[k] = p[a] /\ \A b \in 1..Len(r) : ~SameStart(q[k], r[b])
          BY <3>6
        <4>2. SameStart(q[k], p[a])
          BY <4>1 DEF SameStart
        <4> QED
          BY <3>2, <3>4, <4>1, <4>2
      <3>7. CASE \E b \in 1..Len(r) : q[k] = r[b] /\ \A a \in 1..Len(p) : ~SameStart(q[k], p[a])
        <4>1. PICK b \in 1..Len(r) : q[k] = r[b] /\ \A a \in 1..Len(p) : ~SameStart(q[k], p[a])
          BY <3>7
        <4>2. SameStart(q[k], r[b])
          BY <4>1 DEF SameStart
        <4> QED
          BY <3>3, <3>5, <4>1, <4>2
      <3>8. CASE \E a \in 1..Len(p), b \in 1..Len(r) :
                   /\ SameStart(p[a], r[b]) /\ p[a].shape = r[b].shape
                   /\ q[k] = [p[a] EXCEPT !.count = @ + r[b].count]
        <4>1. PICK a \in 1..Len(p), b \in 1..Len(r) :
                 SameStart(p[a], r[b]) /\ q[k] = [p[a] EXCEPT !.count = @ + r[b].count]
          BY <3>8
        <4>2. p[a] \in Block
          BY <2>2
        <4>3. q[k].line = p[a].line /\ q[k].col = p[a].col /\ q[k].count = p[a].count + r[b].count
          BY <4>1, <4>2 DEF Block
        <4>4. SameStart(q[k], p[a]) /\ SameStart(q[k], r[b])
          BY <4>1, <4>3 DEF SameStart
        <4> QED
          BY <3>2, <3>3, <4>3, <4>4
      <3> QED
        BY <2>2, <3>6, <3>7, <3>8 DEF IsMergeOf
    <2>6. todo' = todo \ {f} /\ UNCHANGED <<inputs, n>> /\ output' = [output EXCEPT ![f] = q]
      BY <1>6, <2>1 DEF EndMerge
    <2> QED
      BY <2>2, <2>3, <2>5, <2>6, TotalInvAdds
  <1> QED
    BY <1>2, <1>3, <1>4, <1>5, <1>6 DEF Next, merge

\* What is printed has every block of every argument once, with the sum of its
\* counts, for any number of arguments in any order (cover.go:75-97).
THEOREM TotalsPrinted == Spec => []PrintsTotals
  <1>1. Init => TotalInv
    BY DEF Init, TotalInv, OutBlocks
  <1>2. TypeOK /\ TypeOK' /\ CoverInv /\ SourceInv /\ TotalInv /\ [Next]_vars => TotalInv'
    BY TotalInvPreserved
  <1>3. TypeOK /\ CoverInv /\ SourceInv /\ TotalInv => PrintsTotals
    <2> SUFFICES ASSUME TypeOK, CoverInv, SourceInv, TotalInv, pc = "printed", NEW f \in Files,
                        NEW q, q = IF output[f] = NoProfile THEN <<>> ELSE output[f]
                 PROVE  /\ Ordered(q)
                        /\ \A k \in 1..Len(q) :
                             q[k].count = SumFunction([m \in 1..InputCount |-> CountIn(m, f, q[k])])
                        /\ \A m \in 1..InputCount : \A b \in BlocksIn(m, f) :
                             \E k \in 1..Len(q) : SameStart(b, q[k])
      BY DEF PrintsTotals
    <2>1. Ordered(q)
      <3>1. CASE output[f] = NoProfile
        BY <3>1 DEF Ordered
      <3> QED
        BY <3>1 DEF CoverInv
    <2>2. \A m \in 1..InputCount : Handled(m, f)
      BY DEF SourceInv, Handled
    <2>3. ASSUME NEW k \in 1..Len(q)
          PROVE  q[k].count = SumFunction([m \in 1..InputCount |-> CountIn(m, f, q[k])])
      <3>1. output[f] # NoProfile /\ q[k] \in OutBlocks(f)
        BY <2>3 DEF OutBlocks
      <3>2. HandledIn(f) = 1..InputCount
        BY <2>2 DEF HandledIn
      <3>3. q[k].count = SumFunctionOnSet(Counts(f, q[k]), 1..InputCount)
        BY <3>1, <3>2 DEF TotalInv
      <3> QED
        BY <3>3 DEF Counts, SumFunction
    <2>4. ASSUME NEW m \in 1..InputCount, NEW b \in BlocksIn(m, f)
          PROVE  \E k \in 1..Len(q) : SameStart(b, q[k])
      <3>1. output[f] # NoProfile /\ \E l \in 1..Len(output[f]) : Like(b, output[f][l])
        BY <2>2 DEF SourceInv
      <3> QED
        BY <3>1 DEF Like
    <2> QED
      BY <2>1, <2>3, <2>4
  <1> QED
    BY <1>1, <1>2, <1>3, Invariance, SourceInvariance, PTL DEF Spec
================================================================================
