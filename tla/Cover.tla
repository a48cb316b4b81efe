-------------------------------- MODULE Cover --------------------------------
(***************************************************************************)
(* The program that merges coverage profiles (tools/cover/cover.go).  It   *)
(* reads the profiles written by the tests of all shards, adds up the      *)
(* counts of each file block by block, and prints one profile.  merge      *)
(* walks two lists of blocks, both sorted by where the blocks start, and   *)
(* gives up when two blocks start at the same place but differ otherwise.  *)
(*                                                                         *)
(* What a block is besides its start and its count (where it ends, how     *)
(* many statements it has) is its shape: merge only compares it.  Files    *)
(* are merged independently; the order in which the files of one input     *)
(* are handled, and in which the result is printed, is left open.          *)
(***************************************************************************)
EXTENDS Naturals, Sequences, Functions

CONSTANTS
  Files,        \* names of source files
  Shapes,       \* EndLine, EndCol and NumStmt of a block
  InputCount,   \* number of arguments
  Inputs,       \* what ParseProfiles may return for an argument
  NoProfile     \* the map has no entry for a file

Block == [line : Nat, col : Nat, shape : Shapes, count : Nat]

SameStart(b, c) == b.line = c.line /\ b.col = c.col

Before(b, c) == b.line < c.line \/ (b.line = c.line /\ b.col < c.col)

Ordered(p) == \A k, l \in 1..Len(p) : k < l => Before(p[k], p[l])

\* ParseProfiles (external) sorts the blocks of a file, which start at different
\* places.
ASSUME CoverAssumption ==
  /\ InputCount \in Nat /\ Files # {}
  /\ NoProfile \notin Seq(Block)
  /\ \A input \in Inputs :
       /\ DOMAIN input = Files
       /\ \A f \in Files : input[f] # NoProfile => input[f] \in Seq(Block) /\ Ordered(input[f])

VARIABLES
  inputs,   \* the parsed arguments
  n,        \* number of arguments read so far
  todo,     \* files of the argument read last that have not been handled
  output,   \* outputProfiles: the profile of each file so far
  pc,       \* where main is
  file,     \* the file being merged
  i, j,     \* merge's indexes into the two lists of blocks, from 1
  blocks    \* merge's output.Blocks

vars == <<inputs, n, todo, output, pc, file, i, j, blocks>>
loop == <<i, j, blocks>>

p1 == output[file]
p2 == inputs[n][file]

Init ==
  /\ inputs \in [1..InputCount -> Inputs]
  /\ n = 0
  /\ todo = {}
  /\ output = [f \in Files |-> NoProfile]
  /\ pc = "input"
  /\ file = CHOOSE f \in Files : TRUE
  /\ i = 1 /\ j = 1 /\ blocks = <<>>

(***************************************************************************)
(* main                                                                    *)
(***************************************************************************)
\* Mutant of ReadInput: an argument is skipped.
ReadInputSkips ==
  /\ pc = "input" /\ n < InputCount
  /\ n' = n + 2
  /\ todo' = {f \in Files : inputs[n + 1][f] # NoProfile}
  /\ pc' = "files"
  /\ UNCHANGED <<inputs, output, file, loop>>

\* ParseProfiles of the next argument; main panics if it fails.
ReadInput ==
  /\ pc = "input" /\ n < InputCount
  /\ \/ /\ n' = n + 1
        /\ todo' = {f \in Files : inputs[n + 1][f] # NoProfile}
        /\ pc' = "files"
     \/ pc' = "unreadable" /\ UNCHANGED <<n, todo>>
  /\ UNCHANGED <<inputs, output, file, loop>>

\* Mutant of FirstProfile: a later profile of the file replaces the earlier one.
FirstProfileLast(f) ==
  /\ pc = "files" /\ f \in todo
  /\ output' = [output EXCEPT ![f] = inputs[n][f]]
  /\ todo' = todo \ {f}
  /\ UNCHANGED <<inputs, n, pc, file, loop>>

\* The first profile of a file is taken as it is.
FirstProfile(f) ==
  /\ pc = "files" /\ f \in todo /\ output[f] = NoProfile
  /\ output' = [output EXCEPT ![f] = inputs[n][f]]
  /\ todo' = todo \ {f}
  /\ UNCHANGED <<inputs, n, pc, file, loop>>

\* merge is called.
StartMerge(f) ==
  /\ pc = "files" /\ f \in todo /\ output[f] # NoProfile
  /\ pc' = "merge"
  /\ file' = f
  /\ i' = 1 /\ j' = 1 /\ blocks' = <<>>
  /\ UNCHANGED <<inputs, n, todo, output>>

InputDone ==
  /\ pc = "files" /\ todo = {}
  /\ pc' = "input"
  /\ UNCHANGED <<inputs, n, todo, output, file, loop>>

\* The map is turned into a list, sorted and printed.
PrintAll ==
  /\ pc = "input" /\ n = InputCount
  /\ pc' = "printed"
  /\ UNCHANGED <<inputs, n, todo, output, file, loop>>

(***************************************************************************)
(* merge                                                                   *)
(***************************************************************************)
\* Mutant of Both: the second index stays behind.
BothKeeps ==
  /\ pc = "merge" /\ i <= Len(p1) /\ j <= Len(p2)
  /\ SameStart(p1[i], p2[j])
  /\ \/ /\ p1[i].shape = p2[j].shape
        /\ blocks' = Append(blocks, [p1[i] EXCEPT !.count = @ + p2[j].count])
        /\ i' = i + 1
        /\ UNCHANGED <<j, pc>>
     \/ /\ p1[i].shape # p2[j].shape
        /\ pc' = "panic"
        /\ UNCHANGED loop
  /\ UNCHANGED <<inputs, n, todo, output, file>>

\* Mutant of Both: the check is missing.
BothUnchecked ==
  /\ pc = "merge" /\ i <= Len(p1) /\ j <= Len(p2)
  /\ SameStart(p1[i], p2[j])
  /\ blocks' = Append(blocks, [p1[i] EXCEPT !.count = @ + p2[j].count])
  /\ i' = i + 1 /\ j' = j + 1
  /\ UNCHANGED <<inputs, n, todo, output, file, pc>>

\* The two blocks that start at the same place become one, or merge panics.
Both ==
  /\ pc = "merge" /\ i <= Len(p1) /\ j <= Len(p2)
  /\ SameStart(p1[i], p2[j])
  /\ \/ /\ p1[i].shape = p2[j].shape
        /\ blocks' = Append(blocks, [p1[i] EXCEPT !.count = @ + p2[j].count])
        /\ i' = i + 1 /\ j' = j + 1
        /\ UNCHANGED pc
     \/ /\ p1[i].shape # p2[j].shape
        /\ pc' = "panic"
        /\ UNCHANGED loop
  /\ UNCHANGED <<inputs, n, todo, output, file>>

\* The left list's block comes first, or the right list is used up.
Left ==
  /\ pc = "merge" /\ i <= Len(p1)
  /\ j <= Len(p2) => Before(p1[i], p2[j])
  /\ blocks' = Append(blocks, p1[i])
  /\ i' = i + 1
  /\ UNCHANGED <<inputs, n, todo, output, pc, file, j>>

\* Otherwise the right list's block.
Right ==
  /\ pc = "merge" /\ j <= Len(p2)
  /\ i <= Len(p1) => ~SameStart(p1[i], p2[j]) /\ ~Before(p1[i], p2[j])
  /\ blocks' = Append(blocks, p2[j])
  /\ j' = j + 1
  /\ UNCHANGED <<inputs, n, todo, output, pc, file, i>>

Merged == pc = "merge" /\ i > Len(p1) /\ j > Len(p2)

\* merge returns.
EndMerge ==
  /\ Merged
  /\ output' = [output EXCEPT ![file] = blocks]
  /\ todo' = todo \ {file}
  /\ pc' = "files"
  /\ UNCHANGED <<inputs, n, file, loop>>

merge == Both \/ Left \/ Right \/ EndMerge

Next ==
  \/ ReadInput \/ InputDone \/ PrintAll
  \/ \E f \in Files : FirstProfile(f) \/ StartMerge(f)
  \/ merge

Spec == Init /\ [][Next]_vars

(***************************************************************************)
(* Properties                                                              *)
(***************************************************************************)
TypeOK ==
  /\ inputs \in [1..InputCount -> Inputs]
  /\ n \in 0..InputCount
  /\ todo \subseteq Files
  /\ output \in [Files -> Seq(Block) \cup {NoProfile}]
  /\ pc \in {"input", "files", "merge", "printed", "panic", "unreadable"}
  /\ file \in Files
  /\ i \in Nat /\ j \in Nat
  /\ blocks \in Seq(Block)

\* Reference: q is what merging p and r should give, block by block.
IsMergeOf(q, p, r) ==
  /\ Ordered(q)
  /\ \A k \in 1..Len(q) :
       \/ \E a \in 1..Len(p) : q[k] = p[a] /\ \A b \in 1..Len(r) : ~SameStart(q[k], r[b])
       \/ \E b \in 1..Len(r) : q[k] = r[b] /\ \A a \in 1..Len(p) : ~SameStart(q[k], p[a])
       \/ \E a \in 1..Len(p), b \in 1..Len(r) :
            /\ SameStart(p[a], r[b]) /\ p[a].shape = r[b].shape
            /\ q[k] = [p[a] EXCEPT !.count = @ + r[b].count]
  /\ \A a \in 1..Len(p) : \E k \in 1..Len(q) : SameStart(q[k], p[a])
  /\ \A b \in 1..Len(r) : \E k \in 1..Len(q) : SameStart(q[k], r[b])

\* merge (cover.go:19-51) returns a sorted list with one block for every block of
\* either list, and with the sum of the counts where both have it.
MergeIsRight == Merged => IsMergeOf(blocks, p1, p2)

\* The blocks of f in the k-th argument, and the count of those at b's start.
BlocksIn(k, f) ==
  IF inputs[k][f] = NoProfile THEN {} ELSE {inputs[k][f][l] : l \in 1..Len(inputs[k][f])}
CountIn(k, f, b) ==
  SumFunction([c \in {d \in BlocksIn(k, f) : SameStart(b, d)} |-> c.count])

\* What is printed (cover.go:75-97) has every block of every argument once, with
\* the sum of its counts over all arguments, whatever their order.
PrintsTotals ==
  pc = "printed" =>
    \A f \in Files :
      LET q == IF output[f] = NoProfile THEN <<>> ELSE output[f]
      IN  /\ Ordered(q)
          /\ \A k \in 1..Len(q) :
               q[k].count = SumFunction([m \in 1..InputCount |-> CountIn(m, f, q[k])])
          /\ \A m \in 1..InputCount : \A b \in BlocksIn(m, f) :
               \E k \in 1..Len(q) : SameStart(b, q[k])

\* Two arguments were not made from the same source.
Different ==
  \E k, m \in 1..InputCount : \E f \in Files :
    \E b \in BlocksIn(k, f), c \in BlocksIn(m, f) : SameStart(b, c) /\ b.shape # c.shape

\* A total is never printed for profiles of different sources, even if only the
\* first and the last argument differ; and merge panics for no other reason.
DifferentSourcesRefused ==
  /\ pc = "printed" => ~Different
  /\ pc = "panic" => Different
==============================================================================
