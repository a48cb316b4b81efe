------------------------------- MODULE MCCover -------------------------------
(* Arguments for module Cover: every profile of file f1 with blocks at up to   *)
(* three places, two of them on one line, and some with a block of file f2.     *)
EXTENDS Cover

CONSTANTS f1, f2, s1, s2

Starts == <<<<1, 2>>, <<1, 5>>, <<2, 1>>>>
Kinds == {<<s1, 1>>, <<s2, 2>>}

MCBlock(start, kind) ==
  [line |-> start[1], col |-> start[2], shape |-> kind[1], count |-> kind[2]]

\* All sorted lists of blocks at some of the first k starts.
Lists(k) ==
  LET Choice == [1..k -> Kinds \cup {<<>>}]
      Present(c) == SelectSeq([l \in 1..k |-> l], LAMBDA l : c[l] # <<>>)
  IN  {[m \in 1..Len(Present(c)) |-> MCBlock(Starts[Present(c)[m]], c[Present(c)[m]])] : c \in Choice}

MCInputs ==
  {[f \in {f1, f2} |-> IF f = f1 THEN p ELSE NoProfile] : p \in (Lists(3) \ {<<>>}) \cup {NoProfile}}
    \cup {[f \in {f1, f2} |-> IF f = f1 THEN p ELSE q] :
             p \in {NoProfile, <<MCBlock(<<1, 5>>, <<s1, 1>>)>>},
             q \in Lists(1) \ {<<>>}}
==============================================================================
