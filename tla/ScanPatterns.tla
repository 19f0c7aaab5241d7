---------------------------- MODULE ScanPatterns ----------------------------
(***************************************************************************)
(* The coordinate generators of plans/patterns.rs.  A trajectory is a      *)
(* sequence of rows, a row the sequence of its coordinates, one an axis.   *)
(* Coordinates are integers in a unit small enough that every division a   *)
(* generator makes is exact.  The two generators that place points by sine *)
(* and cosine are left out: a plan that uses one takes its points as given.*)
(***************************************************************************)
EXTENDS Integers, Sequences, FiniteSets, SequencesExt

\* s + (e - s) * t with t = i / (n - 1), and t = 0 for a single point.
Linspace(s, e, n, i) == IF n > 1 THEN s + ((e - s) * i) \div (n - 1) ELSE s

InnerProduct(num, axes) ==
  IF axes = <<>> THEN <<>>
  ELSE [i \in 1 .. num |-> [a \in DOMAIN axes |-> Linspace(axes[a].s, axes[a].e, num, i - 1)]]

\* The number of rows axis a holds a value for: the product of the lengths
\* of the axes after it.
SuffixRepeats(lengths) ==
  [a \in DOMAIN lengths |-> FoldLeft(LAMBDA p, n : p * n, 1, SubSeq(lengths, a + 1, Len(lengths)))]

\* The index (from 0) of axis position in row k (from 0).
AxisIndex(k, repeats, l, snaked) ==
  LET folded == snaked /\ l > 1
      m == (k \div repeats) % (IF folded THEN 2 * l ELSE l)
  IN  IF ~folded \/ m < l THEN m ELSE 2 * l - 1 - m

\* `snaking` may be shorter than the axes: the missing entries are FALSE.
Snaked(snaking, a) == a \in DOMAIN snaking /\ snaking[a]

OuterListProductSnake(axes, snaking) ==
  IF axes = <<>> \/ \E a \in DOMAIN axes : axes[a] = <<>> THEN <<>>
  ELSE LET lengths == [a \in DOMAIN axes |-> Len(axes[a])]
           total   == FoldLeft(LAMBDA p, n : p * n, 1, lengths)
           repeats == SuffixRepeats(lengths)
       IN  [k \in 1 .. total |-> [a \in DOMAIN axes |->
              axes[a][AxisIndex(k - 1, repeats[a], lengths[a], Snaked(snaking, a)) + 1]]]

\* outer_product_snake computes each coordinate from (start, stop, num)
\* where the list form looks it up.
OuterProductSnake(axes, snaking) ==
  IF axes = <<>> \/ \E a \in DOMAIN axes : axes[a].n = 0 THEN <<>>
  ELSE LET lengths == [a \in DOMAIN axes |-> axes[a].n]
           total   == FoldLeft(LAMBDA p, n : p * n, 1, lengths)
           repeats == SuffixRepeats(lengths)
       IN  [k \in 1 .. total |-> [a \in DOMAIN axes |->
              Linspace(axes[a].s, axes[a].e, axes[a].n,
                       AxisIndex(k - 1, repeats[a], lengths[a], Snaked(snaking, a)))]]

InnerListProduct(axes) ==
  IF axes = <<>> \/ \E a \in DOMAIN axes : Len(axes[a]) # Len(axes[1]) THEN <<>>
  ELSE [i \in DOMAIN axes[1] |-> [a \in DOMAIN axes |-> axes[a][i]]]

-----------------------------------------------------------------------------
(* The square spiral.  Offsets are halves of a step, so the walk is in     *)
(* half steps: n steps are 2 * n, and x_half is x_num.                     *)

Magnitude(n) == IF n < 0 THEN -n ELSE n

RingDown(r) == [i \in 1 .. 2 * r - 2 |-> r - 1 - i]          \* r-2 .. -r+1
RingUp(r)   == [i \in 1 .. 2 * r - 2 |-> i - r + 1]          \* -r+2 .. r-1

\* A side of a ring: its cells inside the grid, while the total is not reached.
Side(out, total, on, cells) ==
  IF ~on THEN out ELSE out \o SubSeq(cells, 1, IF Len(cells) < total - Len(out) THEN Len(cells) ELSE total - Len(out))

SpiralSquarePattern(xc, yc, xRange, yRange, xNum, yNum) ==
  IF xNum = 0 \/ yNum = 0 THEN <<>>
  ELSE
  LET xDelta == IF xNum > 1 THEN xRange \div (xNum - 1) ELSE 0
      yDelta == IF yNum > 1 THEN yRange \div (yNum - 1) ELSE 0
      xOff  == IF xNum % 2 = 0 THEN 1 ELSE 0
      yOff  == IF yNum % 2 = 0 THEN -1 ELSE 0
      total == xNum * yNum
      xAt(n) == xc + (xDelta * (2 * n - xOff)) \div 2
      yAt(n) == yc + (yDelta * (2 * n - yOff)) \div 2
      inX(n) == Magnitude(2 * n - xOff) < xNum
      inY(n) == Magnitude(2 * n - yOff) < yNum
      ring(out, r) ==
        LET e  == r - 1
            column(n, walk) == LET w == SelectSeq(walk, inY) IN [i \in DOMAIN w |-> <<xAt(n), yAt(w[i])>>]
            row(n, walk)    == LET w == SelectSeq(walk, inX) IN [i \in DOMAIN w |-> <<xAt(w[i]), yAt(n)>>]
            s1 == Side(out, total, Magnitude(2 * e - xOff) <= xNum, column(e, RingDown(r)))
            s2 == Side(s1, total, inY(-e), row(-e, RingDown(r)))
            s3 == Side(s2, total, inX(-e), column(-e, RingUp(r)))
        IN  Side(s3, total, inY(e), row(e, RingUp(r)))
      rings == [i \in 1 .. (IF xNum > yNum THEN xNum ELSE yNum) - 1 |-> i + 1]
  IN  FoldLeft(ring, <<<<xAt(0), yAt(0)>>>>, rings)
=============================================================================
