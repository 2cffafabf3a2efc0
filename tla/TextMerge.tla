----------------------------- MODULE TextMerge -----------------------------
(***************************************************************************)
(* The three-way merge of configuration files: libpkg/diff.c finds the     *)
(* edits that lead from one text to another, libpkg/merge3.c applies the   *)
(* edits of two texts to their common origin.                              *)
(*                                                                         *)
(* A text is the sequence of its lines, every one of which ends with a     *)
(* newline.  The segments of a text are given as the code gives them, by   *)
(* the index from 0 of the first line and of the line after the last.      *)
(***************************************************************************)
EXTENDS Integers, Sequences, FiniteSetsExt, SequencesExt

\* A segment of a and the equal one of b, and what the search has found so far.
Segment == [sx : Nat, ex : Nat, sy : Nat, ey : Nat]
Found == [best : Segment, prev : Segment, score : Int]

\* The lines from i of a and from j of b are the same for this long, and not
\* beyond the ends of the segments.
AgreeFrom(a, b, i, j, e1, e2) ==
  Max({k \in 0 .. Min({e1 - i, e2 - j}) : \A t \in 1 .. k : a[i + t] = b[j + t]})

\* The same, going back from line i - 1 of a and j - 1 of b.
AgreeBack(a, b, i, j, s1, s2) ==
  Max({k \in 0 .. Min({i - s1, j - s2}) : \A t \in 0 .. k - 1 : a[i - t] = b[j - t]})

\* The exhaustive search: the first of the longest common segments.
OptimalLCS(a, b, s1, e1, s2, e2) ==
  LET Starts == (s1 .. e1 - 1) \X (s2 .. e2 - 1)
      longest == Max({AgreeFrom(a, b, p[1], p[2], e1, e2) : p \in Starts})
      Best == {p \in Starts : AgreeFrom(a, b, p[1], p[2], e1, e2) = longest}
      p == CHOOSE q \in Best : \A r \in Best : q[1] < r[1] \/ (q[1] = r[1] /\ q[2] <= r[2])
  IN  [sx |-> p[1], ex |-> p[1] + longest, sy |-> p[2], ey |-> p[2] + longest]

\* The search by the hash of a line: for each line of a the last line of b that
\* is equal to it, and never the last line of b's segment (j is counted from 1
\* and compared with e2).  A long match near the middle scores best.
LongestCommonSequence(a, b, s1, e1, s2, e2) ==
  LET Near(x) == IF x < 0 THEN -x ELSE x
      Equal(i) == {j \in s2 + 1 .. e2 - 1 : a[i + 1] = b[j]}
      Inside(i, j, m) == i < m.ex /\ j >= m.sy /\ j < m.ey
      Match(i, j) ==
        LET back == AgreeBack(a, b, i, j - 1, s1, s2)
            ahead == AgreeFrom(a, b, i + 1, j, e1, e2)
        IN  [sx |-> i - back, sy |-> j - 1 - back, ex |-> i + 1 + ahead, ey |-> j + ahead]
      Score(m) == (m.ex - m.sx) * (e1 - s1 + e2 - s2)
                    - (Near(m.sx - s1 - m.sy + s2) + Near((m.sx + m.ex) \div 2 - (e1 + s1) \div 2))
      Keep(acc, m) ==
        IF Score(m) > acc.score THEN [acc EXCEPT !.best = m, !.score = Score(m)]
        ELSE IF m.ex > acc.prev.ex THEN [acc EXCEPT !.prev = m] ELSE acc
      Look(acc, i) ==
        IF \E j \in Equal(i) : j = Max(Equal(i)) /\ ~Inside(i, j, acc.best) /\ ~Inside(i, j, acc.prev)
          THEN Keep(acc, Match(i, Max(Equal(i)))) ELSE acc
      none == [sx |-> s1, ex |-> s1, sy |-> s2, ey |-> s2]
      Scan[i \in s1 .. e1] ==
        IF i = s1 THEN [best |-> none, prev |-> none, score |-> -10000]
        ELSE Look(Scan[i - 1], i - 1)
      OrOptimal[m \in Segment] == IF m.ex = m.sx THEN OptimalLCS(a, b, s1, e1, s2, e2) ELSE m
  IN  OrOptimal[Scan[e1].best]

\* An edit is a number of lines copied, deleted and inserted.
AppendTriple(edits, new) ==
  LET n == Len(edits)
      Onto(f) == [edits EXCEPT ![n] = f]
  IN  IF n > 0 /\ edits[n].ins = 0 /\ edits[n].del = 0
        THEN Onto([copy |-> edits[n].copy + new.copy, del |-> new.del, ins |-> new.ins])
      ELSE IF n > 0 /\ new.copy = 0 /\ (edits[n].ins = 0 \/ new.del = 0)
        THEN Onto([copy |-> edits[n].copy, del |-> edits[n].del + new.del,
                   ins |-> edits[n].ins + new.ins])
      ELSE Append(edits, new)

Triple(c, d, i) == [copy |-> c, del |-> d, ins |-> i]

\* Divide and conquer: a common segment, then what is before and after it.
DiffStep(a, b) ==
  LET Steps[q \in (0 .. Len(a)) \X (0 .. Len(a)) \X (0 .. Len(b)) \X (0 .. Len(b))] ==
        LET Around[m \in Segment] ==
              IF m.ex > m.sx
                THEN Steps[<<q[1], m.sx, q[3], m.sy>>] \o <<Triple(m.ex - m.sx, 0, 0)>>
                       \o Steps[<<m.ex, q[2], m.ey, q[4]>>]
                ELSE <<Triple(0, q[2] - q[1], q[4] - q[3])>>
        IN  IF q[2] <= q[1] THEN IF q[4] > q[3] THEN <<Triple(0, 0, q[4] - q[3])>> ELSE <<>>
            ELSE IF q[4] <= q[3] THEN <<Triple(0, q[2] - q[1], 0)>>
            ELSE Around[LongestCommonSequence(a, b, q[1], q[2], q[3], q[4])]
  IN  Steps

\* The edits that make b of a: the common header and footer are carved off,
\* footer first.
TextDiff(a, b) ==
  LET foot == AgreeBack(a, b, Len(a), Len(b), 0, 0)
      head == AgreeFrom(a, b, 0, 0, Len(a) - foot, Len(b) - foot)
      Same(n) == IF n > 0 THEN <<Triple(n, 0, 0)>> ELSE <<>>
  IN  FoldLeft(AppendTriple, <<>>,
               Same(head) \o DiffStep(a, b)[<<head, Len(a) - foot, head, Len(b) - foot>>] \o Same(foot))

\* The lines n + 1 .. n + k of a text.
Lines(text, n, k) == SubSeq(text, n + 1, n + k)

\* Mutant: an edit of which nothing is left stays.
Finished_Kept(edits) == edits

\* An edit of which nothing is left is passed over.
Finished(edits) ==
  IF edits # <<>> /\ Head(edits) = Triple(0, 0, 0) THEN Tail(edits) ELSE edits

Copied(edits, k) == <<[Head(edits) EXCEPT !.copy = @ - k]>> \o Tail(edits)

\* One step of the merge: s.p, s.m and s.y lines of the origin, of mine and of
\* yours are consumed, and the edits s.c1 and s.c2 of mine and yours are left.
\* When the ones of one side are at an end, the other may have an insertion.
MergeStep(origin, mine, yours, s) ==
  LET h1 == Head(s.c1)
      h2 == Head(s.c2)
      n == Min({h1.copy, h2.copy})
      rest == IF s.c1 # <<>> THEN Lines(mine, s.m, h1.ins)
              ELSE IF s.c2 # <<>> THEN Lines(yours, s.y, h2.ins) ELSE <<>>
      Done(r) == [r EXCEPT !.c1 = Finished(@), !.c2 = Finished(@)]
  IN  IF s.failed THEN s
      ELSE IF s.c1 = <<>> \/ s.c2 = <<>> THEN [s EXCEPT !.out = @ \o rest, !.c1 = <<>>, !.c2 = <<>>]
      ELSE IF n > 0 THEN
        Done([s EXCEPT !.out = @ \o Lines(origin, s.p, n), !.p = @ + n, !.m = @ + n, !.y = @ + n,
                       !.c1 = Copied(@, n), !.c2 = Copied(@, n)])
      ELSE IF h1.copy >= h2.del /\ h1.copy > 0 /\ h2.del + h2.ins > 0 THEN
        Done([s EXCEPT !.out = @ \o Lines(yours, s.y, h2.ins), !.p = @ + h2.del,
                       !.m = @ + h2.del, !.y = @ + h2.ins,
                       !.c1 = Copied(@, h2.del), !.c2 = Tail(@)])
      ELSE IF h2.copy >= h1.del /\ h2.copy > 0 /\ h1.del + h1.ins > 0 THEN
        Done([s EXCEPT !.out = @ \o Lines(mine, s.m, h1.ins), !.p = @ + h1.del,
                       !.y = @ + h1.del, !.m = @ + h1.ins,
                       !.c2 = Copied(@, h1.del), !.c1 = Tail(@)])
      ELSE IF h1 = h2 /\ Lines(mine, s.m, h1.ins) = Lines(yours, s.y, h1.ins) THEN
        Done([s EXCEPT !.out = @ \o Lines(mine, s.m, h1.ins), !.p = @ + h1.del,
                       !.m = @ + h1.ins, !.y = @ + h1.ins, !.c1 = Tail(@), !.c2 = Tail(@)])
      ELSE [s EXCEPT !.failed = TRUE]

\* merge_3way: the edits of mine and of yours applied to their origin, or a
\* conflict, after as many steps as there can be.
Merge3(origin, mine, yours) ==
  LET Steps[k \in 0 .. 2 * (Len(origin) + Len(mine) + Len(yours)) + 3] ==
        IF k > 0 THEN MergeStep(origin, mine, yours, Steps[k - 1])
        ELSE [p |-> 0, m |-> 0, y |-> 0, out |-> <<>>, failed |-> FALSE,
              c1 |-> TextDiff(origin, mine), c2 |-> TextDiff(origin, yours)]
  IN  Steps[2 * (Len(origin) + Len(mine) + Len(yours)) + 3]

-----------------------------------------------------------------------------
(* What a merge should do, line by line.  Edits say of each line of the    *)
(* origin whether it is kept, and of each gap, before a line or at the     *)
(* end, what is inserted there.                                            *)

\* How far the first k edits have come in the origin and in the other text.
Reached(edits) ==
  LET R[k \in 0 .. Len(edits)] ==
        IF k = 0 THEN <<0, 0>>
        ELSE <<R[k - 1][1] + edits[k].copy + edits[k].del, R[k - 1][2] + edits[k].copy + edits[k].ins>>
  IN  R

LeadsTo(edits, a, b) ==
  LET R == Reached(edits)
  IN  /\ R[Len(edits)] = <<Len(a), Len(b)>>
      /\ \A k \in 1 .. Len(edits) :
           Lines(a, R[k - 1][1], edits[k].copy) = Lines(b, R[k - 1][2], edits[k].copy)

Kept(edits, i) ==
  \E k \in 1 .. Len(edits) : i \in Reached(edits)[k - 1][1] + 1 .. Reached(edits)[k - 1][1] + edits[k].copy

Inserted(edits, b, gap) ==
  LET R == Reached(edits)
      Here == {k \in 1 .. Len(edits) : R[k - 1][1] + edits[k].copy = gap /\ edits[k].ins > 0}
  IN  IF Here = {} THEN <<>>
      ELSE Lines(b, R[Min(Here) - 1][2] + edits[Min(Here)].copy, edits[Min(Here)].ins)

\* The text with both edits: m are the ones to mine, y the ones to yours.
BothEdits(origin, mine, yours, m, y) ==
  LET Insert(g) == IF Inserted(m, mine, g) = Inserted(y, yours, g) THEN Inserted(m, mine, g)
                   ELSE Inserted(m, mine, g) \o Inserted(y, yours, g)
      UpTo[g \in 0 .. Len(origin)] ==
        IF g = 0 THEN Insert(0)
        ELSE UpTo[g - 1] \o (IF Kept(m, g) /\ Kept(y, g) THEN <<origin[g]>> ELSE <<>>) \o Insert(g)
  IN  UpTo[Len(origin)]

MergedRight(origin, mine, yours) ==
  \E merged \in {Merge3(origin, mine, yours)}, m \in {TextDiff(origin, mine)}, y \in {TextDiff(origin, yours)} :
    /\ LeadsTo(m, origin, mine) /\ LeadsTo(y, origin, yours)
    /\ ~merged.failed => merged.out = BothEdits(origin, mine, yours, m, y)
    /\ mine = origin \/ mine = yours => ~merged.failed /\ merged.out = yours
    /\ yours = origin => ~merged.failed /\ merged.out = mine
=============================================================================
