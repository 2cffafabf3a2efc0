----------------------------- MODULE PkgVersion -----------------------------
(***************************************************************************)
(* The comparison of package versions, libpkg/pkg_version.c, and the order *)
(* its comments document.                                                  *)
(*                                                                         *)
(* A version is an epoch, a body and a revision.  The body is a sequence   *)
(* of tokens: a number, a run of letters in lower case, a separator, "+"   *)
(* or "*".  No two numbers and no two runs of letters are neighbours, and  *)
(* numbers are small enough for the integers of the code.                  *)
(***************************************************************************)
EXTENDS Integers, Sequences, FiniteSetsExt

Number(n) == [kind |-> "number", n |-> n, run |-> ""]
Letters(n) == [kind |-> "letters", n |-> n, run |-> ""]      \* the n-th letter and any others
Staged(r) == [kind |-> "letters", n |-> 0, run |-> r]
Sign(c) == [kind |-> c, n |-> 0, run |-> ""]
Separator == "."

Version(epoch, body, revision) == [epoch |-> epoch, body |-> body, revision |-> revision]

\* The special runs of letters.  Of any other the first letter counts.
Stage == [pl |-> 0, alpha |-> 1, beta |-> 2, pre |-> 16, rc |-> 18]
Special(t) == t.kind = "letters" /\ t.run \in DOMAIN Stage

IsVersion(v) ==
  LET Token == [kind : {"number"}, n : Nat, run : {""}]
                 \cup [kind : {"letters"}, n : 1 .. 26, run : {""}]
                 \cup [kind : {"letters"}, n : {0}, run : DOMAIN Stage]
                 \cup [kind : {Separator, "+", "*"}, n : {0}, run : {""}]
  IN  v.body \in Seq(Token) /\ v.epoch \in Nat /\ v.revision \in Nat

KindAt(body, i) == IF i \in 1 .. Len(body) THEN body[i].kind ELSE "end"

\* Mutant: the next token is passed over.
Find_Past(body, i, kinds) ==
  Min({j \in i .. Len(body) + 1 : j = Len(body) + 1 \/ (j > i /\ body[j].kind \in kinds)})

\* The first position from i on of one of these kinds, or that of the end.
Find(body, i, kinds) ==
  Min({j \in i .. Len(body) + 1 : j = Len(body) + 1 \/ body[j].kind \in kinds})

\* The component that begins at i: a number, a letter and a patch level, and
\* the position of the next one.
GetComponent(body, i) ==
  LET number == KindAt(body, i) = "number"
      star == KindAt(body, i) = "*"
      n == IF number THEN body[i].n ELSE IF star THEN -2 ELSE -1
      j == IF number THEN i + 1 ELSE IF star THEN Find(body, i, {"+"}) ELSE i
      letters == KindAt(body, j) = "letters"
      special == letters /\ Special(body[j])
      dot == special /\ number                \* a dot is inserted before it
      a == IF ~letters \/ dot THEN 0
           ELSE IF special THEN Stage[body[j].run] ELSE body[j].n
      patch == letters /\ ~dot
      k == IF patch THEN j + 1 ELSE j
      level == patch /\ KindAt(body, k) = "number"
      pl == IF level THEN body[k].n ELSE IF patch THEN -1 ELSE 0
  IN  [key |-> <<n, a, pl>>,
       next |-> Find(body, IF level THEN k + 1 ELSE k, {"number", "letters", "+", "*"})]

Zero == <<0, 0, 0>>

Compare(x, y) == IF x < y THEN -1 ELSE IF x > y THEN 1 ELSE 0

\* The sign of the first component that differs.
CompareKeys(x, y) ==
  IF x[1] # y[1] THEN Compare(x[1], y[1])
  ELSE IF x[2] # y[2] THEN Compare(x[2], y[2]) ELSE Compare(x[3], y[3])

\* The loop over the components of two bodies.  At a "+" or the end of one, the
\* other goes on against zeros, until both are there.
CompareBodies(u, v) ==
  LET Blocked(b, i) == i > Len(b) \/ KindAt(b, i) = "+"
      Part(b, i) == IF Blocked(b, i) THEN [key |-> Zero, next |-> i] ELSE GetComponent(b, i)
      Skip(b, i) == IF i > Len(b) THEN i ELSE i + 1
      From[p \in (1 .. Len(u) + 1) \X (1 .. Len(v) + 1)] ==
        IF p[1] > Len(u) /\ p[2] > Len(v) THEN 0
        ELSE IF Blocked(u, p[1]) /\ Blocked(v, p[2])
          THEN From[<<Skip(u, p[1]), Skip(v, p[2])>>]
        ELSE LET x == Part(u, p[1])
                 y == Part(v, p[2])
             IN  IF x.key # y.key THEN CompareKeys(x.key, y.key) ELSE From[<<x.next, y.next>>]
  IN  From[<<1, 1>>]

\* pkg_version_cmp: the epoch, the body and the revision, in that order.
VersionCmp(u, v) ==
  IF u.epoch # v.epoch THEN Compare(u.epoch, v.epoch)
  ELSE IF u.body # v.body /\ CompareBodies(u.body, v.body) # 0
    THEN CompareBodies(u.body, v.body)
  ELSE Compare(u.revision, v.revision)

-----------------------------------------------------------------------------
(* The documented order.  A "+" separates blocks, and a separator or what  *)
(* the comment says it is inserted before separates the components of one. *)

BlockOf(body, i) == 1 + Cardinality({j \in 1 .. i - 1 : body[j].kind = "+"})

\* A component begins here: at a number that is not a patch level, at letters that
\* are not of a number before them, at "*", and at a separator where there is no
\* component yet.  After "*" nothing counts.
Opens(body, i) ==
  \/ body[i].kind = "number" /\ KindAt(body, i - 1) # "letters"
  \/ body[i].kind = "letters" /\ Special(body[i])
  \/ /\ body[i].kind = "letters"
     /\ ~(KindAt(body, i - 1) = "number" /\ KindAt(body, i - 2) # "letters")
  \/ body[i].kind = "*"
  \/ body[i].kind \notin {"number", "letters", "*", "+"} /\ (i = 1 \/ body[i - 1].kind = "+")

Begins(body) ==
  {i \in 1 .. Len(body) : Opens(body, i) /\ \A j \in 1 .. i - 1 :
                             body[j].kind = "*" => BlockOf(body, j) # BlockOf(body, i)}

\* Its number (-1 when there is none, -2 for "*"), letter and patch level.
KeyOf(body, i) ==
  LET number == IF body[i].kind = "number" THEN body[i].n ELSE IF body[i].kind = "*" THEN -2 ELSE -1
      l == IF body[i].kind = "number" THEN i + 1 ELSE i
      has == KindAt(body, l) = "letters" /\ (l = i \/ ~Special(body[l]))
      letter == IF ~has THEN 0 ELSE IF Special(body[l]) THEN Stage[body[l].run] ELSE body[l].n
      patch == IF ~has THEN 0 ELSE IF KindAt(body, l + 1) = "number" THEN body[l + 1].n ELSE -1
  IN  <<number, letter, patch>>

\* The m-th component of block q, 0 when it is missing.
KeyAt(body, q, m) ==
  LET Of == {i \in Begins(body) : BlockOf(body, i) = q
                                    /\ Cardinality({j \in Begins(body) : j <= i /\ BlockOf(body, j) = q}) = m}
  IN  IF Of = {} THEN Zero ELSE KeyOf(body, Min(Of))

Documented(u, v) ==
  LET n == Max({Len(u.body), Len(v.body)}) + 1
      Differ == {p \in (1 .. n) \X (1 .. n) : KeyAt(u.body, p[1], p[2]) # KeyAt(v.body, p[1], p[2])}
      first == CHOOSE p \in Differ : \A r \in Differ : p[1] < r[1] \/ (p[1] = r[1] /\ p[2] <= r[2])
  IN  IF u.epoch # v.epoch THEN Compare(u.epoch, v.epoch)
      ELSE IF Differ # {}
        THEN CompareKeys(KeyAt(u.body, first[1], first[2]), KeyAt(v.body, first[1], first[2]))
      ELSE Compare(u.revision, v.revision)
=============================================================================
