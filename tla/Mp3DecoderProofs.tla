----------------------------- MODULE Mp3DecoderProofs -----------------------------
(***************************************************************************)
(* The mp3 decoder, for any file, tag, buffer and start position: a        *)
(* decoder that nobody stopped has put out each frame that should be heard,*)
(* once and in the order of the file.                                      *)
(*                                                                         *)
(* The invariant ties what is in the buffer to its place in the file (Pos) *)
(* and says what is done with everything before that place (Put) and that  *)
(* no frame will be found in its middle behind it (Clean).  How the file   *)
(* is laid follows from Units by induction over its pieces.                *)
(***************************************************************************)
EXTENDS Mp3Decoder, TLAPS, SequenceTheorems, WellFoundedInduction

--------------------------------------------------------------------------------
(* Least elements, induction and flattening *)

\* A set of natural numbers that is not empty has a least element.
LEMMA LeastElement ==
  ASSUME NEW S \in SUBSET Nat, S # {}
  PROVE  \E m \in S : \A k \in S : m <= k
<1> DEFINE R == OpToRel(<, Nat)
<1>1. IsWellFoundedOn(R, Nat)
  BY NatLessThanWellFounded, Zenon
<1>2. \E m \in S : \A k \in S : ~(<<k, m>> \in R)
  <2> HIDE DEF R
  <2> QED
    BY <1>1, WFMin, Zenon
<1>3. \A k, m \in S : ~(<<k, m>> \in R) => m <= k
  BY DEF OpToRel
<1> QED
  BY <1>2, <1>3

\* Induction, with a set where the library has a predicate.
LEMMA Induction ==
  ASSUME NEW T \in SUBSET Nat, 0 \in T, \A n \in Nat : n \in T => n + 1 \in T
  PROVE  T = Nat
<1> SUFFICES ASSUME Nat \ T # {} PROVE FALSE
  OBVIOUS
<1>1. PICK m \in Nat \ T : \A k \in Nat \ T : m <= k
  BY LeastElement
<1>2. m # 0 /\ m - 1 \in Nat
  OBVIOUS
<1>3. m - 1 \in T
  BY <1>1, <1>2
<1> QED
  BY <1>1, <1>2, <1>3

\* Putting sequences behind each other is associative.
LEMMA ConcatThree == \A S : \A t, u, v \in Seq(S) : (t \o u) \o v = t \o (u \o v)
  BY ConcatAssociative

\* f[i] is what the first i of n sequences make, put behind each other
Flattens(f, s, n) == \A i \in 1 .. n : f[i] = IF i = 1 THEN s[i] ELSE f[i - 1] \o s[i]

\* There is a sequence of what the first of a sequence of sequences make together.
LEMMA FlattenExists ==
  ASSUME NEW S, NEW s \in Seq(Seq(S))
  PROVE  \E f \in [1 .. Len(s) -> Seq(S)] : Flattens(f, s, Len(s))
<1> DEFINE T == {n \in Nat : n <= Len(s) => \E f \in [1 .. n -> Seq(S)] : Flattens(f, s, n)}
<1>1. 0 \in T
  <2>1. <<>> \in [1 .. 0 -> Seq(S)]
    BY EmptySeq
  <2>2. Flattens(<<>>, s, 0)
    BY DEF Flattens
  <2> QED
    BY <2>1, <2>2
<1>2. ASSUME NEW n \in Nat, n \in T, n + 1 <= Len(s)
      PROVE  \E f \in [1 .. n + 1 -> Seq(S)] : Flattens(f, s, n + 1)
  <2>1. PICK f \in [1 .. n -> Seq(S)] : Flattens(f, s, n)
    BY <1>2
  <2>2. s[n + 1] \in Seq(S)
    BY <1>2, ElementOfSeq
  <2> DEFINE last == IF n = 0 THEN s[1] ELSE f[n] \o s[n + 1]
             g    == [i \in 1 .. n + 1 |-> IF i = n + 1 THEN last ELSE f[i]]
  <2>3. last \in Seq(S)
    <3>1. CASE n = 0
      BY <2>2, <3>1
    <3>2. CASE n # 0
      <4>1. f[n] \in Seq(S)
        BY <3>2
      <4> QED
        BY <2>2, <3>2, <4>1, ConcatProperties
    <3> QED
      BY <3>1, <3>2
  <2>4. g \in [1 .. n + 1 -> Seq(S)]
    <3> HIDE DEF last
    <3> QED
      BY <2>3
  <2>5. g[n + 1] = last /\ \A i \in 1 .. n : g[i] = f[i]
    <3> HIDE DEF last
    <3> QED
      OBVIOUS
  <2>6. ASSUME NEW i \in 1 .. n + 1
        PROVE  g[i] = IF i = 1 THEN s[i] ELSE g[i - 1] \o s[i]
    <3> HIDE DEF g
    <3>1. CASE i = n + 1
      <4>1. CASE n = 0
        BY <3>1, <2>5, <4>1
      <4>2. CASE n # 0
        <5>1. g[i - 1] = f[n] /\ i # 1
          BY <2>5, <3>1, <4>2
        <5> QED
          BY <2>5, <3>1, <4>2, <5>1
      <4> QED
        BY <4>1, <4>2
    <3>2. CASE i # n + 1
      <4>1. i \in 1 .. n
        BY <3>2
      <4>2. CASE i = 1
        <5>1. f[i] = s[i]
          BY <2>1, <4>1, <4>2 DEF Flattens
        <5> QED
          BY <2>5, <4>1, <4>2, <5>1
      <4>3. CASE i # 1
        <5>1. f[i] = f[i - 1] \o s[i]
          BY <2>1, <4>1, <4>3 DEF Flattens
        <5>2. g[i] = f[i] /\ g[i - 1] = f[i - 1]
          BY <2>5, <4>1, <4>3
        <5> QED
          BY <4>3, <5>1, <5>2
      <4> QED
        BY <4>2, <4>3
    <3> QED
      BY <3>1, <3>2
  <2> HIDE DEF g
  <2> QED
    BY <2>4, <2>6 DEF Flattens
<1>3. T = Nat
  <2> HIDE DEF T
  <2>1. \A n \in Nat : n \in T => n + 1 \in T
    BY <1>2 DEF T
  <2> QED
    BY <1>1, <2>1, Induction DEF T
<1>4. Len(s) \in T
  <2> HIDE DEF T
  <2> QED
    BY <1>3, LenProperties
<1> QED
  BY <1>4

\* What FlattenSeq gives is what one of these gives at the end.
LEMMA FlattenIs ==
  ASSUME NEW S, NEW s \in Seq(Seq(S))
  PROVE  \E f : /\ Flattens(f, s, Len(s))
                /\ Len(s) # 0 => FlattenSeq(s) = f[Len(s)]
<1> DEFINE IsFlat(f) == f = [i \in 1 .. Len(s) |-> IF i = 1 THEN s[i] ELSE f[i - 1] \o s[i]]
           flat == CHOOSE f : IsFlat(f)
<1>1. \E f : IsFlat(f)
  <2>1. PICK f \in [1 .. Len(s) -> Seq(S)] : Flattens(f, s, Len(s))
    BY FlattenExists
  <2>2. f = [i \in 1 .. Len(s) |-> f[i]]
    OBVIOUS
  <2>3. [i \in 1 .. Len(s) |-> f[i]] =
        [i \in 1 .. Len(s) |-> IF i = 1 THEN s[i] ELSE f[i - 1] \o s[i]]
    BY <2>1, Zenon DEF Flattens
  <2> QED
    BY <2>2, <2>3, Zenon
<1>2. IsFlat(flat)
  BY <1>1
<1>3. Len(s) # 0 => FlattenSeq(s) = flat[Len(s)]
  BY DEF FlattenSeq
<1> HIDE DEF flat
<1>4. ASSUME NEW i \in 1 .. Len(s)
      PROVE  flat[i] = IF i = 1 THEN s[i] ELSE flat[i - 1] \o s[i]
  BY <1>2, Zenon
<1>5. Flattens(flat, s, Len(s))
  BY <1>4, Zenon DEF Flattens
<1> QED
  BY <1>3, <1>5

\* The sequences that come one after the other: p[k] has k of those of s behind t.
Builds(S, p, t, s) ==
  /\ p \in [0 .. Len(s) -> Seq(S)]
  /\ p[0] = t
  /\ p[Len(s)] = t \o FlattenSeq(s)
  /\ \A k \in 0 .. Len(s) - 1 : p[k + 1] = p[k] \o s[k + 1]

\* What FlattenSeq makes of s is the last of the sequences that come one after the other.
LEMMA FlattenBuilds ==
  ASSUME NEW S, NEW t \in Seq(S), NEW s \in Seq(Seq(S))
  PROVE  \E p : Builds(S, p, t, s)
<1>1. PICK flat : /\ Flattens(flat, s, Len(s))
                  /\ Len(s) # 0 => FlattenSeq(s) = flat[Len(s)]
  BY FlattenIs
<1>2. Len(s) \in Nat
  BY LenProperties
<1>3. \A i \in 1 .. Len(s) : s[i] \in Seq(S)
  BY ElementOfSeq
<1>4. Len(s) # 0 => flat[1] = s[1]
  <2>1. Len(s) # 0 => 1 \in 1 .. Len(s)
    BY <1>2
  <2> QED
    BY <1>1, <2>1, Zenon DEF Flattens
<1>5. ASSUME NEW k \in Nat, k # 0, k + 1 <= Len(s)
      PROVE  flat[k + 1] = flat[k] \o s[k + 1]
  <2>1. k + 1 \in 1 .. Len(s) /\ k + 1 # 1 /\ (k + 1) - 1 = k
    BY <1>2, <1>5
  <2>2. flat[k + 1] = IF k + 1 = 1 THEN s[k + 1] ELSE flat[(k + 1) - 1] \o s[k + 1]
    BY <1>1, <2>1, Zenon DEF Flattens
  <2> QED
    BY <2>1, <2>2, Zenon
<1>6. \A i \in 1 .. Len(s) : flat[i] \in Seq(S)
  <2> DEFINE T == {n \in Nat : n + 1 <= Len(s) => flat[n + 1] \in Seq(S)}
  <2>1. 0 \in T
    BY <1>2, <1>3, <1>4
  <2>2. ASSUME NEW n \in Nat, n \in T PROVE n + 1 \in T
    <3> SUFFICES ASSUME n + 2 <= Len(s) PROVE flat[n + 2] \in Seq(S)
      BY <1>2
    <3>1. n + 1 \in Nat /\ n + 1 # 0 /\ n + 1 + 1 <= Len(s) /\ n + 1 + 1 = n + 2
      BY <1>2
    <3>2. flat[n + 2] = flat[n + 1] \o s[n + 2]
      <4>1. flat[n + 1 + 1] = flat[n + 1] \o s[n + 1 + 1]
        BY <1>5, <3>1
      <4> QED
        BY <3>1, <4>1
    <3>3. flat[n + 1] \in Seq(S) /\ s[n + 2] \in Seq(S)
      BY <1>2, <1>3, <2>2
    <3> QED
      BY <3>2, <3>3, ConcatProperties
  <2>3. T = Nat
    <3> HIDE DEF T
    <3> QED
      BY <2>1, <2>2, Induction DEF T
  <2>4. \A n \in Nat : n \in T
    BY <2>3
  <2> QED
    <3> SUFFICES ASSUME NEW i \in 1 .. Len(s) PROVE flat[i] \in Seq(S)
      OBVIOUS
    <3>1. i - 1 \in Nat /\ i - 1 + 1 = i /\ i <= Len(s)
      BY <1>2
    <3>2. i - 1 \in T
      BY <2>4, <3>1
    <3> QED
      BY <3>1, <3>2
<1> DEFINE p == [k \in 0 .. Len(s) |-> IF k = 0 THEN t ELSE t \o flat[k]]
<1>7. p[0] = t /\ \A k \in 1 .. Len(s) : p[k] = t \o flat[k]
  <2>1. 0 \in 0 .. Len(s) /\ \A k \in 1 .. Len(s) : k \in 0 .. Len(s) /\ k # 0
    BY <1>2
  <2> QED
    BY <2>1, Zenon
<1>8. p \in [0 .. Len(s) -> Seq(S)]
  <2>1. ASSUME NEW k \in 0 .. Len(s) PROVE (IF k = 0 THEN t ELSE t \o flat[k]) \in Seq(S)
    <3>1. CASE k = 0
      BY <3>1
    <3>2. CASE k # 0
      <4>1. flat[k] \in Seq(S)
        BY <1>2, <1>6, <3>2
      <4>2. t \o flat[k] \in Seq(S)
        BY <4>1, ConcatProperties
      <4> QED
        BY <3>2, <4>2
    <3> QED
      BY <3>1, <3>2
  <2> QED
    BY <2>1
<1> HIDE DEF p
<1>9. p[Len(s)] = t \o FlattenSeq(s)
  <2>1. CASE Len(s) = 0
    <3>1. FlattenSeq(s) = <<>>
      BY <2>1 DEF FlattenSeq
    <3> QED
      BY <1>7, <2>1, <3>1, ConcatEmptySeq
  <2>2. CASE Len(s) # 0
    <3>1. Len(s) \in 1 .. Len(s)
      BY <1>2, <2>2
    <3> QED
      BY <1>1, <1>7, <2>2, <3>1, Zenon
  <2> QED
    BY <2>1, <2>2
<1>10. ASSUME NEW k, k \in 0 .. Len(s) - 1 PROVE p[k + 1] = p[k] \o s[k + 1]
  <2>1. k + 1 \in 1 .. Len(s) /\ s[k + 1] \in Seq(S) /\ p[k + 1] = t \o flat[k + 1]
    BY <1>2, <1>3, <1>7, <1>10
  <2>2. CASE k = 0
    <3>1. k + 1 = 1 /\ Len(s) # 0
      BY <1>2, <1>10, <2>2
    <3> QED
      BY <1>4, <1>7, <2>1, <2>2, <3>1, Zenon
  <2>3. CASE k # 0
    <3>2. k \in 1 .. Len(s) /\ k \in Nat /\ k + 1 <= Len(s)
      BY <1>2, <1>10, <2>3
    <3>4. flat[k + 1] = flat[k] \o s[k + 1]
      BY <1>5, <2>3, <3>2
    <3>5. (t \o flat[k]) \o s[k + 1] = t \o (flat[k] \o s[k + 1])
      <4>1. PICK u \in Seq(S) : u = flat[k]
        BY <1>6, <3>2
      <4>2. PICK v \in Seq(S) : v = s[k + 1]
        BY <2>1
      <4>3. (t \o u) \o v = t \o (u \o v)
        BY ConcatThree
      <4> QED
        BY <4>1, <4>2, <4>3, Zenon
    <3> QED
      BY <1>7, <2>1, <3>2, <3>4, <3>5, Zenon
  <2> QED
    BY <2>2, <2>3
<1> QED
  BY <1>7, <1>8, <1>9, <1>10 DEF Builds

\* The least and the greatest of two numbers.
LEMMA MinMax ==
  ASSUME NEW a \in Int, NEW b \in Int
  PROVE  /\ Min({a, b}) = IF a <= b THEN a ELSE b
         /\ Max({a, b}) = IF a >= b THEN a ELSE b
<1>1. Min({a, b}) \in {a, b} /\ \A y \in {a, b} : Min({a, b}) <= y
  <2>1. \E x \in {a, b} : \A y \in {a, b} : x <= y
    OBVIOUS
  <2> QED
    BY <2>1 DEF Min
<1>2. Max({a, b}) \in {a, b} /\ \A y \in {a, b} : Max({a, b}) >= y
  <2>1. \E x \in {a, b} : \A y \in {a, b} : x >= y
    OBVIOUS
  <2> QED
    BY <2>1 DEF Max
<1> QED
  BY <1>1, <1>2

\* what the input gives of a file u of which a units were read

--------------------------------------------------------------------------------
(* How a file is laid *)

UnitSet == [kind : Kinds \cup {"tag"}, frame : Nat, part : Nat]
IsFrame(unit) == unit.kind \notin {"junk", "tag"}

Unit(units, i) ==
  /\ units[i].part \in 1 .. i
  /\ units[i - units[i].part + 1].frame = units[i].frame
  /\ units[i].kind = "tag" => units[i].part = i
  /\ IsFrame(units[i]) => units[i].part <= FrameUnits

Pair(units, i, j) ==
  /\ \/ units[i].frame < units[j].frame
     \/ /\ units[i].frame = units[j].frame
        /\ units[i].kind = units[j].kind
        /\ units[j].part = units[i].part + (j - i)
  /\ IsFrame(units[i]) /\ j - i <= FrameUnits - units[i].part
       => units[j].frame = units[i].frame

\* How the units of a file are laid: the frames are numbered in their order, the parts
\* of one follow each other from the first on, and only the end of the file cuts one.
Laid(units) ==
  /\ units \in Seq(UnitSet)
  /\ \A i \in 1 .. Len(units) : Unit(units, i)
  /\ \A i, j \in 1 .. Len(units) : i < j => Pair(units, i, j)

Tagged(units, tag) == \A i \in 1 .. Len(units) : units[i].kind = "tag" <=> i <= tag

\* a file of k pieces, none of them cut
Built(units, k, tag) ==
  /\ Laid(units)
  /\ Tagged(units, tag)
  /\ \A i \in 1 .. Len(units) :
       /\ units[i].frame <= k
       /\ IsFrame(units[i]) => i - units[i].part + FrameUnits <= Len(units)

\* the fields of a unit of a file
LEMMA UnitIs ==
  ASSUME NEW units \in Seq(UnitSet), NEW i \in 1 .. Len(units)
  PROVE  units[i].frame \in Nat /\ units[i].part \in Nat /\ units[i].kind \in Kinds \cup {"tag"}
<1>1. units[i] \in UnitSet
  BY ElementOfSeq
<1> QED
  BY <1>1 DEF UnitSet

\* A piece is its units in their order.
LEMMA PieceIs ==
  ASSUME Mp3Assumption, NEW n \in Nat, NEW kinds \in [1 .. n -> Kinds], NEW i \in 1 .. n
  PROVE  LET piece == Piece(kinds, i)
         IN  /\ piece \in Seq(UnitSet)
             /\ kinds[i] # "junk" => Len(piece) = FrameUnits
             /\ \A p \in 1 .. Len(piece) : piece[p] = [kind |-> kinds[i], frame |-> i, part |-> p]
<1> DEFINE m == IF kinds[i] = "junk" THEN JunkUnits ELSE FrameUnits
           piece == [p \in 1 .. m |-> [kind |-> kinds[i], frame |-> i, part |-> p]]
<1>1. m \in Nat /\ (kinds[i] # "junk" => m = FrameUnits)
  BY DEF Mp3Assumption
<1>2. Piece(kinds, i) = piece
  BY DEF Piece
<1>3. kinds[i] \in Kinds
  OBVIOUS
<1> HIDE DEF m
<1>4. ASSUME NEW p \in 1 .. m PROVE [kind |-> kinds[i], frame |-> i, part |-> p] \in UnitSet
  BY <1>1, <1>3 DEF UnitSet
<1>5. piece \in [1 .. m -> UnitSet]
  BY <1>4
<1>6. piece \in Seq(UnitSet) /\ Len(piece) = m
  BY <1>1, <1>5
<1>7. \A p \in 1 .. m : piece[p] = [kind |-> kinds[i], frame |-> i, part |-> p]
  OBVIOUS
<1> HIDE DEF piece
<1> QED
  BY <1>1, <1>2, <1>6, <1>7

\* A tag alone is a file that is laid, with no piece behind it.
LEMMA TagIs ==
  ASSUME Mp3Assumption, NEW tag \in Nat
  PROVE  Built(Tag(tag), 0, tag)
<1> DEFINE u == Tag(tag)
<1>1. \A p \in 1 .. tag : [kind |-> "tag", frame |-> 0, part |-> p] \in UnitSet
  BY DEF UnitSet
<1>2. u \in [1 .. tag -> UnitSet]
  BY <1>1 DEF Tag
<1>3. u \in Seq(UnitSet) /\ Len(u) = tag
  BY <1>2
<1>4. \A p \in 1 .. tag : u[p].kind = "tag" /\ u[p].frame = 0 /\ u[p].part = p
  BY DEF Tag
<1> HIDE DEF u
<1>5. ASSUME NEW i \in 1 .. tag PROVE Unit(u, i)
  BY <1>4 DEF Unit, IsFrame
<1>6. ASSUME NEW i \in 1 .. tag, NEW j \in 1 .. tag, i < j PROVE Pair(u, i, j)
  BY <1>4 DEF Pair, IsFrame
<1>7. Laid(u)
  BY <1>3, <1>5, <1>6 DEF Laid
<1>8. Tagged(u, tag)
  BY <1>3, <1>4 DEF Tagged
<1>9. ASSUME NEW i \in 1 .. tag PROVE u[i].frame <= 0 /\ ~IsFrame(u[i])
  BY <1>4 DEF IsFrame
<1> QED
  BY <1>3, <1>7, <1>8, <1>9 DEF Built, u

\* A file that is built stays so when the next piece is put behind it.
LEMMA Grows ==
  ASSUME Mp3Assumption, NEW k \in Nat, NEW tag \in Nat, NEW u, Built(u, k, tag),
         tag <= Len(u),
         NEW kind \in Kinds, NEW v \in Seq(UnitSet),
         kind # "junk" => Len(v) = FrameUnits,
         \A p \in 1 .. Len(v) : v[p] = [kind |-> kind, frame |-> k + 1, part |-> p]
  PROVE  Built(u \o v, k + 1, tag) /\ tag <= Len(u \o v)
<1> DEFINE w == u \o v
           l == Len(u)
<1>1. u \in Seq(UnitSet) /\ l \in Nat /\ Len(v) \in Nat
  BY LenProperties DEF Built, Laid
<1>2. w \in Seq(UnitSet) /\ Len(w) = l + Len(v)
  BY <1>1, ConcatProperties
<1>3. \A i \in 1 .. l : w[i] = u[i]
  BY <1>1, ConcatProperties
<1>4. ASSUME NEW i \in 1 .. Len(w), i > l
      PROVE  w[i].kind = kind /\ w[i].frame = k + 1 /\ w[i].part = i - l
  <2>1. PICK q \in 1 .. Len(v) : q = i - l
    <3>1. i - l \in 1 .. Len(v)
      BY <1>1, <1>2, <1>4
    <3> QED
      BY <3>1, Zenon
  <2>2. w[i] = v[q]
    BY <1>1, <1>2, <1>4, <2>1, ConcatProperties
  <2>3. v[q] = [kind |-> kind, frame |-> k + 1, part |-> q]
    OBVIOUS
  <2> HIDE DEF w, l
  <2> QED
    BY <2>1, <2>2, <2>3
<1>5. kind # "tag"
  BY DEF Kinds
<1>6. FrameUnits \in Nat
  BY DEF Mp3Assumption
<1>7. ASSUME NEW i \in 1 .. l
      PROVE  /\ u[i].part \in 1 .. i /\ u[i].frame \in Nat /\ u[i].frame <= k
             /\ IsFrame(u[i]) => i - u[i].part + FrameUnits <= l
             /\ u[i].kind = "tag" <=> i <= tag
             /\ Unit(u, i)
  <2>1. u[i].frame \in Nat
    BY <1>1, UnitIs
  <2> QED
    BY <2>1, <1>7 DEF Built, Tagged, Laid, Unit
<1> HIDE DEF w, l
<1>8. ASSUME NEW i \in 1 .. Len(w) PROVE Unit(w, i)
  <2>1. CASE i <= l
    <3>1. i \in 1 .. l
      BY <1>1, <1>2, <2>1
    <3>2. i - u[i].part + 1 \in 1 .. l
      <4>1. PICK q \in 1 .. i : q = u[i].part
        BY <1>7, <3>1
      <4>2. i - q + 1 \in 1 .. l
        BY <1>1, <3>1
      <4> QED
        BY <4>1, <4>2, Zenon
    <3>3. w[i] = u[i] /\ w[i - u[i].part + 1] = u[i - u[i].part + 1]
      BY <1>3, <3>1, <3>2
    <3> QED
      BY <1>7, <3>1, <3>3 DEF Unit
  <2>2. CASE i > l
    <3>1. w[i].kind = kind /\ w[i].frame = k + 1 /\ w[i].part = i - l
      BY <1>4, <2>2
    <3>2. i - w[i].part + 1 = l + 1 /\ l + 1 \in 1 .. Len(w) /\ l + 1 > l
      BY <1>1, <1>2, <2>2, <3>1
    <3>3. w[l + 1].frame = k + 1
      BY <1>4, <3>2
    <3>4. kind # "junk" => i - l <= FrameUnits
      BY <1>1, <1>2, <2>2
    <3> QED
      BY <1>1, <1>2, <1>5, <2>2, <3>1, <3>2, <3>3, <3>4 DEF Unit, IsFrame
  <2> QED
    BY <1>1, <1>2, <2>1, <2>2
<1>9. ASSUME NEW i \in 1 .. Len(w), NEW j \in 1 .. Len(w), i < j PROVE Pair(w, i, j)
  <2>1. CASE j <= l
    <3>1. i \in 1 .. l /\ j \in 1 .. l
      BY <1>1, <1>2, <1>9, <2>1
    <3>2. Pair(u, i, j)
      BY <1>9, <3>1 DEF Built, Laid, l
    <3> QED
      BY <1>3, <3>1, <3>2 DEF Pair
  <2>2. CASE i <= l /\ j > l
    <3>1. i \in 1 .. l
      BY <1>1, <1>2, <2>2
    <3>2. w[i] = u[i] /\ w[i].frame <= k /\ w[i].frame \in Nat /\ w[j].frame = k + 1
      BY <1>3, <1>4, <1>7, <2>2, <3>1
    <3>3. PICK q \in Nat : q = u[i].part /\ (IsFrame(u[i]) => i - q + FrameUnits <= l)
      BY <1>7, <3>1
    <3>4. IsFrame(u[i]) => ~(j - i <= FrameUnits - q)
      <4>1. i - q + FrameUnits <= l => ~(j - i <= FrameUnits - q)
        BY <1>1, <1>2, <1>6, <2>2
      <4> QED
        BY <3>3, <4>1
    <3>5. IsFrame(w[i]) => ~(j - i <= FrameUnits - w[i].part)
      BY <3>2, <3>3, <3>4, Zenon
    <3>6. w[i].frame < w[j].frame
      <4>1. \A f \in Nat : f <= k => f < k + 1
        OBVIOUS
      <4> QED
        BY <3>2, <4>1, Zenon
    <3> QED
      BY <3>5, <3>6, Zenon DEF Pair
  <2>3. CASE i > l
    <3>1. j > l
      BY <1>1, <1>2, <1>9, <2>3
    <3>2. w[i].kind = kind /\ w[i].frame = k + 1 /\ w[i].part = i - l
      BY <1>4, <2>3
    <3>3. w[j].kind = kind /\ w[j].frame = k + 1 /\ w[j].part = j - l
      BY <1>4, <3>1
    <3> QED
      BY <1>1, <1>2, <3>2, <3>3 DEF Pair
  <2> QED
    BY <1>1, <1>2, <2>1, <2>2, <2>3
<1>10. Laid(w)
  BY <1>2, <1>8, <1>9 DEF Laid
<1>11. ASSUME NEW i \in 1 .. Len(w)
       PROVE  /\ w[i].frame <= k + 1
              /\ IsFrame(w[i]) => i - w[i].part + FrameUnits <= Len(w)
              /\ w[i].kind = "tag" <=> i <= tag
  <2>1. CASE i <= l
    <3>1. i \in 1 .. l
      BY <1>1, <1>2, <2>1
    <3>2. w[i] = u[i]
      BY <1>3, <3>1
    <3>3. PICK q \in Nat, f \in Nat : q = u[i].part /\ f = u[i].frame
      BY <1>7, <3>1
    <3>4. f <= k /\ (IsFrame(u[i]) => i - q + FrameUnits <= l) /\ (u[i].kind = "tag" <=> i <= tag)
      BY <1>7, <3>1, <3>3
    <3>5. f <= k + 1 /\ (IsFrame(u[i]) => i - q + FrameUnits <= Len(w))
      BY <1>1, <1>2, <1>6, <3>4
    <3> QED
      BY <3>2, <3>3, <3>4, <3>5, Zenon
  <2>2. CASE i > l
    <3>1. w[i].kind = kind /\ w[i].frame = k + 1 /\ w[i].part = i - l
      BY <1>4, <2>2
    <3>2. i > tag
      BY <1>1, <1>2, <2>2 DEF l
    <3> QED
      BY <1>1, <1>2, <1>5, <1>6, <2>2, <3>1, <3>2 DEF IsFrame
  <2> QED
    BY <1>1, <1>2, <2>1, <2>2
<1>12. Tagged(w, tag)
  BY <1>11 DEF Tagged
<1>13. tag <= Len(w)
  BY <1>1, <1>2 DEF l
<1> QED
  BY <1>10, <1>11, <1>12, <1>13 DEF Built, w

\* The file of any pieces behind any tag is built, by induction over the pieces.
LEMMA UnitsBuilt ==
  ASSUME Mp3Assumption, NEW n \in Nat, NEW kinds \in [1 .. n -> Kinds], NEW tag \in Nat
  PROVE  LET all == Tag(tag) \o FlattenSeq([i \in DOMAIN kinds |-> Piece(kinds, i)])
         IN  Built(all, n, tag)
<1> DEFINE pieces == [i \in DOMAIN kinds |-> Piece(kinds, i)]
           all == Tag(tag) \o FlattenSeq(pieces)
<1>1. \A i \in 1 .. n : Piece(kinds, i) \in Seq(UnitSet)
  BY PieceIs
<1>2. pieces \in [1 .. n -> Seq(UnitSet)]
  BY <1>1
<1>3. pieces \in Seq(Seq(UnitSet)) /\ Len(pieces) = n
  BY <1>2
<1>4. \A i \in 1 .. n : pieces[i] = Piece(kinds, i)
  OBVIOUS
<1>5. Built(Tag(tag), 0, tag)
  BY TagIs
<1>6. Tag(tag) \in Seq(UnitSet)
  BY <1>5 DEF Built, Laid
<1>7. Len(Tag(tag)) = tag
  BY DEF Tag
<1> HIDE DEF pieces
<1>8. PICK p :
         /\ p[0] = Tag(tag)
         /\ p[n] = all
         /\ \A k \in 0 .. n - 1 : p[k + 1] = p[k] \o pieces[k + 1]
  <2>1. PICK p : Builds(UnitSet, p, Tag(tag), pieces)
    BY <1>3, <1>6, FlattenBuilds, Zenon
  <2> QED
    BY <1>3, <2>1, Zenon DEF Builds
<1> HIDE DEF all
<1> DEFINE T == {k \in Nat : k <= n => Built(p[k], k, tag) /\ tag <= Len(p[k])}
<1>9. 0 \in T
  BY <1>5, <1>7, <1>8
<1>10. ASSUME NEW k \in Nat, k \in T PROVE k + 1 \in T
  <2> SUFFICES ASSUME k + 1 <= n PROVE Built(p[k + 1], k + 1, tag) /\ tag <= Len(p[k + 1])
    OBVIOUS
  <2>1. k \in 0 .. n - 1 /\ k + 1 \in 1 .. n /\ k <= n
    OBVIOUS
  <2>2. Built(p[k], k, tag) /\ tag <= Len(p[k])
    BY <1>10, <2>1
  <2> HIDE DEF T
  <2>3. p[k + 1] = p[k] \o Piece(kinds, k + 1)
    BY <1>4, <1>8, <2>1
  <2>4. kinds[k + 1] \in Kinds
    BY <2>1
  <2>5. PICK v \in Seq(UnitSet) :
           /\ v = Piece(kinds, k + 1)
           /\ kinds[k + 1] # "junk" => Len(v) = FrameUnits
           /\ \A q \in 1 .. Len(v) : v[q] = [kind |-> kinds[k + 1], frame |-> k + 1, part |-> q]
    BY <2>1, PieceIs
  <2>6. PICK u : u = p[k]
    OBVIOUS
  <2>7. PICK kind \in Kinds : kind = kinds[k + 1]
    BY <2>4
  <2>8. kind # "junk" => Len(v) = FrameUnits
    BY <2>5, <2>7
  <2>9. \A q \in 1 .. Len(v) : v[q] = [kind |-> kind, frame |-> k + 1, part |-> q]
    BY <2>5, <2>7
  <2>10. Built(u \o v, k + 1, tag) /\ tag <= Len(u \o v)
    BY <2>2, <2>6, <2>8, <2>9, Grows
  <2> QED
    BY <2>3, <2>5, <2>6, <2>10, Zenon
<1>11. T = Nat
  <2> HIDE DEF T
  <2> QED
    BY <1>9, <1>10, Induction DEF T
<1>12. Built(p[n], n, tag)
  <2>1. n \in T
    BY <1>11
  <2> QED
    BY <2>1
<1> HIDE DEF T
<1>13. Built(all, n, tag)
  BY <1>8, <1>12
<1> QED
  BY <1>13, Zenon DEF all, pieces

\* What is cut off the end leaves the rest as it is.
LEMMA LaidPrefix ==
  ASSUME NEW all, Laid(all), NEW l \in Nat, l <= Len(all), NEW tag \in Nat, Tagged(all, tag)
  PROVE  Laid(SubSeq(all, 1, l)) /\ Tagged(SubSeq(all, 1, l), tag)
<1> DEFINE u == SubSeq(all, 1, l)
<1>1. all \in Seq(UnitSet) /\ Len(all) \in Nat
  BY LenProperties DEF Laid
<1>2. \A i \in 1 .. l : all[i] \in UnitSet
  BY <1>1, ElementOfSeq
<1>3. u \in Seq(UnitSet) /\ Len(u) = l /\ \A i \in 1 .. l : u[i] = all[i]
  BY <1>2, SubSeqProperties
<1> HIDE DEF u
<1>4. ASSUME NEW i \in 1 .. l PROVE Unit(u, i) /\ (u[i].kind = "tag" <=> i <= tag)
  <2>1. i \in 1 .. Len(all)
    BY <1>1
  <2>2. Unit(all, i) /\ (all[i].kind = "tag" <=> i <= tag)
    BY <2>1 DEF Laid, Tagged
  <2>3. i - all[i].part + 1 \in 1 .. l
    <3>1. all[i].part \in 1 .. i
      BY <2>2 DEF Unit
    <3> QED
      BY <3>1
  <2>4. u[i] = all[i] /\ u[i - all[i].part + 1] = all[i - all[i].part + 1]
    BY <1>3, <2>3
  <2> QED
    BY <2>2, <2>4 DEF Unit
<1>5. ASSUME NEW i \in 1 .. l, NEW j \in 1 .. l, i < j PROVE Pair(u, i, j)
  <2>1. i \in 1 .. Len(all) /\ j \in 1 .. Len(all)
    BY <1>1
  <2>2. Pair(all, i, j)
    BY <1>5, <2>1 DEF Laid
  <2>3. u[i] = all[i] /\ u[j] = all[j]
    BY <1>3
  <2> QED
    BY <2>2, <2>3 DEF Pair
<1>6. Laid(u)
  BY <1>3, <1>4, <1>5 DEF Laid
<1>7. Tagged(u, tag)
  BY <1>3, <1>4 DEF Tagged
<1> QED
  BY <1>6, <1>7 DEF u

\* So is any file the decoder is given laid, whatever is cut off its end.
LEMMA UnitsLaid ==
  ASSUME Mp3Assumption, NEW n \in Nat, NEW kinds \in [1 .. n -> Kinds],
         NEW tag \in Nat, NEW cut \in 0 .. 1
  PROVE  Laid(Units(tag, kinds, cut)) /\ Tagged(Units(tag, kinds, cut), tag)
<1> DEFINE all == Tag(tag) \o FlattenSeq([i \in DOMAIN kinds |-> Piece(kinds, i)])
<1>1. Built(all, n, tag)
  BY UnitsBuilt
<1>2. Units(tag, kinds, cut) = SubSeq(all, 1, Len(all) - cut)
  BY DEF Units
<1> HIDE DEF all
<1>3. Laid(all) /\ Tagged(all, tag) /\ all \in Seq(UnitSet) /\ Len(all) \in Nat
  BY <1>1, LenProperties DEF Built, Laid
<1>4. CASE Len(all) - cut \in Nat
  <2>1. PICK l \in Nat : l = Len(all) - cut
    BY <1>4
  <2>2. l <= Len(all)
    BY <1>3, <2>1
  <2>3. Laid(SubSeq(all, 1, l)) /\ Tagged(SubSeq(all, 1, l), tag)
    BY <1>3, <2>2, LaidPrefix
  <2> QED
    BY <1>2, <2>1, <2>3
<1>5. CASE Len(all) - cut \notin Nat
  <2>1. Len(all) - cut \in Int /\ Len(all) - cut < 1
    BY <1>3, <1>5
  <2>2. SubSeq(all, 1, Len(all) - cut) = <<>>
    BY <2>1, SubSeqEmpty
  <2>3. Laid(<<>>) /\ Tagged(<<>>, tag)
    BY EmptySeq DEF Laid, Tagged
  <2> QED
    BY <1>2, <2>2, <2>3
<1> QED
  BY <1>4, <1>5

--------------------------------------------------------------------------------
(* The frames of a file, and what is put out *)

Decoded == {"good", "odd", "layer2"}
Format  == {"good", "layer2"}

\* a frame begins at unit i, and one of these kinds that is there in full
FrameAt(u, i) == i \in 1 .. Len(u) /\ u[i].part = 1 /\ IsFrame(u[i])
Begins(u, i, kinds) == /\ i \in 1 .. Len(u) /\ i + FrameUnits - 1 <= Len(u)
                       /\ u[i].part = 1 /\ u[i].kind \in kinds

\* The definitions of Mp3Decoder for a file and a beginning.
UselessAt(u, from, i) == \/ u[i].kind \in {"junk", "broken"}
                         \/ u[i].kind = "tag" /\ i = 1
                         \/ from # 0 /\ i - u[i].part < from
DenseFrom(u, from) == \A i \in from + 1 .. Len(u) :
                        \E j \in i .. i + BufUnits - FrameUnits : j > Len(u) \/ ~UselessAt(u, from, j)

\* a frame that is to be put out
Wanted(u, from, i) ==
  /\ Begins(u, i, Decoded) /\ i > from
  /\ from = 0 => \E g \in 1 .. Len(u) : Begins(u, g, Format) /\ u[g].frame <= u[i].frame

\* From unit pos on no frame is found in its middle.
Clean(u, from, pos) ==
  \A j \in 1 .. Len(u) : j > pos /\ ~UselessAt(u, from, j)
                           => IsFrame(u[j]) /\ j - u[j].part >= pos

\* What was put out when the first pos units are done with
Put(u, from, first, o, pos) ==
  /\ \A i, j \in DOMAIN o : i < j => o[i] < o[j]
  /\ ToSet(o) = {u[i].frame : i \in {k \in 1 .. Len(u) : k <= pos /\ Wanted(u, from, k)}}
  /\ from = 0 => (first <=> \A i \in 1 .. Len(u) : i <= pos => ~Begins(u, i, Format))

\* The first unit of the frame that unit j is of is in the file.
LEMMA StartOf ==
  ASSUME NEW u, Laid(u), NEW j \in 1 .. Len(u), IsFrame(u[j])
  PROVE  /\ j - u[j].part + 1 \in 1 .. j
         /\ FrameAt(u, j - u[j].part + 1)
         /\ u[j - u[j].part + 1].kind = u[j].kind
<1>1. u \in Seq(UnitSet) /\ Len(u) \in Nat
  BY LenProperties DEF Laid
<1> DEFINE g == j - u[j].part + 1
<1>2. u[j].part \in 1 .. j /\ u[g].frame = u[j].frame /\ g = j - u[j].part + 1
  BY DEF Laid, Unit
<1>3. g \in 1 .. j /\ g \in 1 .. Len(u)
  BY <1>1, <1>2
<1> HIDE DEF g
<1>4. CASE g = j
  BY <1>3, <1>4, <1>2 DEF FrameAt, g
<1>5. CASE g # j
  <2>1. Pair(u, g, j)
    BY <1>1, <1>3, <1>5 DEF Laid
  <2>2. u[g].frame \in Nat /\ u[g].part \in Nat
    BY <1>1, <1>3, UnitIs
  <2>3. u[g].kind = u[j].kind /\ u[j].part = u[g].part + (j - g)
    BY <1>2, <2>1, <2>2 DEF Pair
  <2>4. u[g].part = 1
    <3>1. PICK p \in Nat, q \in Nat : p = u[j].part /\ q = u[g].part
      BY <1>2, <2>2
    <3>2. g = j - p + 1 /\ p = q + (j - g)
      BY <1>2, <2>3, <3>1
    <3>3. q = 1
      BY <1>3, <3>2
    <3> QED
      BY <3>1, <3>3, Zenon
  <2> QED
    BY <1>3, <2>3, <2>4 DEF FrameAt, IsFrame, g
<1> QED
  BY <1>4, <1>5

\* the units that follow the first of a frame
LEMMA Within ==
  ASSUME Mp3Assumption, NEW u, Laid(u), NEW g, FrameAt(u, g),
         NEW j \in 1 .. Len(u), g <= j, j <= g + FrameUnits - 1
  PROVE  u[j].frame = u[g].frame /\ u[j].kind = u[g].kind /\ u[j].part = j - g + 1
<1>1. u \in Seq(UnitSet) /\ Len(u) \in Nat /\ g \in 1 .. Len(u) /\ FrameUnits \in Nat
  BY LenProperties DEF Laid, FrameAt, Mp3Assumption
<1>2. CASE g = j
  BY <1>1, <1>2 DEF FrameAt
<1>3. CASE g # j
  <2>1. Pair(u, g, j)
    BY <1>1, <1>3 DEF Laid
  <2>2. u[g].frame \in Nat /\ u[j].part \in Nat /\ u[g].part = 1 /\ IsFrame(u[g])
    BY <1>1, UnitIs DEF FrameAt
  <2>3. j - g <= FrameUnits - u[g].part
    BY <1>1, <2>2
  <2>4. u[j].frame = u[g].frame
    BY <2>1, <2>2, <2>3 DEF Pair
  <2> QED
    BY <1>1, <2>1, <2>2, <2>4 DEF Pair
<1> QED
  BY <1>2, <1>3

\* No frame begins in the middle of another, and their numbers grow.
LEMMA Apart ==
  ASSUME Mp3Assumption, NEW u, Laid(u), NEW g, FrameAt(u, g), NEW h, FrameAt(u, h), g < h
  PROVE  g + FrameUnits <= h /\ u[g].frame < u[h].frame
<1>1. u \in Seq(UnitSet) /\ Len(u) \in Nat /\ g \in 1 .. Len(u) /\ h \in 1 .. Len(u) /\ FrameUnits \in Nat
  BY LenProperties DEF Laid, FrameAt, Mp3Assumption
<1>2. u[g].part = 1 /\ u[h].part = 1 /\ u[g].frame \in Nat /\ u[h].frame \in Nat
  BY <1>1, UnitIs DEF FrameAt
<1>3. Pair(u, g, h)
  BY <1>1 DEF Laid
<1>4. u[g].frame < u[h].frame
  BY <1>1, <1>2, <1>3 DEF Pair
<1>5. ASSUME h <= g + FrameUnits - 1 PROVE FALSE
  <2>1. u[h].part = h - g + 1
    BY <1>1, <1>5, Within
  <2> QED
    BY <1>1, <1>2, <2>1
<1> QED
  BY <1>1, <1>4, <1>5

\* Where a frame that is wanted begins there is the first unit of one.
LEMMA BeginsAt ==
  ASSUME NEW u, NEW i
  PROVE  /\ Begins(u, i, Decoded) => FrameAt(u, i)
         /\ Begins(u, i, Format) => Begins(u, i, Decoded)
         /\ \A from : Wanted(u, from, i) => Begins(u, i, Decoded)
BY DEF Begins, Decoded, Format, FrameAt, IsFrame, Wanted

\* Units are passed that begin no frame that is wanted.
LEMMA Passed ==
  ASSUME NEW u \in Seq(UnitSet), NEW from \in Nat, NEW first \in BOOLEAN, NEW o \in Seq(Nat),
         NEW pos \in Nat, Put(u, from, first, o, pos), NEW pos2 \in Nat, pos <= pos2,
         \A i \in 1 .. Len(u) : pos < i /\ i <= pos2 =>
            /\ ~Wanted(u, from, i)
            /\ from = 0 /\ first => ~Begins(u, i, Format)
  PROVE  Put(u, from, first, o, pos2)
<1>1. {k \in 1 .. Len(u) : k <= pos2 /\ Wanted(u, from, k)} =
      {k \in 1 .. Len(u) : k <= pos /\ Wanted(u, from, k)}
  <2>1. ASSUME NEW k \in 1 .. Len(u), Wanted(u, from, k) PROVE k <= pos2 <=> k <= pos
    BY <2>1, LenProperties
  <2> QED
    BY <2>1
<1>2. ASSUME from = 0
      PROVE  first <=> \A i \in 1 .. Len(u) : i <= pos2 => ~Begins(u, i, Format)
  <2>1. first <=> \A i \in 1 .. Len(u) : i <= pos => ~Begins(u, i, Format)
    BY <1>2 DEF Put
  <2>2. ASSUME first, NEW i \in 1 .. Len(u), i <= pos2 PROVE ~Begins(u, i, Format)
    BY <1>2, <2>1, <2>2, LenProperties
  <2>3. ASSUME ~first PROVE \E i \in 1 .. Len(u) : i <= pos2 /\ Begins(u, i, Format)
    BY <2>1, <2>3, LenProperties
  <2> QED
    BY <2>2, <2>3, Zenon
<1> QED
  BY <1>1, <1>2, Zenon DEF Put

\* A frame is put out.
LEMMA PutOne ==
  ASSUME Mp3Assumption, NEW u, Laid(u), NEW from \in Nat, NEW first \in BOOLEAN, NEW o \in Seq(Nat),
         NEW pos \in Nat, Put(u, from, first, o, pos), NEW pos2 \in Nat,
         NEW g, pos < g, g <= pos2, Wanted(u, from, g),
         \A i \in 1 .. Len(u) : pos < i /\ i <= pos2 /\ Begins(u, i, Decoded) => i = g,
         from = 0 /\ first => Begins(u, g, Format)
  PROVE  Put(u, from, FALSE, Append(o, u[g].frame), pos2)
<1> DEFINE f == u[g].frame
           o2 == Append(o, f)
<1>1. u \in Seq(UnitSet) /\ Len(u) \in Nat /\ g \in 1 .. Len(u) /\ FrameAt(u, g)
  BY BeginsAt, LenProperties DEF Laid, FrameAt
<1>2. f \in Nat
  BY <1>1, UnitIs
<1> HIDE DEF f
<1>3. o2 \in Seq(Nat) /\ Len(o2) = Len(o) + 1 /\ Len(o) \in Nat /\ DOMAIN o = 1 .. Len(o)
      /\ DOMAIN o2 = 1 .. Len(o) + 1 /\ o2[Len(o) + 1] = f /\ \A i \in 1 .. Len(o) : o2[i] = o[i]
  BY <1>2, AppendProperties, LenProperties
<1> HIDE DEF o2
<1>4. ToSet(o) = {u[i].frame : i \in {k \in 1 .. Len(u) : k <= pos /\ Wanted(u, from, k)}}
  BY DEF Put
<1>5. ToSet(o2) = ToSet(o) \cup {f}
  <2>1. ASSUME NEW i \in DOMAIN o2 PROVE o2[i] \in ToSet(o) \cup {f}
    <3>1. CASE i = Len(o) + 1
      BY <1>3, <3>1
    <3>2. CASE i \in 1 .. Len(o)
      BY <1>3, <3>2 DEF ToSet
    <3> QED
      BY <1>3, <3>1, <3>2
  <2>2. ASSUME NEW i \in DOMAIN o PROVE o[i] \in ToSet(o2)
    <3>1. i \in DOMAIN o2 /\ o2[i] = o[i]
      BY <1>3
    <3> QED
      BY <3>1 DEF ToSet
  <2>3. f \in ToSet(o2)
    <3>1. Len(o) + 1 \in DOMAIN o2
      BY <1>3
    <3> QED
      BY <1>3, <3>1 DEF ToSet
  <2> QED
    BY <2>1, <2>2, <2>3 DEF ToSet
<1>6. {k \in 1 .. Len(u) : k <= pos2 /\ Wanted(u, from, k)} =
      {k \in 1 .. Len(u) : k <= pos /\ Wanted(u, from, k)} \cup {g}
  <2>1. ASSUME NEW k \in 1 .. Len(u), Wanted(u, from, k), k # g PROVE k <= pos2 <=> k <= pos
    <3>1. Begins(u, k, Decoded)
      BY <2>1, BeginsAt
    <3> QED
      BY <1>1, <2>1, <3>1
  <2> QED
    BY <1>1, <2>1
<1>7. ToSet(o2) = {u[i].frame : i \in {k \in 1 .. Len(u) : k <= pos2 /\ Wanted(u, from, k)}}
  BY <1>4, <1>5, <1>6 DEF f
<1>8. ASSUME NEW x \in ToSet(o) PROVE x < f
  <2>1. PICK k \in 1 .. Len(u) : k <= pos /\ Wanted(u, from, k) /\ x = u[k].frame
    BY <1>4
  <2>2. FrameAt(u, k) /\ k < g
    BY <1>1, <2>1, BeginsAt
  <2> QED
    BY <1>1, <2>1, <2>2, Apart DEF f
<1>9. ASSUME NEW i \in DOMAIN o2, NEW j \in DOMAIN o2, i < j PROVE o2[i] < o2[j]
  <2>1. i \in 1 .. Len(o) /\ o2[i] = o[i]
    <3>1. Len(o) \in Nat /\ i \in 1 .. Len(o) + 1 /\ j \in 1 .. Len(o) + 1
      BY <1>3, Zenon
    <3>2. i \in 1 .. Len(o)
      BY <1>9, <3>1
    <3> QED
      BY <1>3, <3>2, Zenon
  <2>2. CASE j = Len(o) + 1
    <3>1. o[i] \in ToSet(o)
      BY <1>3, <2>1 DEF ToSet
    <3> QED
      BY <1>3, <1>8, <2>1, <2>2, <3>1
  <2>3. CASE j \in 1 .. Len(o)
    <3>1. o[i] < o[j]
      BY <1>3, <1>9, <2>1, <2>3 DEF Put
    <3> QED
      BY <1>3, <2>1, <2>3, <3>1
  <2> QED
    BY <1>3, <2>2, <2>3
<1>10. ASSUME from = 0 PROVE \E i \in 1 .. Len(u) : i <= pos2 /\ Begins(u, i, Format)
  <2>1. CASE first
    BY <1>1, <1>10, <2>1
  <2>2. CASE ~first
    <3>1. PICK i \in 1 .. Len(u) : i <= pos /\ Begins(u, i, Format)
      BY <1>10, <2>2, Zenon DEF Put
    <3>2. i <= pos2
      BY <1>1, <3>1
    <3> QED
      BY <3>1, <3>2
  <2> QED
    BY <2>1, <2>2
<1> QED
  BY <1>7, <1>9, <1>10, Zenon DEF Put, o2, f

\* the end of the file
FramesOf(u, begin, kinds) ==
  LET firsts == {i \in begin + 1 .. Len(u) - FrameUnits + 1 : u[i].part = 1 /\ u[i].kind \in kinds}
  IN  {u[i].frame : i \in firsts}
ExpectedOf(u, from) ==
  IF from # 0
    THEN FramesOf(u, from, Decoded)
    ELSE {f \in FramesOf(u, 0, Decoded) : \E first \in FramesOf(u, 0, Format) : first <= f}

\* When no frame that decodes begins behind pos, what was put out is what is expected.
LEMMA AtEnd ==
  ASSUME Mp3Assumption, NEW u \in Seq(UnitSet), NEW from \in Nat, NEW first \in BOOLEAN,
         NEW o \in Seq(Nat), NEW pos \in Nat, Put(u, from, first, o, pos),
         \A i \in 1 .. Len(u) : pos < i => ~Begins(u, i, Decoded)
  PROVE  (\A i, j \in DOMAIN o : i < j => o[i] < o[j]) /\ ToSet(o) = ExpectedOf(u, from)
<1>1. Len(u) \in Nat /\ FrameUnits \in Nat /\ FrameUnits >= 2
  BY LenProperties DEF Mp3Assumption
<1>2. ASSUME NEW b \in Nat, NEW kinds
      PROVE  FramesOf(u, b, kinds) = {u[i].frame : i \in {k \in 1 .. Len(u) : k > b /\ Begins(u, k, kinds)}}
  <2>1. {i \in b + 1 .. Len(u) - FrameUnits + 1 : u[i].part = 1 /\ u[i].kind \in kinds}
        = {k \in 1 .. Len(u) : k > b /\ Begins(u, k, kinds)}
    <3>1. PICK l \in Nat : l = Len(u)
      BY <1>1
    <3>2. PICK m \in Nat : m = FrameUnits /\ m >= 2
      BY <1>1
    <3>3. \A i : i \in b + 1 .. l - m + 1 <=> i \in 1 .. l /\ i > b /\ i + m - 1 <= l
      BY <3>2
    <3>4. \A i \in 1 .. l : Begins(u, i, kinds) <=> /\ u[i].part = 1 /\ u[i].kind \in kinds
                                                   /\ i + m - 1 <= l
      BY <3>1, <3>2, Zenon DEF Begins
    <3>5. {i \in b + 1 .. l - m + 1 : u[i].part = 1 /\ u[i].kind \in kinds}
          = {k \in 1 .. l : k > b /\ Begins(u, k, kinds)}
      BY <3>3, <3>4
    <3> QED
      BY <3>1, <3>2, <3>5
  <2> QED
    BY <2>1, Zenon DEF FramesOf
<1>3. ToSet(o) = {u[i].frame : i \in {k \in 1 .. Len(u) : Wanted(u, from, k)}}
  <2>1. {k \in 1 .. Len(u) : k <= pos /\ Wanted(u, from, k)} = {k \in 1 .. Len(u) : Wanted(u, from, k)}
    <3>1. ASSUME NEW k \in 1 .. Len(u), Wanted(u, from, k) PROVE k <= pos
      <4>1. Begins(u, k, Decoded)
        BY <3>1, BeginsAt
      <4> QED
        BY <1>1, <4>1
    <3> QED
      BY <3>1
  <2> QED
    BY <2>1, Zenon DEF Put
<1>4. CASE from # 0
  <2>1. {k \in 1 .. Len(u) : Wanted(u, from, k)} = {k \in 1 .. Len(u) : k > from /\ Begins(u, k, Decoded)}
    BY <1>4 DEF Wanted
  <2>2. ExpectedOf(u, from) = FramesOf(u, from, Decoded)
    BY <1>4 DEF ExpectedOf
  <2>3. ToSet(o) = ExpectedOf(u, from)
    BY <1>2, <1>3, <2>1, <2>2, Zenon
  <2> QED
    BY <2>3 DEF Put
<1>5. CASE from = 0
  <2> DEFINE Heard(f) == \E x \in FramesOf(u, 0, Format) : x <= f
  <2>1. FramesOf(u, 0, Decoded) = {u[i].frame : i \in {k \in 1 .. Len(u) : k > 0 /\ Begins(u, k, Decoded)}}
    BY <1>2
  <2>2. FramesOf(u, 0, Format) = {u[i].frame : i \in {k \in 1 .. Len(u) : k > 0 /\ Begins(u, k, Format)}}
    BY <1>2
  <2>3. ASSUME NEW f PROVE Heard(f) <=> \E g \in 1 .. Len(u) : Begins(u, g, Format) /\ u[g].frame <= f
    BY <1>1, <2>2
  <2>4. ExpectedOf(u, from) = {f \in FramesOf(u, 0, Decoded) : Heard(f)}
    BY <1>5 DEF ExpectedOf
  <2> HIDE DEF Heard
  <2>5. ASSUME NEW k \in 1 .. Len(u)
        PROVE  Wanted(u, from, k) <=> (k > 0 /\ Begins(u, k, Decoded)) /\ Heard(u[k].frame)
    BY <1>5, <2>3 DEF Wanted
  <2>6. ToSet(o) = ExpectedOf(u, from)
    BY <1>3, <2>1, <2>4, <2>5
  <2> QED
    BY <2>6 DEF Put
<1> QED
  BY <1>4, <1>5

--------------------------------------------------------------------------------
\* behind a frame that was decoded
LEMMA CleanBehind ==
  ASSUME Mp3Assumption, NEW u, Laid(u), NEW from \in Nat, NEW pos \in Nat, Clean(u, from, pos),
         NEW g, pos < g, FrameAt(u, g),
         \A i \in 1 .. Len(u) : pos < i /\ i < g => ~FrameAt(u, i)
  PROVE  /\ Clean(u, from, g - 1)
         /\ Clean(u, from, g + FrameUnits - 1)
         /\ u[g].kind = "broken" => Clean(u, from, g)
<1>1. u \in Seq(UnitSet) /\ Len(u) \in Nat /\ g \in 1 .. Len(u) /\ FrameUnits \in Nat /\ FrameUnits >= 2
  BY LenProperties DEF Laid, FrameAt, Mp3Assumption
<1>2. ASSUME NEW j \in 1 .. Len(u), j > pos, ~UselessAt(u, from, j)
      PROVE  LET h == j - u[j].part + 1
             IN  h \in g .. j /\ FrameAt(u, h) /\ u[h].kind = u[j].kind /\ IsFrame(u[j]) /\ u[j].part <= FrameUnits
                 /\ u[j].part \in Nat
  <2> DEFINE h == j - u[j].part + 1
  <2>1. IsFrame(u[j]) /\ j - u[j].part >= pos
    BY <1>2 DEF Clean
  <2>2. h \in 1 .. j /\ FrameAt(u, h) /\ u[h].kind = u[j].kind
    BY <2>1, StartOf
  <2>3. u[j].part \in 1 .. j /\ u[j].part <= FrameUnits
    BY <2>1 DEF Laid, Unit
  <2>4. h > pos
    BY <1>1, <2>1, <2>3
  <2> HIDE DEF h
  <2>5. h \in 1 .. Len(u)
    BY <1>1, <2>2
  <2>6. h >= g
    BY <1>1, <2>2, <2>4, <2>5
  <2>7. h \in g .. j
    BY <1>1, <2>2, <2>5, <2>6
  <2>8. u[j].part \in Nat
    BY <2>3
  <2> QED
    BY <2>1, <2>2, <2>3, <2>7, <2>8, Zenon DEF h
<1>3. ASSUME NEW j \in 1 .. Len(u), ~UselessAt(u, from, j), j > g - 1
      PROVE  IsFrame(u[j]) /\ j - u[j].part >= g - 1
  BY <1>1, <1>2, <1>3
<1>4. ASSUME NEW j \in 1 .. Len(u), ~UselessAt(u, from, j), j > g + FrameUnits - 1
      PROVE  IsFrame(u[j]) /\ j - u[j].part >= g + FrameUnits - 1
  <2> DEFINE h == j - u[j].part + 1
  <2>1. j > pos
    BY <1>1, <1>4
  <2>2. h \in g .. j /\ FrameAt(u, h) /\ IsFrame(u[j]) /\ u[j].part <= FrameUnits /\ u[j].part \in Nat
    BY <1>2, <1>4, <2>1
  <2>3. g < h
    <3>1. PICK q \in Nat, m \in Nat : q = u[j].part /\ m = FrameUnits
      BY <1>1, <2>2
    <3>2. g \in Int /\ j \in Int /\ q <= m /\ j > g + m - 1
      BY <1>1, <1>4, <2>2, <3>1
    <3>3. g < j - q + 1
      BY <3>2
    <3> QED
      BY <3>1, <3>3, Zenon
  <2>4. g + FrameUnits <= h
    <3> HIDE DEF h
    <3> QED
      BY <2>2, <2>3, Apart
  <2>5. j - u[j].part >= g + FrameUnits - 1
    <3>1. PICK q \in Nat, m \in Nat : q = u[j].part /\ m = FrameUnits
      BY <1>1, <2>2
    <3>2. g \in Int /\ j \in Int /\ g + m <= j - q + 1
      BY <1>1, <2>4, <3>1
    <3>3. j - q >= g + m - 1
      BY <3>2
    <3> QED
      BY <3>1, <3>3, Zenon
  <2> QED
    BY <2>2, <2>5
<1>5. ASSUME u[g].kind = "broken", NEW j \in 1 .. Len(u), ~UselessAt(u, from, j), j > g
      PROVE  IsFrame(u[j]) /\ j - u[j].part >= g
  <2> DEFINE h == j - u[j].part + 1
  <2>1. j > pos
    BY <1>1, <1>5
  <2>2. h \in g .. j /\ u[h].kind = u[j].kind /\ IsFrame(u[j]) /\ u[j].part \in Nat
    BY <1>2, <1>5, <2>1
  <2>3. u[j].kind # "broken"
    BY <1>5 DEF UselessAt
  <2>4. h # g
    <3> HIDE DEF h
    <3> QED
      BY <1>5, <2>2, <2>3
  <2> QED
    BY <1>1, <2>2, <2>4
<1> QED
  BY <1>3, <1>4, <1>5 DEF Clean

\* A buffer that is full holds the beginning of a frame, so that it is there in full.
LEMMA FullHasFrame ==
  ASSUME Mp3Assumption, NEW u, Laid(u), NEW from \in Nat, NEW pos \in Nat, pos >= from,
         Clean(u, from, pos), DenseFrom(u, from), pos + BufUnits <= Len(u)
  PROVE  \E g \in pos + 1 .. pos + BufUnits - FrameUnits + 1 : FrameAt(u, g)
<1>1. u \in Seq(UnitSet) /\ Len(u) \in Nat /\ FrameUnits \in Nat /\ FrameUnits >= 2 /\ BufUnits \in Nat
      /\ BufUnits >= 2 * FrameUnits
  BY LenProperties DEF Laid, Mp3Assumption
<1>2. pos + 1 \in from + 1 .. Len(u)
  BY <1>1
<1>3. PICK j \in pos + 1 .. pos + 1 + BufUnits - FrameUnits : j > Len(u) \/ ~UselessAt(u, from, j)
  BY <1>2 DEF DenseFrom
<1>4. j \in 1 .. Len(u) /\ j > pos /\ ~UselessAt(u, from, j)
  BY <1>1, <1>3
<1>5. IsFrame(u[j]) /\ j - u[j].part >= pos
  BY <1>4 DEF Clean
<1>6. j - u[j].part + 1 \in 1 .. j /\ FrameAt(u, j - u[j].part + 1)
  BY <1>4, <1>5, StartOf
<1>7. u[j].part \in Nat
  BY <1>1, <1>4, UnitIs
<1>8. j - u[j].part + 1 \in pos + 1 .. pos + BufUnits - FrameUnits + 1
  <2>1. PICK p \in Nat : p = u[j].part
    BY <1>7
  <2>2. j - p >= pos /\ j - p + 1 <= j
    BY <1>5, <1>6, <1>7, <2>1
  <2>3. j \in Int /\ j <= pos + 1 + BufUnits - FrameUnits
    BY <1>1, <1>3
  <2>4. p >= 1
    BY <2>2, <2>3
  <2>5. j - p + 1 \in pos + 1 .. pos + BufUnits - FrameUnits + 1
    BY <1>1, <2>2, <2>3, <2>4
  <2> QED
    BY <2>1, <2>5, Zenon
<1> QED
  BY <1>6, <1>8

\* behind the tag
TagEnds(u, pos) == \A i \in 1 .. Len(u) : /\ i <= pos => u[i].kind = "tag"
                                          /\ i > pos /\ u[i].kind = "tag" => i = 1

\* What is put out behind the tag is all there is to put out, and no frame is cut there.
LEMMA BehindTag ==
  ASSUME Mp3Assumption, NEW u, Laid(u), NEW pos \in Nat, TagEnds(u, pos)
  PROVE  Clean(u, 0, pos) /\ Put(u, 0, TRUE, <<>>, pos)
<1>1. u \in Seq(UnitSet) /\ Len(u) \in Nat
  BY LenProperties DEF Laid
<1>2. ASSUME NEW j \in 1 .. Len(u), j > pos, ~UselessAt(u, 0, j)
      PROVE  IsFrame(u[j]) /\ j - u[j].part >= pos
  <2>1. IsFrame(u[j])
    BY <1>2 DEF UselessAt, IsFrame, TagEnds
  <2>2. j - u[j].part + 1 \in 1 .. j /\ FrameAt(u, j - u[j].part + 1)
    BY <2>1, StartOf
  <2>3. u[j].part \in Nat
    BY <1>1, UnitIs
  <2> DEFINE h == j - u[j].part + 1
  <2>4. h \in 1 .. Len(u) /\ u[h].kind # "tag"
    BY <1>1, <2>2 DEF FrameAt, IsFrame
  <2>5. ~(h <= pos)
    <3> HIDE DEF h
    <3> QED
      BY <2>4 DEF TagEnds
  <2> QED
    BY <1>1, <2>1, <2>3, <2>5
<1>3. ASSUME NEW k \in 1 .. Len(u), k <= pos PROVE ~Wanted(u, 0, k) /\ ~Begins(u, k, Format)
  BY <1>3 DEF Wanted, Begins, Decoded, Format, TagEnds
<1>4. ToSet(<<>>) = {}
  BY DEF ToSet
<1>5. {u[i].frame : i \in {k \in 1 .. Len(u) : k <= pos /\ Wanted(u, 0, k)}} = {}
  BY <1>3
<1>6. Put(u, 0, TRUE, <<>>, pos)
  BY <1>3, <1>4, <1>5 DEF Put
<1> QED
  BY <1>2, <1>6 DEF Clean

\* at a start position
LEMMA AtStart ==
  ASSUME NEW u, Laid(u), NEW from \in Nat, from # 0
  PROVE  Clean(u, from, from) /\ Put(u, from, FALSE, <<>>, from)
<1>1. u \in Seq(UnitSet) /\ Len(u) \in Nat
  BY LenProperties DEF Laid
<1>2. ASSUME NEW j \in 1 .. Len(u), j > from, ~UselessAt(u, from, j)
      PROVE  IsFrame(u[j]) /\ j - u[j].part >= from
  <2>1. u[j].part \in Nat
    BY <1>1, UnitIs
  <2>2. j - u[j].part >= from
    BY <1>1, <1>2, <2>1 DEF UselessAt
  <2>3. u[j].kind # "tag"
    BY <1>1, <2>1, <2>2 DEF Laid, Unit
  <2> QED
    BY <1>2, <2>2, <2>3 DEF UselessAt, IsFrame
<1>3. ToSet(<<>>) = {}
  BY DEF ToSet
<1>4. {u[i].frame : i \in {k \in 1 .. Len(u) : k <= from /\ Wanted(u, from, k)}} = {}
  BY DEF Wanted
<1>5. Put(u, from, FALSE, <<>>, from)
  <2>1. DOMAIN <<>> = {}
    OBVIOUS
  <2> QED
    BY <1>3, <1>4, <2>1, Zenon DEF Put
<1> QED
  BY <1>2, <1>5 DEF Clean

--------------------------------------------------------------------------------
(* The invariant *)

States == [pc : {"header", "tag", "read", "decode", "done"}, head : Seq(UnitSet), left : Seq(UnitSet),
           want : Int, id3 : Nat, is_first_frame : BOOLEAN, start_time : Nat, from : Nat, deaf : BOOLEAN]

Mp3TypeInv ==
  /\ Laid(file) /\ at \in Nat /\ stopped \in BOOLEAN /\ dec \in States /\ out \in Seq(Nat)
  /\ result \in {"none", "SUCCESS", "FAILURE", "INPUT_ERROR", "DECODE_ERROR"}
  /\ dec.pc = "done" <=> result # "none"

\* all that was read before what is in the buffer
Pos == at - Len(dec.head) - Len(dec.left)

Reading ==
  /\ Pos >= dec.from
  /\ dec.head = <<>> \/ (dec.left = <<>> /\ Len(dec.head) = 1)
  /\ \A i \in 1 .. Len(dec.head) : dec.head[i] = file[Pos + i]
  /\ \A i \in 1 .. Len(dec.left) : dec.left[i] = file[Pos + Len(dec.head) + i]
  /\ at <= Len(file) \/ (dec.head = <<>> /\ dec.left = <<>>)
  /\ dec.is_first_frame => dec.from = 0 /\ out = <<>>
  /\ dec.want = 0 => at >= Len(file)
  /\ dec.pc = "read" => Len(dec.head) + Len(dec.left) < BufUnits
  /\ dec.pc = "decode" => /\ dec.head = <<>> /\ Len(dec.left) <= BufUnits
                          /\ Len(dec.left) = BufUnits \/ at >= Len(file)
  /\ DenseFrom(file, dec.from) => /\ Clean(file, dec.from, Pos)
                                  /\ Put(file, dec.from, dec.is_first_frame, out, Pos)

AtHeader ==
  /\ at = 0
  /\ dec.id3 > 0 => Tagged(file, dec.id3 + 1)
  /\ dec.id3 = 0 => \A i \in 1 .. Len(file) : file[i].kind = "tag" => i = 1

Heard == (\A i, j \in DOMAIN out : i < j => out[i] < out[j]) /\ ToSet(out) = ExpectedOf(file, dec.from)

Main ==
  /\ dec.pc \in {"header", "tag"} => /\ out = <<>> /\ dec.is_first_frame /\ dec.from = 0
                                     /\ dec.head = <<>> /\ dec.left = <<>>
  /\ dec.pc = "header" => AtHeader
  /\ dec.pc = "tag" => dec.id3 > 0 /\ Tagged(file, at + dec.id3)
  /\ dec.pc \in {"read", "decode"} => Reading
  /\ result \in {"SUCCESS", "FAILURE"} /\ DenseFrom(file, dec.from) => Heard

Mp3Inv == /\ Mp3TypeInv
          /\ dec.deaf => ~dec.is_first_frame
          /\ ~stopped /\ ~dec.deaf => Main

--------------------------------------------------------------------------------
(* The input and the buffer *)

\* what the input gives of a file u of which a units were read
Got(u, a, n) == SubSeq(u, a + 1, Min({a + n, Len(u)}))
GotFrom(u, a, n, got) ==
  /\ Len(got) \in Nat
  /\ Len(got) = 0 \/ a + Len(got) <= Len(u)
  /\ n >= 0 => Len(got) <= n
  /\ Len(got) < n => a + Len(got) >= Len(u)
  /\ \A i \in 1 .. Len(got) : got[i] = u[a + i]

\* What is read is there, no more than was asked for, and less only at the end.
LEMMA GotOf ==
  ASSUME NEW S, NEW u \in Seq(S), NEW a \in Nat, NEW n \in Int
  PROVE  Got(u, a, n) \in Seq(S) /\ GotFrom(u, a, n, Got(u, a, n))
<1> DEFINE last == Min({a + n, Len(u)})
<1>1. Len(u) \in Nat
  BY LenProperties
<1>2. last = IF a + n <= Len(u) THEN a + n ELSE Len(u)
  BY <1>1, MinMax
<1>3. last \in Int /\ last <= Len(u) /\ last <= a + n /\ (last = a + n \/ last = Len(u))
  BY <1>1, <1>2
<1>4. Got(u, a, n) = SubSeq(u, a + 1, last)
  BY DEF Got
<1> HIDE DEF last
<1>5. \A i \in a + 1 .. last : u[i] \in S
  BY <1>1, <1>3, ElementOfSeq
<1>6. a + 1 \in Int
  OBVIOUS
<1>7. /\ SubSeq(u, a + 1, last) \in Seq(S)
      /\ Len(SubSeq(u, a + 1, last)) = IF a + 1 <= last THEN last - (a + 1) + 1 ELSE 0
      /\ \A i \in 1 .. last - (a + 1) + 1 : SubSeq(u, a + 1, last)[i] = u[a + 1 + i - 1]
  BY <1>3, <1>5, <1>6, SubSeqProperties
<1>8. CASE a + 1 <= last
  <2>1. Len(Got(u, a, n)) = last - a
    BY <1>3, <1>4, <1>7, <1>8
  <2>2. ASSUME NEW i \in 1 .. last - a PROVE Got(u, a, n)[i] = u[a + i]
    <3>1. i \in 1 .. last - (a + 1) + 1 /\ a + 1 + i - 1 = a + i
      BY <1>3
    <3>2. SubSeq(u, a + 1, last)[i] = u[a + 1 + i - 1]
      BY <1>7, <3>1, Zenon
    <3> QED
      BY <1>4, <3>1, <3>2, Zenon
  <2>3. Got(u, a, n) \in Seq(S)
    BY <1>4, <1>7
  <2> QED
    BY <1>1, <1>3, <1>8, <2>1, <2>2, <2>3 DEF GotFrom
<1>9. CASE ~(a + 1 <= last)
  <2>1. Len(Got(u, a, n)) = 0 /\ Got(u, a, n) \in Seq(S)
    BY <1>3, <1>4, <1>7, <1>9
  <2> QED
    BY <1>1, <1>3, <1>9, <2>1 DEF GotFrom
<1> QED
  BY <1>8, <1>9

\* what a read gives, of file
LEMMA GotIs ==
  ASSUME file \in Seq(UnitSet), at \in Nat, NEW n \in Int
  PROVE  /\ Input(n) \in Seq(UnitSet)
         /\ Len(Input(n)) \in Nat
         /\ Len(Input(n)) = 0 \/ at + Len(Input(n)) <= Len(file)
         /\ n >= 0 => Len(Input(n)) <= n
         /\ Len(Input(n)) < n => at + Len(Input(n)) >= Len(file)
         /\ \A i \in 1 .. Len(Input(n)) : Input(n)[i] = file[at + i]
<1>1. Got(file, at, n) \in Seq(UnitSet) /\ GotFrom(file, at, n, Got(file, at, n))
  BY GotOf
<1>2. Input(n) = Got(file, at, n)
  BY DEF Input, Got
<1> QED
  BY <1>1, <1>2, Zenon DEF GotFrom

\* FindSync gives the first sync word there is.
LEMMA SyncIs ==
  ASSUME NEW units \in Seq(UnitSet)
  PROVE  /\ Syncs(units) = {} => FindSync(units) = 0
         /\ Syncs(units) # {} => FindSync(units) \in Syncs(units)
                                 /\ \A s \in Syncs(units) : FindSync(units) <= s
<1>1. Syncs(units) \in SUBSET Nat
  BY LenProperties DEF Syncs
<1>2. CASE Syncs(units) # {}
  <2>1. \E m \in Syncs(units) : \A k \in Syncs(units) : m <= k
    BY <1>1, <1>2, LeastElement
  <2>2. FindSync(units) = Min(Syncs(units))
    BY <1>2 DEF FindSync
  <2> QED
    BY <1>2, <2>1, <2>2 DEF Min
<1> QED
  BY <1>2 DEF FindSync

--------------------------------------------------------------------------------
(* The buffer and the file *)

\* The buffer that is decoded is the part of the file behind Pos.
LEMMA BufferIs ==
  ASSUME Mp3Assumption, Mp3TypeInv, Reading, dec.pc = "decode"
  PROVE  /\ Pos \in Nat /\ Pos >= dec.from /\ at = Pos + Len(dec.left) /\ Len(dec.left) \in Nat /\ Len(file) \in Nat
         /\ dec.left \in Seq(UnitSet)
         /\ \A i \in 1 .. Len(dec.left) : dec.left[i] = file[Pos + i]
         /\ Len(dec.left) = 0 \/ at <= Len(file)
<1>1. dec.head = <<>> /\ dec.left \in Seq(UnitSet) /\ dec.from \in Nat /\ at \in Nat /\ file \in Seq(UnitSet)
  <2>1. dec.head = <<>>
    BY Zenon DEF Reading
  <2>2. dec.left \in Seq(UnitSet) /\ dec.from \in Nat
    BY DEF Mp3TypeInv, States
  <2>3. at \in Nat /\ file \in Seq(UnitSet)
    BY DEF Mp3TypeInv, Laid
  <2> QED
    BY <2>1, <2>2, <2>3
<1>2. Len(dec.head) = 0 /\ Len(dec.left) \in Nat /\ Len(file) \in Nat
  BY <1>1, LenProperties
<1>3. Pos = at - Len(dec.left)
  BY <1>1, <1>2 DEF Pos
<1>4. Pos >= dec.from
  BY DEF Reading
<1>5. \A i \in 1 .. Len(dec.left) : dec.left[i] = file[Pos + i]
  <2> SUFFICES ASSUME NEW i \in 1 .. Len(dec.left) PROVE dec.left[i] = file[Pos + i]
    OBVIOUS
  <2>1. dec.left[i] = file[Pos + Len(dec.head) + i]
    BY DEF Reading
  <2>2. Pos + Len(dec.head) + i = Pos + i
    BY <1>1, <1>2, <1>3
  <2> QED
    BY <2>1, <2>2
<1>6. Len(dec.left) = 0 \/ at <= Len(file)
  BY <1>2 DEF Reading
<1>7. Pos \in Nat /\ at = Pos + Len(dec.left)
  BY <1>1, <1>2, <1>3, <1>4
<1> QED
  BY <1>1, <1>2, <1>4, <1>5, <1>6, <1>7

\* A frame of the file that begins in the buffer is found there.
LEMMA SyncOfFrame ==
  ASSUME Mp3Assumption, Mp3TypeInv, Reading, dec.pc = "decode",
         NEW g, FrameAt(file, g), Pos < g, g + 1 <= at
  PROVE  g - Pos \in Syncs(dec.left)
<1> DEFINE l == Len(dec.left)
<1>1. /\ Pos \in Nat /\ at = Pos + l /\ l \in Nat /\ Len(file) \in Nat
      /\ \A i \in 1 .. l : dec.left[i] = file[Pos + i]
      /\ l = 0 \/ at <= Len(file)
  BY BufferIs
<1>2. g \in 1 .. Len(file) /\ FrameUnits \in Nat /\ FrameUnits >= 2 /\ Laid(file)
  BY DEF FrameAt, Mp3Assumption, Mp3TypeInv
<1> HIDE DEF l
<1>3. at <= Len(file) /\ g - Pos \in 1 .. l - 1 /\ g - Pos + 1 \in 1 .. l
  BY <1>1, <1>2
<1>4. g + 1 \in 1 .. Len(file) /\ g <= g + 1 /\ g + 1 <= g + FrameUnits - 1
  BY <1>1, <1>2, <1>3
<1>5. file[g + 1].part = 2
  <2>1. PICK j \in 1 .. Len(file) : j = g + 1
    BY <1>4
  <2>2. g <= j /\ j <= g + FrameUnits - 1
    BY <1>4, <2>1
  <2>3. file[j].part = j - g + 1
    BY <1>2, <2>2, Within
  <2> QED
    BY <1>2, <2>1, <2>3
<1>6. dec.left[g - Pos] = file[g] /\ dec.left[g - Pos + 1] = file[g + 1]
  <2>1. Pos + (g - Pos) = g /\ Pos + (g - Pos + 1) = g + 1 /\ g - Pos \in 1 .. l
    BY <1>1, <1>2, <1>3
  <2>2. dec.left[g - Pos] = file[Pos + (g - Pos)] /\ dec.left[g - Pos + 1] = file[Pos + (g - Pos + 1)]
    BY <1>1, <1>3, <2>1
  <2> QED
    BY <2>1, <2>2
<1> QED
  BY <1>3, <1>5, <1>6 DEF Syncs, FrameAt, IsFrame, l

\* What is found in the buffer is the beginning of a frame of the file.
LEMMA FrameOfSync ==
  ASSUME Mp3Assumption, Mp3TypeInv, Reading, dec.pc = "decode", NEW s \in Syncs(dec.left)
  PROVE  /\ s \in 1 .. Len(dec.left) - 1 /\ FrameAt(file, Pos + s) /\ Pos + s + 1 <= at /\ at <= Len(file)
         /\ dec.left[s] = file[Pos + s]
<1> DEFINE l == Len(dec.left)
<1>1. /\ Pos \in Nat /\ at = Pos + l /\ l \in Nat /\ Len(file) \in Nat
      /\ \A i \in 1 .. l : dec.left[i] = file[Pos + i]
      /\ l = 0 \/ at <= Len(file)
  BY BufferIs
<1>2. s \in 1 .. l - 1 /\ dec.left[s].part = 1 /\ IsFrame(dec.left[s])
  BY DEF Syncs, IsFrame
<1> HIDE DEF l
<1>3. s \in 1 .. l /\ Pos + s \in 1 .. Len(file) /\ Pos + s + 1 <= at /\ at <= Len(file)
  BY <1>1, <1>2
<1>4. dec.left[s] = file[Pos + s]
  BY <1>1, <1>3
<1> QED
  BY <1>2, <1>3, <1>4 DEF FrameAt, l

\* When no sync word has a whole frame behind it, none is to come.
LEMMA NoneLeft ==
  ASSUME Mp3Assumption, Mp3TypeInv, Reading, dec.pc = "decode", DenseFrom(file, dec.from),
         \A s \in Syncs(dec.left) : Len(dec.left) - s + 1 < FrameUnits
  PROVE  at >= Len(file) /\ \A i \in 1 .. Len(file) : Pos < i => ~Begins(file, i, Decoded)
<1> DEFINE l == Len(dec.left)
<1>1. /\ Pos \in Nat /\ Pos >= dec.from /\ at = Pos + l /\ l \in Nat /\ Len(file) \in Nat
      /\ l = 0 \/ at <= Len(file)
  BY BufferIs
<1>2. FrameUnits \in Nat /\ FrameUnits >= 2 /\ BufUnits \in Nat /\ BufUnits >= 2 * FrameUnits
      /\ Laid(file) /\ dec.from \in Nat
  BY DEF Mp3Assumption, Mp3TypeInv, States
<1>3. ASSUME NEW g, FrameAt(file, g), Pos < g, g + FrameUnits - 1 <= at PROVE FALSE
  <2>1. g \in 1 .. Len(file)
    BY <1>3 DEF FrameAt
  <2>2. g - Pos \in Syncs(dec.left)
    <3>1. g + 1 <= at
      BY <1>1, <1>2, <1>3, <2>1
    <3> QED
      BY <1>3, <3>1, SyncOfFrame
  <2>3. l - (g - Pos) + 1 < FrameUnits
    BY <2>2
  <2> HIDE DEF l
  <2> QED
    BY <1>1, <1>2, <1>3, <2>1, <2>3
<1>4. l = BufUnits \/ at >= Len(file)
  BY DEF Reading
<1> HIDE DEF l
<1>5. at >= Len(file)
  <2> SUFFICES ASSUME at < Len(file) PROVE FALSE
    BY <1>1
  <2>1. l = BufUnits /\ Pos + BufUnits <= Len(file)
    BY <1>1, <1>4
  <2>2. Clean(file, dec.from, Pos)
    BY DEF Reading
  <2>3. PICK g \in Pos + 1 .. Pos + BufUnits - FrameUnits + 1 : FrameAt(file, g)
    BY <1>1, <1>2, <2>1, <2>2, FullHasFrame
  <2>4. g + FrameUnits - 1 <= at /\ Pos < g
    BY <1>1, <1>2, <2>1
  <2> QED
    BY <1>3, <2>3, <2>4
<1>6. ASSUME NEW i \in 1 .. Len(file), Pos < i, Begins(file, i, Decoded) PROVE FALSE
  <2>1. FrameAt(file, i)
    BY <1>6, BeginsAt
  <2>2. i + FrameUnits - 1 <= at
    BY <1>1, <1>2, <1>5, <1>6 DEF Begins
  <2> QED
    BY <1>3, <1>6, <2>1, <2>2
<1> QED
  BY <1>5, <1>6

\* the frame at the sync word that was found
LEMMA FoundIs ==
  ASSUME Mp3Assumption, Mp3TypeInv, Reading, NEW sync, Found(sync)
  PROVE  /\ sync \in 1 .. Len(dec.left) - 1
         /\ FrameAt(file, Pos + sync) /\ dec.left[sync] = file[Pos + sync] /\ at <= Len(file)
         /\ \A i \in 1 .. Len(file) : Pos < i /\ i < Pos + sync => ~FrameAt(file, i)
         /\ dec.left[sync].kind # "broken" => Pos + sync + FrameUnits - 1 <= at
<1> DEFINE l == Len(dec.left)
<1>1. dec.pc = "decode" /\ sync = FindSync(dec.left) /\ sync # 0
      /\ (dec.left[sync].kind # "broken" => l - sync + 1 >= FrameUnits)
  BY DEF Found
<1>2. /\ Pos \in Nat /\ at = Pos + l /\ l \in Nat /\ Len(file) \in Nat /\ dec.left \in Seq(UnitSet)
  BY <1>1, BufferIs
<1>3. sync \in Syncs(dec.left) /\ \A s \in Syncs(dec.left) : sync <= s
  BY <1>1, <1>2, SyncIs
<1>4. /\ sync \in 1 .. l - 1 /\ FrameAt(file, Pos + sync) /\ Pos + sync + 1 <= at /\ at <= Len(file)
      /\ dec.left[sync] = file[Pos + sync]
  BY <1>1, <1>3, FrameOfSync
<1>5. ASSUME NEW i \in 1 .. Len(file), Pos < i, i < Pos + sync, FrameAt(file, i) PROVE FALSE
  <2> HIDE DEF l
  <2>1. i + 1 <= at
    BY <1>2, <1>4, <1>5
  <2>2. i - Pos \in Syncs(dec.left)
    BY <1>1, <1>5, <2>1, SyncOfFrame
  <2>3. sync <= i - Pos
    BY <1>3, <2>2
  <2> QED
    BY <1>2, <1>4, <1>5, <2>3
<1>6. FrameUnits \in Nat
  BY DEF Mp3Assumption
<1> HIDE DEF l
<1>7. dec.left[sync].kind # "broken" => Pos + sync + FrameUnits - 1 <= at
  BY <1>1, <1>2, <1>4, <1>6
<1> QED
  BY <1>4, <1>5, <1>7 DEF l

\* The invariant holds at the start.
LEMMA Mp3Init ==
  ASSUME Mp3Assumption, Init
  PROVE  Mp3Inv
<1>1. PICK n \in 0 .. MaxPieces : \E kinds \in [1 .. n -> Kinds], tag \in TagUnits, cut \in 0 .. 1,
           position \in StartUnits : Start(Units(tag, kinds, cut), tag, position)
  BY DEF Init
<1>2. PICK kinds \in [1 .. n -> Kinds], tag \in TagUnits, cut \in 0 .. 1, position \in StartUnits :
           Start(Units(tag, kinds, cut), tag, position)
  BY <1>1
<1>3. n \in Nat /\ tag \in Nat /\ position \in Nat
  BY DEF Mp3Assumption
<1>4. Laid(file) /\ Tagged(file, tag)
  BY <1>2, <1>3, UnitsLaid DEF Start
<1>5. Max({tag - 1, 0}) = IF tag = 0 THEN 0 ELSE tag - 1
  <2>1. Max({tag - 1, 0}) = IF tag - 1 >= 0 THEN tag - 1 ELSE 0
    <3>1. PICK a \in Int : a = tag - 1
      BY <1>3
    <3>2. Max({a, 0}) = IF a >= 0 THEN a ELSE 0
      <4>1. 0 \in Int
        OBVIOUS
      <4> QED
        BY <4>1, MinMax, Zenon
    <3> QED
      BY <3>1, <3>2
  <2> QED
    BY <1>3, <2>1
<1>6. /\ dec = [pc |-> "header", head |-> <<>>, left |-> <<>>, want |-> 0, id3 |-> Max({tag - 1, 0}),
                is_first_frame |-> TRUE, start_time |-> position, from |-> 0, deaf |-> FALSE]
      /\ at = 0 /\ stopped = FALSE /\ out = <<>> /\ result = "none"
  BY <1>2 DEF Start
<1> DEFINE m == Max({tag - 1, 0})
<1>7. m \in Nat /\ (m > 0 => tag = m + 1) /\ (m = 0 => tag <= 1)
  BY <1>3, <1>5
<1> HIDE DEF m
<1>8. <<>> \in Seq(UnitSet) /\ <<>> \in Seq(Nat)
  BY EmptySeq
<1>9. dec \in States
  BY <1>3, <1>6, <1>7, <1>8 DEF States, m
<1>10. Mp3TypeInv
  BY <1>4, <1>6, <1>8, <1>9 DEF Mp3TypeInv
<1>11. dec.id3 = m /\ dec.pc = "header"
  BY <1>6 DEF m
<1>12. AtHeader
  <2>1. dec.id3 > 0 => Tagged(file, dec.id3 + 1)
    BY <1>4, <1>7, <1>11
  <2>2. ASSUME dec.id3 = 0, NEW i \in 1 .. Len(file), file[i].kind = "tag" PROVE i = 1
    <3>1. i <= tag
      BY <1>4, <2>2 DEF Tagged
    <3> QED
      BY <1>3, <1>7, <1>11, <2>2, <3>1, LenProperties DEF Mp3TypeInv, Laid
  <2> QED
    BY <1>6, <2>1, <2>2 DEF AtHeader
<1>13. Main
  BY <1>6, <1>12 DEF Main
<1>14. ~dec.deaf
  BY <1>6
<1> QED
  BY <1>10, <1>13, <1>14 DEF Mp3Inv

\* What is left of a buffer are units.
LEMMA RestIs ==
  ASSUME Mp3Assumption, NEW units \in Seq(UnitSet), NEW sync \in 1 .. Len(units)
  PROVE  Rest(units, sync) \in Seq(UnitSet)
<1>1. FrameUnits \in Nat /\ Len(units) \in Nat /\ sync \in Int
  BY LenProperties DEF Mp3Assumption
<1>2. ASSUME NEW m \in Int, m >= 1 PROVE SubSeq(units, m, Len(units)) \in Seq(UnitSet)
  <2>1. \A i \in m .. Len(units) : units[i] \in UnitSet
    BY <1>1, <1>2, ElementOfSeq
  <2> QED
    BY <1>1, <2>1, SubSeqProperties
<1>3. SubSeq(units, 2, Len(units)) \in Seq(UnitSet) /\ SubSeq(units, sync, Len(units)) \in Seq(UnitSet)
  BY <1>1, <1>2
<1>4. SubSeq(units, sync + FrameUnits, Len(units)) \in Seq(UnitSet)
  <2>1. sync + FrameUnits \in Int /\ sync + FrameUnits >= 1
    BY <1>1
  <2> QED
    BY <1>2, <2>1
<1> QED
  BY <1>3, <1>4 DEF Rest

\* what is skipped of the buffer
Skipped(units, sync) ==
  IF units[sync].kind = "broken" THEN IF sync = 1 THEN 1 ELSE sync - 1 ELSE sync + FrameUnits - 1

\* What is left of a buffer is its end, and a unit of it at least is gone.
LEMMA RestLen ==
  ASSUME Mp3Assumption, NEW units \in Seq(UnitSet), NEW sync \in 1 .. Len(units) - 1,
         units[sync].kind # "broken" => sync + FrameUnits - 1 <= Len(units)
  PROVE  LET skip == Skipped(units, sync)
         IN  /\ skip \in Nat /\ skip >= 1 /\ skip <= Len(units)
             /\ Len(Rest(units, sync)) = Len(units) - skip
             /\ \A i \in 1 .. Len(Rest(units, sync)) : Rest(units, sync)[i] = units[skip + i]
<1> DEFINE skip == Skipped(units, sync)
<1>1. FrameUnits \in Nat /\ FrameUnits >= 2 /\ Len(units) \in Nat /\ sync \in Nat
  BY LenProperties DEF Mp3Assumption
<1>2. skip \in Nat /\ skip >= 1 /\ skip <= Len(units)
  <2>1. CASE units[sync].kind = "broken" /\ sync = 1
    BY <1>1, <2>1 DEF Skipped
  <2>2. CASE units[sync].kind = "broken" /\ sync # 1
    BY <1>1, <2>2 DEF Skipped
  <2>3. CASE units[sync].kind # "broken"
    BY <1>1, <2>3 DEF Skipped
  <2> QED
    BY <2>1, <2>2, <2>3
<1>3. Rest(units, sync) = SubSeq(units, skip + 1, Len(units))
  <2>1. CASE units[sync].kind = "broken" /\ sync = 1
    BY <1>1, <2>1 DEF Skipped, Rest
  <2>2. CASE units[sync].kind = "broken" /\ sync # 1
    <3>1. sync - 1 + 1 = sync
      BY <1>1
    <3> QED
      BY <2>2, <3>1 DEF Skipped, Rest
  <2>3. CASE units[sync].kind # "broken"
    <3>1. sync + FrameUnits - 1 + 1 = sync + FrameUnits
      BY <1>1
    <3> QED
      BY <2>3, <3>1 DEF Skipped, Rest
  <2> QED
    BY <2>1, <2>2, <2>3
<1> HIDE DEF skip
<1> DEFINE rest == SubSeq(units, skip + 1, Len(units))
<1>4. \A i \in skip + 1 .. Len(units) : units[i] \in UnitSet
  BY <1>1, <1>2, ElementOfSeq
<1>5. skip + 1 \in Int
  BY <1>2
<1>6. /\ Len(rest) = IF skip + 1 <= Len(units) THEN Len(units) - (skip + 1) + 1 ELSE 0
      /\ \A i \in 1 .. Len(units) - (skip + 1) + 1 : rest[i] = units[skip + 1 + i - 1]
  BY <1>1, <1>4, <1>5, SubSeqProperties
<1> HIDE DEF rest
<1>7. Len(rest) = Len(units) - skip
  BY <1>1, <1>2, <1>6
<1>8. ASSUME NEW i \in 1 .. Len(rest) PROVE rest[i] = units[skip + i]
  <2>1. skip + 1 + i - 1 = skip + i /\ i \in 1 .. Len(units) - (skip + 1) + 1
    BY <1>1, <1>2, <1>7
  <2> QED
    BY <1>6, <2>1
<1>9. Rest(units, sync) = rest
  BY <1>3 DEF rest
<1> QED
  BY <1>2, <1>7, <1>8, <1>9, Zenon DEF skip

\* The decoder goes on with less in the buffer.
LEMMA ReadsOn ==
  ASSUME Mp3Assumption, Mp3TypeInv, Reading, dec.pc = "decode",
         NEW left \in Seq(UnitSet), NEW skip \in Nat,
         skip >= 1 \/ Len(left) = 0,
         Len(left) = Len(dec.left) - skip, \A i \in 1 .. Len(left) : left[i] = dec.left[skip + i],
         dec'.pc = "read", dec'.head = dec.head, dec'.left = left, dec'.want = dec.want,
         dec'.from = dec.from, file' = file, at' = at,
         dec'.is_first_frame => dec.is_first_frame /\ out' = out,
         DenseFrom(file, dec.from) => /\ Clean(file, dec.from, Pos + skip)
                                      /\ Put(file, dec.from, dec'.is_first_frame, out', Pos + skip)
  PROVE  Reading'
<1>1. /\ Pos \in Nat /\ Pos >= dec.from /\ at = Pos + Len(dec.left) /\ Len(dec.left) \in Nat /\ Len(file) \in Nat
      /\ \A i \in 1 .. Len(dec.left) : dec.left[i] = file[Pos + i]
      /\ Len(dec.left) = 0 \/ at <= Len(file)
  BY BufferIs
<1>2. dec.head = <<>> /\ Len(dec.left) <= BufUnits /\ dec'.head = <<>> /\ Len(dec'.head) = 0 /\ BufUnits \in Nat
      /\ BufUnits >= 1 /\ dec.from \in Nat
  <2>1. dec.head = <<>> /\ Len(dec.left) <= BufUnits
    BY Zenon DEF Reading
  <2>2. BufUnits \in Nat /\ BufUnits >= 1
    BY DEF Mp3Assumption
  <2>3. dec.from \in Nat
    BY DEF Mp3TypeInv, States
  <2> QED
    BY <2>1, <2>2, <2>3, EmptySeq
<1>3. Len(left) \in Nat /\ Len(dec'.left) = Len(left)
  BY LenProperties
<1>4. Pos' = Pos + skip
  <2>1. Pos' = at' - Len(dec'.head) - Len(dec'.left)
    BY DEF Pos
  <2>2. Pos' = at - 0 - Len(left)
    BY <1>2, <1>3, <2>1
  <2>3. PICK p \in Nat, l \in Nat, k \in Nat : p = Pos /\ l = Len(left) /\ k = Len(dec.left)
    BY <1>1, <1>3
  <2>4. at = p + k /\ l = k - skip
    BY <1>1, <2>3, Zenon
  <2>5. PICK a \in Nat : a = at /\ a = p + k
    BY <2>4
  <2>6. l = k - skip /\ a = p + k => a - 0 - l = p + skip
    OBVIOUS
  <2>7. a - 0 - l = p + skip
    BY <2>4, <2>5, <2>6, Zenon
  <2>8. Pos' = a - 0 - l
    BY <2>2, <2>3, <2>5, Zenon
  <2>9. p + skip = Pos + skip
    BY <2>3, Zenon
  <2> QED
    BY <2>7, <2>8, <2>9, Zenon
<1>5. ASSUME NEW i \in 1 .. Len(dec'.left) PROVE dec'.left[i] = file'[Pos' + Len(dec'.head) + i]
  <2>1. skip + i \in 1 .. Len(dec.left) /\ Pos + (skip + i) = Pos' + Len(dec'.head) + i /\ i \in 1 .. Len(left)
    BY <1>1, <1>2, <1>3, <1>4
  <2>2. left[i] = dec.left[skip + i] /\ dec.left[skip + i] = file[Pos + (skip + i)]
    BY <1>1, <2>1
  <2> QED
    BY <2>1, <2>2
<1>6. Pos' >= dec'.from
  BY <1>1, <1>2, <1>4
<1>7. at' <= Len(file') \/ (dec'.head = <<>> /\ dec'.left = <<>>)
  <2>1. CASE Len(dec.left) = 0
    <3>1. Len(left) = 0
      BY <1>1, <1>3, <2>1
    <3> QED
      BY <1>2, <3>1, EmptySeq
  <2>2. CASE Len(dec.left) # 0
    BY <1>1, <2>2
  <2> QED
    BY <2>1, <2>2
<1>8. Len(dec'.head) + Len(dec'.left) < BufUnits
  BY <1>1, <1>2, <1>3
<1>9. dec'.is_first_frame => dec'.from = 0 /\ out' = <<>>
  BY DEF Reading
<1>10. dec'.want = 0 => at' >= Len(file')
  BY DEF Reading
<1>11. DenseFrom(file', dec'.from) => /\ Clean(file', dec'.from, Pos')
                                      /\ Put(file', dec'.from, dec'.is_first_frame, out', Pos')
  BY <1>4
<1>12. \A i \in 1 .. Len(dec'.head) : dec'.head[i] = file'[Pos' + i]
  BY <1>2
<1> QED
  BY <1>2, <1>5, <1>6, <1>7, <1>8, <1>9, <1>10, <1>11, <1>12 DEF Reading

--------------------------------------------------------------------------------
(* The steps of process *)

\* The types are kept by a step that returns,
LEMMA ReturnTypes ==
  ASSUME Mp3TypeInv, NEW value \in {"SUCCESS", "FAILURE", "INPUT_ERROR", "DECODE_ERROR"}, Return(value),
         file' = file, at' \in Nat, stopped' \in BOOLEAN, out' \in Seq(Nat)
  PROVE  Mp3TypeInv'
<1>1. dec \in States
  BY DEF Mp3TypeInv
<1>2. dec' \in States /\ dec'.pc = "done"
  BY <1>1 DEF Return, States
<1>3. result' = value
  BY DEF Return
<1> QED
  BY <1>2, <1>3 DEF Mp3TypeInv

\* by one that goes on,
LEMMA ContinueTypes ==
  ASSUME Mp3TypeInv, dec' \in States, dec'.pc # "done", dec.pc # "done", result' = result,
         file' = file, at' \in Nat, stopped' \in BOOLEAN, out' \in Seq(Nat)
  PROVE  Mp3TypeInv'
BY DEF Mp3TypeInv

\* and so by every step.
LEMMA Mp3Types ==
  ASSUME Mp3Assumption, Mp3TypeInv, [Next]_vars
  PROVE  Mp3TypeInv'
<1> USE DEF Mp3TypeInv
<1>1. /\ dec \in States /\ Laid(file) /\ file \in Seq(UnitSet) /\ at \in Nat /\ Len(file) \in Nat
      /\ dec.head \in Seq(UnitSet) /\ dec.left \in Seq(UnitSet) /\ dec.id3 \in Nat /\ dec.want \in Int
      /\ Len(dec.head) \in Nat /\ Len(dec.left) \in Nat /\ dec.start_time \in Nat
      /\ out \in Seq(Nat) /\ stopped \in BOOLEAN /\ BufUnits \in Nat
  BY LenProperties DEF States, Laid, Mp3Assumption
<1>2. ASSUME NEW n \in Int PROVE Input(n) \in Seq(UnitSet) /\ Len(Input(n)) \in Nat /\ at + Len(Input(n)) \in Nat
  <2>1. Input(n) \in Seq(UnitSet) /\ Len(Input(n)) \in Nat
    BY <1>1, GotIs
  <2> QED
    BY <1>1, <2>1
<1>3. CASE Header
  <2>1. CASE Refused(1) \/ Input(1) = <<>>
    <3>1. Return("INPUT_ERROR") /\ at' = at /\ file' = file /\ stopped' = stopped /\ out' = out
      BY <1>3, <2>1 DEF Header
    <3> QED
      BY <1>1, <3>1, ReturnTypes
  <2>2. CASE ~(Refused(1) \/ Input(1) = <<>>)
    <3>1. /\ dec.pc = "header" /\ at' = at + 1 /\ file' = file /\ stopped' = stopped /\ out' = out /\ result' = result
          /\ \/ dec' = [dec EXCEPT !.pc = "tag"]
             \/ dec' = [dec EXCEPT !.pc = "read", !.head = Input(1), !.want = BufUnits - 1]
      BY <1>3, <2>2 DEF Header
    <3>2. Input(1) \in Seq(UnitSet)
      BY <1>2
    <3>3. dec' \in States /\ dec'.pc # "done"
      <4>1. CASE dec' = [dec EXCEPT !.pc = "tag"]
        BY <1>1, <4>1 DEF States
      <4>2. CASE dec' = [dec EXCEPT !.pc = "read", !.head = Input(1), !.want = BufUnits - 1]
        <5>1. BufUnits - 1 \in Int
          BY <1>1
        <5> QED
          BY <1>1, <3>2, <4>2, <5>1 DEF States
      <4> QED
        BY <3>1, <4>1, <4>2
    <3> QED
      BY <1>1, <3>1, <3>3, ContinueTypes
  <2> QED
    BY <2>1, <2>2
<1>4. CASE SkipTag
  <2> DEFINE got == Input(BufUnits)
  <2>1. CASE Refused(BufUnits) \/ got = <<>>
    <3>1. Return("INPUT_ERROR") /\ at' = at /\ file' = file /\ stopped' = stopped /\ out' = out
      BY <1>4, <2>1 DEF SkipTag
    <3> QED
      BY <1>1, <3>1, ReturnTypes
  <2>2. CASE ~(Refused(BufUnits) \/ got = <<>>)
    <3>1. /\ dec.pc = "tag" /\ at' = at + Len(got) /\ file' = file /\ stopped' = stopped /\ out' = out
          /\ result' = result
          /\ \/ Len(got) < dec.id3 /\ dec' = [dec EXCEPT !.id3 = @ - Len(got)]
             \/ dec' = [dec EXCEPT !.pc = "read", !.left = SubSeq(got, dec.id3 + 1, Len(got)),
                                   !.want = BufUnits - (Len(got) - dec.id3)]
      BY <1>4, <2>2 DEF SkipTag
    <3>2. got \in Seq(UnitSet) /\ Len(got) \in Nat /\ at + Len(got) \in Nat
      <4>1. BufUnits \in Int
        BY <1>1
      <4> QED
        BY <1>2, <4>1, Zenon
    <3> HIDE DEF got
    <3>3. SubSeq(got, dec.id3 + 1, Len(got)) \in Seq(UnitSet)
      <4>1. \A i \in dec.id3 + 1 .. Len(got) : got[i] \in UnitSet
        BY <1>1, <3>2, ElementOfSeq
      <4> QED
        BY <1>1, <3>2, <4>1, SubSeqProperties
    <3>4. dec' \in States /\ dec'.pc # "done"
      <4>1. CASE Len(got) < dec.id3 /\ dec' = [dec EXCEPT !.id3 = @ - Len(got)]
        <5>1. dec.id3 - Len(got) \in Nat
          BY <1>1, <3>2, <4>1
        <5> QED
          BY <1>1, <3>1, <4>1, <5>1 DEF States
      <4>2. CASE dec' = [dec EXCEPT !.pc = "read", !.left = SubSeq(got, dec.id3 + 1, Len(got)),
                                    !.want = BufUnits - (Len(got) - dec.id3)]
        <5>1. BufUnits - (Len(got) - dec.id3) \in Int
          BY <1>1, <3>2
        <5> QED
          BY <1>1, <3>3, <4>2, <5>1 DEF States
      <4> QED
        BY <3>1, <4>1, <4>2
    <3> QED
      BY <1>1, <3>1, <3>2, <3>4, ContinueTypes
  <2> QED
    BY <2>1, <2>2
<1>5. CASE Refill
  <2> DEFINE want == IF dec.want = 0 THEN 0 ELSE BufUnits - Len(dec.head) - Len(dec.left)
             got == Input(want)
  <2>1. want \in Int
    BY <1>1
  <2>2. got \in Seq(UnitSet) /\ Len(got) \in Nat /\ at + Len(got) \in Nat
    <3> HIDE DEF want
    <3> QED
      BY <1>2, <2>1
  <2>3. /\ dec.pc = "read" /\ file' = file /\ stopped' = stopped /\ out' = out
        /\ \/ Return("INPUT_ERROR") /\ at' = at
           \/ Return("SUCCESS") /\ at' = at
           \/ /\ at' = at + Len(got)
              /\ dec' = [dec EXCEPT !.pc = "decode", !.head = <<>>, !.left = Buffer(got),
                                    !.want = IF Len(got) < want THEN 0 ELSE want]
              /\ result' = result
    BY <1>5 DEF Refill
  <2> HIDE DEF want, got
  <2>4. CASE Return("INPUT_ERROR") /\ at' = at
    BY <1>1, <2>3, <2>4, ReturnTypes
  <2>5. CASE Return("SUCCESS") /\ at' = at
    BY <1>1, <2>3, <2>5, ReturnTypes
  <2>6. CASE /\ at' = at + Len(got)
             /\ dec' = [dec EXCEPT !.pc = "decode", !.head = <<>>, !.left = Buffer(got),
                                   !.want = IF Len(got) < want THEN 0 ELSE want]
             /\ result' = result
    <3>1. Buffer(got) \in Seq(UnitSet)
      BY <1>1, <2>2, ConcatProperties DEF Buffer
    <3>2. <<>> \in Seq(UnitSet) /\ (IF Len(got) < want THEN 0 ELSE want) \in Int
      BY <2>1, EmptySeq
    <3>3. dec' \in States /\ dec'.pc # "done"
      BY <1>1, <2>6, <3>1, <3>2 DEF States
    <3> QED
      BY <1>1, <2>2, <2>3, <2>6, <3>3, ContinueTypes
  <2> QED
    BY <2>3, <2>4, <2>5, <2>6
<1>6. ASSUME NEW left \in Seq(UnitSet), Continue(left), dec.pc = "decode", UNCHANGED <<file, at, stopped, out>>
      PROVE  Mp3TypeInv'
  <2>1. dec' \in States /\ dec'.pc # "done" /\ result' = result
    BY <1>1, <1>6 DEF Continue, States
  <2> QED
    BY <1>1, <1>6, <2>1, ContinueTypes
<1>7. CASE NoSync
  <2>1. <<>> \in Seq(UnitSet)
    BY EmptySeq
  <2> QED
    BY <1>6, <1>7, <2>1 DEF NoSync
<1>8. CASE Underflow
  <2>1. Return("FAILURE") /\ UNCHANGED <<file, at, stopped, out>>
    BY <1>8 DEF Underflow
  <2> QED
    BY <1>1, <2>1, ReturnTypes
<1>9. CASE Skip
  <2>1. PICK sync \in 1 .. Len(dec.left) :
           Found(sync) /\ Continue(Rest(dec.left, sync)) /\ UNCHANGED <<file, at, stopped, out>>
    BY <1>9 DEF Skip
  <2>2. Rest(dec.left, sync) \in Seq(UnitSet)
    BY <1>1, RestIs
  <2>3. dec.pc = "decode"
    BY <2>1 DEF Found
  <2> QED
    BY <1>6, <2>1, <2>2, <2>3
<1>10. CASE WrongLayer
  <2>1. Return("DECODE_ERROR") /\ UNCHANGED <<file, at, stopped, out>>
    BY <1>10 DEF WrongLayer
  <2> QED
    BY <1>1, <2>1, ReturnTypes
<1>11. CASE SeekStart
  <2>1. /\ at' = dec.start_time /\ UNCHANGED <<file, stopped, out, result>> /\ dec.pc = "decode"
        /\ dec' = [dec EXCEPT !.pc = "read", !.left = <<>>, !.is_first_frame = FALSE,
                              !.start_time = 0, !.from = dec.start_time, !.deaf = (dec.want = 0)]
    BY <1>11 DEF SeekStart, Found
  <2>2. <<>> \in Seq(UnitSet) /\ (dec.want = 0) \in BOOLEAN
    BY EmptySeq
  <2>3. dec' \in States /\ dec'.pc # "done"
    BY <1>1, <2>1, <2>2 DEF States
  <2> QED
    BY <1>1, <2>1, <2>3, ContinueTypes
<1>12. CASE Output
  <2>1. PICK sync \in 1 .. Len(dec.left) :
           /\ Found(sync) /\ UNCHANGED <<file, at, stopped>>
           /\ \/ /\ out' = Append(out, dec.left[sync].frame)
                 /\ dec' = [dec EXCEPT !.pc = "read", !.is_first_frame = FALSE, !.left = Rest(dec.left, sync)]
                 /\ UNCHANGED result
              \/ Return("SUCCESS") /\ UNCHANGED out
    BY <1>12 DEF Output
  <2>2. Rest(dec.left, sync) \in Seq(UnitSet)
    BY <1>1, RestIs
  <2>3. CASE /\ out' = Append(out, dec.left[sync].frame)
             /\ dec' = [dec EXCEPT !.pc = "read", !.is_first_frame = FALSE, !.left = Rest(dec.left, sync)]
             /\ UNCHANGED result
    <3>1. dec.left[sync].frame \in Nat
      BY <1>1, UnitIs
    <3>2. out' \in Seq(Nat)
      BY <1>1, <2>3, <3>1, AppendProperties
    <3>3. dec' \in States /\ dec'.pc # "done"
      BY <1>1, <2>2, <2>3 DEF States
    <3>4. dec.pc = "decode"
      BY <2>1 DEF Found
    <3> QED
      BY <1>1, <2>1, <2>3, <3>2, <3>3, <3>4, ContinueTypes
  <2>4. CASE Return("SUCCESS") /\ UNCHANGED out
    BY <1>1, <2>1, <2>4, ReturnTypes
  <2> QED
    BY <2>1, <2>3, <2>4
<1>13. CASE Stop
  BY <1>13 DEF Stop
<1>14. CASE UNCHANGED vars
  BY <1>14 DEF vars
<1> QED
  BY <1>3, <1>4, <1>5, <1>7, <1>8, <1>9, <1>10, <1>11, <1>12, <1>13, <1>14 DEF Next, Process

\* A step that returns has put out what is expected when it returns an end of the track.
LEMMA ReturnMain ==
  ASSUME Mp3TypeInv, NEW value, Return(value), file' = file,
         value \in {"SUCCESS", "FAILURE"} /\ DenseFrom(file, dec.from) =>
           (\A i, j \in DOMAIN out' : i < j => out'[i] < out'[j]) /\ ToSet(out') = ExpectedOf(file, dec.from)
  PROVE  Main'
<1>1. dec \in States
  BY DEF Mp3TypeInv
<1>2. dec'.pc = "done" /\ dec'.from = dec.from /\ result' = value
  BY <1>1 DEF Return, States
<1>3. result' \in {"SUCCESS", "FAILURE"} /\ DenseFrom(file', dec'.from) => Heard'
  BY <1>2 DEF Heard
<1>4. dec'.pc \notin {"header", "tag", "read", "decode"}
  BY <1>2
<1> QED
  BY <1>3, <1>4 DEF Main

\* A step that goes on need only see to the reading.
LEMMA GoesOnMain ==
  ASSUME Mp3TypeInv, dec.pc # "done", result' = result, dec'.pc \in {"read", "decode"}, Reading'
  PROVE  Main'
<1>1. result' = "none"
  BY DEF Mp3TypeInv
<1> QED
  BY <1>1 DEF Main

\* The header is the first unit of the file, or of the tag.
LEMMA MainHeader ==
  ASSUME Mp3Assumption, Mp3TypeInv, Main, Header, ~stopped
  PROVE  Main'
<1>1. /\ dec \in States /\ Laid(file) /\ file \in Seq(UnitSet) /\ at \in Nat /\ Len(file) \in Nat
      /\ dec.id3 \in Nat /\ BufUnits \in Nat /\ BufUnits >= 4 /\ ~Refused(1)
  BY LenProperties DEF Mp3TypeInv, States, Laid, Mp3Assumption, Refused
<1>2. /\ dec.pc = "header" /\ out = <<>> /\ dec.is_first_frame /\ dec.from = 0 /\ dec.head = <<>> /\ dec.left = <<>>
      /\ AtHeader /\ file' = file /\ out' = out
  BY DEF Header, Main
<1>3. CASE Input(1) = <<>>
  <2>1. Return("INPUT_ERROR")
    BY <1>3 DEF Header
  <2> QED
    BY <1>2, <2>1, ReturnMain
<1>4. CASE Input(1) # <<>> /\ dec.id3 > 0
  <2>1. at' = at + 1 /\ dec' = [dec EXCEPT !.pc = "tag"] /\ result' = result
    BY <1>1, <1>4 DEF Header
  <2>2. /\ dec'.pc = "tag" /\ dec'.id3 = dec.id3 /\ dec'.is_first_frame /\ dec'.from = 0
        /\ dec'.head = <<>> /\ dec'.left = <<>> /\ result' = "none"
    BY <1>1, <1>2, <2>1 DEF States, Mp3TypeInv
  <2>3. at' + dec'.id3 = dec.id3 + 1
    BY <1>1, <1>2, <2>1, <2>2 DEF AtHeader
  <2>4. Tagged(file', at' + dec'.id3)
    BY <1>2, <1>4, <2>3 DEF AtHeader
  <2> QED
    BY <1>2, <1>4, <2>2, <2>4 DEF Main
<1>5. CASE Input(1) # <<>> /\ ~(dec.id3 > 0)
  <2>1. /\ at' = at + 1 /\ result' = result
        /\ dec' = [dec EXCEPT !.pc = "read", !.head = Input(1), !.want = BufUnits - 1]
    BY <1>1, <1>5 DEF Header
  <2>2. /\ dec'.pc = "read" /\ dec'.head = Input(1) /\ dec'.left = <<>> /\ dec'.want = BufUnits - 1
        /\ dec'.from = 0 /\ dec'.is_first_frame = TRUE
    BY <1>1, <1>2, <2>1 DEF States
  <2>3. at = 0 /\ dec.id3 = 0 /\ \A i \in 1 .. Len(file) : file[i].kind = "tag" => i = 1
    BY <1>1, <1>2, <1>5 DEF AtHeader
  <2>4. Len(Input(1)) = 1 /\ 1 <= Len(file) /\ Input(1)[1] = file[1]
    <3>1. /\ Input(1) \in Seq(UnitSet) /\ Len(Input(1)) \in Nat
          /\ Len(Input(1)) = 0 \/ at + Len(Input(1)) <= Len(file)
          /\ Len(Input(1)) <= 1
          /\ \A i \in 1 .. Len(Input(1)) : Input(1)[i] = file[at + i]
      <4>1. PICK n \in Int : n = 1 /\ n >= 0
        OBVIOUS
      <4>2. /\ Input(n) \in Seq(UnitSet) /\ Len(Input(n)) \in Nat
            /\ Len(Input(n)) = 0 \/ at + Len(Input(n)) <= Len(file)
            /\ Len(Input(n)) <= n
            /\ \A i \in 1 .. Len(Input(n)) : Input(n)[i] = file[at + i]
        BY <1>1, <4>1, GotIs
      <4> QED
        BY <4>1, <4>2, Zenon
    <3>2. Len(Input(1)) = 1
      <4>1. PICK got \in Seq(UnitSet) : got = Input(1)
        BY <3>1
      <4>2. Len(got) # 0
        BY <1>5, <4>1, EmptySeq
      <4>3. Len(Input(1)) # 0 /\ Len(Input(1)) \in Nat /\ Len(Input(1)) <= 1
        BY <3>1, <4>1, <4>2, Zenon
      <4>4. \A l \in Nat : l # 0 /\ l <= 1 => l = 1
        OBVIOUS
      <4> QED
        BY <4>3, <4>4, Zenon
    <3> QED
      BY <2>3, <3>1, <3>2
  <2>5. Pos' = 0
    <3>1. Pos' = at' - Len(dec'.head) - Len(dec'.left)
      BY DEF Pos
    <3>2. at' = 1 /\ Len(dec'.head) = 1 /\ Len(dec'.left) = 0
      BY <2>1, <2>2, <2>3, <2>4, EmptySeq
    <3> QED
      BY <3>1, <3>2
  <2>6. Clean(file, 0, 0) /\ Put(file, 0, TRUE, <<>>, 0)
    <3>2. PICK p \in Nat : p = 0
      OBVIOUS
    <3>1. TagEnds(file, p)
      BY <1>1, <2>3, <3>2 DEF TagEnds
    <3>3. Clean(file, 0, p) /\ Put(file, 0, TRUE, <<>>, p)
      BY <1>1, <3>1, <3>2, BehindTag
    <3> QED
      BY <3>2, <3>3, Zenon
  <2>7. Clean(file', dec'.from, Pos') /\ Put(file', dec'.from, dec'.is_first_frame, out', Pos')
    BY <1>2, <2>2, <2>5, <2>6
  <2>8. Len(dec'.head) = 1 /\ Len(dec'.left) = 0 /\ dec'.head[1] = file[1] /\ at' = 1
    BY <2>1, <2>2, <2>3, <2>4, EmptySeq
  <2>9. \A i \in 1 .. Len(dec'.head) : dec'.head[i] = file'[Pos' + i]
    BY <1>2, <2>5, <2>8
  <2>10. \A i \in 1 .. Len(dec'.left) : dec'.left[i] = file'[Pos' + Len(dec'.head) + i]
    BY <2>8
  <2>11. Pos' >= dec'.from /\ at' <= Len(file') /\ dec'.want # 0
    BY <1>1, <1>2, <2>2, <2>4, <2>5, <2>8
  <2>12. Len(dec'.head) + Len(dec'.left) < BufUnits /\ dec'.pc # "decode" /\ out' = <<>>
    <3>1. Len(dec'.head) + Len(dec'.left) < BufUnits
      BY <1>1, <2>8
    <3>2. dec'.pc # "decode"
      BY <2>2
    <3> QED
      BY <1>2, <3>1, <3>2
  <2>13. Reading'
    BY <2>2, <2>7, <2>8, <2>9, <2>10, <2>11, <2>12 DEF Reading
  <2> QED
    BY <1>2, <2>1, <2>2, <2>13, GoesOnMain
<1> QED
  BY <1>3, <1>4, <1>5

\* What is left behind a tag begins where the tag ends.
LEMMA MainSkipTag ==
  ASSUME Mp3Assumption, Mp3TypeInv, Main, SkipTag, ~stopped
  PROVE  Main'
<1> DEFINE got == Input(BufUnits)
<1>1. /\ dec \in States /\ Laid(file) /\ file \in Seq(UnitSet) /\ at \in Nat /\ Len(file) \in Nat
      /\ dec.id3 \in Nat /\ BufUnits \in Nat /\ BufUnits >= 4 /\ ~Refused(BufUnits)
  BY LenProperties DEF Mp3TypeInv, States, Laid, Mp3Assumption, Refused
<1>2. /\ dec.pc = "tag" /\ out = <<>> /\ dec.is_first_frame /\ dec.from = 0 /\ dec.head = <<>> /\ dec.left = <<>>
      /\ dec.id3 > 0 /\ Tagged(file, at + dec.id3) /\ file' = file /\ out' = out
  BY DEF SkipTag, Main
<1>3. /\ got \in Seq(UnitSet) /\ Len(got) \in Nat
      /\ Len(got) = 0 \/ at + Len(got) <= Len(file)
      /\ Len(got) <= BufUnits
      /\ \A i \in 1 .. Len(got) : got[i] = file[at + i]
  <2>1. PICK n \in Int : n = BufUnits /\ n >= 0
    BY <1>1
  <2>2. /\ Input(n) \in Seq(UnitSet) /\ Len(Input(n)) \in Nat
        /\ Len(Input(n)) = 0 \/ at + Len(Input(n)) <= Len(file)
        /\ Len(Input(n)) <= n
        /\ \A i \in 1 .. Len(Input(n)) : Input(n)[i] = file[at + i]
    BY <1>1, <2>1, GotIs
  <2> QED
    BY <2>1, <2>2, Zenon
<1>4. CASE got = <<>>
  <2>1. Return("INPUT_ERROR")
    BY <1>4 DEF SkipTag
  <2> QED
    BY <1>2, <2>1, ReturnMain
<1>5. CASE got # <<>> /\ Len(got) < dec.id3
  <2>1. at' = at + Len(got) /\ dec' = [dec EXCEPT !.id3 = @ - Len(got)] /\ result' = result
    BY <1>1, <1>5 DEF SkipTag
  <2> HIDE DEF got
  <2>2. /\ dec'.pc = "tag" /\ dec'.id3 = dec.id3 - Len(got) /\ dec'.is_first_frame /\ dec'.from = 0
        /\ dec'.head = <<>> /\ dec'.left = <<>> /\ result' = "none"
    BY <1>1, <1>2, <2>1 DEF States, Mp3TypeInv
  <2>3. at' + dec'.id3 = at + dec.id3 /\ dec'.id3 > 0
    <3>1. PICK a \in Nat, g \in Nat, d \in Nat : a = at /\ g = Len(got) /\ d = dec.id3
      BY <1>1, <1>3
    <3>2. g < d /\ at' = a + g /\ dec'.id3 = d - g
      BY <1>5, <2>1, <2>2, <3>1, Zenon
    <3>3. (a + g) + (d - g) = a + d /\ d - g > 0
      BY <3>2
    <3> QED
      BY <3>1, <3>2, <3>3, Zenon
  <2>4. Tagged(file', at' + dec'.id3)
    BY <1>2, <2>3
  <2> QED
    BY <1>2, <2>2, <2>3, <2>4 DEF Main
<1>6. CASE got # <<>> /\ ~(Len(got) < dec.id3)
  <2> DEFINE left == SubSeq(got, dec.id3 + 1, Len(got))
  <2>1. /\ at' = at + Len(got) /\ result' = result
        /\ dec' = [dec EXCEPT !.pc = "read", !.left = left, !.want = BufUnits - (Len(got) - dec.id3)]
    BY <1>1, <1>6 DEF SkipTag
  <2> HIDE DEF got
  <2>2. /\ left \in Seq(UnitSet) /\ Len(left) = Len(got) - dec.id3
        /\ \A i \in 1 .. Len(left) : left[i] = got[dec.id3 + i]
    <3>1. \A i \in dec.id3 + 1 .. Len(got) : got[i] \in UnitSet
      BY <1>1, <1>3, ElementOfSeq
    <3>2. dec.id3 + 1 \in Int
      BY <1>1
    <3>3. /\ left \in Seq(UnitSet)
          /\ Len(left) = IF dec.id3 + 1 <= Len(got) THEN Len(got) - (dec.id3 + 1) + 1 ELSE 0
          /\ \A i \in 1 .. Len(got) - (dec.id3 + 1) + 1 : left[i] = got[dec.id3 + 1 + i - 1]
      BY <1>3, <3>1, <3>2, SubSeqProperties
    <3> HIDE DEF left
    <3>4. Len(left) = Len(got) - dec.id3
      BY <1>1, <1>3, <1>6, <3>3
    <3>5. ASSUME NEW i \in 1 .. Len(left) PROVE left[i] = got[dec.id3 + i]
      <4>1. dec.id3 + 1 + i - 1 = dec.id3 + i /\ i \in 1 .. Len(got) - (dec.id3 + 1) + 1
        BY <1>1, <1>3, <3>4
      <4> QED
        BY <3>3, <4>1
    <3> QED
      BY <3>3, <3>4, <3>5
  <2> HIDE DEF left
  <2>3. /\ dec'.pc = "read" /\ dec'.head = <<>> /\ dec'.left = left
        /\ dec'.want = BufUnits - (Len(got) - dec.id3) /\ dec'.from = 0 /\ dec'.is_first_frame = TRUE
    BY <1>1, <1>2, <2>1 DEF States
  <2>4. Len(dec'.head) = 0 /\ Len(dec'.left) = Len(got) - dec.id3 /\ Len(got) # 0
    BY <1>3, <1>6, <2>2, <2>3, EmptySeq
  <2>5. Pos' = at + dec.id3
    <3>1. Pos' = at' - Len(dec'.head) - Len(dec'.left)
      BY DEF Pos
    <3> QED
      BY <1>1, <1>3, <2>1, <2>4, <3>1
  <2>6. Clean(file, 0, at + dec.id3) /\ Put(file, 0, TRUE, <<>>, at + dec.id3)
    <3>1. PICK p \in Nat : p = at + dec.id3
      BY <1>1
    <3>2. TagEnds(file, p)
      BY <1>1, <1>2, <3>1 DEF Tagged, TagEnds
    <3>3. Clean(file, 0, p) /\ Put(file, 0, TRUE, <<>>, p)
      BY <1>1, <3>2, BehindTag
    <3> QED
      BY <3>1, <3>3, Zenon
  <2>7. Clean(file', dec'.from, Pos') /\ Put(file', dec'.from, dec'.is_first_frame, out', Pos')
    BY <1>2, <2>3, <2>5, <2>6
  <2>8. ASSUME NEW i \in 1 .. Len(dec'.left) PROVE dec'.left[i] = file'[Pos' + Len(dec'.head) + i]
    <3>1. dec.id3 + i \in 1 .. Len(got) /\ at + (dec.id3 + i) = Pos' + Len(dec'.head) + i /\ i \in 1 .. Len(left)
      <4>1. i \in Nat /\ i >= 1 /\ i <= Len(got) - dec.id3
        BY <1>1, <1>3, <2>4
      <4>2. dec.id3 + i \in 1 .. Len(got)
        BY <1>1, <1>3, <4>1
      <4>3. at + (dec.id3 + i) = Pos' + Len(dec'.head) + i
        BY <1>1, <2>4, <2>5, <4>1
      <4>4. i \in 1 .. Len(left)
        BY <2>3
      <4> QED
        BY <4>2, <4>3, <4>4
    <3>2. left[i] = got[dec.id3 + i] /\ got[dec.id3 + i] = file[at + (dec.id3 + i)]
      BY <1>3, <2>2, <3>1
    <3> QED
      BY <1>2, <2>3, <3>1, <3>2
  <2>9. Pos' >= dec'.from /\ at' <= Len(file') /\ dec'.want # 0
    BY <1>1, <1>2, <1>3, <1>6, <2>1, <2>3, <2>4, <2>5
  <2>10. Len(dec'.head) + Len(dec'.left) < BufUnits /\ dec'.pc # "decode" /\ out' = <<>>
    BY <1>1, <1>2, <1>3, <2>3, <2>4
  <2>11. \A i \in 1 .. Len(dec'.head) : dec'.head[i] = file'[Pos' + i]
    BY <2>4
  <2>12. Reading'
    BY <2>3, <2>7, <2>8, <2>9, <2>10, <2>11 DEF Reading
  <2> QED
    BY <1>2, <2>1, <2>3, <2>12, GoesOnMain
<1> QED
  BY <1>4, <1>5, <1>6

\* What the buffer is made of lies in one piece in the file.
LEMMA Behind ==
  ASSUME NEW u, NEW a \in Seq(UnitSet), NEW b \in Seq(UnitSet), NEW p \in Nat,
         \A i \in 1 .. Len(a) : a[i] = u[p + i],
         \A i \in 1 .. Len(b) : b[i] = u[p + Len(a) + i]
  PROVE  /\ a \o b \in Seq(UnitSet) /\ Len(a \o b) = Len(a) + Len(b)
         /\ \A i \in 1 .. Len(a \o b) : (a \o b)[i] = u[p + i]
<1> DEFINE c == a \o b
<1>1. /\ c \in Seq(UnitSet) /\ Len(c) = Len(a) + Len(b) /\ Len(a) \in Nat /\ Len(b) \in Nat
      /\ \A i \in 1 .. Len(a) + Len(b) : c[i] = IF i <= Len(a) THEN a[i] ELSE b[i - Len(a)]
  BY ConcatProperties, LenProperties
<1> HIDE DEF c
<1>2. ASSUME NEW i \in 1 .. Len(c) PROVE c[i] = u[p + i]
  <2>1. CASE i <= Len(a)
    <3>1. c[i] = a[i] /\ i \in 1 .. Len(a)
      BY <1>1, <2>1
    <3> QED
      BY <3>1
  <2>2. CASE ~(i <= Len(a))
    <3>1. c[i] = b[i - Len(a)] /\ i - Len(a) \in 1 .. Len(b)
      BY <1>1, <2>2
    <3>2. p + Len(a) + (i - Len(a)) = p + i
      BY <1>1
    <3> QED
      BY <3>1, <3>2
  <2> QED
    BY <2>1, <2>2
<1> QED
  BY <1>1, <1>2 DEF c

\* A refill puts what follows behind what is left, or it is the end of the file.
LEMMA MainRefill ==
  ASSUME Mp3Assumption, Mp3TypeInv, Main, Refill, ~stopped
  PROVE  Main'
<1> DEFINE want == IF dec.want = 0 THEN 0 ELSE BufUnits - Len(dec.head) - Len(dec.left)
           got == Input(want)
<1>1. /\ dec \in States /\ Laid(file) /\ file \in Seq(UnitSet) /\ at \in Nat
      /\ dec.head \in Seq(UnitSet) /\ dec.left \in Seq(UnitSet)
      /\ dec.from \in Nat /\ dec.is_first_frame \in BOOLEAN /\ out \in Seq(Nat)
      /\ BufUnits \in Nat /\ FrameUnits \in Nat /\ FrameUnits >= 2
  BY DEF Mp3TypeInv, States, Laid, Mp3Assumption
<1>2. dec.pc = "read" /\ file' = file /\ out' = out /\ ~Refused(want) /\ Reading
  BY DEF Refill, Main, Refused
<1>h. PICK h \in Nat : h = Len(dec.head)
  BY <1>1, LenProperties
<1>l. PICK l \in Nat : l = Len(dec.left)
  BY <1>1, LenProperties
<1>n. PICK n \in Nat : n = Len(file)
  BY <1>1, LenProperties
<1>3. /\ Pos >= dec.from
      /\ dec.head = <<>> \/ (dec.left = <<>> /\ h = 1)
      /\ at <= n \/ (dec.head = <<>> /\ dec.left = <<>>)
      /\ dec.is_first_frame => dec.from = 0 /\ out = <<>>
      /\ dec.want = 0 => at >= n
      /\ h + l < BufUnits
  BY <1>2, <1>h, <1>l, <1>n, Zenon DEF Reading
<1>4. PICK p \in Nat : p = Pos /\ p = at - h - l
  <2>1. Pos = at - h - l
    BY <1>h, <1>l DEF Pos
  <2>2. Pos \in Nat
    BY <1>1, <1>3, <2>1
  <2> QED
    BY <2>1, <2>2
<1>5. want \in Nat /\ (want = 0 => dec.want = 0) /\ (want # 0 => want = BufUnits - h - l)
  <2>1. CASE dec.want = 0
    BY <2>1
  <2>2. CASE dec.want # 0
    <3>1. want = BufUnits - h - l
      BY <1>h, <1>l, <2>2
    <3> HIDE DEF want
    <3> QED
      BY <1>1, <1>3, <2>2, <3>1
  <2> QED
    BY <2>1, <2>2
<1> HIDE DEF want
<1>6. /\ got \in Seq(UnitSet) /\ Len(got) \in Nat
      /\ Len(got) = 0 \/ at + Len(got) <= n
      /\ Len(got) <= want
      /\ Len(got) < want => at + Len(got) >= n
      /\ \A i \in 1 .. Len(got) : got[i] = file[at + i]
  <2>1. want \in Int /\ want >= 0
    BY <1>5
  <2> QED
    BY <1>1, <1>n, <2>1, GotIs
<1>7. CASE got = <<>> /\ dec.left = <<>>
  <2>1. Return("SUCCESS")
    BY <1>2, <1>7 DEF Refill, want
  <2> HIDE DEF got
  <2>2. Len(got) = 0 /\ l = 0
    BY <1>7, <1>l, EmptySeq
  <2>3. at >= n
    BY <1>1, <1>3, <1>5, <1>6, <2>2
  <2>4. h <= 1
    <3>1. CASE dec.head = <<>>
      BY <1>h, <3>1, EmptySeq
    <3>2. CASE h = 1
      BY <3>2
    <3> QED
      BY <1>3, <3>1, <3>2
  <2>5. ASSUME NEW i \in 1 .. Len(file), Pos < i, Begins(file, i, Decoded) PROVE FALSE
    <3>1. i + FrameUnits - 1 <= n /\ i \in 1 .. n /\ p < i
      BY <1>n, <1>4, <2>5 DEF Begins
    <3> QED
      BY <1>1, <1>4, <2>2, <2>3, <2>4, <3>1
  <2>6. ASSUME DenseFrom(file, dec.from)
        PROVE  (\A i, j \in DOMAIN out : i < j => out[i] < out[j]) /\ ToSet(out) = ExpectedOf(file, dec.from)
    <3>1. Put(file, dec.from, dec.is_first_frame, out, p)
      BY <1>2, <1>4, <2>6 DEF Reading
    <3>2. \A i \in 1 .. Len(file) : p < i => ~Begins(file, i, Decoded)
      BY <1>4, <2>5
    <3> QED
      BY <1>1, <3>1, <3>2, AtEnd
  <2> QED
    BY <1>2, <2>1, <2>6, ReturnMain
<1>8. CASE ~(got = <<>> /\ dec.left = <<>>)
  <2>1. /\ at' = at + Len(got) /\ result' = result
        /\ dec' = [dec EXCEPT !.pc = "decode", !.head = <<>>, !.left = Buffer(got),
                              !.want = IF Len(got) < want THEN 0 ELSE want]
    BY <1>2, <1>8 DEF Refill, want
  <2> HIDE DEF got
  <2>g. PICK g \in Nat : g = Len(got)
    BY <1>6
  <2>2. PICK b \in Seq(UnitSet) : /\ b = dec.head \o dec.left /\ Len(b) = h + l
                                 /\ \A i \in 1 .. Len(b) : b[i] = file[p + i]
    <3>0. PICK a \in Seq(UnitSet), c \in Seq(UnitSet) : a = dec.head /\ c = dec.left
      BY <1>1
    <3>1. \A i \in 1 .. Len(a) : a[i] = file[p + i]
      BY <1>2, <1>4, <3>0 DEF Reading
    <3>2. \A i \in 1 .. Len(c) : c[i] = file[p + Len(a) + i]
      BY <1>2, <1>4, <3>0 DEF Reading
    <3>3. /\ a \o c \in Seq(UnitSet) /\ Len(a \o c) = Len(a) + Len(c)
          /\ \A i \in 1 .. Len(a \o c) : (a \o c)[i] = file[p + i]
      BY <3>1, <3>2, Behind
    <3>4. h = Len(a) /\ l = Len(c) /\ dec.head \o dec.left = a \o c
      BY <1>h, <1>l, <3>0
    <3> HIDE <3>0
    <3> QED
      BY <3>3, <3>4
  <2>3. PICK left \in Seq(UnitSet) : /\ left = b \o got /\ Len(left) = h + l + g
                                    /\ \A i \in 1 .. Len(left) : left[i] = file[p + i]
    <3>0. PICK a \in Seq(UnitSet) : a = got
      BY <1>6
    <3>1. \A i \in 1 .. Len(a) : a[i] = file[p + Len(b) + i]
      <4>1. p + Len(b) = at
        BY <1>1, <1>4, <2>2
      <4> QED
        BY <1>6, <3>0, <4>1
    <3>2. \A i \in 1 .. Len(b) : b[i] = file[p + i]
      BY <2>2
    <3>3. /\ b \o a \in Seq(UnitSet) /\ Len(b \o a) = Len(b) + Len(a)
          /\ \A i \in 1 .. Len(b \o a) : (b \o a)[i] = file[p + i]
      BY <3>1, <3>2, Behind
    <3>4. Len(b \o a) = h + l + g
      BY <2>2, <2>g, <3>0, <3>3
    <3>5. b \o a = b \o got
      BY <3>0
    <3> QED
      BY <3>3, <3>4, <3>5
  <2>4. Buffer(got) = left
    BY <2>2, <2>3 DEF Buffer
  <2>6. /\ dec'.pc = "decode" /\ dec'.head = <<>> /\ dec'.left = left
        /\ dec'.want = (IF g < want THEN 0 ELSE want)
        /\ dec'.from = dec.from /\ dec'.is_first_frame = dec.is_first_frame
    BY <1>1, <2>1, <2>4, <2>g DEF States
  <2>7. at' = at + g /\ Len(dec'.left) = h + l + g /\ Len(dec'.head) = 0
    BY <2>1, <2>3, <2>6, <2>g, EmptySeq
  <2>8. Pos' = p
    <3>1. Pos' = at' - Len(dec'.head) - Len(dec'.left)
      BY DEF Pos
    <3>2. PICK at2 \in Nat, h2 \in Nat, l2 \in Nat :
             /\ at2 = at' /\ h2 = Len(dec'.head) /\ l2 = Len(dec'.left)
             /\ at2 = at + g /\ l2 = h + l + g /\ h2 = 0
      BY <1>1, <2>7
    <3>3. Pos' = at2 - h2 - l2
      BY <3>1, <3>2, Zenon
    <3>4. at2 - h2 - l2 = p
      BY <1>1, <1>4, <3>2
    <3> QED
      BY <3>3, <3>4, Zenon
  <2>9. ASSUME NEW i \in 1 .. Len(dec'.left) PROVE dec'.left[i] = file'[Pos' + Len(dec'.head) + i]
    <3>1. i \in 1 .. Len(left)
      BY <2>6
    <3>2. Pos' + Len(dec'.head) + i = p + i
      BY <1>4, <2>7, <2>8
    <3>3. left[i] = file[p + i]
      BY <2>3, <3>1
    <3> QED
      BY <1>2, <2>6, <3>2, <3>3
  <2>10. /\ g = 0 \/ at + g <= n
         /\ g <= want
         /\ g < want => at + g >= n
    BY <1>6, <2>g
  <2>11. Len(dec'.left) <= BufUnits
    BY <1>1, <1>3, <1>5, <2>7, <2>10
  <2>12. Len(dec'.left) = BufUnits \/ at' >= n
    <3>1. CASE g < want
      BY <2>7, <2>10, <3>1
    <3>2. CASE want = 0
      <4>1. g = 0 /\ at >= n
        BY <1>3, <1>5, <2>10, <3>2
      <4> QED
        BY <1>1, <2>7, <4>1
    <3>3. CASE want # 0 /\ ~(g < want)
      <4>1. g = BufUnits - h - l
        BY <1>1, <1>5, <2>10, <3>3
      <4>2. h + l + g = BufUnits
        BY <1>1, <4>1
      <4> QED
        BY <2>7, <4>2, Zenon
    <3> QED
      BY <3>1, <3>2, <3>3
  <2>13. dec'.want = 0 => at' >= n
    <3>1. CASE g < want
      BY <2>7, <2>10, <3>1
    <3>2. CASE ~(g < want)
      BY <1>1, <1>3, <1>5, <2>6, <2>7, <3>2
    <3> QED
      BY <3>1, <3>2
  <2>14. at' <= n
    <3>1. CASE g = 0
      <4>1. got = <<>>
        BY <1>6, <2>g, <3>1, EmptySeq
      <4>2. at <= n
        BY <1>3, <1>8, <4>1
      <4> QED
        BY <1>1, <2>7, <3>1, <4>2
    <3>2. CASE g # 0
      BY <2>7, <2>10, <3>2
    <3> QED
      BY <3>1, <3>2
  <2>15. DenseFrom(file', dec'.from) => /\ Clean(file', dec'.from, Pos')
                                        /\ Put(file', dec'.from, dec'.is_first_frame, out', Pos')
    BY <1>2, <1>4, <2>6, <2>8 DEF Reading
  <2>16. Pos' >= dec'.from
    BY <1>3, <1>4, <2>6, <2>8
  <2>17. dec'.is_first_frame => dec'.from = 0 /\ out' = <<>>
    BY <1>2, <1>3, <2>6
  <2>18. \A i \in 1 .. Len(dec'.head) : dec'.head[i] = file'[Pos' + i]
    BY <2>7
  <2>19. Len(file') = n
    BY <1>2, <1>n
  <2>20. Reading'
    BY <2>6, <2>9, <2>11, <2>12, <2>13, <2>14, <2>15, <2>16, <2>17, <2>18, <2>19 DEF Reading
  <2> QED
    BY <1>2, <2>1, <2>6, <2>20, GoesOnMain
<1> QED
  BY <1>7, <1>8

\* Where there is no sync word, no frame is lost.
LEMMA MainNoSync ==
  ASSUME Mp3Assumption, Mp3TypeInv, Main, NoSync
  PROVE  Main'
<1>1. /\ dec \in States /\ file \in Seq(UnitSet) /\ dec.from \in Nat /\ dec.is_first_frame \in BOOLEAN /\ out \in Seq(Nat)
  BY DEF Mp3TypeInv, States, Laid
<1>2. /\ dec.pc = "decode" /\ FindSync(dec.left) = 0 /\ Reading /\ file' = file /\ at' = at /\ out' = out
      /\ result' = result /\ dec' = [dec EXCEPT !.pc = "read", !.left = <<>>]
  BY DEF NoSync, Continue, Main
<1>3. /\ Pos \in Nat /\ at = Pos + Len(dec.left) /\ Len(dec.left) \in Nat /\ Len(file) \in Nat
      /\ dec.left \in Seq(UnitSet)
  BY <1>2, BufferIs
<1>4. Syncs(dec.left) = {}
  <2>1. ~(0 \in Syncs(dec.left))
    BY DEF Syncs
  <2> QED
    BY <1>2, <1>3, <2>1, SyncIs
<1>5. ASSUME DenseFrom(file, dec.from)
      PROVE  Clean(file, dec.from, at) /\ Put(file, dec.from, dec.is_first_frame, out, at)
  <2>1. at >= Len(file) /\ \A i \in 1 .. Len(file) : Pos < i => ~Begins(file, i, Decoded)
    BY <1>2, <1>4, <1>5, NoneLeft
  <2>2. Clean(file, dec.from, at)
    BY <1>3, <2>1 DEF Clean
  <2>3. Put(file, dec.from, dec.is_first_frame, out, Pos)
    BY <1>2, <1>5 DEF Reading
  <2>4. ASSUME NEW i \in 1 .. Len(file), Pos < i
        PROVE  ~Wanted(file, dec.from, i) /\ ~Begins(file, i, Format)
    BY <2>1, <2>4, BeginsAt
  <2>5. at \in Nat /\ Pos <= at
    BY <1>3
  <2>6. Put(file, dec.from, dec.is_first_frame, out, at)
    BY <1>1, <1>3, <2>3, <2>4, <2>5, Passed
  <2> QED
    BY <2>2, <2>6
<1>6. /\ dec'.pc = "read" /\ dec'.head = dec.head /\ dec'.left = <<>> /\ dec'.want = dec.want
      /\ dec'.from = dec.from /\ dec'.is_first_frame = dec.is_first_frame
  BY <1>1, <1>2 DEF States
<1>7. PICK left \in Seq(UnitSet) : left = <<>> /\ Len(left) = 0
  BY EmptySeq
<1>8. PICK skip \in Nat : skip = Len(dec.left) /\ Pos + skip = at
  BY <1>3
<1>9. Len(left) = Len(dec.left) - skip
  BY <1>3, <1>7, <1>8
<1>10. \A i \in 1 .. Len(left) : left[i] = dec.left[skip + i]
  BY <1>7
<1>11. Reading'
  <2>1. DenseFrom(file, dec.from) => /\ Clean(file, dec.from, Pos + skip)
                                     /\ Put(file, dec.from, dec'.is_first_frame, out', Pos + skip)
    BY <1>2, <1>5, <1>6, <1>8
  <2> QED
    BY <1>2, <1>6, <1>7, <1>9, <1>10, <2>1, ReadsOn
<1> QED
  BY <1>2, <1>6, <1>11, GoesOnMain

\* A frame that is cut off is the last one, and is none that is expected.
LEMMA MainUnderflow ==
  ASSUME Mp3Assumption, Mp3TypeInv, Main, Underflow
  PROVE  Main'
<1>1. /\ file \in Seq(UnitSet) /\ dec.from \in Nat /\ dec.is_first_frame \in BOOLEAN /\ out \in Seq(Nat)
      /\ FrameUnits \in Nat
  BY DEF Mp3TypeInv, States, Laid, Mp3Assumption
<1>2. /\ dec.pc = "decode" /\ FindSync(dec.left) # 0 /\ Reading /\ file' = file /\ out' = out
      /\ Len(dec.left) - FindSync(dec.left) + 1 < FrameUnits /\ Return("FAILURE")
  BY DEF Underflow, Main
<1>3. /\ Pos \in Nat /\ Len(dec.left) \in Nat /\ dec.left \in Seq(UnitSet)
  BY <1>2, BufferIs
<1>4. FindSync(dec.left) \in Syncs(dec.left) /\ \A s \in Syncs(dec.left) : FindSync(dec.left) <= s
  BY <1>2, <1>3, SyncIs
<1>5. ASSUME NEW s \in Syncs(dec.left) PROVE Len(dec.left) - s + 1 < FrameUnits
  <2>1. s \in Nat /\ FindSync(dec.left) \in Nat /\ FindSync(dec.left) <= s
    BY <1>3, <1>4 DEF Syncs
  <2> QED
    BY <1>1, <1>2, <1>3, <2>1
<1>6. ASSUME DenseFrom(file, dec.from)
      PROVE  (\A i, j \in DOMAIN out : i < j => out[i] < out[j]) /\ ToSet(out) = ExpectedOf(file, dec.from)
  <2>1. \A i \in 1 .. Len(file) : Pos < i => ~Begins(file, i, Decoded)
    BY <1>2, <1>5, <1>6, NoneLeft
  <2>2. Put(file, dec.from, dec.is_first_frame, out, Pos)
    BY <1>2, <1>6 DEF Reading
  <2> QED
    BY <1>1, <1>3, <2>1, <2>2, AtEnd
<1> QED
  BY <1>2, <1>6, ReturnMain

\* The frame that was found, and how much of the buffer goes with it.
LEMMA TakenIs ==
  ASSUME Mp3Assumption, Mp3TypeInv, Reading, NEW sync, Found(sync)
  PROVE  \E p, skip, g \in Nat :
           /\ p = Pos /\ skip >= 1 /\ p < g /\ FrameAt(file, g) /\ dec.left[sync] = file[g] /\ p >= dec.from
           /\ file[g].kind = "broken" => p + skip <= g
           /\ file[g].kind # "broken" => p + skip = g + FrameUnits - 1 /\ p + skip <= Len(file)
           /\ \A i \in 1 .. Len(file) : p < i /\ i <= p + skip /\ FrameAt(file, i) => i = g
           /\ Clean(file, dec.from, p) => Clean(file, dec.from, p + skip)
           /\ Rest(dec.left, sync) \in Seq(UnitSet) /\ Len(Rest(dec.left, sync)) = Len(dec.left) - skip
           /\ \A i \in 1 .. Len(Rest(dec.left, sync)) : Rest(dec.left, sync)[i] = dec.left[skip + i]
<1>1. dec.pc = "decode"
  BY DEF Found
<1>2. /\ Pos \in Nat /\ Pos >= dec.from /\ at = Pos + Len(dec.left) /\ Len(dec.left) \in Nat /\ Len(file) \in Nat
      /\ dec.left \in Seq(UnitSet)
  BY <1>1, BufferIs
<1>3. PICK p \in Nat, l \in Nat, n \in Nat : p = Pos /\ l = Len(dec.left) /\ n = Len(file) /\ at = p + l
  BY <1>2
<1>4. /\ sync \in 1 .. Len(dec.left) - 1
      /\ FrameAt(file, Pos + sync) /\ dec.left[sync] = file[Pos + sync] /\ at <= Len(file)
      /\ \A i \in 1 .. Len(file) : Pos < i /\ i < Pos + sync => ~FrameAt(file, i)
      /\ dec.left[sync].kind # "broken" => Pos + sync + FrameUnits - 1 <= at
  BY FoundIs
<1>5. PICK g \in Nat : g = Pos + sync /\ p < g /\ sync \in Nat /\ g = p + sync /\ sync >= 1
  BY <1>2, <1>3, <1>4
<1>6. /\ FrameAt(file, g) /\ dec.left[sync] = file[g] /\ at <= n
      /\ \A i \in 1 .. Len(file) : p < i /\ i < g => ~FrameAt(file, i)
      /\ dec.left[sync].kind # "broken" => g + FrameUnits - 1 <= at
  <2>1. \A i \in 1 .. Len(file) : p < i /\ i < g => ~FrameAt(file, i)
    BY <1>3, <1>4, <1>5
  <2>2. FrameAt(file, g) /\ dec.left[sync] = file[g] /\ at <= n
    BY <1>3, <1>4, <1>5, Zenon
  <2>3. dec.left[sync].kind # "broken" => g + FrameUnits - 1 <= at
    BY <1>4, <1>5
  <2> QED
    BY <2>1, <2>2, <2>3
<1>7. FrameUnits \in Nat /\ FrameUnits >= 2 /\ Laid(file)
  BY DEF Mp3Assumption, Mp3TypeInv
<1>8. dec.left[sync].kind # "broken" => sync + FrameUnits - 1 <= Len(dec.left)
  <2>1. g + FrameUnits - 1 <= p + l => sync + FrameUnits - 1 <= l
    BY <1>5, <1>7
  <2> QED
    BY <1>3, <1>6, <2>1
<1>9. PICK skip \in Nat :
        /\ skip = Skipped(dec.left, sync) /\ skip >= 1
        /\ Len(Rest(dec.left, sync)) = Len(dec.left) - skip
        /\ \A i \in 1 .. Len(Rest(dec.left, sync)) : Rest(dec.left, sync)[i] = dec.left[skip + i]
  <2>1. PICK units \in Seq(UnitSet) : units = dec.left
    BY <1>2
  <2>2. sync \in 1 .. Len(units) - 1 /\ (units[sync].kind # "broken" => sync + FrameUnits - 1 <= Len(units))
    BY <1>4, <1>8, <2>1
  <2>3. /\ Skipped(units, sync) \in Nat /\ Skipped(units, sync) >= 1
        /\ Len(Rest(units, sync)) = Len(units) - Skipped(units, sync)
        /\ \A i \in 1 .. Len(Rest(units, sync)) : Rest(units, sync)[i] = units[Skipped(units, sync) + i]
    BY <2>2, RestLen
  <2> QED
    BY <2>1, <2>3
<1>10. file[g].kind = "broken" => p + skip = g \/ p + skip = g - 1
  <2>1. CASE file[g].kind = "broken" /\ sync = 1
    <3>1. skip = 1
      BY <1>6, <1>9, <2>1 DEF Skipped
    <3> QED
      BY <1>5, <2>1, <3>1
  <2>2. CASE file[g].kind = "broken" /\ sync # 1
    <3>1. skip = sync - 1
      BY <1>6, <1>9, <2>2 DEF Skipped
    <3> QED
      BY <1>5, <2>2, <3>1
  <2> QED
    BY <2>1, <2>2
<1>11. file[g].kind # "broken" => p + skip = g + FrameUnits - 1 /\ p + skip <= n
  <2> SUFFICES ASSUME file[g].kind # "broken" PROVE p + skip = g + FrameUnits - 1 /\ p + skip <= n
    OBVIOUS
  <2>1. skip = sync + FrameUnits - 1
    BY <1>6, <1>9 DEF Skipped
  <2>2. g + FrameUnits - 1 <= p + l /\ p + l <= n
    BY <1>3, <1>6
  <2> QED
    BY <1>5, <1>7, <2>1, <2>2
<1>12. ASSUME NEW i \in 1 .. Len(file), p < i, i <= p + skip, FrameAt(file, i) PROVE i = g
  <2>1. ~(i < g)
    BY <1>6, <1>12
  <2>2. ASSUME g < i PROVE FALSE
    <3>1. g + FrameUnits <= i
      BY <1>6, <1>7, <1>12, <2>2, Apart
    <3>2. i \in Nat
      BY <1>2
    <3>3. CASE file[g].kind = "broken"
      BY <1>10, <1>12, <2>2, <3>2, <3>3
    <3>4. CASE file[g].kind # "broken"
      BY <1>7, <1>11, <1>12, <3>1, <3>2, <3>4
    <3> QED
      BY <3>3, <3>4
  <2> QED
    BY <1>2, <2>1, <2>2
<1>13. ASSUME Clean(file, dec.from, p) PROVE Clean(file, dec.from, p + skip)
  <2>0. dec.from \in Nat
    BY DEF Mp3TypeInv, States
  <2>1. /\ Clean(file, dec.from, g - 1)
        /\ Clean(file, dec.from, g + FrameUnits - 1)
        /\ file[g].kind = "broken" => Clean(file, dec.from, g)
    BY <1>5, <1>6, <1>7, <1>13, <2>0, CleanBehind
  <2> QED
    BY <1>10, <1>11, <2>1
<1>14. Rest(dec.left, sync) \in Seq(UnitSet)
  <2>1. sync \in 1 .. Len(dec.left)
    BY <1>3, <1>4
  <2> QED
    BY <1>2, <2>1, RestIs
<1>15. file[g].kind = "broken" => p + skip <= g
  BY <1>10
<1>16. p >= dec.from
  BY <1>2, <1>3
<1>17. /\ p = Pos /\ skip >= 1 /\ p < g /\ FrameAt(file, g) /\ dec.left[sync] = file[g] /\ p >= dec.from
       /\ file[g].kind = "broken" => p + skip <= g
       /\ file[g].kind # "broken" => p + skip = g + FrameUnits - 1 /\ p + skip <= Len(file)
  BY <1>3, <1>5, <1>6, <1>9, <1>11, <1>15, <1>16
<1> QED
  BY <1>9, <1>12, <1>13, <1>14, <1>17, Zenon

\* when frame g is wanted, with what was put out up to its beginning
LEMMA WantedIs ==
  ASSUME Mp3Assumption, Mp3TypeInv, NEW first \in BOOLEAN, NEW p \in Nat, NEW g \in Nat,
         Put(file, dec.from, first, out, p), first => dec.from = 0, p >= dec.from,
         FrameAt(file, g), p < g, g + FrameUnits - 1 <= Len(file), file[g].kind \in Decoded,
         \A i \in 1 .. Len(file) : p < i /\ i < g => ~FrameAt(file, i)
  PROVE  Wanted(file, dec.from, g) <=> ~first \/ file[g].kind \in Format
<1>1. Laid(file) /\ Len(file) \in Nat /\ dec.from \in Nat /\ FrameUnits \in Nat /\ g \in 1 .. Len(file)
  BY LenProperties DEF Mp3TypeInv, Laid, States, Mp3Assumption, FrameAt
<1>2. file[g].frame \in Nat
  BY <1>1, UnitIs DEF Laid
<1>3. Begins(file, g, Decoded) /\ g > dec.from
  BY <1>1 DEF Begins, FrameAt
<1>4. CASE dec.from # 0
  BY <1>3, <1>4 DEF Wanted
<1>5. CASE dec.from = 0
  <2>1. Wanted(file, dec.from, g) <=> \E h \in 1 .. Len(file) : Begins(file, h, Format) /\ file[h].frame <= file[g].frame
    BY <1>3, <1>5 DEF Wanted
  <2>2. first <=> \A i \in 1 .. Len(file) : i <= p => ~Begins(file, i, Format)
    BY <1>5 DEF Put
  <2>3. ASSUME NEW h \in 1 .. Len(file), Begins(file, h, Format), file[h].frame <= file[g].frame
        PROVE  ~first \/ file[g].kind \in Format
    <3>1. FrameAt(file, h) /\ h \in Nat
      BY <1>1, <2>3, BeginsAt
    <3>2. CASE h <= p
      BY <2>2, <2>3, <3>2
    <3>3. CASE p < h /\ h < g
      BY <3>1, <3>3
    <3>4. CASE h = g
      BY <2>3, <3>4 DEF Begins
    <3>5. CASE g < h
      <4>1. file[g].frame < file[h].frame
        BY <1>1, <3>1, <3>5, Apart
      <4>2. file[h].frame \in Nat
        BY <1>1, UnitIs DEF Laid
      <4> QED
        BY <1>2, <2>3, <4>1, <4>2
    <3> QED
      BY <3>1, <3>2, <3>3, <3>4, <3>5
  <2>4. ASSUME ~first PROVE \E h \in 1 .. Len(file) : Begins(file, h, Format) /\ file[h].frame <= file[g].frame
    <3>1. PICK h \in 1 .. Len(file) : h <= p /\ Begins(file, h, Format)
      BY <2>2, <2>4, Zenon
    <3>2. FrameAt(file, h) /\ h < g
      BY <1>1, <3>1, BeginsAt
    <3>3. file[h].frame < file[g].frame
      BY <1>1, <3>2, Apart
    <3>4. file[h].frame \in Nat
      BY <1>1, UnitIs DEF Laid
    <3>5. file[h].frame <= file[g].frame
      BY <1>2, <3>3, <3>4
    <3> QED
      BY <3>1, <3>5
  <2>5. ASSUME file[g].kind \in Format PROVE \E h \in 1 .. Len(file) : Begins(file, h, Format) /\ file[h].frame <= file[g].frame
    <3>1. Begins(file, g, Format)
      BY <1>3, <2>5 DEF Begins
    <3>2. file[g].frame <= file[g].frame
      BY <1>2
    <3> QED
      BY <1>1, <3>1, <3>2
  <2> QED
    BY <2>1, <2>3, <2>4, <2>5, Zenon
<1> QED
  BY <1>4, <1>5

\* What is skipped is no frame that is expected.
LEMMA MainSkip ==
  ASSUME Mp3Assumption, Mp3TypeInv, Main, Skip
  PROVE  Main'
<1>1. PICK sync \in 1 .. Len(dec.left) :
        /\ Found(sync) /\ Continue(Rest(dec.left, sync)) /\ UNCHANGED <<file, at, stopped, out>>
        /\ \/ ~Decodes(dec.left[sync].kind)
           \/ dec.is_first_frame /\ dec.left[sync].kind = "odd"
  BY DEF Skip
<1>2. /\ dec.pc = "decode" /\ Reading /\ dec \in States /\ Laid(file) /\ Len(file) \in Nat /\ file \in Seq(UnitSet)
      /\ dec.from \in Nat /\ dec.is_first_frame \in BOOLEAN /\ out \in Seq(Nat) /\ FrameUnits \in Nat
  BY <1>1, LenProperties DEF Main, Found, Mp3TypeInv, States, Laid, Mp3Assumption
<1>3. PICK p \in Nat, skip \in Nat, g \in Nat :
        /\ p = Pos /\ skip >= 1 /\ p < g /\ FrameAt(file, g) /\ dec.left[sync] = file[g] /\ p >= dec.from
        /\ file[g].kind = "broken" => p + skip <= g
        /\ file[g].kind # "broken" => p + skip = g + FrameUnits - 1 /\ p + skip <= Len(file)
        /\ \A i \in 1 .. Len(file) : p < i /\ i <= p + skip /\ FrameAt(file, i) => i = g
        /\ Clean(file, dec.from, p) => Clean(file, dec.from, p + skip)
        /\ Rest(dec.left, sync) \in Seq(UnitSet) /\ Len(Rest(dec.left, sync)) = Len(dec.left) - skip
        /\ \A i \in 1 .. Len(Rest(dec.left, sync)) : Rest(dec.left, sync)[i] = dec.left[skip + i]
  BY <1>1, <1>2, TakenIs
<1>4. file[g].kind \notin Decoded \/ (dec.is_first_frame /\ file[g].kind = "odd")
  BY <1>1, <1>3 DEF Decodes, Decoded
<1>5. ASSUME DenseFrom(file, dec.from)
      PROVE  Clean(file, dec.from, p + skip) /\ Put(file, dec.from, dec.is_first_frame, out, p + skip)
  <2>1. Clean(file, dec.from, p) /\ Put(file, dec.from, dec.is_first_frame, out, p)
    BY <1>2, <1>3, <1>5 DEF Reading
  <2>2. ASSUME NEW i \in 1 .. Len(file), p < i, i <= p + skip
        PROVE  ~Wanted(file, dec.from, i) /\ ~Begins(file, i, Format)
    <3>1. CASE i # g
      <4>1. ~FrameAt(file, i)
        BY <1>3, <2>2, <3>1
      <4> QED
        BY <4>1, BeginsAt
    <3>2. CASE i = g /\ file[g].kind \notin Decoded
      BY <3>2 DEF Wanted, Begins, Decoded, Format
    <3>3. CASE i = g /\ dec.is_first_frame /\ file[g].kind = "odd"
      <4>1. dec.from = 0
        BY <1>2, <3>3 DEF Reading
      <4>2. file[g].kind \in Decoded /\ file[g].kind \notin Format /\ file[g].kind # "broken"
        BY <3>3 DEF Decoded, Format
      <4>3. g + FrameUnits - 1 <= Len(file)
        BY <1>3, <4>2
      <4>4. \A k \in 1 .. Len(file) : p < k /\ k < g => ~FrameAt(file, k)
        <5>1. g <= p + skip
          BY <2>2, <3>3
        <5>2. ASSUME NEW k \in 1 .. Len(file), p < k, k < g, FrameAt(file, k) PROVE FALSE
          <6>1. k <= p + skip /\ k # g
            BY <1>2, <5>1, <5>2
          <6> QED
            BY <1>3, <5>2, <6>1
        <5> QED
          BY <5>2
      <4>5. ~Wanted(file, dec.from, g)
        BY <1>2, <1>3, <2>1, <3>3, <4>1, <4>2, <4>3, <4>4, WantedIs
      <4>6. ~Begins(file, g, Format)
        BY <4>2 DEF Begins
      <4> QED
        BY <3>3, <4>5, <4>6
    <3> QED
      BY <1>4, <3>1, <3>2, <3>3
  <2>3. p + skip \in Nat /\ p <= p + skip
    OBVIOUS
  <2>4. Put(file, dec.from, dec.is_first_frame, out, p + skip)
    BY <1>2, <2>1, <2>2, <2>3, Passed
  <2> QED
    BY <1>3, <2>1, <2>4
<1>6. PICK rest \in Seq(UnitSet) : rest = Rest(dec.left, sync)
  BY <1>3
<1>7. /\ dec'.pc = "read" /\ dec'.head = dec.head /\ dec'.left = rest /\ dec'.want = dec.want
      /\ dec'.from = dec.from /\ dec'.is_first_frame = dec.is_first_frame
      /\ file' = file /\ at' = at /\ out' = out /\ result' = result
  BY <1>1, <1>2, <1>6 DEF States, Continue
<1>8. Len(rest) = Len(dec.left) - skip /\ \A i \in 1 .. Len(rest) : rest[i] = dec.left[skip + i]
  BY <1>3, <1>6
<1>9. DenseFrom(file, dec.from) => /\ Clean(file, dec.from, Pos + skip)
                                   /\ Put(file, dec.from, dec'.is_first_frame, out', Pos + skip)
  BY <1>3, <1>5, <1>7
<1>10. Reading'
  BY <1>2, <1>3, <1>7, <1>8, <1>9, ReadsOn
<1> QED
  BY <1>2, <1>7, <1>10, GoesOnMain

\* A first frame of the wrong layer is an error.
LEMMA MainWrongLayer ==
  ASSUME Mp3Assumption, Mp3TypeInv, Main, WrongLayer
  PROVE  Main'
<1>1. Return("DECODE_ERROR") /\ file' = file
  BY DEF WrongLayer
<1> QED
  BY <1>1, ReturnMain

\* Behind a move to the start position nothing was put out, and nothing is expected before it.
LEMMA MainSeekStart ==
  ASSUME Mp3Assumption, Mp3TypeInv, Main, SeekStart, ~dec'.deaf
  PROVE  Main'
<1>1. /\ dec.pc = "decode" /\ dec.is_first_frame /\ dec.start_time # 0 /\ at' = dec.start_time
      /\ dec' = [dec EXCEPT !.pc = "read", !.left = <<>>, !.is_first_frame = FALSE,
                            !.start_time = 0, !.from = dec.start_time, !.deaf = (dec.want = 0)]
      /\ file' = file /\ out' = out /\ result' = result
  BY DEF SeekStart, Found
<1>2. /\ dec \in States /\ Laid(file) /\ dec.start_time \in Nat /\ Reading /\ BufUnits \in Nat /\ BufUnits >= 1
  BY <1>1 DEF Main, Mp3TypeInv, States, Mp3Assumption
<1>3. /\ dec'.pc = "read" /\ dec'.head = dec.head /\ dec'.left = <<>> /\ dec'.want = dec.want
      /\ dec'.from = dec.start_time /\ dec'.is_first_frame = FALSE /\ dec'.deaf = (dec.want = 0)
  BY <1>1, <1>2 DEF States
<1>4. dec.head = <<>> /\ out = <<>> /\ dec.want # 0
  BY <1>1, <1>2, <1>3 DEF Reading
<1>5. Len(dec'.head) = 0 /\ Len(dec'.left) = 0 /\ dec'.head = <<>>
  BY <1>3, <1>4, EmptySeq
<1>6. Pos' = dec.start_time
  <2>1. Pos' = at' - Len(dec'.head) - Len(dec'.left)
    BY DEF Pos
  <2> QED
    BY <1>1, <1>2, <1>5, <2>1
<1>7. Clean(file, dec.start_time, dec.start_time) /\ Put(file, dec.start_time, FALSE, <<>>, dec.start_time)
  BY <1>1, <1>2, AtStart
<1>8. Clean(file', dec'.from, Pos') /\ Put(file', dec'.from, dec'.is_first_frame, out', Pos')
  BY <1>1, <1>3, <1>4, <1>6, <1>7
<1>9. \A i \in 1 .. Len(dec'.head) : dec'.head[i] = file'[Pos' + i]
  BY <1>5
<1>10. \A i \in 1 .. Len(dec'.left) : dec'.left[i] = file'[Pos' + Len(dec'.head) + i]
  BY <1>5
<1>11. Pos' >= dec'.from /\ dec'.want # 0 /\ ~dec'.is_first_frame
  BY <1>2, <1>3, <1>4, <1>6
<1>12. Len(dec'.head) + Len(dec'.left) < BufUnits /\ dec'.pc # "decode"
  <2>1. Len(dec'.head) + Len(dec'.left) < BufUnits
    BY <1>2, <1>5
  <2> QED
    BY <1>3, <2>1
<1>13. Reading'
  BY <1>3, <1>5, <1>8, <1>9, <1>10, <1>11, <1>12 DEF Reading
<1> QED
  BY <1>1, <1>2, <1>3, <1>13, GoesOnMain

\* The frame that is put out is the next one that is expected.
LEMMA MainOutput ==
  ASSUME Mp3Assumption, Mp3TypeInv, Main, Output, ~stopped
  PROVE  Main'
<1>1. PICK sync \in 1 .. Len(dec.left) :
        /\ Found(sync) /\ UNCHANGED <<file, at, stopped, result>>
        /\ IF dec.is_first_frame THEN dec.left[sync].kind = "good" /\ dec.start_time = 0
                                 ELSE Decodes(dec.left[sync].kind)
        /\ out' = Append(out, dec.left[sync].frame)
        /\ dec' = [dec EXCEPT !.pc = "read", !.is_first_frame = FALSE, !.left = Rest(dec.left, sync)]
  BY DEF Output
<1>2. /\ dec.pc = "decode" /\ Reading /\ dec \in States /\ Laid(file) /\ Len(file) \in Nat
      /\ dec.from \in Nat /\ dec.is_first_frame \in BOOLEAN /\ out \in Seq(Nat) /\ FrameUnits \in Nat /\ FrameUnits >= 2
  BY <1>1, LenProperties DEF Main, Found, Mp3TypeInv, States, Laid, Mp3Assumption
<1>3. PICK p \in Nat, skip \in Nat, g \in Nat :
        /\ p = Pos /\ skip >= 1 /\ p < g /\ FrameAt(file, g) /\ dec.left[sync] = file[g] /\ p >= dec.from
        /\ file[g].kind = "broken" => p + skip <= g
        /\ file[g].kind # "broken" => p + skip = g + FrameUnits - 1 /\ p + skip <= Len(file)
        /\ \A i \in 1 .. Len(file) : p < i /\ i <= p + skip /\ FrameAt(file, i) => i = g
        /\ Clean(file, dec.from, p) => Clean(file, dec.from, p + skip)
        /\ Rest(dec.left, sync) \in Seq(UnitSet) /\ Len(Rest(dec.left, sync)) = Len(dec.left) - skip
        /\ \A i \in 1 .. Len(Rest(dec.left, sync)) : Rest(dec.left, sync)[i] = dec.left[skip + i]
  BY <1>1, <1>2, TakenIs
<1>4. /\ file[g].kind \in Decoded /\ file[g].kind # "broken"
      /\ dec.is_first_frame => file[g].kind \in Format
  BY <1>1, <1>3 DEF Decodes, Decoded, Format
<1>5. ASSUME DenseFrom(file, dec.from)
      PROVE  Clean(file, dec.from, p + skip) /\ Put(file, dec.from, FALSE, out', p + skip)
  <2>1. Clean(file, dec.from, p) /\ Put(file, dec.from, dec.is_first_frame, out, p)
    BY <1>2, <1>3, <1>5 DEF Reading
  <2>2. p + skip \in Nat /\ g + FrameUnits - 1 <= Len(file) /\ g <= p + skip
    <3>1. p + skip = g + FrameUnits - 1 /\ p + skip <= Len(file)
      BY <1>3, <1>4
    <3>2. g <= g + FrameUnits - 1
      BY <1>2
    <3> QED
      BY <3>1, <3>2
  <2>3. \A k \in 1 .. Len(file) : p < k /\ k < g => ~FrameAt(file, k)
    <3>1. ASSUME NEW k \in 1 .. Len(file), p < k, k < g, FrameAt(file, k) PROVE FALSE
      <4>1. k <= p + skip /\ k # g
        BY <1>2, <2>2, <3>1
      <4> QED
        BY <1>3, <3>1, <4>1
    <3> QED
      BY <3>1
  <2>4. dec.is_first_frame => dec.from = 0
    BY <1>2 DEF Reading
  <2>5. Wanted(file, dec.from, g)
    BY <1>2, <1>3, <1>4, <2>1, <2>2, <2>3, <2>4, WantedIs
  <2>6. dec.is_first_frame => Begins(file, g, Format)
    BY <1>4, <2>2, <1>3 DEF Begins, FrameAt
  <2>7. \A i \in 1 .. Len(file) : p < i /\ i <= p + skip /\ Begins(file, i, Decoded) => i = g
    BY <1>3, BeginsAt
  <2>8. Put(file, dec.from, FALSE, Append(out, file[g].frame), p + skip)
    BY <1>2, <1>3, <2>1, <2>2, <2>5, <2>6, <2>7, PutOne
  <2>9. out' = Append(out, file[g].frame)
    BY <1>1, <1>3
  <2> QED
    BY <1>3, <2>1, <2>8, <2>9
<1>6. PICK rest \in Seq(UnitSet) : rest = Rest(dec.left, sync)
  BY <1>3
<1>7. /\ dec'.pc = "read" /\ dec'.head = dec.head /\ dec'.left = rest /\ dec'.want = dec.want
      /\ dec'.from = dec.from /\ dec'.is_first_frame = FALSE
      /\ file' = file /\ at' = at /\ result' = result
  BY <1>1, <1>2, <1>6 DEF States
<1>8. Len(rest) = Len(dec.left) - skip /\ \A i \in 1 .. Len(rest) : rest[i] = dec.left[skip + i]
  BY <1>3, <1>6
<1>9. DenseFrom(file, dec.from) => /\ Clean(file, dec.from, Pos + skip)
                                   /\ Put(file, dec.from, dec'.is_first_frame, out', Pos + skip)
  BY <1>3, <1>5, <1>7
<1>10. Reading'
  BY <1>2, <1>3, <1>7, <1>8, <1>9, ReadsOn
<1> QED
  BY <1>2, <1>7, <1>10, GoesOnMain

--------------------------------------------------------------------------------
\* A decoder that became deaf remains so.
LEMMA DeafStays ==
  ASSUME Mp3TypeInv, dec.deaf => ~dec.is_first_frame, [Next]_vars
  PROVE  (dec'.deaf => ~dec'.is_first_frame) /\ (dec.deaf => dec'.deaf)
<1>1. dec \in States
  BY DEF Mp3TypeInv
<1>2. CASE dec'.deaf = dec.deaf /\ dec'.is_first_frame = dec.is_first_frame
  BY <1>2
<1>3. ASSUME NEW value, Return(value)
      PROVE  dec'.deaf = dec.deaf /\ dec'.is_first_frame = dec.is_first_frame
  BY <1>1, <1>3 DEF Return, States
<1>4. ASSUME NEW left, Continue(left)
      PROVE  dec'.deaf = dec.deaf /\ dec'.is_first_frame = dec.is_first_frame
  BY <1>1, <1>4 DEF Continue, States
<1>5. CASE Header
  <2>1. \/ Return("INPUT_ERROR")
        \/ dec' = [dec EXCEPT !.pc = "tag"]
        \/ dec' = [dec EXCEPT !.pc = "read", !.head = Input(1), !.want = BufUnits - 1]
    BY <1>5 DEF Header
  <2> QED
    BY <1>1, <1>2, <1>3, <2>1 DEF States
<1>6. CASE SkipTag
  <2> DEFINE got == Input(BufUnits)
             left == SubSeq(got, dec.id3 + 1, Len(got))
             want == BufUnits - (Len(got) - dec.id3)
  <2>1. \/ Return("INPUT_ERROR")
        \/ dec' = [dec EXCEPT !.id3 = @ - Len(got)]
        \/ dec' = [dec EXCEPT !.pc = "read", !.left = left, !.want = want]
    BY <1>6 DEF SkipTag
  <2> HIDE DEF got, left, want
  <2> QED
    BY <1>1, <1>2, <1>3, <2>1 DEF States
<1>7. CASE Refill
  <2> DEFINE want == IF dec.want = 0 THEN 0 ELSE BufUnits - Len(dec.head) - Len(dec.left)
             got == Input(want)
             left == Buffer(got)
             want2 == IF Len(got) < want THEN 0 ELSE want
  <2>1. \/ Return("INPUT_ERROR") \/ Return("SUCCESS")
        \/ dec' = [dec EXCEPT !.pc = "decode", !.head = <<>>, !.left = left, !.want = want2]
    BY <1>7 DEF Refill
  <2> HIDE DEF left, want2, want, got
  <2> QED
    BY <1>1, <1>2, <1>3, <2>1 DEF States
<1>8. CASE SeekStart
  <2>1. /\ dec.is_first_frame
        /\ dec' = [dec EXCEPT !.pc = "read", !.left = <<>>, !.is_first_frame = FALSE,
                              !.start_time = 0, !.from = dec.start_time, !.deaf = (dec.want = 0)]
    BY <1>8 DEF SeekStart
  <2>2. ~dec'.is_first_frame
    BY <1>1, <2>1 DEF States
  <2> QED
    BY <2>1, <2>2
<1>9. CASE NoSync
  BY <1>2, <1>4, <1>9 DEF NoSync
<1>10. CASE Underflow
  BY <1>2, <1>3, <1>10 DEF Underflow
<1>11. CASE Skip
  BY <1>2, <1>4, <1>11 DEF Skip
<1>12. CASE WrongLayer
  BY <1>2, <1>3, <1>12 DEF WrongLayer
<1>13. CASE Output
  <2>1. PICK left : \/ dec' = [dec EXCEPT !.pc = "read", !.is_first_frame = FALSE, !.left = left]
                    \/ Return("SUCCESS")
    BY <1>13 DEF Output
  <2>2. CASE dec' = [dec EXCEPT !.pc = "read", !.is_first_frame = FALSE, !.left = left]
    BY <1>1, <2>2 DEF States
  <2> QED
    BY <1>2, <1>3, <2>1, <2>2
<1>14. CASE Stop
  BY <1>2, <1>14 DEF Stop
<1>15. CASE UNCHANGED vars
  BY <1>2, <1>15 DEF vars
<1> QED
  BY <1>5, <1>6, <1>7, <1>8, <1>9, <1>10, <1>11, <1>12, <1>13, <1>14, <1>15 DEF Next, Process

\* No step leaves the invariant.
LEMMA Mp3Step ==
  ASSUME Mp3Assumption, Mp3Inv, [Next]_vars
  PROVE  Mp3Inv'
<1>1. Mp3TypeInv /\ Mp3TypeInv' /\ (dec'.deaf => ~dec'.is_first_frame) /\ (dec.deaf => dec'.deaf)
  BY Mp3Types, DeafStays DEF Mp3Inv
<1>2. SUFFICES ASSUME ~stopped', ~dec'.deaf PROVE Main'
  BY <1>1 DEF Mp3Inv
<1>3. CASE UNCHANGED vars
  <2>1. Main
    BY <1>1, <1>2, <1>3 DEF vars, Mp3Inv
  <2>2. file' = file /\ at' = at /\ dec' = dec /\ out' = out /\ result' = result
    BY <1>3 DEF vars
  <2>3. Pos' = Pos
    BY <2>2, Zenon DEF Pos
  <2> QED
    BY <2>1, <2>2, <2>3, Zenon DEF Main, AtHeader, Reading, Heard
<1>4. CASE Stop
  BY <1>2, <1>4 DEF Stop
<1>5. CASE Process
  <2>1. ~stopped
    BY <1>2, <1>5 DEF Process, Header, SkipTag, Refill, NoSync, Underflow, Skip, WrongLayer, SeekStart, Output
  <2>2. Main
    BY <1>1, <1>2, <2>1 DEF Mp3Inv
  <2> QED
    BY <1>1, <1>2, <1>5, <2>1, <2>2, MainHeader, MainSkipTag, MainRefill, MainNoSync, MainUnderflow,
       MainSkip, MainWrongLayer, MainSeekStart, MainOutput DEF Process
<1> QED
  BY <1>3, <1>4, <1>5 DEF Next

\* Under the invariant the frames are decoded.
LEMMA Mp3Decoded ==
  ASSUME Mp3Assumption, Mp3Inv
  PROVE  FramesDecoded
<1>1. SUFFICES ASSUME result \in {"SUCCESS", "FAILURE"}, ~stopped, ~dec.deaf, Dense
               PROVE  Heard /\ ExpectedOf(file, dec.from) = Expected
  BY DEF FramesDecoded, Heard
<1>2. \A i : Useless(i) <=> UselessAt(file, dec.from, i)
  BY DEF Useless, UselessAt
<1>3. DenseFrom(file, dec.from)
  BY <1>1, <1>2 DEF Dense, DenseFrom
<1>4. Heard
  BY <1>1, <1>3 DEF Mp3Inv, Main
<1>5. ASSUME NEW b, NEW kinds PROVE Frames(b, kinds) = FramesOf(file, b, kinds)
  BY DEF Frames, FramesOf
<1>6. ExpectedOf(file, dec.from) = Expected
  <2>1. CASE dec.from # 0
    BY <1>5, <2>1 DEF ExpectedOf, Expected, Decoded
  <2>2. CASE dec.from = 0
    <3>1. Formats = FramesOf(file, 0, Format)
      BY <1>5 DEF Formats, Format
    <3>2. Frames(0, {"good", "odd", "layer2"}) = FramesOf(file, 0, Decoded)
      BY <1>5 DEF Decoded
    <3> QED
      BY <2>2, <3>1, <3>2 DEF ExpectedOf, Expected
  <2> QED
    BY <2>1, <2>2
<1> QED
  BY <1>4, <1>6

\* The mp3 decoder, for any sizes of the frames, of the buffer and of what lies between
\* the frames, any tag and any start position: each frame that should be heard is put
\* out, once and in the order of the file, by the time process returns.
THEOREM Mp3FramesDecoded == ASSUME Mp3Assumption PROVE Spec => []FramesDecoded
<1>1. Init => Mp3Inv
  BY Mp3Init
<1>2. Mp3Inv /\ [Next]_vars => Mp3Inv'
  BY Mp3Step
<1>3. Mp3Inv => FramesDecoded
  BY Mp3Decoded
<1> QED
  BY <1>1, <1>2, <1>3, PTL DEF Spec
================================================================================
