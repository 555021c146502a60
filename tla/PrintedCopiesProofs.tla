------------------------ MODULE PrintedCopiesProofs ------------------------
(***************************************************************************)
(* Proofs about PrintedCopies.                                             *)
(*                                                                         *)
(* A page shows what was excluded when it was opened.  That the first      *)
(* correction of an attempt takes back only what its page showed           *)
(* (ExclusionsAreSeen) needs that nothing is recorded for an attempt any   *)
(* more once a page for it can be open (PageShows), and that attempts are  *)
(* numbered without gaps, so that a new one never falls on an old row      *)
(* (Numbered).                                                             *)
(*                                                                         *)
(* The counts are sums over rows.  Rows of one copy list different objects *)
(* (RowsOK), so a sum is the number of objects, and a copy that counts has *)
(* all of them on plates that passed.  What an object number stands for,   *)
(* in the file and in the list of copies, is Numbering.                    *)
(***************************************************************************)
EXTENDS PrintedCopies, FiniteSums

(* FlattenSeq appends the sequences one after the other, from the first.   *)
FlatStep(h, seqs, i) == IF i = 1 THEN seqs[i] ELSE h[i - 1] \o seqs[i]
IsFlat(h, seqs) == h = [i \in 1 .. Len(seqs) |-> FlatStep(h, seqs, i)]

LEMMA FlatExists ==
    ASSUME NEW seqs, Len(seqs) \in Nat
    PROVE  \E h : IsFlat(h, seqs)
<1> DEFINE Upto(h, n) == \A i \in 1 .. Len(seqs) : i <= n => h[i] = FlatStep(h, seqs, i)
           Longer(h) == [i \in 1 .. Len(seqs) |-> FlatStep(h, seqs, i)]
           Reached == {n \in Nat : \E h : Upto(h, n)}
<1>1. \A h : \A i \in 1 .. Len(seqs) : Longer(h)[i] = FlatStep(h, seqs, i)
  OBVIOUS
<1> HIDE DEF Longer
<1>2. ASSUME NEW h, NEW n \in Nat, Upto(h, n)
      PROVE  Upto(Longer(h), n + 1)
  <2> SUFFICES ASSUME NEW i \in 1 .. Len(seqs), i <= n + 1
               PROVE  Longer(h)[i] = FlatStep(Longer(h), seqs, i)
    OBVIOUS
  <2>1. CASE i = 1
    BY <1>1, <2>1 DEF FlatStep
  <2>2. CASE i # 1
    <3>1. i - 1 \in 1 .. Len(seqs) /\ i - 1 <= n
      BY <2>2
    <3>2. Longer(h)[i - 1] = h[i - 1]
      BY <1>1, <1>2, <3>1
    <3> QED BY <1>1, <2>2, <3>2 DEF FlatStep
  <2> QED BY <2>1, <2>2
<1>3. Upto(<< >>, 0)
  OBVIOUS
<1> HIDE DEF Upto
<1>4. Nat \subseteq Reached
  <2>1. 0 \in Reached
    BY <1>3
  <2>2. \A n \in Nat : n \in Reached => n + 1 \in Reached
    BY <1>2
  <2> HIDE DEF Reached
  <2> QED BY <2>1, <2>2, NumberInduction
<1>5. PICK h : Upto(h, Len(seqs))
  BY <1>4
<1>6. \A i \in 1 .. Len(seqs) : h[i] = FlatStep(h, seqs, i) /\ Longer(h)[i] = h[i]
  BY <1>1, <1>5 DEF Upto
<1>7. \A i \in 1 .. Len(seqs) : FlatStep(Longer(h), seqs, i) = FlatStep(h, seqs, i)
  BY <1>6 DEF FlatStep
<1>8. Longer(h) = [i \in 1 .. Len(seqs) |-> FlatStep(Longer(h), seqs, i)]
  BY <1>7 DEF Longer
<1> QED BY <1>8 DEF IsFlat

LEMMA FlatIsOne ==
    ASSUME NEW seqs, Len(seqs) \in Nat \ {0}
    PROVE  \E h : IsFlat(h, seqs) /\ FlattenSeq(seqs) = h[Len(seqs)]
<1> DEFINE h == CHOOSE h : IsFlat(h, seqs)
<1>1. IsFlat(h, seqs)
  BY FlatExists
<1>2. FlattenSeq(seqs) = h[Len(seqs)]
  BY DEF FlattenSeq, IsFlat, FlatStep
<1> QED BY <1>1, <1>2

(* With L[i] for the length of the first i sequences: element x of the     *)
(* i-th one is element L[i - 1] + x of the whole, and there are no others. *)
Pieces(s, T, seqs, L, n) ==
    /\ s \in Seq(T) /\ Len(s) = L[n]
    /\ \A i \in 1 .. n : \A x \in 1 .. Len(seqs[i]) :
          L[i - 1] + x \in 1 .. L[n] /\ s[L[i - 1] + x] = seqs[i][x]
    /\ \A y \in 1 .. L[n] : \E i \in 1 .. n : \E x \in 1 .. Len(seqs[i]) : y = L[i - 1] + x

LEMMA OnePieceMore ==
    ASSUME NEW T, NEW seqs, NEW L, NEW n \in Nat, NEW s, Pieces(s, T, seqs, L, n),
           \A i \in 0 .. n + 1 : L[i] \in Nat,
           seqs[n + 1] \in Seq(T), L[n + 1] = L[n] + Len(seqs[n + 1])
    PROVE  Pieces(s \o seqs[n + 1], T, seqs, L, n + 1)
<1> DEFINE t == seqs[n + 1]
           u == s \o t
<1>1. u \in Seq(T) /\ Len(u) = L[n + 1]
  <2>1. s \in Seq(T) /\ Len(s) = L[n]
    BY DEF Pieces
  <2> QED BY <2>1
<1>2. L[n] \in Nat /\ L[n + 1] \in Nat /\ Len(t) \in Nat /\ L[n] <= L[n + 1] /\ Len(s) = L[n] /\ s \in Seq(T)
  BY DEF Pieces
<1>3. /\ \A y \in 1 .. L[n] : u[y] = s[y]
      /\ \A x \in 1 .. Len(t) : L[n] + x \in 1 .. L[n + 1] /\ u[L[n] + x] = t[x]
  BY <1>2
<1> HIDE DEF u, t
<1>4. ASSUME NEW i \in 1 .. n + 1, NEW x \in 1 .. Len(seqs[i])
      PROVE  L[i - 1] + x \in 1 .. L[n + 1] /\ u[L[i - 1] + x] = seqs[i][x]
  <2>1. CASE i = n + 1
    <3>1. L[i - 1] = L[n] /\ seqs[i] = t
      BY <2>1 DEF t
    <3> QED BY <1>3, <3>1
  <2>2. CASE i # n + 1
    <3>1. i \in 1 .. n
      BY <2>2
    <3>2. L[i - 1] + x \in 1 .. L[n] /\ s[L[i - 1] + x] = seqs[i][x]
      BY <3>1 DEF Pieces
    <3>3. L[i - 1] + x \in 1 .. L[n + 1]
      BY <1>2, <3>2
    <3>4. u[L[i - 1] + x] = s[L[i - 1] + x]
      BY <1>3, <3>2
    <3> QED BY <3>2, <3>3, <3>4
  <2> QED BY <2>1, <2>2
<1>5. ASSUME NEW y \in 1 .. L[n + 1]
      PROVE  \E i \in 1 .. n + 1 : \E x \in 1 .. Len(seqs[i]) : y = L[i - 1] + x
  <2>1. CASE y <= L[n]
    <3>1. y \in 1 .. L[n]
      BY <1>2, <2>1
    <3>2. PICK i \in 1 .. n : \E x \in 1 .. Len(seqs[i]) : y = L[i - 1] + x
      BY <3>1 DEF Pieces
    <3> QED BY <3>2
  <2>2. CASE ~(y <= L[n])
    <3>1. y - L[n] \in 1 .. Len(t)
      BY <1>2, <2>2 DEF t
    <3>2. n + 1 \in 1 .. n + 1 /\ y = L[(n + 1) - 1] + (y - L[n]) /\ seqs[n + 1] = t
      BY <1>2 DEF t
    <3> QED BY <3>1, <3>2
  <2> QED BY <2>1, <2>2
<1> QED BY <1>1, <1>4, <1>5 DEF Pieces, u, t

LEMMA Flattened ==
    ASSUME NEW T, NEW seqs \in Seq(Seq(T)), NEW L, \A i \in 0 .. Len(seqs) : L[i] \in Nat,
           L[0] = 0, \A i \in 1 .. Len(seqs) : L[i] = L[i - 1] + Len(seqs[i])
    PROVE  Pieces(FlattenSeq(seqs), T, seqs, L, Len(seqs))
<1> Len(seqs) \in Nat
  OBVIOUS
<1>0. Pieces(<< >>, T, seqs, L, 0)
  BY DEF Pieces
<1>1. CASE Len(seqs) = 0
  <2>1. FlattenSeq(seqs) = << >>
    BY <1>1 DEF FlattenSeq
  <2> QED BY <1>0, <1>1, <2>1
<1>2. CASE Len(seqs) # 0
  <2>1. PICK h : IsFlat(h, seqs) /\ FlattenSeq(seqs) = h[Len(seqs)]
    BY <1>2, FlatIsOne
  <2>2. \A i \in 1 .. Len(seqs) : h[i] = FlatStep(h, seqs, i)
    <3>1. \A i \in 1 .. Len(seqs) : [j \in 1 .. Len(seqs) |-> FlatStep(h, seqs, j)][i] = FlatStep(h, seqs, i)
      OBVIOUS
    <3> QED BY <2>1, <3>1 DEF IsFlat
  <2>3. \A i \in 1 .. Len(seqs) : seqs[i] \in Seq(T)
    OBVIOUS
  <2> DEFINE Begun == {n \in Nat : n + 1 \in 1 .. Len(seqs) => Pieces(h[n + 1], T, seqs, L, n + 1)}
  <2>4. 0 \in Begun
    <3>1. h[1] = seqs[1] /\ seqs[1] \in Seq(T)
      BY <1>2, <2>2, <2>3 DEF FlatStep
    <3>2. << >> \o seqs[1] = seqs[1]
      BY <3>1
    <3>3. L[1] = L[0] + Len(seqs[1]) /\ \A i \in 0 .. 1 : L[i] \in Nat
      BY <1>2
    <3>4. 0 \in Nat /\ 0 + 1 = 1
      OBVIOUS
    <3>5. Pieces(<< >> \o seqs[1], T, seqs, L, 1)
      BY ONLY <1>0, <3>1, <3>3, <3>4, OnePieceMore
    <3> QED BY <3>1, <3>2, <3>5
  <2>5. ASSUME NEW n \in Nat, n \in Begun
        PROVE  n + 1 \in Begun
    <3> SUFFICES ASSUME (n + 1) + 1 \in 1 .. Len(seqs)
                 PROVE  Pieces(h[(n + 1) + 1], T, seqs, L, (n + 1) + 1)
      OBVIOUS
    <3> DEFINE m == n + 1
    <3>1. m \in Nat /\ m \in 1 .. Len(seqs) /\ m + 1 \in 1 .. Len(seqs) /\ m # 0
      OBVIOUS
    <3>2. Pieces(h[m], T, seqs, L, m)
      BY <2>5, <3>1
    <3> HIDE DEF m
    <3>3. h[m + 1] = h[m] \o seqs[m + 1]
      <4>1. h[m + 1] = FlatStep(h, seqs, m + 1)
        BY <2>2, <3>1
      <4>2. m + 1 # 1 /\ (m + 1) - 1 = m
        BY <3>1
      <4> QED BY <4>1, <4>2 DEF FlatStep
    <3>4. L[m + 1] = L[m] + Len(seqs[m + 1])
      <4>1. L[m + 1] = L[(m + 1) - 1] + Len(seqs[m + 1])
        BY <3>1
      <4> QED BY <3>1, <4>1
    <3>5. \A i \in 0 .. m + 1 : L[i] \in Nat
      BY <3>1
    <3>6. seqs[m + 1] \in Seq(T)
      BY <2>3, <3>1
    <3>7. Pieces(h[m] \o seqs[m + 1], T, seqs, L, m + 1)
      BY <3>1, <3>2, <3>4, <3>5, <3>6, OnePieceMore
    <3> QED BY <3>3, <3>7 DEF m
  <2> HIDE DEF Begun
  <2>6. Len(seqs) - 1 \in Begun
    <3>1. Nat \subseteq Begun
      BY <2>4, <2>5, NumberInduction
    <3>2. Len(seqs) - 1 \in Nat
      BY <1>2
    <3> QED BY <3>1, <3>2
  <2>7. Pieces(h[Len(seqs)], T, seqs, L, Len(seqs))
    <3>1. (Len(seqs) - 1) + 1 = Len(seqs) /\ Len(seqs) \in 1 .. Len(seqs)
      BY <1>2
    <3> QED BY <2>6, <3>1 DEF Begun
  <2> QED BY <2>1, <2>7
<1> QED BY <1>1, <1>2

-----------------------------------------------------------------------------
LEMMA PartsAre ==
    /\ Parts = 1 .. Len(Bundle) /\ Len(Bundle) \in Nat
    /\ \A p \in Parts :
          /\ Bundle[p].meshes \in Nat \ {0} /\ Bundle[p].quantity \in Nat \ {0}
          /\ Bundle[p].meshes * Bundle[p].quantity \in Nat
<1>1. Parts = 1 .. Len(Bundle) /\ Len(Bundle) \in Nat
  BY BundleAssumption DEF Parts
<1>2. \A p \in Parts : Bundle[p] \in [quantity : Nat \ {0}, meshes : Nat \ {0}]
  <2> DEFINE R == [quantity : Nat \ {0}, meshes : Nat \ {0}]
  <2>1. Bundle \in Seq(R)
    BY BundleAssumption
  <2> HIDE DEF R
  <2>2. \A p \in 1 .. Len(Bundle) : Bundle[p] \in R
    BY <2>1
  <2> QED BY <1>1, <2>2 DEF R
<1>3. \A a, b \in Nat : a * b \in Nat
  OBVIOUS
<1> QED BY <1>1, <1>2, <1>3

LEMMA BeforeAdds ==
    /\ ObjectsBefore(1) = 0
    /\ \A p \in Parts : /\ ObjectsBefore(p) \in Nat
                        /\ ObjectsBefore(p + 1) = ObjectsBefore(p) + Bundle[p].meshes * Bundle[p].quantity
<1> DEFINE f(p) == [q \in 1 .. p - 1 |-> Bundle[q].meshes * Bundle[q].quantity]
<1>1. \A p : ObjectsBefore(p) = SumFunctionOnSet(f(p), 1 .. p - 1)
  BY DEF ObjectsBefore, SumFunction
<1>2. ObjectsBefore(1) = 0
  <2>1. 1 .. 1 - 1 = {}
    OBVIOUS
  <2> HIDE DEF f
  <2> QED BY <1>1, <2>1, SumOfNone
<1>3. ASSUME NEW p \in Nat \ {0}, p - 1 <= Len(Bundle)
      PROVE  \A q \in 1 .. p - 1 : f(p)[q] = Bundle[q].meshes * Bundle[q].quantity /\ f(p)[q] \in Nat
  BY <1>3, PartsAre
<1> HIDE DEF f
<1>4. ASSUME NEW p \in Parts
      PROVE  /\ ObjectsBefore(p) \in Nat
             /\ ObjectsBefore(p + 1) = ObjectsBefore(p) + Bundle[p].meshes * Bundle[p].quantity
  <2>1. p \in Nat \ {0} /\ p <= Len(Bundle) /\ p + 1 \in Nat \ {0} /\ (p + 1) - 1 = p /\ Len(Bundle) \in Nat
    BY PartsAre
  <2>2. IsFiniteSet(1 .. p) /\ IsFiniteSet(1 .. p - 1)
    BY <2>1, FS_Interval
  <2>3. ObjectsBefore(p) \in Nat
    BY <1>1, <1>3, <2>1, <2>2, SumIsNat
  <2>4. \A q \in 1 .. p : f(p + 1)[q] = Bundle[q].meshes * Bundle[q].quantity /\ f(p + 1)[q] \in Nat
    BY <1>3, <2>1
  <2>5. SumFunctionOnSet(f(p + 1), 1 .. p) = f(p + 1)[p] + SumFunctionOnSet(f(p + 1), (1 .. p) \ {p})
    <3>1. p \in 1 .. p
      BY <2>1
    <3> QED BY <2>2, <2>4, <3>1, SumTakesAny
  <2>6. (1 .. p) \ {p} = 1 .. p - 1
    BY <2>1
  <2>7. SumFunctionOnSet(f(p + 1), 1 .. p - 1) = SumFunctionOnSet(f(p), 1 .. p - 1)
    <3>1. \A q \in 1 .. p - 1 : f(p + 1)[q] = f(p)[q]
      BY <1>3, <2>1, <2>4
    <3> QED BY <2>2, <3>1, SumOfSame
  <2>8. f(p + 1)[p] = Bundle[p].meshes * Bundle[p].quantity
    BY <2>1, <2>4
  <2>9. ObjectsBefore(p + 1) = SumFunctionOnSet(f(p + 1), 1 .. p)
    BY <1>1, <2>1
  <2>10. Bundle[p].meshes * Bundle[p].quantity \in Nat
    BY PartsAre
  <2>11. ObjectsBefore(p + 1) = f(p + 1)[p] + ObjectsBefore(p)
    BY <1>1, <2>5, <2>6, <2>7, <2>9
  <2> QED BY <2>3, <2>8, <2>10, <2>11
<1> QED BY <1>2, <1>4

(* The number of the object that is mesh k of copy c of part p.            *)
Number(p, k, c) == ObjectsBefore(p) + (k - 1) * Bundle[p].quantity + c

Kinds == [part : Nat, mesh : Nat]
OfMesh(p, k) == Repeat([part |-> p, mesh |-> k], Bundle[p].quantity)
OfPart(p) == FlattenSeq([k \in 1 .. Bundle[p].meshes |-> OfMesh(p, k)])

LEMMA PartIsWritten ==
    ASSUME NEW p \in Parts
    PROVE  /\ OfPart(p) \in Seq(Kinds) /\ Len(OfPart(p)) = Bundle[p].meshes * Bundle[p].quantity
           /\ \A k \in 1 .. Bundle[p].meshes : \A c \in 1 .. Bundle[p].quantity :
                 /\ (k - 1) * Bundle[p].quantity + c \in 1 .. Len(OfPart(p))
                 /\ OfPart(p)[(k - 1) * Bundle[p].quantity + c] = [part |-> p, mesh |-> k]
           /\ \A x \in 1 .. Len(OfPart(p)) : \E k \in 1 .. Bundle[p].meshes :
                 \E c \in 1 .. Bundle[p].quantity : x = (k - 1) * Bundle[p].quantity + c
<1> DEFINE m == Bundle[p].meshes
           q == Bundle[p].quantity
           seqs == [k \in 1 .. m |-> OfMesh(p, k)]
           L == [k \in 0 .. m |-> k * q]
<1>1. p \in Nat /\ m \in Nat /\ q \in Nat
  BY PartsAre
<1> HIDE DEF m, q
<1>2. \A k \in 1 .. m : /\ OfMesh(p, k) \in Seq(Kinds) /\ Len(OfMesh(p, k)) = q
                        /\ \A c \in 1 .. q : OfMesh(p, k)[c] = [part |-> p, mesh |-> k]
  <2> SUFFICES ASSUME NEW k \in 1 .. m
               PROVE  /\ OfMesh(p, k) \in Seq(Kinds) /\ Len(OfMesh(p, k)) = q
                      /\ \A c \in 1 .. q : OfMesh(p, k)[c] = [part |-> p, mesh |-> k]
    OBVIOUS
  <2> DEFINE e == [part |-> p, mesh |-> k]
  <2>1. e \in Kinds
    BY <1>1 DEF Kinds
  <2> HIDE DEF e
  <2>2. OfMesh(p, k) = [c \in 1 .. q |-> e]
    BY DEF OfMesh, Repeat, e, q
  <2> QED BY <1>1, <2>1, <2>2 DEF e
<1>3. seqs \in Seq(Seq(Kinds)) /\ Len(seqs) = m
  <2>1. \A k \in 1 .. m : OfMesh(p, k) \in Seq(Kinds)
    BY <1>2
  <2> QED BY <1>1, <2>1
<1>4. \A k \in 1 .. m : seqs[k] = OfMesh(p, k) /\ Len(seqs[k]) = q
  BY <1>2
<1>5. \A k \in 0 .. m : L[k] = k * q /\ L[k] \in Nat
  BY <1>1
<1>6. L[0] = 0 /\ \A k \in 1 .. m : L[k] = L[k - 1] + Len(seqs[k])
  <2>1. L[0] = 0
    BY <1>1, <1>5
  <2>2. ASSUME NEW k \in 1 .. m PROVE L[k] = L[k - 1] + Len(seqs[k])
    <3>1. k - 1 \in 0 .. m /\ k \in 0 .. m
      BY <1>1
    <3>2. L[k - 1] = (k - 1) * q /\ L[k] = k * q /\ Len(seqs[k]) = q
      BY <1>2, <1>4, <1>5, <3>1
    <3>3. k * q = (k - 1) * q + q
      BY <1>1
    <3> QED BY <3>2, <3>3
  <2> QED BY <2>1, <2>2
<1> HIDE DEF L
<1>7. Pieces(FlattenSeq(seqs), Kinds, seqs, L, m)
  BY <1>3, <1>5, <1>6, Flattened
<1>8. OfPart(p) = FlattenSeq(seqs)
  BY DEF OfPart, m
<1> HIDE DEF seqs
<1>9. OfPart(p) \in Seq(Kinds) /\ Len(OfPart(p)) = m * q
  BY <1>1, <1>5, <1>7, <1>8 DEF Pieces
<1>10. \A k \in 1 .. m : k - 1 \in 0 .. m
  BY <1>1
<1>11. ASSUME NEW k \in 1 .. m, NEW c \in 1 .. q
       PROVE  /\ (k - 1) * q + c \in 1 .. m * q
              /\ OfPart(p)[(k - 1) * q + c] = [part |-> p, mesh |-> k]
  <2>1. L[k - 1] + c \in 1 .. L[m] /\ OfPart(p)[L[k - 1] + c] = seqs[k][c]
    <3>1. c \in 1 .. Len(seqs[k])
      BY <1>4
    <3> QED BY <1>7, <1>8, <3>1 DEF Pieces
  <2>2. L[k - 1] = (k - 1) * q /\ L[m] = m * q
    BY <1>1, <1>5, <1>10
  <2> QED BY <1>2, <1>4, <2>1, <2>2
<1>12. ASSUME NEW x \in 1 .. m * q
       PROVE  \E k \in 1 .. m : \E c \in 1 .. q : x = (k - 1) * q + c
  <2>1. L[m] = m * q
    BY <1>1, <1>5
  <2>2. PICK k \in 1 .. m : \E c \in 1 .. Len(seqs[k]) : x = L[k - 1] + c
    BY <1>7, <2>1 DEF Pieces
  <2>3. L[k - 1] = (k - 1) * q /\ Len(seqs[k]) = q
    BY <1>4, <1>5, <1>10
  <2> QED BY <2>2, <2>3
<1> QED BY <1>9, <1>11, <1>12 DEF m, q

LEMMA Numbering ==
    /\ Objects = 1 .. Len(Written) /\ IsFiniteSet(Objects)
    /\ \A p \in Parts : \A k \in 1 .. Bundle[p].meshes : \A c \in CopiesOf(p) :
          Number(p, k, c) \in Objects /\ Written[Number(p, k, c)] = [part |-> p, mesh |-> k]
    /\ \A o \in Objects : \E p \in Parts : \E k \in 1 .. Bundle[p].meshes : \E c \in CopiesOf(p) :
          o = Number(p, k, c)
<1> DEFINE n == Len(Bundle)
           seqs == [p \in Parts |-> OfPart(p)]
           L == [p \in 0 .. n |-> ObjectsBefore(p + 1)]
<1>1. Parts = 1 .. n /\ n \in Nat
  BY PartsAre
<1> HIDE DEF n
<1>2. seqs \in Seq(Seq(Kinds)) /\ Len(seqs) = n /\ \A p \in Parts : seqs[p] = OfPart(p)
  <2>1. \A p \in Parts : OfPart(p) \in Seq(Kinds)
    BY PartIsWritten
  <2> QED BY <1>1, <2>1
<1>3. Written = FlattenSeq(seqs)
  BY DEF Written, OfPart, OfMesh
<1>4. \A p \in 1 .. n : L[p - 1] = ObjectsBefore(p) /\ L[p] = ObjectsBefore(p + 1) /\ p - 1 \in 0 .. n
  <2> SUFFICES ASSUME NEW p \in 1 .. n
               PROVE  L[p - 1] = ObjectsBefore(p) /\ L[p] = ObjectsBefore(p + 1) /\ p - 1 \in 0 .. n
    OBVIOUS
  <2>1. p - 1 \in 0 .. n /\ p \in 0 .. n /\ (p - 1) + 1 = p
    BY <1>1
  <2>2. L[p - 1] = ObjectsBefore((p - 1) + 1)
    BY <2>1
  <2> QED BY <2>1, <2>2
<1>5. L[0] = 0
  <2>1. 0 \in 0 .. n /\ 0 + 1 = 1
    BY <1>1
  <2>2. L[0] = ObjectsBefore(0 + 1)
    BY <2>1
  <2> QED BY <2>1, <2>2, BeforeAdds
<1> HIDE DEF L, seqs
<1>6. \A p \in 1 .. n : L[p] = L[p - 1] + Len(seqs[p]) /\ L[p] \in Nat
  <2> SUFFICES ASSUME NEW p \in 1 .. n
               PROVE  L[p] = L[p - 1] + Len(seqs[p]) /\ L[p] \in Nat
    OBVIOUS
  <2>1. p \in Parts
    BY <1>1
  <2>2. Len(seqs[p]) = Bundle[p].meshes * Bundle[p].quantity
    BY <1>2, <2>1, PartIsWritten
  <2>3. Bundle[p].meshes * Bundle[p].quantity \in Nat
    BY <2>1, PartsAre
  <2> QED BY <1>4, <2>1, <2>2, <2>3, BeforeAdds
<1>7. \A p \in 0 .. n : L[p] \in Nat
  BY <1>1, <1>5, <1>6
<1>8. Pieces(Written, Kinds, seqs, L, n)
  BY <1>2, <1>3, <1>5, <1>6, <1>7, Flattened
<1>9. Written \in Seq(Kinds) /\ Len(Written) = L[n]
  BY <1>8 DEF Pieces
<1>10. Objects = 1 .. Len(Written) /\ Len(Written) \in Nat
  BY <1>9 DEF Objects
<1>11. IsFiniteSet(Objects)
  BY <1>10, FS_Interval
<1>12. ASSUME NEW p \in Parts, NEW k \in 1 .. Bundle[p].meshes, NEW c \in CopiesOf(p)
       PROVE  Number(p, k, c) \in Objects /\ Written[Number(p, k, c)] = [part |-> p, mesh |-> k]
  <2> DEFINE x == (k - 1) * Bundle[p].quantity + c
  <2>1. x \in 1 .. Len(seqs[p]) /\ seqs[p][x] = [part |-> p, mesh |-> k]
    BY <1>2, PartIsWritten DEF CopiesOf
  <2>2. Number(p, k, c) = L[p - 1] + x
    <3>1. ObjectsBefore(p) \in Nat /\ L[p - 1] = ObjectsBefore(p)
      BY <1>1, <1>4, BeforeAdds
    <3>2. (k - 1) * Bundle[p].quantity \in Int /\ c \in Int
      <4>1. \A y, z \in Int : y * z \in Int
        OBVIOUS
      <4>2. k - 1 \in Int /\ Bundle[p].quantity \in Int /\ c \in Int
        BY PartsAre DEF CopiesOf
      <4> QED BY <4>1, <4>2
    <3> QED BY <3>1, <3>2 DEF Number
  <2> HIDE DEF x
  <2>3. L[p - 1] + x \in 1 .. L[n] /\ Written[L[p - 1] + x] = seqs[p][x]
    BY <1>1, <1>8, <2>1 DEF Pieces
  <2> QED BY <1>9, <1>10, <2>1, <2>2, <2>3
<1>13. ASSUME NEW o \in Objects
       PROVE  \E p \in Parts : \E k \in 1 .. Bundle[p].meshes : \E c \in CopiesOf(p) : o = Number(p, k, c)
  <2>1. PICK p \in 1 .. n : \E x \in 1 .. Len(seqs[p]) : o = L[p - 1] + x
    BY <1>8, <1>9, <1>10 DEF Pieces
  <2>2. PICK x \in 1 .. Len(seqs[p]) : o = L[p - 1] + x
    BY <2>1
  <2>3. p \in Parts
    BY <1>1
  <2>4. PICK k \in 1 .. Bundle[p].meshes : \E c \in 1 .. Bundle[p].quantity :
            x = (k - 1) * Bundle[p].quantity + c
    <3>1. x \in 1 .. Len(OfPart(p))
      BY <1>2, <2>3
    <3> QED BY <2>3, <3>1, PartIsWritten
  <2>5. PICK c \in 1 .. Bundle[p].quantity : x = (k - 1) * Bundle[p].quantity + c
    BY <2>4
  <2>6. ObjectsBefore(p) \in Nat /\ L[p - 1] = ObjectsBefore(p)
    BY <1>4, <2>3, BeforeAdds
  <2>7. (k - 1) * Bundle[p].quantity \in Int /\ c \in Int
    <3>1. \A y, z \in Int : y * z \in Int
      OBVIOUS
    <3>2. k - 1 \in Int /\ Bundle[p].quantity \in Int
      BY <2>3, PartsAre
    <3> QED BY <3>1, <3>2
  <2>8. o = Number(p, k, c)
    BY <2>2, <2>5, <2>6, <2>7 DEF Number
  <2> QED BY <2>3, <2>8 DEF CopiesOf
<1> QED BY <1>10, <1>11, <1>12, <1>13

LEMMA ObjectIs ==
    ASSUME NEW p \in Parts, NEW k \in 1 .. Bundle[p].meshes, NEW c \in CopiesOf(p)
    PROVE  /\ Number(p, k, c) \in Objects
           /\ Written[Number(p, k, c)].part = p /\ Written[Number(p, k, c)].mesh = k
<1>1. Number(p, k, c) \in Objects /\ Written[Number(p, k, c)] = [part |-> p, mesh |-> k]
  BY Numbering, Zenon
<1> QED BY <1>1

(* The objects of a copy: one for each mesh, and no other copy has them.   *)
LEMMA CopyIds ==
    ASSUME NEW p \in Parts, NEW c \in CopiesOf(p)
    PROVE  /\ IdsOf(p, c) = {Number(p, k, c) : k \in 1 .. Bundle[p].meshes}
           /\ IdsOf(p, c) \subseteq Objects
           /\ IsFiniteSet(IdsOf(p, c)) /\ Cardinality(IdsOf(p, c)) <= Bundle[p].meshes
           /\ \A o \in IdsOf(p, c) : Written[o].part = p
<1> DEFINE m == Bundle[p].meshes
<1>1. m \in Nat
  BY PartsAre
<1>2. \A o : o \in IdsOf(p, c) <=> \E k \in 1 .. m : o = Number(p, k, c)
  <2>1. ASSUME NEW o \in IdsOf(p, c)
        PROVE  \E k \in 1 .. m : o = Number(p, k, c)
    <3>1. PICK b \in BundleObjects : b.part = p /\ b.copy = c /\ o = b.id
      BY DEF IdsOf
    <3>2. PICK q \in Parts : b \in {[id |-> Number(q, k, d), part |-> q, copy |-> d] :
                                       k \in 1 .. Bundle[q].meshes, d \in 1 .. Bundle[q].quantity}
      BY <3>1 DEF BundleObjects, Number
    <3>3. PICK k \in 1 .. Bundle[q].meshes, d \in 1 .. Bundle[q].quantity :
              b = [id |-> Number(q, k, d), part |-> q, copy |-> d]
      BY <3>2
    <3> QED BY <3>1, <3>3
  <2>2. ASSUME NEW k \in 1 .. m
        PROVE  Number(p, k, c) \in IdsOf(p, c)
    <3> DEFINE b == [id |-> Number(p, k, c), part |-> p, copy |-> c]
    <3>1. b \in {[id |-> Number(p, j, d), part |-> p, copy |-> d] :
                    j \in 1 .. Bundle[p].meshes, d \in 1 .. Bundle[p].quantity}
      BY DEF CopiesOf
    <3>2. b \in BundleObjects
      BY <3>1 DEF BundleObjects, Number
    <3> QED BY <3>2 DEF IdsOf
  <2> QED BY <2>1, <2>2
<1>3. IdsOf(p, c) = {Number(p, k, c) : k \in 1 .. m}
  BY <1>2
<1>4. \A k \in 1 .. m : Number(p, k, c) \in Objects /\ Written[Number(p, k, c)].part = p
  BY ObjectIs
<1>5. IsFiniteSet(IdsOf(p, c)) /\ Cardinality(IdsOf(p, c)) <= m
  <2> DEFINE f == [k \in 1 .. m |-> Number(p, k, c)]
  <2>1. IsFiniteSet(1 .. m) /\ Cardinality(1 .. m) = m
    <3> HIDE DEF m
    <3> QED BY <1>1, FS_Interval
  <2>2. f \in Surjection(1 .. m, IdsOf(p, c))
    BY <1>3 DEF Surjection
  <2> QED BY <2>1, <2>2, FS_Surjection
<1> QED BY <1>2, <1>3, <1>4, <1>5

LEMMA OneCopyPerObject ==
    ASSUME NEW p \in Parts, NEW c \in CopiesOf(p), NEW q \in Parts, NEW d \in CopiesOf(q),
           NEW o, o \in IdsOf(p, c), o \in IdsOf(q, d)
    PROVE  p = q /\ c = d
<1>1. PICK k \in 1 .. Bundle[p].meshes : o = Number(p, k, c)
  BY CopyIds
<1>2. PICK j \in 1 .. Bundle[q].meshes : o = Number(q, j, d)
  BY CopyIds
<1>3. p = q /\ k = j
  <2>1. Written[o].part = p /\ Written[o].mesh = k
    BY <1>1, ObjectIs
  <2>2. Written[o].part = q /\ Written[o].mesh = j
    BY <1>2, ObjectIs
  <2> QED BY <2>1, <2>2
<1>4. Bundle[p].quantity \in Nat /\ ObjectsBefore(p) \in Nat
  BY PartsAre, BeforeAdds
<1>5. c \in Int /\ d \in Int
  BY DEF CopiesOf
<1>6. (k - 1) * Bundle[p].quantity \in Int
  <2>1. \A x, y \in Int : x * y \in Int
    OBVIOUS
  <2>2. k - 1 \in Int /\ Bundle[p].quantity \in Int
    BY <1>4
  <2> QED BY <2>1, <2>2
<1> DEFINE x == (k - 1) * Bundle[p].quantity
<1>7. o = ObjectsBefore(p) + x + c /\ o = ObjectsBefore(p) + x + d
  BY <1>1, <1>2, <1>3 DEF Number
<1>8. x \in Int
  BY <1>6
<1> HIDE DEF x
<1>9. c = d
  BY <1>4, <1>5, <1>7, <1>8
<1> QED BY <1>3, <1>9

LEMMA EachObjectHasACopy ==
    \A o \in Objects : \E p \in Parts : \E c \in CopiesOf(p) : o \in IdsOf(p, c)
<1> SUFFICES ASSUME NEW o \in Objects
             PROVE  \E p \in Parts : \E c \in CopiesOf(p) : o \in IdsOf(p, c)
  OBVIOUS
<1>1. PICK p \in Parts : \E k \in 1 .. Bundle[p].meshes : \E c \in CopiesOf(p) : o = Number(p, k, c)
  BY Numbering
<1>2. PICK k \in 1 .. Bundle[p].meshes : \E c \in CopiesOf(p) : o = Number(p, k, c)
  BY <1>1
<1>3. PICK c \in CopiesOf(p) : o = Number(p, k, c)
  BY <1>2
<1> QED BY <1>3, CopyIds

-----------------------------------------------------------------------------
AttemptRow ==
    [plate : Plates \cup {0}, stage : Stages, names : SUBSET Objects, excluded : SUBSET rows,
     done : 0 .. MaxAttempts, corrected : BOOLEAN]

(* A row lists the objects of its copy that lie on its plate, and there is *)
(* one for each plate and copy.                                            *)
RowOK(row) ==
    /\ row.plate \in Plates /\ row.part \in Parts /\ row.copy \in CopiesOf(row.part)
    /\ row.ids # {} /\ row.ids \subseteq IdsOf(row.part, row.copy)
    /\ \A o \in row.ids : layout[o] = row.plate

OneRowEach ==
    \A row, other \in rows :
        (row.plate = other.plate /\ row.part = other.part /\ row.copy = other.copy) => row = other

EveryObjectListed == known => \A o \in Objects : layout[o] # 0 => \E row \in rows : o \in row.ids

RowsOK == (\A row \in rows : RowOK(row)) /\ OneRowEach /\ EveryObjectListed

Started == {a \in AttemptIds : attempt[a].stage # "none"}
Numbered == \E k \in 0 .. MaxAttempts : Started = 1 .. k

(* An attempt that is not started has nothing yet, and one that has not    *)
(* ended has no rank among those that have.                                *)
NothingYet ==
    \A a \in AttemptIds :
        /\ attempt[a].stage = "none" => attempt[a] = NoAttempt
        /\ attempt[a].stage = "printing" => attempt[a].done = 0

(* Until an operator corrects it, an attempt excludes the rows of the      *)
(* objects the printer has named.                                          *)
ExcludedAsNamed ==
    \A a \in AttemptIds : ~ attempt[a].corrected =>
        attempt[a].excluded = RowsWith(attempt[a].plate, attempt[a].names)

PageShows ==
    \A u \in Users : page[u] # None =>
        LET a == page[u].attempt
        IN  /\ attempt[a].stage \in EditableStages \cup {"void"}
            /\ (~ attempt[a].corrected /\ attempt[a].stage \in EditableStages) =>
                   page[u].seen = attempt[a].excluded

Pages == page = [u \in Users |-> page[u]]

CopiesInv ==
    TypeOK /\ Pages /\ RowsOK /\ Numbered /\ NothingYet /\ ExcludedAsNamed /\ PageShows

-----------------------------------------------------------------------------
(* The plates of a layout.                                                 *)
LEMMA PlatesAre ==
    ASSUME NEW L \in Layouts
    PROVE  /\ L \in [Objects -> Nat]
           /\ PlatesOf(L) # {} /\ PlatesOf(L) \subseteq Nat \ {0} /\ IsFiniteSet(PlatesOf(L))
<1>1. L \in [Objects -> Nat] /\ PlatesOf(L) # {}
  BY LayoutsAssumption
<1>2. PlatesOf(L) \subseteq Nat \ {0}
  BY <1>1 DEF PlatesOf
<1> DEFINE all == {L[o] : o \in Objects}
<1>3. L \in Surjection(Objects, all)
  BY <1>1 DEF Surjection
<1> HIDE DEF all
<1>4. IsFiniteSet(all)
  BY <1>3, Numbering, FS_Surjection
<1>5. IsFiniteSet(PlatesOf(L))
  BY <1>4, FS_Difference DEF PlatesOf, all
<1> QED BY <1>1, <1>2, <1>5

(* The objects read from a plate are those that lie on it.                 *)
LEMMA ReadIsPlaced ==
    ASSUME NEW L \in Layouts, NEW labelled \in SUBSET PlatesOf(L),
           labelled = PlatesOf(L) \/ \A o \in Objects : L[o] # 0,
           IsAssignable(L, labelled), NEW plate \in PlatesOf(L)
    PROVE  ReadIds(L, labelled, plate) = {o \in Objects : L[o] = plate}
<1>1. CASE plate \in labelled
  BY <1>1 DEF ReadIds
<1>2. CASE plate \notin labelled
  <2>1. Cardinality(PlatesOf(L)) = 1 /\ \A o \in Objects : L[o] # 0
    BY <1>2 DEF IsAssignable
  <2>2. PICK x : PlatesOf(L) = {x}
    BY <2>1, PlatesAre, FS_Singleton
  <2>3. PlatesOf(L) = {plate}
    BY <2>2
  <2>4. \A o \in Objects : L[o] = plate
    BY <2>1, <2>3 DEF PlatesOf
  <2> QED BY <1>2, <2>3, <2>4 DEF ReadIds
<1> QED BY <1>1, <1>2

LEMMA InitRows == Init => RowsOK
<1> SUFFICES ASSUME Init PROVE RowsOK
  OBVIOUS
<1>1. PICK labelled \in SUBSET Plates :
          /\ labelled = Plates \/ \A o \in Objects : layout[o] # 0
          /\ known = IsAssignable(layout, labelled)
          /\ rows = PlateParts(layout, labelled)
  BY DEF Init, Plates
<1>2. layout \in Layouts
  BY DEF Init
<1>3. CASE ~ IsAssignable(layout, labelled)
  BY <1>1, <1>3 DEF PlateParts, RowsOK, OneRowEach, EveryObjectListed
<1>4. CASE IsAssignable(layout, labelled)
  <2> DEFINE Row(plate, p, c) ==
                 [plate |-> plate, part |-> p, copy |-> c,
                  ids |-> IdsOf(p, c) \cap ReadIds(layout, labelled, plate)]
  <2>1. rows = {row \in UNION {{Row(plate, p, c) : plate \in Plates, c \in CopiesOf(p)} : p \in Parts} :
                   row.ids # {}}
    BY <1>1, <1>4 DEF PlateParts, Plates
  <2>2. \A plate \in Plates : ReadIds(layout, labelled, plate) = {o \in Objects : layout[o] = plate}
    BY <1>1, <1>2, <1>4, ReadIsPlaced DEF Plates
  <2>3. \A row \in rows : /\ row.plate \in Plates /\ row.part \in Parts /\ row.copy \in CopiesOf(row.part)
                          /\ row.ids # {} /\ row = Row(row.plate, row.part, row.copy)
    <3> SUFFICES ASSUME NEW row \in rows
                 PROVE  /\ row.plate \in Plates /\ row.part \in Parts /\ row.copy \in CopiesOf(row.part)
                        /\ row.ids # {} /\ row = Row(row.plate, row.part, row.copy)
      OBVIOUS
    <3>1. PICK p \in Parts : row \in {Row(plate, p, c) : plate \in Plates, c \in CopiesOf(p)}
      BY <2>1
    <3>2. PICK plate \in Plates, c \in CopiesOf(p) : row = Row(plate, p, c)
      BY <3>1
    <3>3. row.ids # {}
      BY <2>1
    <3> QED BY <3>2, <3>3
  <2>4. \A row \in rows : row.ids = IdsOf(row.part, row.copy) \cap {o \in Objects : layout[o] = row.plate}
    BY <2>2, <2>3
  <2>5. OneRowEach
    BY <2>3 DEF OneRowEach
  <2>6. \A row \in rows : RowOK(row)
    BY <2>3, <2>4 DEF RowOK
  <2>7. EveryObjectListed
    <3> SUFFICES ASSUME NEW o \in Objects, layout[o] # 0
                 PROVE  \E row \in rows : o \in row.ids
      BY DEF EveryObjectListed
    <3>1. PICK p \in Parts : \E c \in CopiesOf(p) : o \in IdsOf(p, c)
      BY EachObjectHasACopy
    <3>2. PICK c \in CopiesOf(p) : o \in IdsOf(p, c)
      BY <3>1
    <3>3. PICK plate \in Plates : plate = layout[o]
      BY DEF Plates, PlatesOf
    <3> DEFINE row == Row(plate, p, c)
    <3>4. o \in row.ids
      BY <2>2, <3>2, <3>3
    <3>5. row \in {Row(at, p, d) : at \in Plates, d \in CopiesOf(p)}
      <4>1. \E at \in Plates, d \in CopiesOf(p) : row = Row(at, p, d)
        <5> HIDE DEF Row
        <5> QED BY DEF row
      <4> HIDE DEF row, Row
      <4> QED BY <4>1
    <3> HIDE DEF row
    <3>6. row \in rows
      BY <2>1, <3>4, <3>5
    <3> QED BY <3>4, <3>6
  <2> QED BY <2>5, <2>6, <2>7 DEF RowsOK
<1> QED BY <1>3, <1>4

LEMMA InitInv == Init => CopiesInv
<1> SUFFICES ASSUME Init PROVE CopiesInv
  OBVIOUS
<1> MaxAttempts \in Nat
  BY BundleAssumption
<1>1. RowsOK
  BY InitRows
<1>2. TypeOK
  BY DEF TypeOK, Init, IsAssignable, AttemptIds, NoAttempt, Stages
<1>3. Pages /\ NothingYet /\ PageShows
  BY DEF Pages, NothingYet, PageShows, Init, NoAttempt, AttemptIds
<1>5. ExcludedAsNamed
  <2>1. \A a \in AttemptIds : attempt[a].excluded = {} /\ attempt[a].names = {}
    BY DEF Init, NoAttempt
  <2> QED BY <2>1 DEF ExcludedAsNamed, RowsWith
<1>4. Started = 1 .. 0
  BY DEF Started, Init, NoAttempt, AttemptIds
<1> QED BY <1>1, <1>2, <1>3, <1>4, <1>5 DEF CopiesInv, Numbered

(* The number that is given to a new attempt is free.                      *)
LEMMA NextNumber ==
    ASSUME CopiesInv
    PROVE  LET a == Cardinality(Started) + 1
           IN  a \in AttemptIds => /\ attempt[a] = NoAttempt
                                   /\ Started \cup {a} = 1 .. a
<1> MaxAttempts \in Nat
  BY BundleAssumption
<1>1. PICK k \in 0 .. MaxAttempts : Started = 1 .. k
  BY DEF CopiesInv, Numbered
<1>2. Cardinality(Started) = k
  BY <1>1, FS_Interval
<1>3. k + 1 \notin Started
  BY <1>1
<1> SUFFICES ASSUME k + 1 \in AttemptIds
             PROVE  attempt[k + 1] = NoAttempt /\ Started \cup {k + 1} = 1 .. k + 1
  BY <1>2, Zenon
<1>4. attempt[k + 1].stage = "none"
  BY <1>3 DEF Started
<1>5. attempt[k + 1] = NoAttempt
  BY <1>4 DEF CopiesInv, NothingYet
<1>6. Started \cup {k + 1} = 1 .. k + 1
  BY <1>1
<1> QED BY <1>5, <1>6

(* There is a rank left for an attempt that is still printing.             *)
LEMMA NextRank ==
    ASSUME CopiesInv, NEW a \in AttemptIds, attempt[a].stage = "printing"
    PROVE  Rank \in 1 .. MaxAttempts
<1> DEFINE Done == {b \in AttemptIds : attempt[b].done # 0}
<1> MaxAttempts \in Nat
  BY BundleAssumption
<1>1. IsFiniteSet(AttemptIds) /\ Cardinality(AttemptIds) = MaxAttempts
  BY FS_Interval DEF AttemptIds
<1>2. Done \subseteq AttemptIds /\ Done # AttemptIds
  BY DEF CopiesInv, NothingYet
<1>3. IsFiniteSet(Done) /\ Cardinality(Done) \in Nat /\ Cardinality(Done) < MaxAttempts
  <2>1. IsFiniteSet(Done) /\ Cardinality(Done) <= Cardinality(AttemptIds)
    BY <1>1, <1>2, FS_Subset
  <2>2. Cardinality(Done) # Cardinality(AttemptIds)
    BY <1>1, <1>2, FS_Subset
  <2> QED BY <1>1, <2>1, <2>2, FS_CardinalityType
<1> QED BY <1>3 DEF Rank

-----------------------------------------------------------------------------
(* What every step but that of a new attempt leaves alone: which attempts  *)
(* there are and which row each belongs to.                                *)
LEMMA SameNumbers ==
    ASSUME Numbered, \A a \in AttemptIds : (attempt'[a].stage = "none") = (attempt[a].stage = "none")
    PROVE  Numbered'
<1>1. Started' = Started
  BY DEF Started
<1> QED BY <1>1 DEF Numbered

(* The rows are never changed.                                             *)
LEMMA SameRows ==
    ASSUME UNCHANGED << layout, known, rows >>
    PROVE  /\ RowsOK => RowsOK'
           /\ \A plate, ids : (RowsWith(plate, ids))' = RowsWith(plate, ids)
<1>1. RowsOK => RowsOK'
  BY DEF RowsOK, RowOK, OneRowEach, EveryObjectListed, Plates
<1>2. \A plate, ids : (RowsWith(plate, ids))' = RowsWith(plate, ids)
  BY DEF RowsWith, RowsOn
<1> QED BY <1>1, <1>2

(* A step that changes one attempt to a row of the table.                  *)
LEMMA OneAttemptChanges ==
    ASSUME CopiesInv, NEW a \in AttemptIds, NEW r \in AttemptRow,
           attempt[a].stage # "none", r.stage # "none", r.stage = "printing" => r.done = 0,
           ~ r.corrected => r.excluded = RowsWith(r.plate, r.names),
           attempt' = [attempt EXCEPT ![a] = r], UNCHANGED << layout, known, rows, page >>,
           spoiled' \in [AttemptIds -> SUBSET Objects], heard' \in [AttemptIds -> SUBSET Objects],
           attempt[a].stage \in EditableStages \cup {"void"} =>
               /\ r.stage \in EditableStages \cup {"void"}
               /\ r.stage \in EditableStages =>
                      /\ attempt[a].stage \in EditableStages
                      /\ ~ r.corrected => ~ attempt[a].corrected /\ r.excluded = attempt[a].excluded
    PROVE  CopiesInv'
<1> USE DEF CopiesInv
<1>1. attempt \in [AttemptIds -> AttemptRow] /\ AttemptRow' = AttemptRow
  BY DEF TypeOK, AttemptRow, Plates
<1>2. attempt' \in [AttemptIds -> AttemptRow]
  BY <1>1
<1>3. TypeOK'
  BY <1>2 DEF TypeOK, AttemptRow, Plates
<1>4. Pages' /\ RowsOK'
  BY SameRows DEF Pages
<1>8. ExcludedAsNamed'
  <2> SUFFICES ASSUME NEW b \in AttemptIds, ~ attempt'[b].corrected
               PROVE  attempt'[b].excluded = RowsWith(attempt'[b].plate, attempt'[b].names)
    BY SameRows DEF ExcludedAsNamed, RowsWith, RowsOn
  <2>1. CASE b = a
    BY <1>1, <2>1
  <2>2. CASE b # a
    BY <1>1, <2>2 DEF ExcludedAsNamed
  <2> QED BY <2>1, <2>2
<1>5. Numbered'
  BY <1>1, SameNumbers
<1>6. NothingYet'
  BY <1>1 DEF NothingYet
<1>7. PageShows'
  <2> SUFFICES ASSUME NEW u \in Users, page[u] # None
               PROVE  LET b == page[u].attempt
                      IN  /\ attempt'[b].stage \in EditableStages \cup {"void"}
                          /\ (~ attempt'[b].corrected /\ attempt'[b].stage \in EditableStages) =>
                                 page[u].seen = attempt'[b].excluded
    BY DEF PageShows
  <2>1. page[u].attempt \in AttemptIds
    BY DEF TypeOK
  <2> QED BY <1>1, <2>1 DEF PageShows
<1> QED BY <1>3, <1>4, <1>5, <1>6, <1>7, <1>8

LEMMA StartKeeps ==
    ASSUME CopiesInv, NEW plate \in Plates, StartAttempt(plate)
    PROVE  CopiesInv'
<1> USE DEF CopiesInv
<1> DEFINE a == Cardinality(Started) + 1
           r == [NoAttempt EXCEPT !.plate = plate, !.stage = "printing"]
<1>1. /\ a \in AttemptIds /\ attempt' = [attempt EXCEPT ![a] = r]
      /\ UNCHANGED << layout, known, rows, spoiled, heard, page >>
  BY DEF StartAttempt, Started
<1>2. attempt[a] = NoAttempt /\ Started \cup {a} = 1 .. a
  BY <1>1, NextNumber
<1> HIDE DEF a
<1> MaxAttempts \in Nat
  BY BundleAssumption
<1>3. r \in AttemptRow /\ r.stage = "printing" /\ r.done = 0
  <2> DEFINE e == [NoAttempt EXCEPT !.plate = plate]
  <2>1. NoAttempt \in AttemptRow /\ NoAttempt.done = 0
    BY DEF NoAttempt, AttemptRow, Stages
  <2>2. e \in AttemptRow /\ e.done = 0
    BY <2>1 DEF AttemptRow
  <2>3. r = [e EXCEPT !.stage = "printing"]
    OBVIOUS
  <2> HIDE DEF e
  <2> QED BY <2>2, <2>3 DEF AttemptRow, Stages
<1>4. attempt \in [AttemptIds -> AttemptRow] /\ AttemptRow' = AttemptRow
  BY <1>1 DEF TypeOK, AttemptRow, Plates
<1>5. attempt' \in [AttemptIds -> AttemptRow]
  BY <1>1, <1>3, <1>4
<1>6. TypeOK'
  BY <1>1, <1>5 DEF TypeOK, AttemptRow, Plates
<1>7. Pages' /\ RowsOK'
  BY <1>1, SameRows DEF Pages
<1>12. ExcludedAsNamed'
  <2> SUFFICES ASSUME NEW b \in AttemptIds, ~ attempt'[b].corrected
               PROVE  attempt'[b].excluded = RowsWith(attempt'[b].plate, attempt'[b].names)
    BY <1>1 DEF ExcludedAsNamed, RowsWith, RowsOn
  <2>1. r.excluded = {} /\ r.names = {}
    BY DEF NoAttempt
  <2>2. CASE b = a
    BY <1>1, <1>4, <2>1, <2>2 DEF RowsWith
  <2>3. CASE b # a
    BY <1>1, <1>4, <2>3 DEF ExcludedAsNamed
  <2> QED BY <2>2, <2>3
<1>8. Started' = 1 .. a
  BY <1>1, <1>2, <1>3, <1>4 DEF Started
<1>9. Numbered'
  BY <1>1, <1>8 DEF Numbered, AttemptIds
<1>10. NothingYet'
  BY <1>1, <1>3, <1>4 DEF NothingYet
<1>11. PageShows'
  <2> SUFFICES ASSUME NEW u \in Users, page[u] # None
               PROVE  LET b == page[u].attempt
                      IN  /\ attempt'[b].stage \in EditableStages \cup {"void"}
                          /\ (~ attempt'[b].corrected /\ attempt'[b].stage \in EditableStages) =>
                                 page[u].seen = attempt'[b].excluded
    BY <1>1 DEF PageShows
  <2>1. page[u].attempt \in AttemptIds /\ page[u].attempt # a
    BY <1>2 DEF TypeOK, PageShows, NoAttempt, EditableStages
  <2> QED BY <1>1, <1>4, <2>1 DEF PageShows
<1> QED BY <1>6, <1>7, <1>9, <1>10, <1>11, <1>12

(* Steps on the printer and in the worker that leave the attempts alone.   *)
LEMMA PrinterKeeps ==
    ASSUME CopiesInv, UNCHANGED << layout, known, rows, attempt, page >>,
           spoiled' \in [AttemptIds -> SUBSET Objects], heard' \in [AttemptIds -> SUBSET Objects]
    PROVE  CopiesInv'
<1>1. RowsOK'
  BY SameRows DEF CopiesInv
<1> QED BY <1>1 DEF CopiesInv, TypeOK, Pages, Numbered, Started, NothingYet, ExcludedAsNamed, RowsWith, RowsOn,
                    PageShows, Plates

LEMMA RecordKeeps ==
    ASSUME CopiesInv, NEW a \in AttemptIds, RecordExcluded(a)
    PROVE  CopiesInv'
<1> USE DEF CopiesInv
<1>1. heard' \in [AttemptIds -> SUBSET Objects] /\ spoiled' \in [AttemptIds -> SUBSET Objects]
  BY DEF RecordExcluded, TypeOK
<1>2. CASE IsPrinting(a)
  <2> DEFINE r == [attempt[a] EXCEPT
                       !.names = @ \cup heard[a],
                       !.excluded = @ \cup RowsWith(attempt[a].plate, heard[a] \ attempt[a].names)]
  <2>1. attempt' = [attempt EXCEPT ![a] = r] /\ UNCHANGED << layout, known, rows, page >>
    BY <1>2 DEF RecordExcluded, TypeOK
  <2>2. attempt[a] \in AttemptRow /\ attempt[a].stage = "printing"
    BY <1>2 DEF TypeOK, AttemptRow, IsPrinting
  <2>3. RowsWith(attempt[a].plate, heard[a] \ attempt[a].names) \subseteq rows
    BY DEF RowsWith, RowsOn
  <2>4. /\ r \in AttemptRow
        /\ r.stage = "printing" /\ r.done = attempt[a].done
    BY <2>2, <2>3 DEF AttemptRow, TypeOK
  <2> HIDE DEF r
  <2>5. r.done = 0
    BY <2>2, <2>4 DEF NothingYet
  <2>6. ~ r.corrected => r.excluded = RowsWith(r.plate, r.names)
    <3> SUFFICES ASSUME ~ r.corrected
                 PROVE  r.excluded = RowsWith(r.plate, r.names)
      OBVIOUS
    <3>1. attempt[a].excluded = RowsWith(attempt[a].plate, attempt[a].names)
      BY <2>2 DEF AttemptRow, ExcludedAsNamed, r
    <3>2. RowsWith(attempt[a].plate, attempt[a].names)
              \cup RowsWith(attempt[a].plate, heard[a] \ attempt[a].names)
          = RowsWith(attempt[a].plate, attempt[a].names \cup heard[a])
      BY DEF RowsWith
    <3>3. /\ r.plate = attempt[a].plate /\ r.names = attempt[a].names \cup heard[a]
          /\ r.excluded = attempt[a].excluded
                \cup RowsWith(attempt[a].plate, heard[a] \ attempt[a].names)
      BY <2>2 DEF AttemptRow, r
    <3> QED BY <3>1, <3>2, <3>3
  <2> QED BY <1>1, <2>1, <2>2, <2>4, <2>5, <2>6, OneAttemptChanges DEF EditableStages
<1>3. CASE ~ IsPrinting(a)
  BY <1>1, <1>3, PrinterKeeps DEF RecordExcluded
<1> QED BY <1>2, <1>3

(* An attempt ends, passes or is given up.                                 *)
LEMMA StageKeeps ==
    ASSUME CopiesInv, NEW a \in AttemptIds, Finish(a) \/ Pass(a) \/ FailOrRemove(a)
    PROVE  CopiesInv'
<1> USE DEF CopiesInv
<1>1. attempt[a] \in AttemptRow
  BY DEF TypeOK, AttemptRow
<1>6. ~ attempt[a].corrected => attempt[a].excluded = RowsWith(attempt[a].plate, attempt[a].names)
  BY DEF ExcludedAsNamed
<1> DEFINE Same(r) == /\ r.corrected = attempt[a].corrected /\ r.excluded = attempt[a].excluded
                      /\ r.plate = attempt[a].plate /\ r.names = attempt[a].names
<1>7. \A r : Same(r) => (~ r.corrected => r.excluded = RowsWith(r.plate, r.names))
  BY <1>6
<1>2. /\ UNCHANGED << layout, known, rows, page >>
      /\ heard' \in [AttemptIds -> SUBSET Objects] /\ spoiled' \in [AttemptIds -> SUBSET Objects]
  BY DEF Finish, Pass, FailOrRemove, TypeOK
<1>3. CASE Finish(a)
  <2> DEFINE r == [attempt[a] EXCEPT !.stage = "review", !.done = Rank]
  <2>1. attempt' = [attempt EXCEPT ![a] = r] /\ attempt[a].stage = "printing"
    BY <1>3 DEF Finish, TypeOK
  <2>2. Rank \in 1 .. MaxAttempts
    BY <2>1, NextRank
  <2> DEFINE n == Rank
  <2> MaxAttempts \in Nat
    BY BundleAssumption
  <2>3. n \in 0 .. MaxAttempts
    BY <2>2
  <2>4. r \in AttemptRow /\ r.stage = "review" /\ Same(r)
    <3> HIDE DEF n
    <3>1. r = [attempt[a] EXCEPT !.stage = "review", !.done = n]
      BY DEF n
    <3> HIDE DEF r
    <3> QED BY <1>1, <2>3, <3>1 DEF AttemptRow, Stages
  <2> HIDE DEF r
  <2> QED BY <1>2, <1>7, <2>1, <2>4, OneAttemptChanges DEF EditableStages
<1>4. CASE Pass(a)
  <2> DEFINE r == [attempt[a] EXCEPT !.stage = "passed"]
  <2>1. attempt' = [attempt EXCEPT ![a] = r] /\ attempt[a].stage = "review"
    BY <1>4 DEF Pass, TypeOK
  <2>2. r \in AttemptRow /\ r.stage = "passed" /\ Same(r)
    BY <1>1 DEF AttemptRow, Stages
  <2> HIDE DEF r
  <2> QED BY <1>2, <1>7, <2>1, <2>2, OneAttemptChanges DEF EditableStages
<1>5. CASE FailOrRemove(a)
  <2> DEFINE r == [attempt[a] EXCEPT !.stage = "void"]
  <2>1. attempt' = [attempt EXCEPT ![a] = r] /\ attempt[a].stage \in {"printing", "review"}
    BY <1>5 DEF FailOrRemove, OpenStages, TypeOK
  <2>2. r \in AttemptRow /\ r.stage = "void" /\ Same(r)
    BY <1>1 DEF AttemptRow, Stages
  <2> HIDE DEF r
  <2> QED BY <1>2, <1>7, <2>1, <2>2, OneAttemptChanges DEF EditableStages
<1> QED BY <1>3, <1>4, <1>5

LEMMA OpenKeeps ==
    ASSUME CopiesInv, NEW u \in Users, OpenPage(u)
    PROVE  CopiesInv'
<1> USE DEF CopiesInv
<1>1. PICK a \in AttemptIds, kind \in {"review", "exclusions"} :
          /\ attempt[a].stage \in EditableStages
          /\ page' = [page EXCEPT ![u] = [kind |-> kind, attempt |-> a, seen |-> attempt[a].excluded]]
          /\ UNCHANGED << layout, known, rows, attempt, spoiled, heard >>
  BY DEF OpenPage
<1>2. attempt[a].excluded \subseteq rows
  BY DEF TypeOK
<1>3. page'[u].attempt = a /\ page'[u].seen = attempt[a].excluded
  BY <1>1 DEF Pages
<1>4. Pages' /\ \A v \in Users : v # u => page'[v] = page[v]
  BY <1>1 DEF Pages
<1>5. TypeOK'
  BY <1>1, <1>2, <1>3, <1>4 DEF TypeOK, Plates
<1>6. PageShows'
  BY <1>1, <1>3, <1>4 DEF PageShows
<1>7. RowsOK'
  BY <1>1, SameRows
<1> QED BY <1>1, <1>4, <1>5, <1>6, <1>7 DEF Numbered, Started, NothingYet, ExcludedAsNamed, RowsWith, RowsOn

(* A page is sent: it is closed, and what it shows may be stored.          *)
LEMMA SubmitFacts ==
    ASSUME CopiesInv, NEW u \in Users, SubmitPage(u)
    PROVE  LET a == page[u].attempt
           IN  /\ page[u] # None /\ page' = [page EXCEPT ![u] = None] /\ a \in AttemptIds
               /\ UNCHANGED << layout, known, rows, spoiled, heard >>
               /\ \/ UNCHANGED attempt
                  \/ /\ attempt[a].stage \in EditableStages
                     /\ \E r \in AttemptRow :
                            /\ r.stage \in EditableStages
                            /\ ~ r.corrected => ~ attempt[a].corrected /\ r.excluded = attempt[a].excluded
                            /\ r.plate = attempt[a].plate /\ r.names = attempt[a].names
                            /\ attempt' = [attempt EXCEPT ![a] = r]
<1> USE DEF CopiesInv
<1> DEFINE a == page[u].attempt
<1>1. /\ page[u] # None /\ page' = [page EXCEPT ![u] = None] /\ a \in AttemptIds
      /\ UNCHANGED << layout, known, rows, spoiled, heard >>
  BY DEF SubmitPage, TypeOK
<1>2. SUFFICES ASSUME ~ UNCHANGED attempt
               PROVE  /\ attempt[a].stage \in EditableStages
                      /\ \E r \in AttemptRow :
                             /\ r.stage \in EditableStages
                             /\ ~ r.corrected => ~ attempt[a].corrected /\ r.excluded = attempt[a].excluded
                             /\ r.plate = attempt[a].plate /\ r.names = attempt[a].names
                             /\ attempt' = [attempt EXCEPT ![a] = r]
  BY <1>1
<1>3. attempt[a].stage \in EditableStages
  BY <1>2 DEF SubmitPage, EditableStages
<1>4. PICK ticked \in SUBSET RowsOn(attempt[a].plate) :
          attempt' = IF page[u].kind = "review"
                     THEN [WithExclusions(a, ticked) EXCEPT ![a].stage = "passed"]
                     ELSE WithExclusions(a, ticked)
  BY <1>2 DEF SubmitPage
<1>5. attempt[a] \in AttemptRow /\ attempt \in [AttemptIds -> AttemptRow] /\ ticked \subseteq rows
  BY <1>1, <1>4 DEF TypeOK, AttemptRow, RowsOn
<1> DEFINE s == [attempt[a] EXCEPT !.excluded = ticked, !.corrected = @ \/ ticked # attempt[a].excluded]
           r == [s EXCEPT !.stage = IF page[u].kind = "review" THEN "passed" ELSE @]
<1>6. WithExclusions(a, ticked) = [attempt EXCEPT ![a] = s]
  BY <1>1, <1>5 DEF WithExclusions
<1>7. /\ s \in AttemptRow /\ s.stage = attempt[a].stage
      /\ s.plate = attempt[a].plate /\ s.names = attempt[a].names
  BY <1>5 DEF AttemptRow
<1>8. ~ s.corrected => ~ attempt[a].corrected /\ s.excluded = attempt[a].excluded
  BY <1>5 DEF AttemptRow
<1> HIDE DEF s
<1>9. /\ r \in AttemptRow /\ r.stage \in EditableStages
      /\ r.corrected = s.corrected /\ r.excluded = s.excluded
      /\ r.plate = s.plate /\ r.names = s.names
  BY <1>3, <1>7 DEF AttemptRow, Stages, EditableStages
<1>10. attempt' = [attempt EXCEPT ![a] = r]
  <2>1. CASE page[u].kind = "review"
    BY <1>1, <1>4, <1>5, <1>6, <1>7, <2>1
  <2>2. CASE page[u].kind # "review"
    <3>1. r = s
      BY <1>7, <2>2 DEF AttemptRow
    <3> QED BY <1>4, <1>6, <2>2, <3>1
  <2> QED BY <2>1, <2>2
<1> HIDE DEF r
<1> QED BY <1>3, <1>7, <1>8, <1>9, <1>10

LEMMA CloseKeeps ==
    ASSUME CopiesInv, NEW u \in Users, page' = [page EXCEPT ![u] = None],
           UNCHANGED << layout, known, rows, attempt, spoiled, heard >>
    PROVE  CopiesInv'
<1> USE DEF CopiesInv
<1>1. Pages' /\ \A v \in Users : page'[v] # None => page'[v] = page[v]
  BY DEF Pages
<1>2. TypeOK' /\ PageShows'
  BY <1>1 DEF TypeOK, PageShows, Plates
<1>3. RowsOK'
  BY SameRows
<1> QED BY <1>1, <1>2, <1>3 DEF Numbered, Started, NothingYet, ExcludedAsNamed, RowsWith, RowsOn

LEMMA SubmitKeeps ==
    ASSUME CopiesInv, NEW u \in Users, SubmitPage(u)
    PROVE  CopiesInv'
<1> USE DEF CopiesInv
<1> DEFINE a == page[u].attempt
<1>1. /\ page' = [page EXCEPT ![u] = None] /\ a \in AttemptIds
      /\ UNCHANGED << layout, known, rows, spoiled, heard >>
  BY SubmitFacts
<1>2. CASE UNCHANGED attempt
  BY <1>1, <1>2, CloseKeeps
<1>3. CASE ~ UNCHANGED attempt
  <2>1. PICK r \in AttemptRow :
            /\ attempt[a].stage \in EditableStages /\ r.stage \in EditableStages
            /\ ~ r.corrected => ~ attempt[a].corrected /\ r.excluded = attempt[a].excluded
            /\ r.plate = attempt[a].plate /\ r.names = attempt[a].names
            /\ attempt' = [attempt EXCEPT ![a] = r]
    BY <1>3, SubmitFacts
  <2> HIDE DEF a
  <2>2. /\ attempt \in [AttemptIds -> AttemptRow] /\ AttemptRow' = AttemptRow
        /\ attempt' \in [AttemptIds -> AttemptRow]
    BY <1>1, <2>1 DEF TypeOK, AttemptRow, Plates
  <2>3. Pages' /\ RowsOK' /\ \A v \in Users : page'[v] # None => page'[v] = page[v]
    BY <1>1, SameRows DEF Pages
  <2>4. TypeOK'
    BY <1>1, <2>2, <2>3 DEF TypeOK, AttemptRow, Plates
  <2>5. Numbered'
    BY <1>1, <2>1, <2>2, SameNumbers DEF EditableStages
  <2>6. NothingYet'
    BY <1>1, <2>1, <2>2 DEF NothingYet, EditableStages
  <2>8. ExcludedAsNamed'
    <3> SUFFICES ASSUME NEW b \in AttemptIds, ~ attempt'[b].corrected
                 PROVE  attempt'[b].excluded = RowsWith(attempt'[b].plate, attempt'[b].names)
      BY <1>1 DEF ExcludedAsNamed, RowsWith, RowsOn
    <3>1. CASE b = a
      BY <1>1, <2>1, <2>2, <3>1 DEF ExcludedAsNamed
    <3>2. CASE b # a
      BY <1>1, <2>1, <2>2, <3>2 DEF ExcludedAsNamed
    <3> QED BY <3>1, <3>2
  <2>7. PageShows'
    <3> SUFFICES ASSUME NEW v \in Users, page'[v] # None
                 PROVE  LET b == page[v].attempt
                        IN  /\ attempt'[b].stage \in EditableStages \cup {"void"}
                            /\ (~ attempt'[b].corrected /\ attempt'[b].stage \in EditableStages) =>
                                   page[v].seen = attempt'[b].excluded
      BY <2>3 DEF PageShows
    <3>1. page[v] # None /\ page[v].attempt \in AttemptIds
      BY <2>3 DEF TypeOK
    <3> QED BY <1>1, <2>1, <2>2, <3>1 DEF PageShows
  <2> QED BY <2>3, <2>4, <2>5, <2>6, <2>7, <2>8
<1> QED BY <1>2, <1>3

-----------------------------------------------------------------------------
LEMMA StepInv == CopiesInv /\ [Next]_vars => CopiesInv'
<1> SUFFICES ASSUME CopiesInv, [Next]_vars PROVE CopiesInv'
  OBVIOUS
<1>1. ASSUME NEW plate \in Plates, StartAttempt(plate) PROVE CopiesInv'
  BY <1>1, StartKeeps
<1>2. ASSUME NEW a \in AttemptIds, ExcludeOnPrinter(a) PROVE CopiesInv'
  <2>1. PICK row \in RowsOn(attempt[a].plate) : \E o \in row.ids \ spoiled[a] :
            spoiled' = [spoiled EXCEPT ![a] = @ \cup {o}]
    BY <1>2, Zenon DEF ExcludeOnPrinter
  <2>2. row.ids \subseteq Objects
    <3>1. RowOK(row)
      BY DEF CopiesInv, RowsOK, RowsOn
    <3> QED BY <3>1, CopyIds DEF RowOK
  <2>3. UNCHANGED << layout, known, rows, attempt, heard, page >>
    BY <1>2, Zenon DEF ExcludeOnPrinter
  <2>4. spoiled' \in [AttemptIds -> SUBSET Objects] /\ heard' \in [AttemptIds -> SUBSET Objects]
    BY <2>1, <2>2, <2>3 DEF CopiesInv, TypeOK
  <2> QED BY <2>3, <2>4, PrinterKeeps
<1>3. ASSUME NEW a \in AttemptIds, Hear(a) PROVE CopiesInv'
  <2>1. spoiled' \in [AttemptIds -> SUBSET Objects] /\ heard' \in [AttemptIds -> SUBSET Objects]
    BY <1>3 DEF Hear, CopiesInv, TypeOK
  <2> QED BY <1>3, <2>1, PrinterKeeps DEF Hear
<1>4. ASSUME NEW a \in AttemptIds, RecordExcluded(a) PROVE CopiesInv'
  BY <1>4, RecordKeeps
<1>5. ASSUME NEW a \in AttemptIds, Finish(a) \/ Pass(a) \/ FailOrRemove(a) PROVE CopiesInv'
  BY <1>5, StageKeeps
<1>6. ASSUME NEW u \in Users, OpenPage(u) PROVE CopiesInv'
  BY <1>6, OpenKeeps
<1>7. ASSUME NEW u \in Users, SubmitPage(u) PROVE CopiesInv'
  BY <1>7, SubmitKeeps
<1>8. CASE UNCHANGED vars
  BY <1>8, PrinterKeeps DEF vars, CopiesInv, TypeOK
<1> QED BY <1>1, <1>2, <1>3, <1>4, <1>5, <1>6, <1>7, <1>8, Zenon DEF Next

(* Every reachable state has the types of TypeOK, for any bundle, layouts  *)
(* and pages: in particular an attempt is excluded only rows of its job,   *)
(* and there is a rank for every attempt that ends.                        *)
THEOREM CopiesTypes == Spec => []TypeOK
<1>1. CopiesInv => TypeOK
  BY DEF CopiesInv
<1> QED BY <1>1, InitInv, StepInv, PTL DEF Spec

-----------------------------------------------------------------------------
(* The only step that takes an exclusion away is a page that is sent.      *)
LEMMA TakenBack ==
    ASSUME CopiesInv, [Next]_vars, NEW a \in AttemptIds, ~ attempt[a].corrected,
           NEW row \in attempt[a].excluded \ attempt'[a].excluded
    PROVE  \E u \in Users :
               /\ page[u] # None /\ page'[u] = None
               /\ page[u].attempt = a /\ row \in page[u].seen
<1> USE DEF CopiesInv
<1>1. attempt \in [AttemptIds -> AttemptRow] /\ attempt[a] \in AttemptRow
  BY DEF TypeOK, AttemptRow
<1>2. ASSUME NEW plate \in Plates, StartAttempt(plate) PROVE FALSE
  <2> DEFINE n == Cardinality(Started) + 1
             r == [NoAttempt EXCEPT !.plate = plate, !.stage = "printing"]
  <2>1. n \in AttemptIds /\ attempt' = [attempt EXCEPT ![n] = r]
    BY <1>2 DEF StartAttempt, Started
  <2>2. attempt[n].excluded = {}
    BY <2>1, NextNumber DEF NoAttempt
  <2> HIDE DEF n, r
  <2> QED BY <1>1, <2>1, <2>2
<1>3. ASSUME NEW b \in AttemptIds, ExcludeOnPrinter(b) \/ Hear(b) PROVE FALSE
  <2>1. attempt' = attempt
    BY <1>3, Zenon DEF ExcludeOnPrinter, Hear
  <2> QED BY <2>1
<1>4. ASSUME NEW b \in AttemptIds, RecordExcluded(b) PROVE FALSE
  BY <1>1, <1>4 DEF RecordExcluded, AttemptRow
<1>5. ASSUME NEW b \in AttemptIds, Finish(b) \/ Pass(b) \/ FailOrRemove(b) PROVE FALSE
  BY <1>1, <1>5 DEF Finish, Pass, FailOrRemove, AttemptRow
<1>6. ASSUME NEW u \in Users, OpenPage(u) PROVE FALSE
  BY <1>6 DEF OpenPage
<1>7. ASSUME NEW u \in Users, SubmitPage(u)
      PROVE  page[u] # None /\ page'[u] = None /\ page[u].attempt = a /\ row \in page[u].seen
  <2>1. page[u] # None /\ page' = [page EXCEPT ![u] = None]
    BY <1>7, SubmitFacts
  <2>2. page'[u] = None
    BY <2>1 DEF Pages
  <2>3. page[u].attempt = a /\ attempt[a].stage \in EditableStages
    BY <1>1, <1>7, SubmitFacts
  <2>4. page[u].seen = attempt[a].excluded
    BY <2>1, <2>3 DEF PageShows
  <2> QED BY <2>1, <2>2, <2>3, <2>4
<1>8. CASE UNCHANGED vars
  BY <1>8 DEF vars
<1> QED BY <1>2, <1>3, <1>4, <1>5, <1>6, <1>7, <1>8, Zenon DEF Next

(* For any plates, attempts, pages and interleavings with the worker, the  *)
(* first correction of an attempt takes back an exclusion that the printer *)
(* reported only if its page showed it                                     *)
(* (PrintQueue.record_excluded_objects, set_excluded_plate_parts).         *)
THEOREM ExclusionsAlwaysSeen == Spec => ExclusionsAreSeen
<1> DEFINE Seen ==
        \A a \in AttemptIds : ~attempt[a].corrected =>
          \A row \in RowsWith(attempt[a].plate, attempt[a].names) \cap (attempt[a].excluded \ attempt'[a].excluded) :
              \E u \in Users :
                  /\ page[u] # None /\ page'[u] = None
                  /\ page[u].attempt = a /\ row \in page[u].seen
<1>1. CopiesInv /\ [Next]_vars => Seen
  BY TakenBack
<1> HIDE DEF Seen
<1>2. CopiesInv /\ [Next]_vars => [Seen]_vars
  BY <1>1
<1>3. Spec => [][Seen]_vars
  BY <1>2, InitInv, StepInv, PTL DEF Spec
<1> QED BY <1>3, Zenon DEF ExclusionsAreSeen, Seen

-----------------------------------------------------------------------------
RowsOfCopy(p, c) == {row \in rows : row.part = p /\ row.copy = c}
IdsIn(S) == UNION {row.ids : row \in S}

LEMMA CopiesAreFinite ==
    ASSUME NEW p \in Parts
    PROVE  IsFiniteSet(CopiesOf(p)) /\ Cardinality(CopiesOf(p)) = Bundle[p].quantity
<1> DEFINE n == Bundle[p].quantity
<1>1. n \in Nat
  BY PartsAre
<1> HIDE DEF n
<1>2. IsFiniteSet(1 .. n) /\ Cardinality(1 .. n) = n
  BY <1>1, FS_Interval
<1> QED BY <1>2 DEF CopiesOf, n

(* The rows of a copy list different objects, so that MeshesOf counts the  *)
(* objects they list.                                                      *)
LEMMA CopyRows ==
    ASSUME CopiesInv, NEW p \in Parts, NEW c \in CopiesOf(p), NEW S \in SUBSET RowsOfCopy(p, c)
    PROVE  /\ IsFiniteSet(IdsIn(S)) /\ IdsIn(S) \subseteq IdsOf(p, c)
           /\ MeshesOf(S) = Cardinality(IdsIn(S))
<1>1. \A row \in S : /\ row \in rows /\ row.part = p /\ row.copy = c
                     /\ row.ids # {} /\ row.ids \subseteq IdsOf(p, c)
                     /\ \A o \in row.ids : layout[o] = row.plate
  BY DEF RowsOfCopy, CopiesInv, RowsOK, RowOK
<1>2. \A row, other \in S : row # other => row.ids \cap other.ids = {}
  <2> SUFFICES ASSUME NEW row \in S, NEW other \in S, NEW o \in row.ids \cap other.ids
               PROVE  row = other
    OBVIOUS
  <2>1. row.plate = other.plate
    BY <1>1
  <2> QED BY <1>1, <2>1 DEF CopiesInv, RowsOK, OneRowEach
<1> DEFINE P == [row \in S |-> row.ids]
<1>3. IsFiniteSet(IdsOf(p, c))
  BY CopyIds
<1>4. \A row \in S : P[row] = row.ids /\ IsFiniteSet(P[row])
  BY <1>1, <1>3, FS_Subset
<1>5. P \in Injection(S, SUBSET IdsOf(p, c))
  <2>1. P \in [S -> SUBSET IdsOf(p, c)]
    BY <1>1
  <2>2. \A row, other \in S : P[row] = P[other] => row = other
    BY <1>1, <1>2
  <2> QED BY <2>1, <2>2 DEF Injection, IsInjective
<1>6. IsFiniteSet(S)
  BY <1>3, <1>5, FS_SUBSET, FS_Injection
<1>7. MeshesOf(S) = SumFunction([row \in S |-> Cardinality(P[row])])
  <2>1. [row \in S |-> Cardinality(P[row])] = [row \in S |-> Cardinality(row.ids)]
    BY <1>4
  <2> QED BY <2>1 DEF MeshesOf
<1>8. IdsIn(S) = UNION {P[row] : row \in S}
  BY <1>4 DEF IdsIn
<1>9. \A row, other \in S : row # other => P[row] \cap P[other] = {}
  BY <1>2, <1>4
<1> HIDE DEF P
<1>10. MeshesOf(S) = Cardinality(IdsIn(S))
  BY <1>4, <1>6, <1>7, <1>8, <1>9, SumOfCardinalities
<1>11. IdsIn(S) \subseteq IdsOf(p, c)
  BY <1>1 DEF IdsIn
<1> QED BY <1>3, <1>10, <1>11, FS_Subset

(* A copy that counts has all its objects on rows that count.              *)
LEMMA CompleteHasAll ==
    ASSUME CopiesInv, NEW p \in Parts, NEW c \in CompleteCopies(p)
    PROVE  c \in CopiesOf(p) /\ IdsIn(Counting(p, c)) = IdsOf(p, c)
<1>1. c \in CopiesOf(p) /\ MeshesOf(Counting(p, c)) >= Bundle[p].meshes
  BY DEF CompleteCopies
<1> DEFINE S == Counting(p, c)
<1>2. S \in SUBSET RowsOfCopy(p, c)
  BY DEF Counting, RowsOfCopy
<1> HIDE DEF S
<1>3. IdsIn(S) \subseteq IdsOf(p, c) /\ MeshesOf(S) = Cardinality(IdsIn(S)) /\ IsFiniteSet(IdsIn(S))
  BY <1>1, <1>2, CopyRows
<1>4. IsFiniteSet(IdsOf(p, c)) /\ Cardinality(IdsOf(p, c)) <= Bundle[p].meshes
  BY <1>1, CopyIds
<1>5. Cardinality(IdsIn(S)) \in Nat /\ Cardinality(IdsOf(p, c)) \in Nat /\ Bundle[p].meshes \in Nat
  BY <1>3, <1>4, FS_CardinalityType, PartsAre
<1>6. Cardinality(IdsIn(S)) <= Cardinality(IdsOf(p, c))
  BY <1>3, <1>4, FS_Subset
<1>7. Cardinality(IdsIn(S)) = Cardinality(IdsOf(p, c))
  BY <1>1, <1>3, <1>4, <1>5, <1>6 DEF S
<1>8. IdsIn(S) = IdsOf(p, c)
  BY <1>3, <1>4, <1>7, FS_Subset
<1> QED BY <1>1, <1>8 DEF S

LEMMA CompleteIsNotExcluded ==
    ASSUME CopiesInv, NEW p \in Parts, NEW c \in CompleteCopies(p)
    PROVE  c \notin ExcludedCopies(p)
<1> SUFFICES ASSUME c \in ExcludedCopies(p)
             PROVE  FALSE
  OBVIOUS
<1>1. PICK row \in rows : row.part = p /\ row.copy = c /\ IsExcluded(row)
  BY DEF ExcludedCopies
<1>2. RowOK(row)
  BY DEF CopiesInv, RowsOK
<1>3. PICK o \in row.ids : o \in IdsOf(p, c)
  BY <1>1, <1>2 DEF RowOK
<1>4. PICK other \in Counting(p, c) : o \in other.ids
  BY <1>3, CompleteHasAll DEF IdsIn
<1>5. other \in rows /\ other.part = p /\ other.copy = c /\ ~ IsExcluded(other)
  BY DEF Counting
<1>6. RowOK(other)
  BY <1>5 DEF CopiesInv, RowsOK
<1>7. row.plate = other.plate
  BY <1>2, <1>3, <1>4, <1>6 DEF RowOK
<1>8. row = other
  BY <1>1, <1>5, <1>7 DEF CopiesInv, RowsOK, OneRowEach
<1> QED BY <1>1, <1>5, <1>8

-----------------------------------------------------------------------------
(* Of some completed plates one was finished last.                         *)
LEMMA FinishedTimes ==
    ASSUME CopiesInv, NEW plate \in Completed
    PROVE  CompletedAt(plate) \in Nat /\ plate \in Nat /\ plate \in Plates
<1>1. plate \in Plates /\ Passed(plate) # {}
  BY DEF Completed
<1>2. plate \in Nat
  BY <1>1, PlatesAre DEF Plates, CopiesInv, TypeOK
<1> DEFINE a == CHOOSE a \in Passed(plate) : TRUE
<1>3. a \in Passed(plate)
  BY <1>1
<1>4. a \in AttemptIds
  BY <1>3 DEF Passed
<1> HIDE DEF a
<1>5. attempt[a].done \in 0 .. MaxAttempts
  BY <1>4 DEF CopiesInv, TypeOK
<1>6. attempt[a].done \in Nat
  BY <1>5
<1>7. CompletedAt(plate) = attempt[a].done
  BY DEF CompletedAt, a
<1> QED BY <1>1, <1>2, <1>6, <1>7

LEMMA OneIsLast ==
    ASSUME CopiesInv, NEW S \in SUBSET Completed, IsFiniteSet(S), S # {}
    PROVE  \E plate \in S : \A other \in S : other = plate \/ FinishedLater(plate, other)
<1> DEFINE Ends == {T \in SUBSET S : T # {} =>
                       \E plate \in T : \A other \in T : other = plate \/ FinishedLater(plate, other)}
<1>1. \A x \in S : CompletedAt(x) \in Nat /\ x \in Nat
  BY FinishedTimes
<1>2. \A x, y \in S : x # y => FinishedLater(x, y) \/ FinishedLater(y, x)
  BY <1>1 DEF FinishedLater
<1>3. \A x, y, z \in S : FinishedLater(x, y) /\ FinishedLater(y, z) => FinishedLater(x, z)
  BY <1>1 DEF FinishedLater
<1>4. ASSUME NEW T \in SUBSET S, \A x \in T : T \ {x} \in Ends
      PROVE  T \in Ends
  <2> SUFFICES ASSUME T # {}
               PROVE  \E plate \in T : \A other \in T : other = plate \/ FinishedLater(plate, other)
    OBVIOUS
  <2>1. PICK x \in T : TRUE
    OBVIOUS
  <2>2. CASE T = {x}
    BY <2>2
  <2>3. CASE T # {x}
    <3>1. PICK y \in T \ {x} : \A other \in T \ {x} : other = y \/ FinishedLater(y, other)
      BY <1>4, <2>1, <2>3
    <3>2. CASE FinishedLater(y, x)
      BY <3>1, <3>2
    <3>3. CASE FinishedLater(x, y)
      BY <1>3, <2>1, <3>1, <3>3
    <3> QED BY <1>2, <3>1, <3>2, <3>3
  <2> QED BY <2>2, <2>3
<1> HIDE DEF Ends
<1>5. S \in Ends
  BY <1>4, SubsetInduction
<1> QED BY <1>5 DEF Ends

LEMMA FinishedOnOnePlate ==
    ASSUME CopiesInv, NEW p \in Parts, NEW c, Counting(p, c) # {}
    PROVE  \E plate \in Completed : FinishedOn(p, c) = {plate}
<1> DEFINE S == {row.plate : row \in Counting(p, c)}
<1>1. S # {} /\ S \subseteq Completed
  BY DEF Counting
<1>2. IsFiniteSet(S)
  <2>1. S \subseteq Plates
    BY <1>1 DEF Completed
  <2>2. IsFiniteSet(Plates)
    BY PlatesAre DEF Plates, CopiesInv, TypeOK
  <2> HIDE DEF S
  <2> QED BY <2>1, <2>2, FS_Subset
<1>3. FinishedOn(p, c) = {plate \in S : \A other \in S : other = plate \/ FinishedLater(plate, other)}
  BY DEF FinishedOn
<1> HIDE DEF S
<1>4. PICK plate \in S : \A other \in S : other = plate \/ FinishedLater(plate, other)
  BY <1>1, <1>2, OneIsLast
<1>5. ASSUME NEW other \in S, other # plate, FinishedLater(other, plate)
      PROVE  FALSE
  <2>1. FinishedLater(plate, other)
    BY <1>4, <1>5
  <2>2. other \in Completed /\ plate \in Completed
    BY <1>1
  <2>3. CompletedAt(plate) \in Nat /\ plate \in Nat /\ CompletedAt(other) \in Nat /\ other \in Nat
    BY <2>2, FinishedTimes
  <2> QED BY <1>5, <2>1, <2>3 DEF FinishedLater
<1>6. FinishedOn(p, c) = {plate}
  BY <1>3, <1>4, <1>5
<1> QED BY <1>1, <1>6

(* The overview counts every complete copy on one plate.                   *)
LEMMA OverviewCounts ==
    ASSUME CopiesInv, NEW p \in Parts
    PROVE  OverviewTotal(p) = PrintedInJob(p)
<1>1. CASE HasLegacyCount
  BY <1>1 DEF OverviewTotal
<1>2. CASE ~ HasLegacyCount
  <2> DEFINE P == [plate \in Completed |->
                      {c \in CompleteCopies(p) \ ExcludedCopies(p) : plate \in FinishedOn(p, c)}]
  <2>1. IsFiniteSet(Completed)
    <3>1. IsFiniteSet(Plates)
      BY PlatesAre DEF Plates, CopiesInv, TypeOK
    <3> QED BY <3>1, FS_Subset DEF Completed
  <2>2. CompleteCopies(p) \ ExcludedCopies(p) = CompleteCopies(p)
    BY CompleteIsNotExcluded
  <2>3. \A plate \in Completed : P[plate] = {c \in CompleteCopies(p) : plate \in FinishedOn(p, c)}
    BY <2>2
  <2>4. IsFiniteSet(CompleteCopies(p))
    <3>1. IsFiniteSet(CopiesOf(p))
      BY CopiesAreFinite
    <3> QED BY <3>1, FS_Subset DEF CompleteCopies
  <2>5. \A plate \in Completed : IsFiniteSet(P[plate])
    <3>1. \A plate \in Completed : P[plate] \in SUBSET CompleteCopies(p)
      BY <2>3
    <3> HIDE DEF P
    <3> QED BY <2>4, <3>1, FS_Subset
  <2>6. \A c \in CompleteCopies(p) : \E plate \in Completed : FinishedOn(p, c) = {plate}
    <3> SUFFICES ASSUME NEW c \in CompleteCopies(p)
                 PROVE  \E plate \in Completed : FinishedOn(p, c) = {plate}
      OBVIOUS
    <3>1. c \in CopiesOf(p) /\ IdsIn(Counting(p, c)) = IdsOf(p, c)
      BY CompleteHasAll
    <3>2. IdsOf(p, c) # {}
      <4>1. 1 \in 1 .. Bundle[p].meshes
        BY PartsAre
      <4> QED BY <3>1, <4>1, CopyIds
    <3>3. Counting(p, c) # {}
      BY <3>1, <3>2 DEF IdsIn
    <3> QED BY <3>3, FinishedOnOnePlate
  <2>7. \A x, y \in Completed : x # y => P[x] \cap P[y] = {}
    BY <2>3, <2>6
  <2>8. UNION {P[plate] : plate \in Completed} = CompleteCopies(p)
    <3>1. \A c \in CompleteCopies(p) : \E plate \in Completed : c \in P[plate]
      BY <2>3, <2>6
    <3> QED BY <2>3, <3>1
  <2>9. OverviewTotal(p) = SumFunction([plate \in Completed |-> Cardinality(P[plate])])
    <3>1. [plate \in Completed |-> OverviewCopies(p, plate)] = [plate \in Completed |-> Cardinality(P[plate])]
      BY DEF OverviewCopies
    <3> QED BY <1>2, <3>1 DEF OverviewTotal
  <2> HIDE DEF P
  <2>10. OverviewTotal(p) = Cardinality(CompleteCopies(p))
    BY <2>1, <2>5, <2>7, <2>8, <2>9, SumOfCardinalities
  <2> QED BY <1>2, <2>10 DEF PrintedInJob
<1> QED BY <1>1, <1>2

(* For any bundle, layout, exclusions and order of the attempts, the       *)
(* overview of the printed plates adds up to the number of printed copies  *)
(* (Part.printed_plates and Part._printed_in_job).                         *)
THEOREM OverviewAlwaysAddsUp == Spec => []OverviewAddsUp
<1>1. CopiesInv => OverviewAddsUp
  BY OverviewCounts DEF OverviewAddsUp
<1> QED BY <1>1, InitInv, StepInv, PTL DEF Spec

-----------------------------------------------------------------------------
(* Every attempt that passed excludes just the rows of what the printer    *)
(* has left out.                                                           *)
Trusted == \A a \in AttemptIds : attempt[a].stage = "passed" => IsTrusted(a)

LEMMA TrustedExcludes ==
    ASSUME CopiesInv, Trusted, NEW a \in AttemptIds, attempt[a].stage = "passed"
    PROVE  attempt[a].excluded = RowsWith(attempt[a].plate, spoiled[a])
<1>1. attempt[a].names = spoiled[a] /\ ~ attempt[a].corrected
  BY DEF Trusted, IsTrusted
<1> QED BY <1>1 DEF CopiesInv, ExcludedAsNamed

(* A job whose rows are known has some.                                    *)
LEMMA KnownIsCounted ==
    ASSUME CopiesInv, known
    PROVE  ~ HasLegacyCount
<1>1. Plates # {}
  BY PlatesAre DEF CopiesInv, TypeOK, Plates
<1>2. PICK o \in Objects : layout[o] # 0
  BY <1>1 DEF Plates, PlatesOf
<1>3. rows # {}
  BY <1>2 DEF CopiesInv, RowsOK, EveryObjectListed
<1> QED BY <1>3 DEF HasLegacyCount

(* The objects of a copy that counts came out well.                        *)
LEMMA CompleteIsGood ==
    ASSUME CopiesInv, Trusted, NEW p \in Parts, NEW k \in 1 .. Bundle[p].meshes, NEW c \in CompleteCopies(p)
    PROVE  Number(p, k, c) \in Good(p, k)
<1> DEFINE o == Number(p, k, c)
<1>1. c \in CopiesOf(p) /\ IdsIn(Counting(p, c)) = IdsOf(p, c)
  BY CompleteHasAll
<1>2. o \in Objects /\ Written[o] = [part |-> p, mesh |-> k]
  BY <1>1, Numbering, Zenon
<1>3. o \in IdsOf(p, c)
  BY <1>1, CopyIds
<1> HIDE DEF o
<1>4. PICK row \in Counting(p, c) : o \in row.ids
  BY <1>1, <1>3 DEF IdsIn
<1>5. row \in rows /\ row.plate \in Completed /\ ~ IsExcluded(row)
  BY DEF Counting
<1>6. layout[o] = row.plate
  BY <1>4, <1>5 DEF CopiesInv, RowsOK, RowOK
<1>7. PICK a \in AttemptIds : attempt[a].plate = row.plate /\ attempt[a].stage = "passed"
  BY <1>5 DEF Completed, Passed
<1>8. row \notin RowsWith(attempt[a].plate, spoiled[a])
  BY <1>5, <1>7, TrustedExcludes DEF IsExcluded
<1>9. o \notin spoiled[a]
  BY <1>4, <1>5, <1>7, <1>8 DEF RowsWith, RowsOn
<1> QED BY <1>2, <1>6, <1>7, <1>9 DEF Good, o

LEMMA NeverTooMany ==
    ASSUME CopiesInv, Trusted, NEW p \in Parts, NEW k \in 1 .. Bundle[p].meshes
    PROVE  Cardinality(CompleteCopies(p)) <= Cardinality(Good(p, k))
<1> DEFINE f == [c \in CompleteCopies(p) |-> Number(p, k, c)]
<1>1. f \in [CompleteCopies(p) -> Good(p, k)]
  BY CompleteIsGood
<1>2. ASSUME NEW c \in CompleteCopies(p), NEW d \in CompleteCopies(p), f[c] = f[d]
      PROVE  c = d
  <2>1. c \in CopiesOf(p) /\ d \in CopiesOf(p) /\ Number(p, k, c) = Number(p, k, d)
    BY <1>2 DEF CompleteCopies
  <2>2. Number(p, k, c) \in IdsOf(p, c) /\ Number(p, k, d) \in IdsOf(p, d)
    BY <2>1, CopyIds
  <2> QED BY <2>1, <2>2, OneCopyPerObject
<1>3. f \in Injection(CompleteCopies(p), Good(p, k))
  BY <1>1, <1>2 DEF Injection, IsInjective
<1>4. IsFiniteSet(Good(p, k))
  BY Numbering, FS_Subset DEF Good
<1> QED BY <1>3, <1>4, FS_Injection

-----------------------------------------------------------------------------
(* A copy that lies on plates that have passed and does not count has an   *)
(* object that was left out.                                               *)
LEMMA MissingIsSpoiled ==
    ASSUME CopiesInv, Trusted, Completed = Plates, NEW p \in Parts, NEW c \in CopiesOf(p),
           c \notin CompleteCopies(p), ~ (MeshesOf(RowsOfCopy(p, c)) < Bundle[p].meshes)
    PROVE  \E o \in SpoiledOf(p) : o \in IdsOf(p, c)
<1>1. MeshesOf(RowsOfCopy(p, c)) \in Nat /\ Bundle[p].meshes \in Nat
  <2>1. IsFiniteSet(IdsIn(RowsOfCopy(p, c))) /\ MeshesOf(RowsOfCopy(p, c)) = Cardinality(IdsIn(RowsOfCopy(p, c)))
    BY CopyRows
  <2> QED BY <2>1, FS_CardinalityType, PartsAre
<1>2. Counting(p, c) # RowsOfCopy(p, c)
  BY <1>1 DEF CompleteCopies
<1>3. PICK row \in RowsOfCopy(p, c) : row \notin Counting(p, c)
  BY <1>2 DEF Counting, RowsOfCopy
<1>4. row \in rows /\ row.part = p /\ row.copy = c /\ row.plate \in Plates /\ row.ids \subseteq IdsOf(p, c)
  BY DEF RowsOfCopy, CopiesInv, RowsOK, RowOK
<1>5. PICK a \in AttemptIds : attempt[a].stage = "passed" /\ row \in attempt[a].excluded
  BY <1>3, <1>4 DEF Counting, IsExcluded
<1>6. PICK o \in row.ids : o \in spoiled[a]
  BY <1>5, TrustedExcludes DEF RowsWith
<1>7. o \in IdsOf(p, c) /\ o \in Objects /\ Written[o].part = p
  BY <1>4, CopyIds
<1>8. o \in SpoiledOf(p)
  BY <1>5, <1>6, <1>7 DEF SpoiledOf
<1> QED BY <1>7, <1>8

LEMMA NeverTooFew ==
    ASSUME CopiesInv, known, Trusted, Completed = Plates, NEW p \in Parts
    PROVE  Cardinality(CompleteCopies(p)) >=
               Bundle[p].quantity - UnplacedCopies(p) - Cardinality(SpoiledOf(p))
<1> DEFINE Unplaced == {c \in CopiesOf(p) : MeshesOf(RowsOfCopy(p, c)) < Bundle[p].meshes}
           Missing == CopiesOf(p) \ (CompleteCopies(p) \cup Unplaced)
           f == [c \in Missing |-> CHOOSE o \in SpoiledOf(p) : o \in IdsOf(p, c)]
<1>1. UnplacedCopies(p) = Cardinality(Unplaced)
  BY KnownIsCounted DEF UnplacedCopies, RowsOfCopy
<1>2. CompleteCopies(p) \subseteq CopiesOf(p) /\ Unplaced \subseteq CopiesOf(p) /\ Missing \subseteq CopiesOf(p)
  BY DEF CompleteCopies
<1>3. \A c \in Missing : \E o \in SpoiledOf(p) : o \in IdsOf(p, c)
  BY MissingIsSpoiled
<1> HIDE DEF Unplaced
<1>4. \A c \in Missing : f[c] \in SpoiledOf(p) /\ f[c] \in IdsOf(p, c)
  BY <1>3
<1>5. f \in [Missing -> SpoiledOf(p)]
  BY <1>4
<1>6. CopiesOf(p) = (CompleteCopies(p) \cup Unplaced) \cup Missing
  BY <1>2
<1> HIDE DEF Missing, f
<1>7. \A c, d \in Missing : f[c] = f[d] => c = d
  BY <1>2, <1>4, OneCopyPerObject
<1>8. f \in Injection(Missing, SpoiledOf(p))
  BY <1>5, <1>7 DEF Injection, IsInjective
<1>9. IsFiniteSet(SpoiledOf(p))
  BY Numbering, FS_Subset DEF SpoiledOf
<1>10. Cardinality(Missing) <= Cardinality(SpoiledOf(p))
  BY <1>8, <1>9, FS_Injection
<1>11. IsFiniteSet(CompleteCopies(p)) /\ IsFiniteSet(Unplaced) /\ IsFiniteSet(Missing)
  BY <1>2, CopiesAreFinite, FS_Subset
<1> DEFINE Others == CompleteCopies(p) \cup Unplaced
<1>12. IsFiniteSet(Others) /\ Cardinality(Others) <= Cardinality(CompleteCopies(p)) + Cardinality(Unplaced)
  <2>1. /\ IsFiniteSet(Others)
        /\ Cardinality(Others) = Cardinality(CompleteCopies(p)) + Cardinality(Unplaced)
                                     - Cardinality(CompleteCopies(p) \cap Unplaced)
    BY <1>11, FS_Union
  <2>2. IsFiniteSet(CompleteCopies(p) \cap Unplaced)
    BY <1>11, FS_Intersection
  <2> HIDE DEF Others
  <2> QED BY <1>11, <2>1, <2>2, FS_CardinalityType
<1> HIDE DEF Others
<1>13. Bundle[p].quantity <= Cardinality(Others) + Cardinality(Missing)
  <2>1. Cardinality(Others \cup Missing) = Cardinality(Others) + Cardinality(Missing) - Cardinality(Others \cap Missing)
    BY <1>11, <1>12, FS_Union
  <2>2. IsFiniteSet(Others \cap Missing)
    BY <1>12, FS_Intersection
  <2>3. Cardinality(Others \cup Missing) = Bundle[p].quantity
    BY <1>6, CopiesAreFinite DEF Others
  <2> QED BY <1>11, <1>12, <2>1, <2>2, <2>3, FS_CardinalityType
<1>14. /\ Cardinality(CompleteCopies(p)) \in Nat /\ Cardinality(Unplaced) \in Nat /\ Cardinality(Missing) \in Nat
       /\ Cardinality(Others) \in Nat /\ Cardinality(SpoiledOf(p)) \in Nat /\ Bundle[p].quantity \in Nat
  BY <1>9, <1>11, <1>12, FS_CardinalityType, PartsAre
<1> QED BY <1>1, <1>10, <1>12, <1>13, <1>14

(* For any bundle, layout, plates and attempts: when every exclusion has   *)
(* reached the application, no more copies count than there are good       *)
(* objects of every mesh, and once all plates have passed all copies count *)
(* but the unplaced ones and one for each object that was left out         *)
(* (Part._printed_in_job).                                                 *)
THEOREM CountAlwaysBacked == Spec => []CountIsBacked
<1>1. ASSUME CopiesInv PROVE CountIsBacked
  <2> SUFFICES ASSUME known, Trusted, NEW p \in Parts
               PROVE  /\ \A k \in 1 .. Bundle[p].meshes : PrintedInJob(p) <= Cardinality(Good(p, k))
                      /\ Completed = Plates =>
                             PrintedInJob(p) >= Bundle[p].quantity - UnplacedCopies(p) - Cardinality(SpoiledOf(p))
    BY DEF CountIsBacked, Trusted
  <2>1. PrintedInJob(p) = Cardinality(CompleteCopies(p))
    BY <1>1, KnownIsCounted DEF PrintedInJob
  <2> QED BY <1>1, <2>1, NeverTooMany, NeverTooFew
<1> QED BY <1>1, InitInv, StepInv, PTL DEF Spec
============================================================================
