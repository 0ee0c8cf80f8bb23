-------------------------- MODULE FrameDecoderProofs --------------------------
(***************************************************************************)
(* BufferOK and DecodesTheWire of FrameDecoder, for every base, prefix     *)
(* length, limit, set of payloads and way to cut the wire into chunks.     *)
(***************************************************************************)
EXTENDS FrameDecoder, SequenceTheorems, WellFoundedInduction, TLAPS

-------------------------------------------------------------------------------
(***************************************************************************)
(* Recursion, and FlattenSeq.  A function f[k \in 0 .. n] == ... is one     *)
(* that is chosen among those that satisfy the equation.  A loop written   *)
(* so has the value of any function found to satisfy it: there is one, and *)
(* only one.  Both are inductions, done here with sets of numbers.         *)
(***************************************************************************)

\* Induction over the naturals for a set of them, from their well-foundedness.
LEMMA SetInduction ==
    ASSUME NEW T, 0 \in T, \A n \in Nat : n \in T => n + 1 \in T
    PROVE  Nat \subseteq T
<1> SUFFICES ASSUME NEW m \in Nat, m \notin T
             PROVE  FALSE
  OBVIOUS
<1> DEFINE B == Nat \ T
<1>1. PICK b \in B : \A c \in B : <<c, b>> \notin OpToRel(<, Nat)
  BY NatLessThanWellFounded, WFMin, Zenon
<1>2. b - 1 \in Nat /\ b - 1 < b
  OBVIOUS
<1>3. <<b - 1, b>> \in OpToRel(<, Nat)
  BY <1>2, Zenon DEF OpToRel
<1>4. b - 1 \in T
  BY <1>1, <1>2, <1>3
<1> QED  BY <1>2, <1>4

\* The function that starts with a and goes on with the steps F over 0 .. n.
Defined(S, n, a, F) ==
    \E g \in [0 .. n -> S] :
        g[0] = a /\ \A i \in 1 .. n : g[i] = F[i][g[i - 1]]

\* A function may be defined by recursion over 0 .. n.
LEMMA Recursion ==
    ASSUME NEW S, NEW n \in Nat, NEW a \in S, NEW F \in [1 .. n -> [S -> S]]
    PROVE  Defined(S, n, a, F)
<1> DEFINE Upto(g, m) == g[0] = a /\ \A i \in 1 .. m : g[i] = F[i][g[i - 1]]
           T == {m \in Nat : m =< n => \E g \in [0 .. m -> S] : Upto(g, m)}
<1>1. 0 \in T
  <2>1. Upto([i \in 0 .. 0 |-> a], 0) /\ [i \in 0 .. 0 |-> a] \in [0 .. 0 -> S]
    OBVIOUS
  <2> QED  BY <2>1
<1>2. ASSUME NEW m \in Nat, m \in T
      PROVE  m + 1 \in T
  <2> SUFFICES ASSUME m + 1 =< n
               PROVE  \E g \in [0 .. m + 1 -> S] : Upto(g, m + 1)
    OBVIOUS
  <2>1. PICK g \in [0 .. m -> S] : Upto(g, m)
    BY <1>2
  <2> DEFINE h == [i \in 0 .. m + 1 |-> IF i = m + 1 THEN F[m + 1][g[m]] ELSE g[i]]
  <2>2. F[m + 1][g[m]] \in S
    BY <2>1
  <2>3. h \in [0 .. m + 1 -> S]
    BY <2>2
  <2>4. h[0] = a
    BY <2>1
  <2>5. ASSUME NEW i \in 1 .. m + 1
        PROVE  h[i] = F[i][h[i - 1]]
    <3>1. i - 1 \in 0 .. m /\ h[i - 1] = g[i - 1]
      OBVIOUS
    <3>2. CASE i = m + 1
      BY <3>1, <3>2
    <3>3. CASE i \in 1 .. m
      <4>1. h[i] = g[i]
        BY <3>3
      <4> QED  BY <2>1, <3>1, <3>3, <4>1
    <3> QED  BY <3>2, <3>3
  <2> HIDE DEF h
  <2> QED  BY <2>3, <2>4, <2>5
<1> HIDE DEF T
<1>3. n \in T
  BY <1>1, <1>2, SetInduction
<1> QED  BY <1>3 DEF T, Defined

\* Two functions have the same values over 0 .. n.
Agree(n, f, g) == \A i \in 0 .. n : f[i] = g[i]

\* And it is the only one.
LEMMA RecursionUnique ==
    ASSUME NEW n \in Nat, NEW f, NEW g, f[0] = g[0],
           \A i \in 1 .. n : f[i - 1] = g[i - 1] => f[i] = g[i]
    PROVE  Agree(n, f, g)
<1> DEFINE T == {i \in Nat : i =< n => f[i] = g[i]}
<1>1. 0 \in T
  OBVIOUS
<1>2. ASSUME NEW i \in Nat, i \in T
      PROVE  i + 1 \in T
  <2> SUFFICES ASSUME i + 1 =< n
               PROVE  f[i + 1] = g[i + 1]
    OBVIOUS
  <2>1. i + 1 \in 1 .. n /\ (i + 1) - 1 = i /\ f[i] = g[i]
    BY <1>2
  <2> QED  BY <2>1
<1> HIDE DEF T
<1>3. Nat \subseteq T
  BY <1>1, <1>2, SetInduction
<1> QED  BY <1>3 DEF T, Agree

\* Nothing to flatten.
LEMMA FlattenEmpty == FlattenSeq(<<>>) = <<>>
  BY DEF FlattenSeq

\* The recursion of FlattenSeq, from the empty sequence on.
Grows(seqs, g) ==
    g[0] = <<>> /\ \A i \in 1 .. Len(seqs) : g[i] = g[i - 1] \o seqs[i]

Flattened(S, seqs) ==
    \E g \in [0 .. Len(seqs) -> Seq(S)] :
        Grows(seqs, g) /\ FlattenSeq(seqs) = g[Len(seqs)]

\* The value of FlattenSeq is the last one of that recursion.
LEMMA FlattenDef ==
    ASSUME NEW S, NEW seqs \in Seq(Seq(S))
    PROVE  Flattened(S, seqs)
<1> USE DEF Flattened, Grows
<1> DEFINE n == Len(seqs)
<1>0. n \in Nat /\ \A i \in 1 .. n : seqs[i] \in Seq(S)
  OBVIOUS
<1> DEFINE F == [i \in 1 .. n |-> [x \in Seq(S) |-> x \o seqs[i]]]
<1>1. F \in [1 .. n -> [Seq(S) -> Seq(S)]]
  BY <1>0
<1>2. <<>> \in Seq(S)
  OBVIOUS
<1>3. \E g \in [0 .. n -> Seq(S)] :
          g[0] = <<>> /\ \A i \in 1 .. n : g[i] = F[i][g[i - 1]]
  <2> HIDE DEF F, n
  <2>1. Defined(Seq(S), n, <<>>, F)
    BY <1>0, <1>1, <1>2, Recursion
  <2> QED  BY <2>1 DEF Defined
<1>4. PICK g \in [0 .. n -> Seq(S)] :
          g[0] = <<>> /\ \A i \in 1 .. n : g[i] = F[i][g[i - 1]]
  BY <1>3
<1>5. \A i \in 1 .. n : g[i - 1] \in Seq(S) /\ g[i] = g[i - 1] \o seqs[i]
  <2> TAKE i \in 1 .. n
  <2>1. i - 1 \in 0 .. n
    BY <1>0
  <2> QED  BY <1>4, <2>1
<1> HIDE DEF F
<1>6. CASE n = 0
  BY <1>4, <1>5, <1>6, FlattenEmpty
<1>7. CASE n # 0
  <2> DEFINE h == [i \in 1 .. n |-> g[i]]
             R(f) == f = [i \in 1 .. n |->
                            IF i = 1 THEN seqs[i] ELSE f[i - 1] \o seqs[i]]
             c == CHOOSE f : R(f)
  <2>1. ASSUME NEW i \in 1 .. n
        PROVE  h[i] = IF i = 1 THEN seqs[i] ELSE h[i - 1] \o seqs[i]
    <3>1. CASE i = 1
      <4>0. 1 \in 1 .. n /\ 1 - 1 = 0
        BY <3>1
      <4>1. g[1] = <<>> \o seqs[1] /\ seqs[1] \in Seq(S)
        BY <1>4, <1>5, <4>0, <1>0
      <4>2. g[1] = seqs[1]
        BY <4>1
      <4> QED  BY <4>2, <3>1
    <3>2. CASE i # 1
      <4>1. i - 1 \in 1 .. n
        BY <3>2, <1>0
      <4> QED  BY <1>5, <3>2, <4>1
    <3> QED  BY <3>1, <3>2
  <2>2. R(h)
    BY <2>1
  <2>3. R(c)
    BY <2>2
  <2>4. FlattenSeq(seqs) = c[n]
    BY <1>7 DEF FlattenSeq
  <2> HIDE DEF c
  <2>5. c[1] = seqs[1] /\ \A i \in 2 .. n : c[i] = c[i - 1] \o seqs[i]
    <3>1. 1 \in 1 .. n /\ \A i \in 2 .. n : i \in 1 .. n /\ i # 1
      BY <1>0, <1>7
    <3> QED  BY <2>3, <3>1
  <2> DEFINE e == [i \in 0 .. n |-> IF i = 0 THEN <<>> ELSE c[i]]
  <2>6. \A i \in 1 .. n : e[i - 1] = g[i - 1] => e[i] = g[i]
    <3> TAKE i \in 1 .. n
    <3> HAVE e[i - 1] = g[i - 1]
    <3>1. CASE i = 1
      <4>1. 1 \in 1 .. n /\ 1 \in 0 .. n
        BY <3>1
      <4>2. e[1] = c[1] /\ c[1] = seqs[1]
        BY <2>5, <4>1
      <4>3. h[1] = g[1] /\ h[1] = seqs[1]
        BY <2>1, <4>1
      <4> QED  BY <4>2, <4>3, <3>1
    <3>2. CASE i # 1
      <4>1. i \in 2 .. n /\ i - 1 \in 0 .. n /\ i - 1 # 0
        BY <3>2, <1>0
      <4>2. e[i] = c[i] /\ e[i - 1] = c[i - 1]
        BY <4>1
      <4> QED  BY <2>5, <1>5, <4>1, <4>2
    <3> QED  BY <3>1, <3>2
  <2>7. e[0] = g[0]
    BY <1>4
  <2>8. \A i \in 0 .. n : e[i] = g[i]
    <3> HIDE DEF e
    <3> QED  BY <1>0, <2>6, <2>7, RecursionUnique DEF Agree
  <2>9. c[n] = g[n]
    BY <2>8, <1>0, <1>7
  <2> QED  BY <1>4, <1>5, <2>4, <2>9
<1> QED  BY <1>6, <1>7

\* Whatever function does what FlattenSeq does has its value.
LEMMA FlattenIs ==
    ASSUME NEW S, NEW seqs \in Seq(Seq(S)), NEW h, Grows(seqs, h)
    PROVE  FlattenSeq(seqs) = h[Len(seqs)]
<1> DEFINE n == Len(seqs)
<1>1. n \in Nat
  OBVIOUS
<1>2. PICK g \in [0 .. n -> Seq(S)] :
          Grows(seqs, g) /\ FlattenSeq(seqs) = g[n]
  BY FlattenDef DEF Flattened
<1>3. \A i \in 1 .. n : g[i - 1] = h[i - 1] => g[i] = h[i]
  BY <1>2 DEF Grows
<1>4. g[0] = h[0]
  BY <1>2 DEF Grows
<1> HIDE DEF n
<1>5. Agree(n, g, h)
  BY <1>1, <1>3, <1>4, RecursionUnique
<1>6. g[n] = h[n]
  BY <1>1, <1>5 DEF Agree
<1> QED  BY <1>2, <1>6 DEF n

\* Flattening yields a sequence over the same elements.
LEMMA FlattenType ==
    ASSUME NEW S, NEW seqs \in Seq(Seq(S))
    PROVE  FlattenSeq(seqs) \in Seq(S)
<1>1. PICK g \in [0 .. Len(seqs) -> Seq(S)] : FlattenSeq(seqs) = g[Len(seqs)]
  BY FlattenDef DEF Flattened
<1>2. Len(seqs) \in 0 .. Len(seqs)
  OBVIOUS
<1> QED  BY <1>1, <1>2

\* Flattening one sequence more.
LEMMA FlattenAppend ==
    ASSUME NEW S, NEW seqs \in Seq(Seq(S)), NEW s \in Seq(S)
    PROVE  FlattenSeq(Append(seqs, s)) = FlattenSeq(seqs) \o s
<1> DEFINE n == Len(seqs)
           more == Append(seqs, s)
<1>1. /\ n \in Nat /\ Len(more) = n + 1 /\ more[n + 1] = s
      /\ more \in Seq(Seq(S))
      /\ \A i \in 1 .. n : more[i] = seqs[i]
  OBVIOUS
<1>2. PICK g \in [0 .. n -> Seq(S)] :
          Grows(seqs, g) /\ FlattenSeq(seqs) = g[n]
  BY FlattenDef DEF Flattened
<1>3. g[0] = <<>> /\ \A i \in 1 .. n : g[i] = g[i - 1] \o seqs[i]
  BY <1>2 DEF Grows
<1> HIDE DEF more, n
<1> DEFINE h == [i \in 0 .. n + 1 |-> IF i = n + 1 THEN g[n] \o s ELSE g[i]]
<1>4. h[0] = <<>>
  BY <1>1, <1>3
<1>5. ASSUME NEW i \in 1 .. n + 1
      PROVE  h[i] = h[i - 1] \o more[i]
  <2>1. i - 1 \in 0 .. n + 1 /\ i - 1 # n + 1 /\ i \in 0 .. n + 1
    BY <1>1
  <2>2. h[i - 1] = g[i - 1]
    BY <2>1
  <2>3. CASE i = n + 1
    <3>1. i - 1 = n /\ h[i] = g[n] \o s
      BY <2>1, <2>3, <1>1
    <3> QED  BY <2>2, <2>3, <3>1, <1>1
  <2>4. CASE i # n + 1
    <3>1. i \in 1 .. n
      BY <2>4, <1>1
    <3>2. h[i] = g[i]
      BY <2>1, <2>4
    <3> QED  BY <2>2, <3>1, <3>2, <1>1, <1>3
  <2> QED  BY <2>3, <2>4
<1>6. h[n + 1] = g[n] \o s
  BY <1>1
<1> HIDE DEF h
<1>7. Grows(more, h)
  BY <1>1, <1>4, <1>5 DEF Grows
<1>8. FlattenSeq(more) = h[n + 1]
  BY <1>1, <1>7, FlattenIs
<1> QED  BY <1>2, <1>6, <1>8 DEF more

\* Flattening one sequence less.
LEMMA FlattenTail ==
    ASSUME NEW S, NEW seqs \in Seq(Seq(S)), seqs # <<>>
    PROVE  FlattenSeq(seqs) = seqs[1] \o FlattenSeq(Tail(seqs))
<1> DEFINE n == Len(seqs)
           c == seqs[1]
           rest == Tail(seqs)
<1>1. n \in Nat \ {0} /\ c \in Seq(S) /\ rest \in Seq(Seq(S)) /\ Len(rest) = n - 1
  OBVIOUS
<1>2. \A i \in 2 .. n : rest[i - 1] = seqs[i] /\ seqs[i] \in Seq(S)
  OBVIOUS
<1> HIDE DEF n, rest
<1>3. PICK g \in [0 .. Len(rest) -> Seq(S)] :
          Grows(rest, g) /\ FlattenSeq(rest) = g[Len(rest)]
  BY <1>1, FlattenDef DEF Flattened
<1>4. /\ g \in [0 .. n - 1 -> Seq(S)] /\ g[0] = <<>>
      /\ \A i \in 1 .. n - 1 : g[i] = g[i - 1] \o rest[i]
      /\ FlattenSeq(rest) = g[n - 1]
  BY <1>1, <1>3 DEF Grows
<1> HIDE DEF c
<1> DEFINE h == [i \in 0 .. n |-> IF i = 0 THEN <<>> ELSE c \o g[i - 1]]
<1>5. h[0] = <<>>
  BY <1>1
<1>6. ASSUME NEW i \in 1 .. n
      PROVE  h[i] = c \o g[i - 1]
  <2>1. i \in 0 .. n /\ i # 0
    BY <1>1
  <2> QED  BY <2>1
<1> HIDE DEF h
<1>7. h[1] = h[0] \o c
  <2>1. c \o <<>> = c /\ <<>> \o c = c
    BY <1>1, ConcatEmptySeq
  <2>2. 1 \in 1 .. n /\ 1 - 1 = 0
    BY <1>1
  <2>3. h[1] = c \o g[0]
    BY <1>6, <2>2
  <2> QED  BY <1>4, <1>5, <2>1, <2>3
<1>8. ASSUME NEW i \in 2 .. n
      PROVE  h[i] = h[i - 1] \o seqs[i]
  <2>1. /\ i \in 1 .. n /\ i - 1 \in 1 .. n - 1 /\ i - 1 \in 1 .. n
        /\ (i - 1) - 1 \in 0 .. n - 1
    BY <1>1
  <2> DEFINE u == g[(i - 1) - 1]
             v == seqs[i]
  <2>2. h[i] = c \o g[i - 1] /\ h[i - 1] = c \o u
    BY <1>6, <2>1
  <2>3. g[i - 1] = u \o seqs[i]
    BY <1>2, <1>4, <2>1
  <2>4. c \in Seq(S) /\ u \in Seq(S) /\ v \in Seq(S)
    BY <1>1, <1>2, <1>4, <2>1
  <2> HIDE DEF u, v
  <2>5. (c \o u) \o v = c \o (u \o v)
    BY <2>4, SMTT(60)
  <2> QED  BY <2>2, <2>3, <2>5 DEF v
<1>9. Grows(seqs, h)
  <2> SUFFICES ASSUME NEW i \in 1 .. n
               PROVE  h[i] = h[i - 1] \o seqs[i]
    BY <1>5 DEF Grows, n
  <2>1. CASE i = 1
    <3>1. 1 - 1 = 0
      OBVIOUS
    <3> QED  BY <1>7, <2>1, <3>1 DEF c
  <2>2. CASE i # 1
    <3>1. i \in 2 .. n
      BY <2>2, <1>1
    <3> QED  BY <1>8, <3>1
  <2> QED  BY <2>1, <2>2
<1>10. FlattenSeq(seqs) = h[n]
  BY <1>9, FlattenIs DEF n
<1>11. h[n] = c \o g[n - 1]
  BY <1>1, <1>6
<1> QED  BY <1>4, <1>10, <1>11 DEF c, rest

-------------------------------------------------------------------------------
(***************************************************************************)
(* Pieces of a sequence: Cut(w, i, j) lies between the borders i and j.    *)
(***************************************************************************)

\* The elements of w after the first i, up to the j-th.
Cut(w, i, j) == SubSeq(w, i + 1, j)

\* c is made of the elements of w from the (i + 1)-th to the j-th.
Piece(S, w, i, j, c) ==
    /\ c \in Seq(S) /\ Len(c) = j - i
    /\ \A k \in 1 .. j - i : c[k] = w[i + k]

\* A piece has the length and the elements that its borders say.
LEMMA CutShape ==
    ASSUME NEW S, NEW w \in Seq(S), NEW i \in Nat, NEW j \in Nat,
           i =< j, j =< Len(w)
    PROVE  Piece(S, w, i, j, Cut(w, i, j))
<1>1. i + 1 \in Nat /\ i + 1 \in 1 .. Len(w) + 1 /\ j \in i .. Len(w)
  OBVIOUS
<1>2. SubSeq(w, i + 1, j) \in Seq(S)
  BY <1>1, SubSeqProperties
<1>3. Len(SubSeq(w, i + 1, j)) = j - i
  BY <1>1
<1>4. \A k \in 1 .. j - i : SubSeq(w, i + 1, j)[k] = w[i + k]
  BY <1>1
<1> QED  BY <1>2, <1>3, <1>4 DEF Cut, Piece

Joined(w, i, j, k) == Cut(w, i, j) \o Cut(w, j, k) = Cut(w, i, k)

\* Two adjacent pieces are one.
LEMMA CutJoin ==
    ASSUME NEW S, NEW w \in Seq(S), NEW i \in Nat, NEW j \in Nat, NEW k \in Nat,
           i =< j, j =< k, k =< Len(w)
    PROVE  Joined(w, i, j, k)
<1> DEFINE a == Cut(w, i, j)
           b == Cut(w, j, k)
           c == Cut(w, i, k)
<1>0. Len(w) \in Nat /\ j =< Len(w) /\ i =< k
  BY LenProperties
<1> HIDE DEF a, b, c
<1>1. Piece(S, w, i, j, a) /\ Piece(S, w, j, k, b) /\ Piece(S, w, i, k, c)
  BY <1>0, CutShape DEF a, b, c
<1>2. /\ a \in Seq(S) /\ Len(a) = j - i
      /\ b \in Seq(S) /\ Len(b) = k - j
      /\ \A m \in 1 .. j - i : a[m] = w[i + m]
      /\ \A m \in 1 .. k - j : b[m] = w[j + m]
  BY <1>1 DEF Piece
<1>3. /\ c \in Seq(S) /\ Len(c) = k - i
      /\ \A m \in 1 .. k - i : c[m] = w[i + m]
  BY <1>1 DEF Piece
<1>4. /\ a \o b \in Seq(S) /\ Len(a \o b) = k - i
      /\ \A m \in 1 .. k - i :
             (a \o b)[m] = IF m =< j - i THEN a[m] ELSE b[m - (j - i)]
  <2>1. /\ a \o b \in Seq(S)
        /\ Len(a \o b) = Len(a) + Len(b)
        /\ \A m \in 1 .. Len(a) + Len(b) :
               (a \o b)[m] = IF m =< Len(a) THEN a[m] ELSE b[m - Len(a)]
    BY <1>2, ConcatProperties, Zenon
  <2>2. (j - i) + (k - j) = k - i
    OBVIOUS
  <2> QED  BY <1>2, <2>1, <2>2
<1>5. ASSUME NEW m \in 1 .. k - i
      PROVE  (a \o b)[m] = c[m]
  <2>1. CASE m =< j - i
    <3>1. m \in 1 .. j - i
      BY <2>1
    <3> QED  BY <1>2, <1>3, <1>4, <2>1, <3>1
  <2>2. CASE ~(m =< j - i)
    <3>1. m - (j - i) \in 1 .. k - j /\ j + (m - (j - i)) = i + m
      BY <2>2
    <3>2. (a \o b)[m] = b[m - (j - i)]
      BY <1>4, <2>2
    <3>3. b[m - (j - i)] = w[j + (m - (j - i))]
      BY <1>2, <3>1
    <3> QED  BY <1>3, <3>1, <3>2, <3>3
  <2> QED  BY <2>1, <2>2
<1>6. a \o b = c
  BY <1>3, <1>4, <1>5, SeqEqual
<1> QED  BY <1>6 DEF a, b, c, Joined

CutTwice(w, i, j, a, b) == Cut(Cut(w, i, j), a, b) = Cut(w, i + a, i + b)

\* A piece of a piece.
LEMMA CutCut ==
    ASSUME NEW S, NEW w \in Seq(S), NEW i \in Nat, NEW j \in Nat,
           NEW a \in Nat, NEW b \in Nat,
           i =< j, j =< Len(w), a =< b, b =< j - i
    PROVE  CutTwice(w, i, j, a, b)
<1> DEFINE c == Cut(w, i, j)
           d == Cut(c, a, b)
           e == Cut(w, i + a, i + b)
<1>1. /\ c \in Seq(S) /\ Len(c) = j - i
      /\ \A m \in 1 .. j - i : c[m] = w[i + m]
  BY CutShape DEF Piece
<1> HIDE DEF c
<1>2. /\ d \in Seq(S) /\ Len(d) = b - a
      /\ \A m \in 1 .. b - a : d[m] = c[a + m]
  <2>1. b =< Len(c)
    BY <1>1
  <2> HIDE DEF d
  <2>2. Piece(S, c, a, b, d)
    BY <1>1, <2>1, CutShape, Zenon DEF d
  <2> QED  BY <2>2 DEF Piece
<1>3. i + a \in Nat /\ i + b \in Nat /\ i + a =< i + b /\ i + b =< Len(w)
  BY LenProperties
<1>4. /\ e \in Seq(S) /\ Len(e) = (i + b) - (i + a)
      /\ \A m \in 1 .. (i + b) - (i + a) : e[m] = w[(i + a) + m]
  <2> HIDE DEF e
  <2> QED  BY <1>3, CutShape DEF e, Piece
<1> HIDE DEF d, e
<1>5. ASSUME NEW m \in 1 .. b - a
      PROVE  d[m] = e[m]
  <2>1. a + m \in 1 .. j - i /\ m \in 1 .. (i + b) - (i + a)
    OBVIOUS
  <2>2. i + (a + m) = (i + a) + m
    OBVIOUS
  <2>3. d[m] = w[i + (a + m)]
    BY <1>1, <1>2, <2>1
  <2> QED  BY <1>4, <2>1, <2>2, <2>3
<1>6. d = e
  <2>1. Len(d) = Len(e)
    BY <1>2, <1>4
  <2> QED  BY <1>2, <1>4, <1>5, <2>1, SeqEqual
<1> QED  BY <1>6 DEF c, d, e, CutTwice

Parted(w, i, j, x, y) ==
    /\ i + Len(x) =< j
    /\ x = Cut(w, i, i + Len(x))
    /\ y = Cut(w, i + Len(x), j)

\* What two sequences together are a piece of, each is a piece of.
LEMMA CutSplit ==
    ASSUME NEW S, NEW w \in Seq(S), NEW i \in Nat, NEW j \in Nat,
           NEW x \in Seq(S), NEW y \in Seq(S),
           i =< j, j =< Len(w), x \o y = Cut(w, i, j)
    PROVE  Parted(w, i, j, x, y)
<1> DEFINE c == Cut(w, i, j)
           n == Len(x)
<1>1. /\ c \in Seq(S) /\ Len(c) = j - i
      /\ \A m \in 1 .. j - i : c[m] = w[i + m]
  BY CutShape DEF Piece
<1>2. /\ n \in Nat /\ Len(y) \in Nat /\ n + Len(y) = j - i
      /\ \A m \in 1 .. n : c[m] = x[m]
      /\ \A m \in 1 .. Len(y) : c[n + m] = y[m]
  <2>0. n \in Nat /\ Len(y) \in Nat /\ x \o y = c
    BY LenProperties
  <2> HIDE DEF c
  <2>1. n + Len(y) = Len(c)
    BY <2>0
  <2>2. \A m \in 1 .. n : c[m] = x[m]
    BY <2>0
  <2>3. ASSUME NEW m \in 1 .. Len(y)
        PROVE  c[n + m] = y[m]
    <3>1. n + m \in 1 .. n + Len(y) /\ n + m > n /\ (n + m) - n = m
      BY <2>0
    <3> QED  BY <2>0, <3>1
  <2> QED  BY <1>1, <2>0, <2>1, <2>2, <2>3
<1> HIDE DEF c, n
<1>3. i + n \in Nat /\ i + n =< j /\ i + n =< Len(w) /\ i =< i + n
  BY <1>2, LenProperties
<1> DEFINE d == Cut(w, i, i + n)
           e == Cut(w, i + n, j)
<1>4. /\ d \in Seq(S) /\ Len(d) = (i + n) - i
      /\ \A m \in 1 .. (i + n) - i : d[m] = w[i + m]
  <2> HIDE DEF d
  <2> QED  BY <1>3, CutShape DEF d, Piece
<1>5. /\ e \in Seq(S) /\ Len(e) = j - (i + n)
      /\ \A m \in 1 .. j - (i + n) : e[m] = w[(i + n) + m]
  <2> HIDE DEF e
  <2> QED  BY <1>3, CutShape DEF e, Piece
<1> HIDE DEF d, e
<1>6. x = d
  <2>1. Len(x) = Len(d)
    BY <1>2, <1>4 DEF n
  <2>2. ASSUME NEW m \in 1 .. n
        PROVE  x[m] = d[m]
    <3>1. m \in 1 .. j - i /\ m \in 1 .. (i + n) - i
      BY <1>2
    <3> QED  BY <1>1, <1>2, <1>4, <3>1
  <2> QED  BY <2>1, <2>2, <1>4, SeqEqual DEF n
<1>7. y = e
  <2>1. Len(y) = Len(e)
    BY <1>2, <1>5
  <2>2. ASSUME NEW m \in 1 .. Len(y)
        PROVE  y[m] = e[m]
    <3>1. n + m \in 1 .. j - i /\ m \in 1 .. j - (i + n)
      BY <1>2
    <3>2. i + (n + m) = (i + n) + m
      BY <1>2
    <3> QED  BY <1>1, <1>2, <1>5, <3>1, <3>2
  <2> QED  BY <2>1, <2>2, <1>5, SeqEqual
<1> QED  BY <1>3, <1>6, <1>7 DEF d, e, n, Parted

\* The whole is a piece.
LEMMA CutAll ==
    ASSUME NEW S, NEW w \in Seq(S)
    PROVE  Cut(w, 0, Len(w)) = w
  BY DEF Cut

\* A piece with one border is empty.
LEMMA CutNone ==
    ASSUME NEW S, NEW w \in Seq(S), NEW i \in Nat, i =< Len(w)
    PROVE  Cut(w, i, i) = <<>>
<1> DEFINE c == Cut(w, i, i)
<1>1. Piece(S, w, i, i, c)
  <2>1. i =< i
    OBVIOUS
  <2> HIDE DEF c
  <2> QED  BY <2>1, CutShape, Zenon DEF c
<1> HIDE DEF c
<1>2. c \in Seq(S) /\ Len(c) = 0
  BY <1>1 DEF Piece
<1>3. c = <<>>
  BY <1>2
<1> QED  BY <1>3 DEF c

\* A piece grows by the element behind it.
LEMMA CutMore ==
    ASSUME NEW S, NEW w \in Seq(S), NEW i \in Nat, NEW j \in Nat,
           i =< j, j < Len(w)
    PROVE  Append(Cut(w, i, j), w[j + 1]) = Cut(w, i, j + 1)
<1> DEFINE a == Cut(w, i, j)
           b == Cut(w, i, j + 1)
           e == w[j + 1]
           c == Append(a, e)
<1>0. /\ Len(w) \in Nat /\ j =< Len(w) /\ j + 1 \in Nat /\ i =< j + 1
      /\ j + 1 =< Len(w) /\ e \in S
  OBVIOUS
<1> HIDE DEF a, b, c, e
<1>1. Piece(S, w, i, j, a) /\ Piece(S, w, i, j + 1, b)
  BY <1>0, CutShape, Zenon DEF a, b
<1>2. /\ a \in Seq(S) /\ Len(a) = j - i /\ b \in Seq(S) /\ Len(b) = (j + 1) - i
      /\ \A k \in 1 .. j - i : a[k] = w[i + k]
      /\ \A k \in 1 .. (j + 1) - i : b[k] = w[i + k]
  BY <1>1 DEF Piece
<1>3. /\ c \in Seq(S) /\ Len(c) = Len(a) + 1
      /\ c[Len(a) + 1] = e /\ \A k \in 1 .. Len(a) : c[k] = a[k]
  BY <1>0, <1>2, AppendProperties DEF c
<1>4. ASSUME NEW k \in 1 .. Len(b)
      PROVE  c[k] = b[k]
  <2>1. b[k] = w[i + k]
    BY <1>2
  <2>2. CASE k = Len(a) + 1
    <3>1. i + k = j + 1
      BY <1>2, <2>2
    <3> QED  BY <1>3, <2>1, <2>2, <3>1 DEF e
  <2>3. CASE k # Len(a) + 1
    <3>1. k \in 1 .. j - i /\ k \in 1 .. Len(a)
      BY <1>2, <2>3
    <3> QED  BY <1>2, <1>3, <2>1, <3>1
  <2> QED  BY <2>2, <2>3
<1>5. c = b
  <2>1. Len(c) = Len(b)
    BY <1>2, <1>3
  <2> QED  BY <1>2, <1>3, <1>4, <2>1, SeqEqual
<1> QED  BY <1>5 DEF a, b, c, e

-------------------------------------------------------------------------------
(***************************************************************************)
(* Length prefixes: what setUint32 writes is what getUint32 reads.         *)
(***************************************************************************)

\* Quotient and remainder make up the number.
LEMMA Division ==
    ASSUME NEW n \in Nat, NEW w \in Nat \ {0}
    PROVE  /\ n \div w \in Nat /\ n % w \in 0 .. w - 1
           /\ n = w * (n \div w) + (n % w)
<1> DEFINE T == {m \in Nat : \E q \in Nat, r \in 0 .. w - 1 : m = w * q + r}
<1>1. 0 \in T
  <2>1. 0 = w * 0 + 0
    OBVIOUS
  <2> QED  BY <2>1
<1>2. ASSUME NEW m \in Nat, m \in T
      PROVE  m + 1 \in T
  <2>1. PICK q \in Nat, r \in 0 .. w - 1 : m = w * q + r
    BY <1>2
  <2>2. CASE r = w - 1
    <3>1. \E u \in Nat : u = q + 1
      OBVIOUS
    <3>2. PICK u \in Nat : u = q + 1
      BY <3>1
    <3>3. m + 1 = w * u + 0 /\ 0 \in 0 .. w - 1
      BY <2>1, <2>2, <3>2
    <3> QED  BY <3>3
  <2>3. CASE r # w - 1
    <3>1. m + 1 = w * q + (r + 1) /\ r + 1 \in 0 .. w - 1
      BY <2>1, <2>3
    <3> QED  BY <3>1
  <2> QED  BY <2>2, <2>3
<1> HIDE DEF T
<1>3. n \in T
  BY <1>1, <1>2, SetInduction
<1>4. PICK q \in Nat, r \in 0 .. w - 1 : n = w * q + r
  BY <1>3 DEF T
<1>5. n \div w = q /\ n % w = r
  BY <1>4
<1> QED  BY <1>4, <1>5

\* The digit at one place and the number before it make up the number up to it.
LEMMA DigitStep ==
    ASSUME NEW n \in Nat, NEW w \in Nat \ {0}, NEW b \in Nat \ {0}
    PROVE  (n \div (b * w)) * b + ((n \div w) % b) = n \div w
<1> DEFINE q == n \div w
           r == n % w
           p == q \div b
           d == q % b
<1>1. q \in Nat /\ r \in 0 .. w - 1 /\ n = w * q + r
  BY Division
<1>2. p \in Nat /\ d \in 0 .. b - 1 /\ q = b * p + d
  <2> HIDE DEF q
  <2> QED  BY <1>1, Division
<1> HIDE DEF q, r, p, d
<1>3. n \div (b * w) = p
  <2> DEFINE v == b * w
             s == w * d + r
  <2>1. v \in Nat \ {0}
    OBVIOUS
  <2>2. n = v * p + s
    <3>1. w * (b * p + d) = (b * w) * p + w * d
      BY <1>2
    <3> QED  BY <1>1, <1>2, <3>1
  <2>3. s \in 0 .. v - 1
    <3>1. w * d \in Nat /\ w * d =< w * (b - 1)
      BY <1>2
    <3>2. w * (b - 1) = b * w - w
      OBVIOUS
    <3> QED  BY <1>1, <3>1, <3>2
  <2> HIDE DEF v, s
  <2>4. n \div v = p
    BY <1>2, <2>1, <2>2, <2>3
  <2> QED  BY <2>4 DEF v
<1>4. p * b + d = q
  BY <1>1, <1>2
<1> QED  BY <1>3, <1>4 DEF q, p, d

\* The places of a prefix.
LEMMA WeightDef ==
    /\ Weight[0] = 1
    /\ \A k \in 1 .. PrefixBytes : Weight[k] = Base * Weight[k - 1]
    /\ \A k \in 0 .. PrefixBytes : Weight[k] \in Nat \ {0}
<1> DEFINE n == PrefixBytes
           P == Nat \ {0}
           F == [i \in 1 .. n |-> [x \in P |-> Base * x]]
<1>1. n \in Nat /\ F \in [1 .. n -> [P -> P]] /\ 1 \in P
  BY BytesAssumption
<1>2. Defined(P, n, 1, F)
  <2> HIDE DEF F, n, P
  <2> QED  BY <1>1, Recursion
<1>3. PICK g \in [0 .. n -> P] :
          g[0] = 1 /\ \A i \in 1 .. n : g[i] = F[i][g[i - 1]]
  BY <1>2 DEF Defined
<1>4. \A i \in 1 .. n : g[i] = Base * g[i - 1]
  <2> TAKE i \in 1 .. n
  <2>1. i - 1 \in 0 .. n
    BY <1>1
  <2> QED  BY <1>3, <2>1
<1> HIDE DEF F
<1> DEFINE R(f) == f = [k \in 0 .. n |-> IF k = 0 THEN 1 ELSE Base * f[k - 1]]
<1>5. R(g)
  <2>1. \A k \in 0 .. n : g[k] = IF k = 0 THEN 1 ELSE Base * g[k - 1]
    BY <1>1, <1>3, <1>4
  <2> QED  BY <2>1
<1>6. Weight = CHOOSE f : R(f)
  BY DEF Weight
<1>7. R(Weight)
  <2> HIDE DEF R
  <2> QED  BY <1>5, <1>6
<1>8. /\ Weight[0] = 1
      /\ \A k \in 1 .. n : Weight[k] = Base * Weight[k - 1]
  <2>1. 0 \in 0 .. n /\ \A k \in 1 .. n : k \in 0 .. n /\ k # 0
    BY <1>1
  <2> QED  BY <1>7, <2>1
<1>9. Agree(n, Weight, g)
  <2>1. Weight[0] = g[0]
    BY <1>3, <1>8
  <2>2. \A i \in 1 .. n : Weight[i - 1] = g[i - 1] => Weight[i] = g[i]
    BY <1>4, <1>8
  <2> HIDE DEF n
  <2> QED  BY <1>1, <2>1, <2>2, RecursionUnique
<1>10. \A k \in 0 .. n : Weight[k] \in P
  BY <1>3, <1>9 DEF Agree
<1> QED  BY <1>8, <1>10

\* Reading a prefix digit by digit.
LEMMA LengthDef ==
    ASSUME NEW prefix \in [1 .. PrefixBytes -> Byte], NEW h, h[0] = 0,
           \A i \in 1 .. PrefixBytes : h[i] = h[i - 1] * Base + prefix[i]
    PROVE  LengthIn(prefix) = h[PrefixBytes]
<1> DEFINE n == PrefixBytes
           F == [i \in 1 .. n |-> [x \in Nat |-> x * Base + prefix[i]]]
<1>1. n \in Nat /\ F \in [1 .. n -> [Nat -> Nat]]
  BY BytesAssumption DEF Byte
<1>2. Defined(Nat, n, 0, F)
  <2> HIDE DEF F, n
  <2> QED  BY <1>1, Recursion
<1>3. PICK g \in [0 .. n -> Nat] :
          g[0] = 0 /\ \A i \in 1 .. n : g[i] = F[i][g[i - 1]]
  BY <1>2 DEF Defined
<1>4. \A i \in 1 .. n : g[i] = g[i - 1] * Base + prefix[i]
  <2> TAKE i \in 1 .. n
  <2>1. i - 1 \in 0 .. n
    BY <1>1
  <2> QED  BY <1>3, <2>1
<1> HIDE DEF F
<1> DEFINE R(f) == f = [i \in 0 .. n |-> IF i = 0 THEN 0
                                         ELSE f[i - 1] * Base + prefix[i]]
           c == CHOOSE f : R(f)
<1>5. R(g)
  <2>1. \A k \in 0 .. n : g[k] = IF k = 0 THEN 0 ELSE g[k - 1] * Base + prefix[k]
    BY <1>1, <1>3, <1>4
  <2> QED  BY <2>1
<1>6. LengthIn(prefix) = c[n]
  BY DEF LengthIn
<1>7. R(c)
  <2> HIDE DEF R
  <2> QED  BY <1>5
<1> HIDE DEF c
<1>8. /\ c[0] = 0
      /\ \A k \in 1 .. n : c[k] = c[k - 1] * Base + prefix[k]
  <2>1. 0 \in 0 .. n /\ \A k \in 1 .. n : k \in 0 .. n /\ k # 0
    BY <1>1
  <2> QED  BY <1>7, <2>1
<1>9. Agree(n, c, h)
  <2>1. c[0] = h[0]
    BY <1>8
  <2>2. \A i \in 1 .. n : c[i - 1] = h[i - 1] => c[i] = h[i]
    BY <1>8
  <2> HIDE DEF n
  <2> QED  BY <1>1, <2>1, <2>2, RecursionUnique
<1>10. c[n] = h[n]
  BY <1>1, <1>9 DEF Agree
<1> QED  BY <1>6, <1>10

\* What setUint32 writes getUint32 reads.
LEMMA PrefixRoundTrip ==
    ASSUME NEW n \in Nat, n < Weight[PrefixBytes]
    PROVE  /\ PrefixOf(n) \in Seq(Byte) /\ Len(PrefixOf(n)) = PrefixBytes
           /\ LengthIn(PrefixOf(n)) = n
<1> DEFINE p == PrefixOf(n)
           h == [k \in 0 .. PrefixBytes |-> n \div Weight[PrefixBytes - k]]
<1>0. PrefixBytes \in Nat \ {0} /\ Base \in Nat \ {0, 1}
  BY BytesAssumption
<1>1. ASSUME NEW i \in 1 .. PrefixBytes
      PROVE  p[i] = (n \div Weight[PrefixBytes - i]) % Base /\ p[i] \in Byte
  <2>1. PrefixBytes - i \in 0 .. PrefixBytes
    BY <1>0
  <2>2. n \div Weight[PrefixBytes - i] \in Nat
    BY <2>1, WeightDef, Division
  <2> DEFINE q == n \div Weight[PrefixBytes - i]
  <2>3. p[i] = q % Base
    BY DEF PrefixOf
  <2> HIDE DEF q
  <2>4. q % Base \in 0 .. Base - 1
    BY <1>0, <2>2, Division DEF q
  <2> QED  BY <2>3, <2>4 DEF q, Byte
<1>2. p \in [1 .. PrefixBytes -> Byte]
  BY <1>1 DEF PrefixOf
<1>3. p \in Seq(Byte) /\ Len(p) = PrefixBytes
  BY <1>0, <1>2
<1>4. h[0] = 0
  <2>1. Weight[PrefixBytes] \in Nat \ {0}
    BY <1>0, WeightDef
  <2>2. n \div Weight[PrefixBytes] = 0
    BY <2>1
  <2> QED  BY <1>0, <2>2
<1>5. ASSUME NEW i \in 1 .. PrefixBytes
      PROVE  h[i] = h[i - 1] * Base + p[i]
  <2> DEFINE w == Weight[PrefixBytes - i]
             v == Weight[PrefixBytes - (i - 1)]
  <2>1. /\ PrefixBytes - i \in 0 .. PrefixBytes
        /\ PrefixBytes - (i - 1) \in 1 .. PrefixBytes
        /\ (PrefixBytes - (i - 1)) - 1 = PrefixBytes - i
        /\ i \in 0 .. PrefixBytes /\ i - 1 \in 0 .. PrefixBytes
    BY <1>0
  <2>2. w \in Nat \ {0} /\ v = Base * w
    BY <2>1, WeightDef
  <2>3. h[i] = n \div w /\ h[i - 1] = n \div v
    BY <2>1
  <2>4. p[i] = (n \div w) % Base
    BY <1>1
  <2> HIDE DEF w, v, h, p
  <2>5. (n \div (Base * w)) * Base + ((n \div w) % Base) = n \div w
    BY <1>0, <2>2, DigitStep
  <2> QED  BY <2>2, <2>3, <2>4, <2>5
<1>6. h[PrefixBytes] = n
  <2>1. n \div 1 = n
    OBVIOUS
  <2>2. PrefixBytes - PrefixBytes = 0 /\ PrefixBytes \in 0 .. PrefixBytes
    BY <1>0
  <2> QED  BY <2>1, <2>2, WeightDef
<1> HIDE DEF p, h
<1>7. LengthIn(p) = n
  BY <1>2, <1>4, <1>5, <1>6, LengthDef
<1> QED  BY <1>3, <1>7 DEF p

-------------------------------------------------------------------------------
(***************************************************************************)
(* The wire: where each frame lies on it.                                  *)
(***************************************************************************)

\* A frame is a prefix that says how long it is, and a payload.
LEMMA EncodedFrame ==
    ASSUME NEW payload \in Payloads
    PROVE  /\ payload \in Seq(Byte) /\ Len(payload) \in Nat
           /\ encodeFrame(payload) \in Seq(Byte)
           /\ Len(encodeFrame(payload)) = PrefixBytes + Len(payload)
           /\ PrefixOf(Len(payload)) \in Seq(Byte)
           /\ Len(PrefixOf(Len(payload))) = PrefixBytes
           /\ LengthIn(PrefixOf(Len(payload))) = Len(payload)
<1>1. payload \in Seq(Byte) /\ Len(payload) < Weight[PrefixBytes]
  BY PayloadAssumption
<1>2. Len(payload) \in Nat
  BY <1>1
<1> DEFINE n == Len(payload)
           p == PrefixOf(n)
<1>3. p \in Seq(Byte) /\ Len(p) = PrefixBytes /\ LengthIn(p) = n
  <2> HIDE DEF n
  <2> QED  BY <1>1, <1>2, PrefixRoundTrip DEF n
<1>4. encodeFrame(payload) = p \o payload
  BY DEF encodeFrame
<1> HIDE DEF p, n
<1>5. p \o payload \in Seq(Byte) /\ Len(p \o payload) = Len(p) + Len(payload)
  BY <1>1, <1>3
<1> QED  BY <1>1, <1>2, <1>3, <1>4, <1>5 DEF p, n

\* The wire up to the end of the k-th frame.
Sent(k) == FlattenSeq([i \in 1 .. k |-> encodeFrame(payloads[i])])

\* What is sent are bytes.
LEMMA SentFrames ==
    ASSUME payloads \in Seq(Payloads), NEW k \in 0 .. Len(payloads)
    PROVE  /\ [i \in 1 .. k |-> encodeFrame(payloads[i])] \in Seq(Seq(Byte))
           /\ Sent(k) \in Seq(Byte)
<1>1. ASSUME NEW i \in 1 .. k
      PROVE  encodeFrame(payloads[i]) \in Seq(Byte)
  <2>1. payloads[i] \in Payloads
    OBVIOUS
  <2> QED  BY <2>1, EncodedFrame
<1> DEFINE f == [i \in 1 .. k |-> encodeFrame(payloads[i])]
<1>2. f \in Seq(Seq(Byte))
  BY <1>1
<1> HIDE DEF f
<1>3. FlattenSeq(f) \in Seq(Byte)
  BY <1>2, FlattenType
<1> QED  BY <1>2, <1>3 DEF f, Sent

\* One frame more is sent behind the others.
LEMMA SentNext ==
    ASSUME payloads \in Seq(Payloads), NEW k \in 0 .. Len(payloads) - 1
    PROVE  Sent(k + 1) = Sent(k) \o encodeFrame(payloads[k + 1])
<1> DEFINE f == [i \in 1 .. k |-> encodeFrame(payloads[i])]
           h == [i \in 1 .. k + 1 |-> encodeFrame(payloads[i])]
           e == encodeFrame(payloads[k + 1])
<1>1. k \in 0 .. Len(payloads) /\ k + 1 \in 0 .. Len(payloads)
  OBVIOUS
<1>2. f \in Seq(Seq(Byte)) /\ Len(f) = k
  BY <1>1, SentFrames
<1>3. h \in Seq(Seq(Byte)) /\ Len(h) = k + 1
  BY <1>1, SentFrames
<1>4. h[k + 1] = e /\ \A i \in 1 .. k : h[i] = f[i]
  OBVIOUS
<1>5. e \in Seq(Byte)
  <2>1. k + 1 \in 1 .. Len(h)
    BY <1>3
  <2> QED  BY <1>3, <1>4, <2>1
<1> HIDE DEF f, h, e
<1>6. h = Append(f, e)
  <2>1. /\ Append(f, e) \in Seq(Seq(Byte)) /\ Len(Append(f, e)) = k + 1
        /\ Append(f, e)[k + 1] = e /\ \A i \in 1 .. k : Append(f, e)[i] = f[i]
    BY <1>2, <1>5
  <2>2. \A i \in 1 .. k + 1 : Append(f, e)[i] = h[i]
    BY <1>4, <2>1
  <2> QED  BY <1>3, <2>1, <2>2, SeqEqual
<1>7. FlattenSeq(h) = FlattenSeq(f) \o e
  BY <1>2, <1>5, <1>6, FlattenAppend
<1> QED  BY <1>7 DEF f, h, e, Sent

\* Where frames end.
Ends == /\ EndOf(0) = 0 /\ EndOf(Len(payloads)) = Len(Wire)
        /\ Wire \in Seq(Byte) /\ Len(Wire) \in Nat
        /\ \A k \in 0 .. Len(payloads) : EndOf(k) \in Nat

\* The first frame starts with the wire and the last one ends with it.
LEMMA EndsOfFrames ==
    ASSUME payloads \in Seq(Payloads)
    PROVE  Ends
<1>1. Sent(0) = <<>>
  <2>1. [i \in 1 .. 0 |-> encodeFrame(payloads[i])] = <<>>
    OBVIOUS
  <2> QED  BY <2>1, FlattenEmpty DEF Sent
<1>2. Wire = Sent(Len(payloads)) /\ Len(payloads) \in Nat
  <2>1. DOMAIN payloads = 1 .. Len(payloads)
    OBVIOUS
  <2> QED  BY <2>1 DEF Wire, Sent
<1>3. \A k : EndOf(k) = Len(Sent(k))
  BY DEF EndOf, Sent
<1>4. \A k \in 0 .. Len(payloads) : Sent(k) \in Seq(Byte)
  BY SentFrames
<1>5. \A k \in 0 .. Len(payloads) : EndOf(k) \in Nat
  BY <1>3, <1>4, LenProperties
<1> QED  BY <1>1, <1>2, <1>3, <1>4, <1>5, LenProperties DEF Ends

\* What is sent is a prefix of what has been sent later.
Prefixed(k) ==
    \A j \in 0 .. k :
        EndOf(j) =< EndOf(k) /\ Sent(j) = Cut(Sent(k), 0, EndOf(j))

\* By induction on the number of frames sent later.
LEMMA SentPrefix ==
    ASSUME payloads \in Seq(Payloads), NEW k \in 0 .. Len(payloads)
    PROVE  Prefixed(k)
<1> DEFINE T == {n \in Nat : n =< Len(payloads) => Prefixed(n)}
<1>0. Len(payloads) \in Nat
  OBVIOUS
<1>1. 0 \in T
  <2>0. Sent(0) \in Seq(Byte)
    BY <1>0, SentFrames
  <2>1. EndOf(0) = Len(Sent(0)) /\ Sent(0) \in Seq(Byte)
    BY <2>0 DEF EndOf, Sent
  <2>2. Sent(0) = Cut(Sent(0), 0, EndOf(0)) /\ EndOf(0) =< EndOf(0)
    BY <2>1, CutAll, LenProperties
  <2>3. \A j \in 0 .. 0 : j = 0
    OBVIOUS
  <2> QED  BY <2>2, <2>3 DEF Prefixed
<1>2. ASSUME NEW n \in Nat, n \in T
      PROVE  n + 1 \in T
  <2> SUFFICES ASSUME n + 1 =< Len(payloads)
               PROVE  Prefixed(n + 1)
    OBVIOUS
  <2>1. /\ n \in 0 .. Len(payloads) - 1 /\ n + 1 \in 1 .. Len(payloads)
        /\ n \in 0 .. Len(payloads) /\ n + 1 \in 0 .. Len(payloads)
        /\ n =< Len(payloads)
    BY <1>0
  <2>2. Prefixed(n)
    BY <1>2, <2>1
  <2> DEFINE e == encodeFrame(payloads[n + 1])
             s == Sent(n)
             t == Sent(n + 1)
  <2>3. s \in Seq(Byte) /\ t \in Seq(Byte) /\ EndOf(n) = Len(s) /\ EndOf(n + 1) = Len(t)
    BY <2>1, SentFrames DEF EndOf, Sent
  <2>4. e \in Seq(Byte)
    <3>1. payloads[n + 1] \in Payloads
      BY <2>1
    <3> QED  BY <3>1, EncodedFrame
  <2>5. t = s \o e
    BY <2>1, SentNext
  <2> HIDE DEF e, s, t
  <2>6. /\ Len(s) \in Nat /\ Len(t) \in Nat /\ Len(s) =< Len(t)
        /\ s = Cut(t, 0, Len(s))
    <3>1. Len(s) \in Nat /\ Len(t) \in Nat /\ Cut(t, 0, Len(t)) = t
      BY <2>3, CutAll, LenProperties
    <3>2. s \o e = Cut(t, 0, Len(t))
      BY <2>5, <3>1
    <3>3. Parted(t, 0, Len(t), s, e)
      <4>1. 0 \in Nat /\ Len(t) \in Nat /\ 0 =< Len(t) /\ Len(t) =< Len(t)
        BY <3>1
      <4>2. s \in Seq(Byte) /\ t \in Seq(Byte)
        BY <2>3
      <4> QED  BY <2>4, <3>2, <4>1, <4>2, CutSplit, Zenon
    <3>4. 0 + Len(s) = Len(s)
      BY <3>1
    <3> QED  BY <3>1, <3>3, <3>4 DEF Parted
  <2>7. ASSUME NEW j \in 0 .. n + 1
        PROVE  EndOf(j) =< EndOf(n + 1) /\ Sent(j) = Cut(Sent(n + 1), 0, EndOf(j))
    <3>1. CASE j = n + 1
      BY <2>3, <2>6, <3>1, CutAll DEF t
    <3>2. CASE j \in 0 .. n
      <4> DEFINE i == EndOf(j)
      <4>1. i =< EndOf(n) /\ Sent(j) = Cut(s, 0, i)
        BY <2>2, <3>2 DEF Prefixed, s
      <4>2. i \in Nat
        <5>1. j \in 0 .. Len(payloads)
          BY <2>1, <3>2
        <5> QED  BY <5>1, EndsOfFrames DEF Ends
      <4> HIDE DEF i
      <4>3. Cut(Cut(t, 0, Len(s)), 0, i) = Cut(t, 0 + 0, 0 + i)
        <5>1. 0 =< i /\ i =< Len(s) - 0 /\ 0 =< Len(s)
          BY <2>3, <2>6, <4>1, <4>2
        <5>2. CutTwice(t, 0, Len(s), 0, i)
          BY <2>3, <2>6, <4>2, <5>1, CutCut
        <5> QED  BY <5>2 DEF CutTwice
      <4>4. 0 + 0 = 0 /\ 0 + i = i /\ i =< Len(t)
        BY <2>3, <2>6, <4>1, <4>2
      <4> QED  BY <2>3, <2>6, <4>1, <4>3, <4>4 DEF i, t
    <3> QED  BY <3>1, <3>2
  <2> QED  BY <2>7 DEF Prefixed
<1> HIDE DEF T
<1>3. k \in T
  BY <1>1, <1>2, SetInduction
<1> QED  BY <1>0, <1>3 DEF T

\* Where frame k + 1 lies on the wire, its prefix first.
LEMMA FrameOnWire ==
    ASSUME payloads \in Seq(Payloads), NEW k \in 0 .. Len(payloads) - 1
    PROVE  /\ EndOf(k + 1) = EndOf(k) + PrefixBytes + Len(payloads[k + 1])
           /\ EndOf(k + 1) =< Len(Wire)
           /\ PrefixOf(Len(payloads[k + 1]))
                  = Cut(Wire, EndOf(k), EndOf(k) + PrefixBytes)
           /\ payloads[k + 1] = Cut(Wire, EndOf(k) + PrefixBytes, EndOf(k + 1))
<1> DEFINE p == payloads[k + 1]
           x == PrefixOf(Len(p))
           w == Wire
           i == EndOf(k)
           j == EndOf(k + 1)
           s == Sent(k)
<1>0. /\ Len(payloads) \in Nat /\ k \in Nat /\ k \in 0 .. Len(payloads)
      /\ k + 1 \in 0 .. Len(payloads) /\ k + 1 \in 1 .. Len(payloads)
      /\ PrefixBytes \in Nat
  BY BytesAssumption
<1>1. /\ p \in Seq(Byte) /\ Len(p) \in Nat /\ x \in Seq(Byte)
      /\ Len(x) = PrefixBytes /\ encodeFrame(p) = x \o p
  <2>1. p \in Payloads
    BY <1>0
  <2> QED  BY <2>1, EncodedFrame DEF encodeFrame
<1>2. i \in Nat /\ j \in Nat /\ w \in Seq(Byte) /\ Len(w) \in Nat
  BY <1>0, EndsOfFrames DEF Ends
<1>3. s \in Seq(Byte) /\ Len(s) = i
  BY <1>0, SentFrames DEF Sent, EndOf
<1>4. j =< Len(w) /\ Sent(k + 1) = Cut(w, 0, j)
  <2>1. Len(payloads) \in 0 .. Len(payloads)
    BY <1>0
  <2>2. Prefixed(Len(payloads))
    BY <2>1, SentPrefix
  <2>3. Sent(Len(payloads)) = w
    <3>1. DOMAIN payloads = 1 .. Len(payloads)
      OBVIOUS
    <3> QED  BY <3>1 DEF Wire, Sent
  <2>4. EndOf(Len(payloads)) = Len(w)
    BY EndsOfFrames DEF Ends
  <2> QED  BY <1>0, <2>2, <2>3, <2>4 DEF Prefixed
<1>5. Sent(k + 1) = s \o (x \o p)
  BY <1>1, SentNext
<1>6. j = Len(Sent(k + 1))
  BY DEF Sent, EndOf
<1> HIDE DEF p, x, w, i, j, s
<1>7. x \o p \in Seq(Byte) /\ Len(x \o p) = PrefixBytes + Len(p)
  BY <1>1, ConcatProperties, Zenon
<1>8. x \o p = Cut(w, i, j) /\ j = i + (PrefixBytes + Len(p))
  <2> DEFINE y == x \o p
  <2> HIDE DEF y
  <2>1. s \o y = Cut(w, 0, j) /\ y \in Seq(Byte) /\ 0 \in Nat /\ 0 =< j
    BY <1>2, <1>4, <1>5, <1>7 DEF y
  <2>2. Parted(w, 0, j, s, y)
    BY <1>2, <1>3, <1>4, <2>1, CutSplit, Zenon
  <2>3. y = Cut(w, i, j)
    <3>1. 0 + Len(s) = i
      BY <1>2, <1>3
    <3> QED  BY <2>2, <3>1 DEF Parted
  <2>4. j = Len(s) + Len(y)
    BY <1>3, <1>5, <1>6, <2>1 DEF y
  <2> QED  BY <1>3, <1>7, <2>3, <2>4 DEF y
<1>9. Parted(w, i, j, x, p)
  <2>1. i =< j /\ j =< Len(w)
    BY <1>0, <1>1, <1>2, <1>4, <1>8
  <2>2. x \in Seq(Byte) /\ p \in Seq(Byte) /\ x \o p = Cut(w, i, j)
    BY <1>1, <1>8
  <2> QED  BY <1>2, <2>1, <2>2, CutSplit, Zenon
<1>10. j = i + PrefixBytes + Len(p)
  BY <1>0, <1>1, <1>2, <1>8
<1> QED  BY <1>1, <1>4, <1>9, <1>10 DEF p, x, w, i, j, Parted

\* Later frames end later.
LEMMA EndsGrow ==
    ASSUME payloads \in Seq(Payloads), NEW k \in 0 .. Len(payloads),
           NEW j \in 0 .. k
    PROVE  EndOf(j) =< EndOf(k)
  BY SentPrefix DEF Prefixed

\* The last frame that is complete in the first n bytes.
LEMMA LastComplete ==
    ASSUME payloads \in Seq(Payloads), NEW n \in Nat,
           NEW m \in 0 .. Len(payloads), EndOf(m) =< n,
           m < Len(payloads) => n < EndOf(m + 1)
    PROVE  LastCompleteIn(n) = m
<1>0. Len(payloads) \in Nat
  OBVIOUS
<1>1. m \in CompleteIn(n)
  BY DEF CompleteIn
<1>2. ASSUME NEW j \in CompleteIn(n)
      PROVE  j =< m
  <2> SUFFICES ASSUME ~(j =< m)
               PROVE  FALSE
    OBVIOUS
  <2>1. j \in 0 .. Len(payloads) /\ EndOf(j) =< n
    BY DEF CompleteIn
  <2>2. m + 1 \in 0 .. j /\ m < Len(payloads) /\ m + 1 \in 0 .. Len(payloads)
    BY <1>0, <2>1
  <2>3. EndOf(m + 1) =< EndOf(j)
    BY <2>1, <2>2, EndsGrow
  <2>4. EndOf(m + 1) \in Nat /\ EndOf(j) \in Nat
    BY <2>1, <2>2, EndsOfFrames DEF Ends
  <2> QED  BY <2>1, <2>2, <2>3, <2>4
<1> DEFINE c == LastCompleteIn(n)
<1>3. c \in CompleteIn(n) /\ \A j \in CompleteIn(n) : j =< c
  BY <1>1, <1>2 DEF LastCompleteIn
<1> HIDE DEF c
<1>4. c =< m /\ m =< c /\ c \in Nat
  BY <1>0, <1>1, <1>2, <1>3 DEF CompleteIn
<1>5. c = m
  BY <1>4
<1> QED  BY <1>5 DEF c

-------------------------------------------------------------------------------
(***************************************************************************)
(* The chunks with bytes to read, as a piece of the wire.                  *)
(***************************************************************************)

\* A chunk that push keeps has bytes.
Chunk == Seq(Byte) \ {<<>>}

\* The chunks left over, of which the first has been read up to offset, end with
\* the count bytes of w before position p.
Buffers(w, p, rest, offset, count) ==
    /\ rest \in Seq(Chunk) /\ offset \in Nat /\ count \in Nat
    /\ IF rest = <<>> THEN offset = 0 ELSE offset < Len(rest[1])
    /\ offset + count =< p
    /\ FlattenSeq(rest) = Cut(w, p - (offset + count), p)

\* The chunk at the head is the piece of w that offset says.
HeadChunk(w, p, rest, offset, count) ==
    LET start == p - (offset + count)
        end   == start + Len(rest[1])
    IN  /\ rest[1] \in Chunk /\ Len(rest[1]) \in Nat \ {0}
        /\ start \in Nat /\ end =< p
        /\ rest[1] = Cut(w, start, end)
        /\ Tail(rest) \in Seq(Chunk)
        /\ FlattenSeq(Tail(rest)) = Cut(w, end, p)

\* The first of the chunks left is where the buffered bytes start.
LEMMA HeadOfBuffer ==
    ASSUME NEW w \in Seq(Byte), NEW p \in Nat, NEW rest, NEW offset, NEW count,
           p =< Len(w), Buffers(w, p, rest, offset, count), rest # <<>>
    PROVE  HeadChunk(w, p, rest, offset, count)
<1> DEFINE start == p - (offset + count)
           c == rest[1]
           t == Tail(rest)
           end == start + Len(c)
<1>1. /\ rest \in Seq(Chunk) /\ offset \in Nat /\ count \in Nat
      /\ offset + count =< p /\ FlattenSeq(rest) = Cut(w, start, p)
  BY DEF Buffers
<1>2. start \in Nat /\ start =< p
  BY <1>1
<1>3. c \in Chunk /\ t \in Seq(Chunk)
  BY <1>1
<1>4. rest \in Seq(Seq(Byte)) /\ t \in Seq(Seq(Byte)) /\ c \in Seq(Byte)
  <2>1. \A s \in Seq(Chunk) : s \in Seq(Seq(Byte))
    BY DEF Chunk
  <2> QED  BY <1>1, <1>3, <2>1 DEF Chunk
<1>5. FlattenSeq(rest) = c \o FlattenSeq(t)
  BY <1>4, FlattenTail
<1>6. FlattenSeq(t) \in Seq(Byte)
  BY <1>4, FlattenType
<1>7. Len(c) \in Nat \ {0}
  BY <1>3, <1>4 DEF Chunk
<1> DEFINE f == FlattenSeq(t)
<1> HIDE DEF c, t, start, f
<1>8. Parted(w, start, p, c, f)
  <2>1. c \o f = Cut(w, start, p) /\ f \in Seq(Byte)
    BY <1>1, <1>5, <1>6 DEF f
  <2> QED  BY <1>2, <1>4, <2>1, CutSplit, Zenon
<1> QED  BY <1>2, <1>3, <1>7, <1>8 DEF HeadChunk, Parted, c, t, start, f

\* What is read of the chunk at the head: the bytes of w that come next.
LEMMA ReadOfHead ==
    ASSUME NEW w \in Seq(Byte), NEW p \in Nat, NEW rest, NEW offset, NEW count,
           NEW n \in Nat, p =< Len(w),
           Buffers(w, p, rest, offset, count), rest # <<>>,
           offset + n =< Len(rest[1])
    PROVE  /\ n =< count
           /\ SubSeq(rest[1], offset + 1, offset + n)
                  = Cut(w, p - count, (p - count) + n)
<1> DEFINE start == p - (offset + count)
           c == rest[1]
           end == start + Len(c)
<1>1. /\ c \in Seq(Byte) /\ Len(c) \in Nat \ {0}
      /\ start \in Nat /\ end =< p /\ c = Cut(w, start, end)
  BY HeadOfBuffer DEF HeadChunk, Chunk
<1>2. offset \in Nat /\ count \in Nat /\ offset + count =< p
  BY DEF Buffers
<1>3. end \in Nat /\ start =< end /\ end - start = Len(c) /\ end =< Len(w)
  BY <1>1, LenProperties
<1>4. n =< count
  BY <1>1, <1>2
<1> HIDE DEF c, end, start
<1>5. Cut(Cut(w, start, end), offset, offset + n)
          = Cut(w, start + offset, start + (offset + n))
  <2>1. offset + n \in Nat /\ offset =< offset + n /\ offset + n =< end - start
    BY <1>2, <1>3 DEF c
  <2>2. CutTwice(w, start, end, offset, offset + n)
    BY <1>1, <1>2, <1>3, <2>1, CutCut, Zenon
  <2> QED  BY <2>2 DEF CutTwice
<1>6. start + offset = p - count /\ start + (offset + n) = (p - count) + n
  BY <1>2 DEF start
<1>7. SubSeq(c, offset + 1, offset + n) = Cut(c, offset, offset + n)
  BY DEF Cut
<1> QED  BY <1>1, <1>4, <1>5, <1>6, <1>7 DEF c

\* Some of the chunk at the head remains.
LEMMA HeadRemains ==
    ASSUME NEW w \in Seq(Byte), NEW p \in Nat, NEW rest, NEW offset, NEW count,
           NEW n \in Nat, p =< Len(w),
           Buffers(w, p, rest, offset, count), rest # <<>>,
           offset + n < Len(rest[1])
    PROVE  Buffers(w, p, rest, offset + n, count - n)
<1>1. offset \in Nat /\ count \in Nat /\ Len(rest[1]) \in Nat
  BY HeadOfBuffer DEF HeadChunk, Buffers
<1>2. n =< count
  <2>1. offset + n =< Len(rest[1])
    BY <1>1
  <2> QED  BY <2>1, ReadOfHead, Zenon
<1>3. /\ offset + n \in Nat /\ count - n \in Nat
      /\ (offset + n) + (count - n) = offset + count
  BY <1>1, <1>2
<1> QED  BY <1>3 DEF Buffers

\* Nothing of it remains.
LEMMA HeadConsumed ==
    ASSUME NEW w \in Seq(Byte), NEW p \in Nat, NEW rest, NEW offset, NEW count,
           NEW n \in Nat, p =< Len(w),
           Buffers(w, p, rest, offset, count), rest # <<>>,
           offset + n = Len(rest[1])
    PROVE  n # 0 /\ Buffers(w, p, Tail(rest), 0, count - n)
<1>1. /\ offset \in Nat /\ count \in Nat /\ Len(rest[1]) \in Nat
      /\ offset < Len(rest[1]) /\ offset + count =< p
  BY HeadOfBuffer DEF HeadChunk, Buffers
<1>2. n =< count /\ n # 0
  <2>1. offset + n =< Len(rest[1]) /\ n # 0
    BY <1>1
  <2> QED  BY <2>1, ReadOfHead, Zenon
<1> DEFINE t == Tail(rest)
           end == (p - (offset + count)) + Len(rest[1])
<1>3. t \in Seq(Chunk) /\ FlattenSeq(t) = Cut(w, end, p) /\ end =< p
  <2>1. HeadChunk(w, p, rest, offset, count)
    BY HeadOfBuffer
  <2> QED  BY <2>1 DEF HeadChunk
<1>4. count - n \in Nat /\ end = p - (0 + (count - n)) /\ 0 + (count - n) =< p
  BY <1>1, <1>2, <1>3
<1>5. t # <<>> => Len(t[1]) > 0
  <2> SUFFICES ASSUME t # <<>>
               PROVE  Len(t[1]) > 0
    OBVIOUS
  <2> HIDE DEF t
  <2>1. t[1] \in Chunk
    BY <1>3
  <2> QED  BY <2>1 DEF Chunk
<1> HIDE DEF t, end
<1>6. Buffers(w, p, t, 0, count - n)
  BY <1>3, <1>4, <1>5 DEF Buffers
<1> QED  BY <1>2, <1>6 DEF t

\* One chunk more.
LEMMA ChunkAdded ==
    ASSUME NEW w \in Seq(Byte), NEW p \in Nat, NEW rest, NEW offset, NEW count,
           NEW n \in Nat \ {0}, p + n =< Len(w),
           Buffers(w, p, rest, offset, count)
    PROVE  /\ Cut(w, p, p + n) \in Chunk /\ Len(Cut(w, p, p + n)) = n
           /\ Buffers(w, p + n, Append(rest, Cut(w, p, p + n)), offset, count + n)
<1> DEFINE c == Cut(w, p, p + n)
           start == p - (offset + count)
           more == Append(rest, c)
<1>1. /\ rest \in Seq(Chunk) /\ offset \in Nat /\ count \in Nat
      /\ offset + count =< p /\ FlattenSeq(rest) = Cut(w, start, p)
      /\ IF rest = <<>> THEN offset = 0 ELSE offset < Len(rest[1])
  BY DEF Buffers
<1>2. /\ start \in Nat /\ start =< p /\ p + n \in Nat /\ p =< p + n
      /\ (p + n) - (offset + (count + n)) = start
      /\ offset + (count + n) =< p + n /\ count + n \in Nat
  BY <1>1
<1> HIDE DEF start
<1>3. c \in Seq(Byte) /\ Len(c) = n
  <2> HIDE DEF c
  <2>1. Piece(Byte, w, p, p + n, c)
    BY <1>2, CutShape, Zenon DEF c
  <2> QED  BY <2>1 DEF Piece
<1>4. c \in Chunk
  BY <1>3 DEF Chunk
<1>5. rest \in Seq(Seq(Byte))
  BY <1>1 DEF Chunk
<1> HIDE DEF c
<1>6. FlattenSeq(more) = FlattenSeq(rest) \o c
  BY <1>3, <1>5, FlattenAppend
<1>7. Cut(w, start, p) \o c = Cut(w, start, p + n)
  <2>1. Joined(w, start, p, p + n)
    BY <1>2, CutJoin, Zenon
  <2> QED  BY <2>1 DEF Joined, c
<1>8. more \in Seq(Chunk) /\ more # <<>>
  <2>1. more \in Seq(Chunk) /\ Len(more) = Len(rest) + 1 /\ Len(rest) \in Nat
    BY <1>1, <1>4, AppendProperties, LenProperties
  <2> HIDE DEF more
  <2> QED  BY <2>1
<1>9. offset < Len(more[1])
  <2>1. CASE rest = <<>>
    <3>1. more[1] = c
      BY <2>1
    <3> QED  BY <1>1, <1>3, <2>1, <3>1
  <2>2. CASE rest # <<>>
    <3>1. more[1] = rest[1]
      BY <1>1, <2>2
    <3> QED  BY <1>1, <2>2, <3>1
  <2> QED  BY <2>1, <2>2
<1> HIDE DEF more
<1>10. Buffers(w, p + n, more, offset, count + n)
  BY <1>1, <1>2, <1>6, <1>7, <1>8, <1>9 DEF Buffers
<1> QED  BY <1>3, <1>4, <1>10 DEF c, more

\* Bytes are left only in chunks.
LEMMA NoChunkNoByte ==
    ASSUME NEW w \in Seq(Byte), NEW p \in Nat, NEW offset, NEW count,
           p =< Len(w), Buffers(w, p, <<>>, offset, count)
    PROVE  count = 0
<1> DEFINE start == p - (offset + count)
<1>1. /\ offset = 0 /\ count \in Nat /\ count =< p
      /\ Cut(w, start, p) = <<>>
  BY FlattenEmpty DEF Buffers
<1>2. start \in Nat /\ start =< p /\ p - start = count
  BY <1>1
<1> HIDE DEF start
<1>3. Piece(Byte, w, start, p, <<>>)
  BY <1>1, <1>2, CutShape
<1> QED  BY <1>2, <1>3 DEF Piece

-------------------------------------------------------------------------------
(***************************************************************************)
(* The list of chunks, with its head index and its compaction.             *)
(***************************************************************************)

\* The elements of s after the first h.
After(s, h) == SubSeq(s, h + 1, Len(s))

\* They are a piece of s.
LEMMA AfterShape ==
    ASSUME NEW S, NEW s \in Seq(S), NEW h \in Nat, h =< Len(s)
    PROVE  Piece(S, s, h, Len(s), After(s, h))
<1>1. Len(s) \in Nat /\ Len(s) =< Len(s)
  BY LenProperties
<1>2. Piece(S, s, h, Len(s), Cut(s, h, Len(s)))
  BY <1>1, CutShape
<1>3. After(s, h) = Cut(s, h, Len(s))
  BY DEF After, Cut
<1> QED  BY <1>2, <1>3

\* One element less.
LEMMA AfterMore ==
    ASSUME NEW S, NEW s \in Seq(S), NEW h \in Nat, h < Len(s)
    PROVE  /\ After(s, h) # <<>> /\ After(s, h)[1] = s[h + 1]
           /\ After(s, h + 1) = Tail(After(s, h))
<1> DEFINE a == After(s, h)
           b == After(s, h + 1)
<1>1. Len(s) \in Nat /\ h =< Len(s) /\ h + 1 \in Nat /\ h + 1 =< Len(s)
  BY LenProperties
<1>2. /\ a \in Seq(S) /\ Len(a) = Len(s) - h
      /\ \A i \in 1 .. Len(s) - h : a[i] = s[h + i]
  BY <1>1, AfterShape DEF Piece
<1>3. /\ b \in Seq(S) /\ Len(b) = Len(s) - (h + 1)
      /\ \A i \in 1 .. Len(s) - (h + 1) : b[i] = s[(h + 1) + i]
  BY <1>1, AfterShape DEF Piece
<1> HIDE DEF a, b
<1>4. a # <<>> /\ a[1] = s[h + 1]
  <2>1. 1 \in 1 .. Len(s) - h
    BY <1>1
  <2>2. Len(a) # 0
    BY <1>1, <1>2
  <2> QED  BY <1>2, <2>1, <2>2
<1>5. /\ Tail(a) \in Seq(S) /\ Len(Tail(a)) = Len(a) - 1
      /\ \A i \in 1 .. Len(a) - 1 : Tail(a)[i] = a[i + 1]
  BY <1>2, <1>4
<1>6. ASSUME NEW i \in 1 .. Len(b)
      PROVE  b[i] = Tail(a)[i]
  <2>1. /\ i \in 1 .. Len(s) - (h + 1) /\ i \in 1 .. Len(a) - 1
        /\ i + 1 \in 1 .. Len(s) - h /\ (h + 1) + i = h + (i + 1)
    BY <1>1, <1>2, <1>3
  <2>2. b[i] = s[(h + 1) + i] /\ Tail(a)[i] = a[i + 1] /\ a[i + 1] = s[h + (i + 1)]
    BY <1>2, <1>3, <1>5, <2>1
  <2> QED  BY <2>1, <2>2
<1>7. b = Tail(a)
  <2>1. Len(b) = Len(Tail(a))
    BY <1>1, <1>2, <1>3, <1>5
  <2> QED  BY <1>3, <1>5, <1>6, <2>1, SeqEqual
<1> QED  BY <1>4, <1>7 DEF a, b

\* One element more.
LEMMA AfterAppend ==
    ASSUME NEW S, NEW s \in Seq(S), NEW h \in Nat, NEW e \in S, h =< Len(s)
    PROVE  After(Append(s, e), h) = Append(After(s, h), e)
<1> DEFINE t == Append(s, e)
           a == After(s, h)
           b == After(t, h)
<1>1. /\ Len(s) \in Nat /\ t \in Seq(S) /\ Len(t) = Len(s) + 1
      /\ t[Len(s) + 1] = e /\ \A i \in 1 .. Len(s) : t[i] = s[i]
  BY AppendProperties
<1> HIDE DEF t
<1>2. /\ a \in Seq(S) /\ Len(a) = Len(s) - h
      /\ \A i \in 1 .. Len(s) - h : a[i] = s[h + i]
  BY AfterShape DEF Piece
<1>3. /\ b \in Seq(S) /\ Len(b) = Len(t) - h
      /\ \A i \in 1 .. Len(t) - h : b[i] = t[h + i]
  <2>1. h =< Len(t)
    BY <1>1
  <2> HIDE DEF b
  <2>2. Piece(S, t, h, Len(t), b)
    BY <1>1, <2>1, AfterShape, Zenon DEF b
  <2> QED  BY <2>2 DEF Piece
<1> HIDE DEF a, b
<1>0. Len(a) \in Nat /\ Len(a) + h = Len(s) /\ Len(b) = Len(a) + 1
  BY <1>1, <1>2, <1>3
<1> DEFINE c == Append(a, e)
<1>4. /\ c \in Seq(S) /\ Len(c) = Len(a) + 1
      /\ c[Len(a) + 1] = e /\ \A i \in 1 .. Len(a) : c[i] = a[i]
  BY <1>2, AppendProperties
<1> HIDE DEF c
<1>5. ASSUME NEW i \in 1 .. Len(b)
      PROVE  b[i] = c[i]
  <2>1. i \in 1 .. Len(t) - h
    BY <1>3
  <2>2. CASE i = Len(a) + 1
    <3>1. h + i = Len(s) + 1
      BY <1>0, <1>1, <2>2
    <3> QED  BY <1>1, <1>3, <1>4, <2>1, <2>2, <3>1
  <2>3. CASE i # Len(a) + 1
    <3>1. i \in 1 .. Len(a) /\ i \in 1 .. Len(s) - h /\ h + i \in 1 .. Len(s)
      BY <1>0, <1>1, <2>3
    <3> QED  BY <1>1, <1>2, <1>3, <1>4, <2>1, <3>1
  <2> QED  BY <2>2, <2>3
<1>6. b = c
  <2>1. Len(b) = Len(c)
    BY <1>1, <1>2, <1>3, <1>4
  <2> QED  BY <1>3, <1>4, <1>5, <2>1, SeqEqual
<1> QED  BY <1>6 DEF a, b, c, t

-------------------------------------------------------------------------------
(***************************************************************************)
(* The decoder: one round of readBytes, then the loop.                     *)
(***************************************************************************)

\* The fields of a decoder.
Decoders == [chunks : Seq(Chunk), bufferedBytes : Nat, expectedBodyBytes : Seq(Nat),
             headChunkIndex : Nat, headChunkOffset : Nat]

\* The chunks with bytes to read.
Rest(d) == After(d.chunks, d.headChunkIndex)

\* Consumed chunks never make up half of the list.
Compact(d) ==
    \/ d.headChunkIndex = 0
    \/ d.headChunkIndex < CompactAt /\ d.headChunkIndex * 2 < Len(d.chunks)

\* The decoder holds the last of the first p bytes of w.
Holds(d, w, p) ==
    /\ d \in Decoders
    /\ d.headChunkIndex =< Len(d.chunks)
    /\ Compact(d)
    /\ Buffers(w, p, Rest(d), d.headChunkOffset, d.bufferedBytes)

\* e is d with consumed chunks dropped.
Compacted(d, e) ==
    /\ e \in Decoders /\ e.headChunkIndex =< Len(e.chunks) /\ Compact(e)
    /\ Rest(e) = Rest(d)
    /\ e.bufferedBytes = d.bufferedBytes
    /\ e.expectedBodyBytes = d.expectedBodyBytes
    /\ e.headChunkOffset = d.headChunkOffset

\* compactConsumedChunks drops no byte that is still to be read.
LEMMA CompactionKeeps ==
    ASSUME NEW d \in Decoders, d.headChunkIndex =< Len(d.chunks)
    PROVE  Compacted(d, compactConsumedChunks(d))
<1> DEFINE keep == d.headChunkIndex < CompactAt /\ d.headChunkIndex * 2 < Len(d.chunks)
           e == compactConsumedChunks(d)
<1>1. CASE keep
  <2>1. e = d
    BY <1>1 DEF compactConsumedChunks
  <2>2. Compact(d)
    BY <1>1 DEF Compact
  <2> QED  BY <2>1, <2>2 DEF Compacted
<1>2. CASE ~keep
  <2>0. /\ d.chunks \in Seq(Chunk) /\ d.headChunkIndex \in Nat
        /\ DOMAIN d = {"chunks", "bufferedBytes", "expectedBodyBytes",
                       "headChunkIndex", "headChunkOffset"}
    BY DEF Decoders
  <2> DEFINE a == After(d.chunks, d.headChunkIndex)
  <2>1. e = [d EXCEPT !.chunks = a, !.headChunkIndex = 0]
    BY <1>2 DEF compactConsumedChunks, After
  <2>2. a \in Seq(Chunk) /\ Len(a) \in Nat
    BY <2>0, AfterShape, LenProperties DEF Piece
  <2> HIDE DEF a, e
  <2>3. /\ e \in Decoders /\ e.chunks = a /\ e.headChunkIndex = 0
        /\ e.bufferedBytes = d.bufferedBytes
        /\ e.expectedBodyBytes = d.expectedBodyBytes
        /\ e.headChunkOffset = d.headChunkOffset
    BY <2>1, <2>2 DEF Decoders
  <2>4. After(a, 0) = a
    <3>1. Cut(a, 0, Len(a)) = a
      BY <2>2, CutAll
    <3> QED  BY <3>1 DEF After, Cut
  <2>5. Rest(e) = Rest(d)
    BY <2>3, <2>4 DEF Rest, a
  <2> QED  BY <2>2, <2>3, <2>5 DEF Compacted, Compact, e
<1> QED  BY <1>1, <1>2

\* The states of the loop of readBytes.
Rounds == [decoder : Decoders, bytes : Seq(Byte)]

\* The bytes that one round of readBytes has moved.
Moved(w, p, n, r, s, take) ==
    LET at == p - r.decoder.bufferedBytes
    IN  /\ s.decoder.bufferedBytes = r.decoder.bufferedBytes - take
        /\ s.bytes = r.bytes \o Cut(w, at, at + take)
        /\ \/ take = n - Len(r.bytes)
           \/ Len(Rest(s.decoder)) = Len(Rest(r.decoder)) - 1

\* s is what the round makes of r.
Copied(w, p, n, r, s) ==
    /\ s \in Rounds /\ Holds(s.decoder, w, p)
    /\ s.decoder.expectedBodyBytes = r.decoder.expectedBodyBytes
    /\ \E take \in 1 .. n - Len(r.bytes) : Moved(w, p, n, r, s, take)

\* Copying from the chunk at the head moves bytes from the decoder to the result,
\* and completes the result or consumes the chunk.
LEMMA CopyOnce ==
    ASSUME NEW w \in Seq(Byte), NEW p \in Nat, NEW n \in Nat, NEW r \in Rounds,
           p =< Len(w), Holds(r.decoder, w, p),
           Len(r.bytes) < n, n - Len(r.bytes) =< r.decoder.bufferedBytes
    PROVE  Copied(w, p, n, r, copyOnce(r, n))
<1> DEFINE d == r.decoder
           rest == Rest(d)
           c == d.chunks[d.headChunkIndex + 1]
           o == d.headChunkOffset
           b == d.bufferedBytes
           need == n - Len(r.bytes)
           take == SmallerOf(need, Len(c) - o)
           end == o + take
           read == [d EXCEPT !.bufferedBytes = @ - take, !.headChunkOffset = end]
           next == [read EXCEPT !.headChunkIndex = @ + 1, !.headChunkOffset = 0]
           after == IF end < Len(c) THEN read ELSE compactConsumedChunks(next)
           got == SubSeq(c, o + 1, end)
           s == copyOnce(r, n)
<1>0. s = [decoder |-> after, bytes |-> r.bytes \o got]
  BY DEF copyOnce
<1>1. /\ d \in Decoders /\ r.bytes \in Seq(Byte) /\ Len(r.bytes) \in Nat
      /\ d.headChunkIndex =< Len(d.chunks) /\ Compact(d)
      /\ Buffers(w, p, rest, o, b)
  BY DEF Rounds, Holds
<1>2. /\ d.chunks \in Seq(Chunk) /\ d.headChunkIndex \in Nat
      /\ o \in Nat /\ b \in Nat /\ need \in Nat \ {0} /\ need =< b
      /\ Len(d.chunks) \in Nat
  BY <1>1, LenProperties DEF Decoders
<1>3. d.headChunkIndex < Len(d.chunks)
  <2> SUFFICES ASSUME d.headChunkIndex = Len(d.chunks)
               PROVE  FALSE
    BY <1>1, <1>2
  <2>1. rest \in Seq(Chunk) /\ Len(rest) = 0
    <3>1. rest \in Seq(Chunk) /\ Len(rest) = Len(d.chunks) - d.headChunkIndex
      BY <1>1, <1>2, AfterShape DEF Rest, Piece
    <3> QED  BY <1>2, <3>1
  <2>2. rest = <<>>
    <3> HIDE DEF rest
    <3> QED  BY <2>1
  <2>3. b = 0
    <3> HIDE DEF rest, b, o
    <3> QED  BY <1>1, <2>2, NoChunkNoByte
  <2> QED  BY <1>2, <2>3
<1>4. /\ rest # <<>> /\ rest[1] = c
      /\ After(d.chunks, d.headChunkIndex + 1) = Tail(rest)
  BY <1>2, <1>3, AfterMore DEF Rest
<1>5. rest \in Seq(Chunk) /\ c \in Seq(Byte) /\ Len(c) \in Nat /\ o < Len(c)
  <2>1. rest \in Seq(Chunk) /\ o < Len(rest[1])
    BY <1>1, <1>4 DEF Buffers
  <2>2. rest[1] \in Chunk
    <3> HIDE DEF rest
    <3> QED  BY <1>4, <2>1
  <2>3. c \in Seq(Byte)
    BY <1>4, <2>2 DEF Chunk
  <2> QED  BY <1>4, <2>1, <2>3, LenProperties
<1>6. /\ take \in Nat \ {0} /\ take =< need /\ end \in Nat /\ end =< Len(c)
      /\ end < Len(c) => take = need
  <2> HIDE DEF rest, c, o, b, need, d
  <2> QED  BY <1>2, <1>5 DEF SmallerOf
<1> HIDE DEF rest, c, o, b, need, take, d
<1>7. take =< b /\ got = Cut(w, p - b, (p - b) + take)
  BY <1>1, <1>4, <1>6, ReadOfHead
<1>8. got \in Seq(Byte)
  <2>1. p - b \in Nat /\ (p - b) + take \in Nat /\ p - b =< (p - b) + take
    BY <1>1, <1>2, <1>6 DEF Buffers
  <2>2. (p - b) + take =< Len(w)
    BY <1>1, <1>2, <1>6, <1>7, LenProperties DEF Buffers
  <2> HIDE DEF got
  <2>3. Piece(Byte, w, p - b, (p - b) + take, got)
    BY <1>7, <2>1, <2>2, CutShape
  <2> QED  BY <2>3 DEF Piece
<1>9. r.bytes \o got \in Seq(Byte)
  <2> HIDE DEF got
  <2> QED  BY <1>1, <1>8, ConcatProperties
<1> HIDE DEF got
<1>10. b - take \in Nat
  BY <1>2, <1>6, <1>7
<1>11. /\ read \in Decoders /\ read.chunks = d.chunks
       /\ read.headChunkIndex = d.headChunkIndex /\ read.headChunkOffset = end
       /\ read.bufferedBytes = b - take
       /\ read.expectedBodyBytes = d.expectedBodyBytes
  BY <1>1, <1>6, <1>10 DEF Decoders, b
<1>12. /\ after \in Decoders /\ Holds(after, w, p)
       /\ after.bufferedBytes = b - take
       /\ after.expectedBodyBytes = d.expectedBodyBytes
       /\ take = need \/ Len(Rest(after)) = Len(rest) - 1
  <2>1. CASE end < Len(c)
    <3>1. Rest(read) = rest /\ Compact(read)
      BY <1>1, <1>11 DEF Rest, Compact, rest
    <3>2. Buffers(w, p, rest, end, b - take)
      BY <1>1, <1>4, <1>6, <2>1, HeadRemains
    <3> HIDE DEF read, end
    <3>3. Holds(read, w, p)
      BY <1>1, <1>11, <3>1, <3>2 DEF Holds
    <3>4. after = read /\ take = need
      BY <1>6, <2>1 DEF end
    <3> QED  BY <1>11, <3>3, <3>4
  <2>2. CASE ~(end < Len(c))
    <3>1. end = Len(c)
      BY <1>5, <1>6, <2>2
    <3>2. Buffers(w, p, Tail(rest), 0, b - take)
      BY <1>1, <1>4, <1>6, <3>1, HeadConsumed
    <3> HIDE DEF read, end
    <3>3. /\ next \in Decoders /\ next.chunks = d.chunks
          /\ next.headChunkIndex = d.headChunkIndex + 1 /\ next.headChunkOffset = 0
          /\ next.bufferedBytes = b - take
          /\ next.expectedBodyBytes = d.expectedBodyBytes
      <4>1. read.headChunkIndex + 1 \in Nat /\ 0 \in Nat
        BY <1>2, <1>11
      <4> QED  BY <1>11, <4>1 DEF Decoders
    <3> HIDE DEF next
    <3>4. Rest(next) = Tail(rest)
      BY <1>4, <3>3 DEF Rest
    <3>5. next.headChunkIndex =< Len(next.chunks)
      BY <1>2, <1>3, <3>3
    <3> DEFINE e == compactConsumedChunks(next)
    <3>6. Compacted(next, e)
      BY <3>3, <3>5, CompactionKeeps
    <3> HIDE DEF e
    <3>7. Holds(e, w, p)
      BY <3>2, <3>3, <3>4, <3>6 DEF Holds, Compacted
    <3>8. Len(Rest(e)) = Len(rest) - 1
      BY <1>4, <1>5, <3>4, <3>6 DEF Compacted
    <3>9. after = e
      BY <3>1, <1>5 DEF e
    <3> QED  BY <3>3, <3>6, <3>7, <3>8, <3>9 DEF Compacted
  <2> QED  BY <2>1, <2>2
<1> HIDE DEF after, s
<1>13. s \in Rounds /\ s.decoder = after /\ s.bytes = r.bytes \o got
  BY <1>0, <1>9, <1>12 DEF Rounds
<1>14. take \in 1 .. need
  BY <1>2, <1>6
<1>15. Moved(w, p, n, r, s, take)
  BY <1>7, <1>12, <1>13 DEF Moved, d, b, need, rest
<1> QED  BY <1>12, <1>13, <1>14, <1>15 DEF Copied, s, d, need

\* In the middle of readBytes(d, n).
Reading(w, p, n, d, r) ==
    /\ Holds(r.decoder, w, p)
    /\ r.decoder.expectedBodyBytes = d.expectedBodyBytes
    /\ Len(r.bytes) =< n
    /\ r.decoder.bufferedBytes + Len(r.bytes) = d.bufferedBytes
    /\ r.bytes = Cut(w, p - d.bufferedBytes, p - r.decoder.bufferedBytes)

\* The round has completed the result or consumed a chunk.
Shorter(n, r, s) ==
    Len(s.bytes) = n \/ Len(Rest(s.decoder)) = Len(Rest(r.decoder)) - 1

\* A round of readBytes goes on with it.
LEMMA ReadingStep ==
    ASSUME NEW w \in Seq(Byte), NEW p \in Nat, NEW n \in Nat, NEW d, NEW r \in Rounds,
           p =< Len(w), Holds(d, w, p), n =< d.bufferedBytes,
           Reading(w, p, n, d, r), Len(r.bytes) # n
    PROVE  /\ copyOnce(r, n) \in Rounds
           /\ Reading(w, p, n, d, copyOnce(r, n))
           /\ Shorter(n, r, copyOnce(r, n))
<1> DEFINE s == copyOnce(r, n)
           b == d.bufferedBytes
           rb == r.decoder.bufferedBytes
           sb == s.decoder.bufferedBytes
           k == Len(r.bytes)
<1>1. /\ r.bytes \in Seq(Byte) /\ k \in Nat /\ k < n /\ rb \in Nat /\ b \in Nat
      /\ rb + k = b /\ n - k =< rb /\ b =< p /\ Len(w) \in Nat
      /\ Holds(r.decoder, w, p)
      /\ r.bytes = Cut(w, p - b, p - rb)
      /\ r.decoder.expectedBodyBytes = d.expectedBodyBytes
  <2>1. /\ Holds(r.decoder, w, p) /\ k =< n /\ rb + k = b
        /\ r.bytes = Cut(w, p - b, p - rb)
        /\ r.decoder.expectedBodyBytes = d.expectedBodyBytes
    BY DEF Reading
  <2>2. r.bytes \in Seq(Byte) /\ k \in Nat /\ Len(w) \in Nat
    BY LenProperties DEF Rounds
  <2>3. rb \in Nat /\ b \in Nat /\ b =< p
    <3>1. rb \in Nat
      BY <2>1 DEF Holds, Buffers
    <3>2. b \in Nat /\ d.headChunkOffset \in Nat /\ d.headChunkOffset + b =< p
      BY DEF Holds, Buffers
    <3> QED  BY <3>1, <3>2
  <2> HIDE DEF b, rb, k
  <2> QED  BY <2>1, <2>2, <2>3 DEF b, k
<1>2. Copied(w, p, n, r, s)
  <2> HIDE DEF s
  <2> QED  BY <1>1, CopyOnce, Zenon DEF s
<1> HIDE DEF s
<1>3. PICK take \in 1 .. n - k : Moved(w, p, n, r, s, take)
  BY <1>2 DEF Copied
<1>4. /\ s \in Rounds /\ Holds(s.decoder, w, p)
      /\ s.decoder.expectedBodyBytes = r.decoder.expectedBodyBytes
      /\ sb = rb - take /\ s.bytes = r.bytes \o Cut(w, p - rb, (p - rb) + take)
      /\ take = n - k \/ Len(Rest(s.decoder)) = Len(Rest(r.decoder)) - 1
  BY <1>2, <1>3 DEF Copied, Moved
<1> HIDE DEF b, rb, sb, k
<1>5. /\ p - b \in Nat /\ p - rb \in Nat /\ p - sb \in Nat
      /\ p - b =< p - rb /\ p - rb =< p - sb /\ p - sb =< Len(w)
      /\ (p - rb) + take = p - sb /\ sb \in Nat
  BY <1>1, <1>4
<1>6. s.bytes = Cut(w, p - b, p - sb)
  <2>1. Joined(w, p - b, p - rb, p - sb)
    BY <1>5, CutJoin, Zenon
  <2> QED  BY <1>1, <1>4, <1>5, <2>1 DEF Joined
<1>7. Len(s.bytes) = k + take
  <2>1. Piece(Byte, w, p - b, p - sb, Cut(w, p - b, p - sb))
    <3>1. p - b =< p - sb
      BY <1>5
    <3> QED  BY <1>5, <3>1, CutShape, Zenon
  <2>2. Len(s.bytes) = (p - sb) - (p - b)
    BY <1>6, <2>1 DEF Piece
  <2>3. k \in Nat /\ rb \in Nat /\ b \in Nat /\ rb + k = b /\ sb = rb - take
    BY <1>1, <1>4
  <2> QED  BY <2>2, <2>3
<1>8. Len(s.bytes) =< n /\ sb + Len(s.bytes) = b
      /\ (take = n - k => Len(s.bytes) = n)
  <2>1. /\ k \in Nat /\ k < n /\ rb \in Nat /\ b \in Nat
        /\ rb + k = b /\ sb = rb - take
    BY <1>1, <1>4
  <2> QED  BY <1>7, <2>1
<1>9. Reading(w, p, n, d, s)
  BY <1>1, <1>4, <1>6, <1>8 DEF Reading, b, sb
<1>10. Shorter(n, r, s)
  BY <1>4, <1>8 DEF Shorter
<1> QED  BY <1>4, <1>9, <1>10 DEF s

\* What readBytes returns.
Read(w, p, n, d, r) ==
    /\ r \in Rounds /\ Holds(r.decoder, w, p)
    /\ r.decoder.expectedBodyBytes = d.expectedBodyBytes
    /\ r.decoder.bufferedBytes = d.bufferedBytes - n
    /\ r.bytes = Cut(w, p - d.bufferedBytes, (p - d.bufferedBytes) + n)

\* The loop of readBytes takes the next n bytes and nothing else: it ends because
\* every round completes the result or consumes a chunk.
LEMMA ReadBytes ==
    ASSUME NEW w \in Seq(Byte), NEW p \in Nat, NEW n \in Nat, NEW d,
           p =< Len(w), Holds(d, w, p), n =< d.bufferedBytes
    PROVE  Read(w, p, n, d, readBytes(d, n))
<1> DEFINE b == d.bufferedBytes
           m == Len(d.chunks)
           start == [decoder |-> d, bytes |-> <<>>]
           States == {r \in Rounds : Reading(w, p, n, d, r)}
           next(r) == IF Len(r.bytes) = n THEN r ELSE copyOnce(r, n)
           F == [i \in 1 .. m |-> [r \in States |-> next(r)]]
<1>1. /\ d \in Decoders /\ m \in Nat /\ b \in Nat /\ b =< p
      /\ d.headChunkIndex =< m /\ d.headChunkIndex \in Nat
      /\ d.chunks \in Seq(Chunk)
  BY LenProperties DEF Holds, Decoders, Buffers
<1>2. start \in States
  <2>1. start \in Rounds /\ start.decoder = d /\ start.bytes = <<>>
    BY <1>1 DEF Rounds
  <2>2. Cut(w, p - b, p - b) = <<>>
    <3>1. p - b \in Nat /\ p - b =< Len(w)
      BY <1>1, LenProperties
    <3> QED  BY <3>1, CutNone
  <2>3. Len(<<>>) = 0 /\ b + 0 = b
    BY <1>1
  <2> HIDE DEF start
  <2>4. Reading(w, p, n, d, start)
    BY <2>1, <2>2, <2>3 DEF Reading
  <2> QED  BY <2>1, <2>4
<1>3. ASSUME NEW r \in States
      PROVE  next(r) \in States /\ (Len(r.bytes) # n => Shorter(n, r, next(r)))
  <2>1. r \in Rounds /\ Reading(w, p, n, d, r)
    OBVIOUS
  <2>2. CASE Len(r.bytes) = n
    BY <2>2
  <2>3. CASE Len(r.bytes) # n
    BY <2>1, <2>3, ReadingStep
  <2> QED  BY <2>2, <2>3
<1>4. F \in [1 .. m -> [States -> States]]
  BY <1>3
<1>5. PICK g \in [0 .. m -> States] :
          g[0] = start /\ \A i \in 1 .. m : g[i] = next(g[i - 1])
  <2>1. Defined(States, m, start, F)
    <3> HIDE DEF F, States, start, m
    <3> QED  BY <1>1, <1>2, <1>4, Recursion
  <2>2. PICK g \in [0 .. m -> States] :
            g[0] = start /\ \A i \in 1 .. m : g[i] = F[i][g[i - 1]]
    <3> HIDE DEF F, States, start, m
    <3> QED  BY <2>1 DEF Defined
  <2>3. ASSUME NEW i \in 1 .. m
        PROVE  g[i] = next(g[i - 1])
    <3>1. i - 1 \in 0 .. m
      BY <1>1
    <3>2. g[i - 1] \in States /\ g[i] = F[i][g[i - 1]]
      BY <2>2, <3>1
    <3> HIDE DEF States, next
    <3> QED  BY <3>2
  <2> HIDE DEF next, States, F, start
  <2> QED  BY <2>2, <2>3
<1> HIDE DEF F
<1> DEFINE R(f) == f = [k \in 0 .. m |-> IF k = 0 THEN start ELSE next(f[k - 1])]
           c == CHOOSE f : R(f)
<1>6. readBytes(d, n) = c[m]
  BY DEF readBytes
<1> HIDE DEF next, start, States, m
<1>7. R(c)
  <2>1. \A k \in 0 .. m : g[k] = IF k = 0 THEN start ELSE next(g[k - 1])
    BY <1>1, <1>5
  <2>2. R(g)
    BY <2>1
  <2> HIDE DEF R
  <2> QED  BY <2>2
<1> HIDE DEF c
<1>8. c[0] = start /\ \A k \in 1 .. m : c[k] = next(c[k - 1])
  <2>1. 0 \in 0 .. m /\ \A k \in 1 .. m : k \in 0 .. m /\ k # 0
    BY <1>1
  <2> QED  BY <1>7, <2>1
<1>9. c[m] = g[m]
  <2>1. \A i \in 1 .. m : c[i - 1] = g[i - 1] => c[i] = g[i]
    BY <1>5, <1>8
  <2>2. Agree(m, c, g)
    BY <1>1, <1>5, <1>8, <2>1, RecursionUnique
  <2> QED  BY <1>1, <2>2 DEF Agree
<1> DEFINE Left(r) == Len(Rest(r.decoder))
           T == {k \in Nat : k =< m => \/ Len(g[k].bytes) = n
                                       \/ Left(g[k]) =< m - k}
<1>10. \A r \in States : r \in Rounds /\ Left(r) \in Nat /\ Reading(w, p, n, d, r)
  <2> TAKE r \in States
  <2>1. r \in Rounds /\ Reading(w, p, n, d, r)
    BY DEF States
  <2>2. Rest(r.decoder) \in Seq(Chunk)
    BY <2>1 DEF Reading, Holds, Buffers
  <2> QED  BY <2>1, <2>2, LenProperties
<1>11. 0 \in T
  <2>1. Piece(Chunk, d.chunks, d.headChunkIndex, m, Rest(d))
    BY <1>1, AfterShape DEF Rest, m
  <2>2. Left(g[0]) = m - d.headChunkIndex
    BY <1>5, <2>1 DEF Piece, start
  <2> QED  BY <1>1, <2>2
<1>12. ASSUME NEW k \in Nat, k \in T
       PROVE  k + 1 \in T
  <2> SUFFICES ASSUME k + 1 =< m
               PROVE  Len(g[k + 1].bytes) = n \/ Left(g[k + 1]) =< m - (k + 1)
    OBVIOUS
  <2>1. k \in 0 .. m /\ k + 1 \in 1 .. m /\ k + 1 \in 0 .. m /\ k =< m
    BY <1>1
  <2>2. g[k + 1] = next(g[k]) /\ g[k] \in States /\ g[k + 1] \in States
    <3>1. (k + 1) - 1 = k
      OBVIOUS
    <3> QED  BY <1>5, <2>1, <3>1
  <2>3. Len(g[k].bytes) = n \/ Left(g[k]) =< m - k
    BY <1>12, <2>1
  <2>4. CASE Len(g[k].bytes) = n
    BY <2>2, <2>4 DEF next
  <2>5. CASE Len(g[k].bytes) # n
    <3>1. Shorter(n, g[k], g[k + 1])
      BY <1>3, <2>2, <2>5
    <3>2. Len(g[k + 1].bytes) = n \/ Left(g[k + 1]) = Left(g[k]) - 1
      BY <3>1 DEF Shorter
    <3>3. Left(g[k]) \in Nat /\ Left(g[k]) =< m - k
      BY <1>10, <2>2, <2>3, <2>5
    <3> HIDE DEF Left
    <3> QED  BY <1>1, <2>1, <3>2, <3>3
  <2> QED  BY <2>4, <2>5
<1> DEFINE r == g[m]
<1>13. r \in States
  BY <1>1, <1>5
<1>14. /\ r \in Rounds /\ Reading(w, p, n, d, r)
       /\ Len(r.bytes) = n \/ Left(r) =< 0
  <2>1. m \in T
    <3> HIDE DEF T
    <3> QED  BY <1>1, <1>11, <1>12, SetInduction
  <2>2. m =< m /\ m - m = 0
    BY <1>1
  <2> QED  BY <1>10, <1>13, <2>1, <2>2
<1> HIDE DEF r, T
<1>15. Len(r.bytes) = n
  <2> SUFFICES ASSUME Len(r.bytes) # n
               PROVE  FALSE
    OBVIOUS
  <2>1. Left(r) = 0
    BY <1>10, <1>13, <1>14
  <2> DEFINE rest == Rest(r.decoder)
             o == r.decoder.headChunkOffset
             rb == r.decoder.bufferedBytes
  <2>2. Buffers(w, p, rest, o, rb)
    BY <1>14 DEF Reading, Holds
  <2>3. rest \in Seq(Chunk) /\ Len(rest) = 0
    BY <2>1, <2>2 DEF Buffers
  <2> HIDE DEF rest, o, rb
  <2>4. rest = <<>>
    BY <2>3
  <2>5. rb = 0
    BY <2>2, <2>4, NoChunkNoByte
  <2>6. Len(r.bytes) \in Nat /\ Len(r.bytes) =< n /\ rb + Len(r.bytes) = b
    BY <1>14, LenProperties DEF Reading, Rounds, rb
  <2> QED  BY <2>5, <2>6
<1>16. /\ r.decoder.bufferedBytes = b - n
       /\ p - r.decoder.bufferedBytes = (p - b) + n
  <2>1. r.decoder.bufferedBytes \in Nat /\ r.decoder.bufferedBytes + n = b
    BY <1>14, <1>15 DEF Reading, Rounds, Decoders
  <2> QED  BY <1>1, <2>1
<1>17. Read(w, p, n, d, r)
  BY <1>14, <1>16 DEF Read, Reading
<1> QED  BY <1>6, <1>9, <1>17 DEF r

-------------------------------------------------------------------------------
(***************************************************************************)
(* The loop of push.                                                       *)
(***************************************************************************)

\* Of the first p bytes the decoder has read m frames, all of them within the
\* limit, and perhaps the prefix of the next.
Stage(d, m, p) ==
    /\ m \in 0 .. Len(payloads)
    /\ \A k \in 1 .. m : ~TooLarge(Len(payloads[k]))
    /\ \/ /\ d.expectedBodyBytes = <<>>
          /\ p - d.bufferedBytes = EndOf(m)
       \/ /\ m < Len(payloads)
          /\ ~TooLarge(Len(payloads[m + 1]))
          /\ d.expectedBodyBytes = <<Len(payloads[m + 1])>>
          /\ p - d.bufferedBytes = EndOf(m) + PrefixBytes

\* The states of the loop of push.
Drains == [decoder : Decoders, frames : Seq(Payloads), tooLarge : BOOLEAN]

\* In the middle of a push that m0 frames preceded.
Draining(p, m0, r) ==
    /\ Holds(r.decoder, Wire, p)
    /\ r.tooLarge => r.frames = <<>> /\ OversizedIn(p)
    /\ ~r.tooLarge =>
           \E m \in m0 .. Len(payloads) :
               Stage(r.decoder, m, p) /\ r.frames = Cut(payloads, m0, m)

\* What the rounds of push use up.
Measure(d) == 2 * d.bufferedBytes + Len(d.expectedBodyBytes)

\* s is what a round makes of r.
Decoded(p, m0, r, s) ==
    /\ s \in Drains /\ Draining(p, m0, s)
    /\ s.tooLarge \/ Measure(s.decoder) < Measure(r.decoder)

\* A round that finds a prefix.
LEMMA DecodePrefix ==
    ASSUME payloads \in Seq(Payloads), NEW p \in Nat, p =< Len(Wire),
           NEW m0 \in 0 .. Len(payloads), NEW m \in m0 .. Len(payloads),
           NEW r \in Drains, ~r.tooLarge, Holds(r.decoder, Wire, p),
           Stage(r.decoder, m, p), r.frames = Cut(payloads, m0, m),
           r.decoder.expectedBodyBytes = <<>>,
           PrefixBytes =< r.decoder.bufferedBytes
    PROVE  Decoded(p, m0, r, decodeOnce(r))
<1> DEFINE d == r.decoder
           b == d.bufferedBytes
           read == readBytes(d, PrefixBytes)
           e == read.decoder
           length == LengthIn(read.bytes)
           s == decodeOnce(r)
           body == payloads[m + 1]
<1>1. /\ Wire \in Seq(Byte) /\ Len(Wire) \in Nat /\ PrefixBytes \in Nat \ {0}
      /\ EndOf(m) \in Nat /\ EndOf(Len(payloads)) = Len(Wire)
      /\ m \in Nat /\ m0 \in Nat /\ Len(payloads) \in Nat /\ m \in 0 .. Len(payloads)
  <2>1. m \in Nat /\ m0 \in Nat /\ Len(payloads) \in Nat /\ m \in 0 .. Len(payloads)
    OBVIOUS
  <2> QED  BY <2>1, EndsOfFrames, BytesAssumption DEF Ends
<1>2. /\ b \in Nat /\ p - b = EndOf(m) /\ PrefixBytes =< b
      /\ \A k \in 1 .. m : ~TooLarge(Len(payloads[k]))
  <2>1. <<Len(payloads[m + 1])>> # <<>>
    OBVIOUS
  <2>2. b \in Nat
    BY DEF Holds, Buffers
  <2> QED  BY <2>1, <2>2 DEF Stage
<1>3. Needs(d) = PrefixBytes
  BY DEF Needs
<1>4. Read(Wire, p, PrefixBytes, d, read)
  <2> HIDE DEF read, d
  <2> QED  BY <1>1, <1>2, ReadBytes DEF read, d
<1>5. m < Len(payloads)
  <2> SUFFICES ASSUME m = Len(payloads)
               PROVE  FALSE
    BY <1>1
  <2> QED  BY <1>1, <1>2
<1>6. /\ m \in 0 .. Len(payloads) - 1 /\ m + 1 \in 1 .. Len(payloads)
      /\ body \in Payloads
  <2>1. m \in 0 .. Len(payloads) - 1 /\ m + 1 \in 1 .. Len(payloads)
    BY <1>1, <1>5
  <2> QED  BY <2>1
<1>7. read.bytes = PrefixOf(Len(body))
  BY <1>2, <1>4, <1>6, FrameOnWire DEF Read
<1>8. length = Len(body) /\ Len(body) \in Nat
  BY <1>6, <1>7, EncodedFrame
<1>9. /\ e \in Decoders /\ Holds(e, Wire, p)
      /\ e.expectedBodyBytes = <<>> /\ e.bufferedBytes = b - PrefixBytes
  BY <1>4 DEF Read, Holds
<1>10. s = IF TooLarge(length)
           THEN [decoder |-> e, frames |-> <<>>, tooLarge |-> TRUE]
           ELSE [r EXCEPT !.decoder = [e EXCEPT !.expectedBodyBytes = <<length>>]]
  BY <1>3 DEF decodeOnce
<1> HIDE DEF read, length, s, e
<1>11. CASE TooLarge(length)
  <2>1. /\ s \in Drains /\ s.decoder = e /\ s.frames = <<>> /\ s.tooLarge
    BY <1>9, <1>10, <1>11 DEF Drains
  <2>2. OversizedIn(p)
    <3>1. Len(body) > MaxFrameBytes
      BY <1>8, <1>11 DEF TooLarge
    <3>2. (m + 1) - 1 = m /\ EndOf(m) + PrefixBytes =< p
      BY <1>1, <1>2
    <3>3. m + 1 \in DOMAIN payloads
      BY <1>6
    <3> HIDE DEF b
    <3> QED  BY <3>1, <3>2, <3>3 DEF OversizedIn
  <2>3. Draining(p, m0, s)
    BY <1>9, <2>1, <2>2 DEF Draining
  <2> QED  BY <2>1, <2>3 DEF Decoded, s
<1>12. CASE ~TooLarge(length)
  <2> DEFINE f == [e EXCEPT !.expectedBodyBytes = <<length>>]
  <2>1. /\ f \in Decoders /\ f.expectedBodyBytes = <<length>>
        /\ f.bufferedBytes = b - PrefixBytes
        /\ f.chunks = e.chunks /\ f.headChunkIndex = e.headChunkIndex
        /\ f.headChunkOffset = e.headChunkOffset
        /\ f.bufferedBytes = e.bufferedBytes
    <3>1. <<length>> \in Seq(Nat)
      BY <1>8
    <3> QED  BY <1>9, <3>1 DEF Decoders
  <2>2. s = [r EXCEPT !.decoder = f]
    BY <1>10, <1>12
  <2> HIDE DEF f
  <2>3. Holds(f, Wire, p)
    BY <1>9, <2>1 DEF Holds, Rest, Compact
  <2>4. s \in Drains /\ s.decoder = f /\ s.frames = r.frames /\ s.tooLarge = r.tooLarge
    BY <2>1, <2>2 DEF Drains
  <2>5. p - f.bufferedBytes = EndOf(m) + PrefixBytes
    BY <1>1, <1>2, <2>1
  <2>6. Stage(f, m, p)
    BY <1>1, <1>2, <1>5, <1>8, <1>12, <2>1, <2>5 DEF Stage
  <2>7. Draining(p, m0, s)
    BY <2>3, <2>4, <2>6 DEF Draining
  <2>8. Measure(f) < Measure(d)
    <3>1. Len(<<length>>) = 1 /\ Len(<<>>) = 0
      OBVIOUS
    <3>2. Measure(f) = 2 * (b - PrefixBytes) + 1 /\ Measure(d) = 2 * b + 0
      BY <2>1, <3>1 DEF Measure
    <3> HIDE DEF b
    <3> QED  BY <1>1, <1>2, <3>2
  <2> QED  BY <2>4, <2>7, <2>8 DEF Decoded, s
<1> QED  BY <1>11, <1>12

\* A round that finds a body.
LEMMA DecodeBody ==
    ASSUME payloads \in Seq(Payloads), NEW p \in Nat, p =< Len(Wire),
           NEW m0 \in 0 .. Len(payloads), NEW m \in m0 .. Len(payloads),
           NEW r \in Drains, ~r.tooLarge, Holds(r.decoder, Wire, p),
           Stage(r.decoder, m, p), r.frames = Cut(payloads, m0, m),
           r.decoder.expectedBodyBytes # <<>>,
           Needs(r.decoder) =< r.decoder.bufferedBytes
    PROVE  Decoded(p, m0, r, decodeOnce(r))
<1> DEFINE d == r.decoder
           b == d.bufferedBytes
           body == payloads[m + 1]
           n == Len(body)
           read == readBytes(d, n)
           e == read.decoder
           f == [e EXCEPT !.expectedBodyBytes = <<>>]
           s == decodeOnce(r)
<1>1. /\ Wire \in Seq(Byte) /\ Len(Wire) \in Nat /\ PrefixBytes \in Nat
      /\ EndOf(m) \in Nat
      /\ m \in Nat /\ m0 \in Nat /\ m0 =< m /\ Len(payloads) \in Nat
  <2>1. /\ m \in Nat /\ m0 \in Nat /\ m0 =< m /\ Len(payloads) \in Nat
        /\ m \in 0 .. Len(payloads)
    OBVIOUS
  <2> QED  BY <2>1, EndsOfFrames, BytesAssumption DEF Ends
<1>2. /\ m < Len(payloads) /\ ~TooLarge(n) /\ d.expectedBodyBytes = <<n>>
      /\ p - b = EndOf(m) + PrefixBytes
      /\ \A k \in 1 .. m : ~TooLarge(Len(payloads[k]))
  BY DEF Stage
<1>3. /\ m \in 0 .. Len(payloads) - 1 /\ m + 1 \in 1 .. Len(payloads)
      /\ body \in Payloads /\ m + 1 \in m0 .. Len(payloads)
  <2>1. /\ m \in 0 .. Len(payloads) - 1 /\ m + 1 \in 1 .. Len(payloads)
        /\ m + 1 \in m0 .. Len(payloads)
    BY <1>1, <1>2
  <2> QED  BY <2>1
<1>4. n \in Nat /\ b \in Nat
  <2>1. b \in Nat
    BY DEF Holds, Buffers
  <2> QED  BY <1>3, <2>1, EncodedFrame
<1>5. Needs(d) = n /\ n =< b
  <2>1. Head(<<n>>) = n
    OBVIOUS
  <2> QED  BY <1>2, <2>1 DEF Needs
<1> HIDE DEF n
<1>6. Read(Wire, p, n, d, read)
  <2> HIDE DEF read, d
  <2> QED  BY <1>1, <1>4, <1>5, ReadBytes DEF read, d
<1>7. EndOf(m + 1) = EndOf(m) + PrefixBytes + n /\ body = Cut(Wire, p - b, (p - b) + n)
  <2>1. /\ EndOf(m + 1) = EndOf(m) + PrefixBytes + n
        /\ body = Cut(Wire, EndOf(m) + PrefixBytes, EndOf(m + 1))
    BY <1>3, FrameOnWire DEF n
  <2> HIDE DEF body, b
  <2> QED  BY <1>2, <2>1
<1>8. read.bytes = body
  BY <1>6, <1>7 DEF Read
<1>9. /\ e \in Decoders /\ Holds(e, Wire, p) /\ e.bufferedBytes = b - n
  BY <1>6 DEF Read, Holds
<1>10. s = [r EXCEPT !.decoder = f, !.frames = Append(@, body)]
  BY <1>5, <1>8 DEF decodeOnce
<1> HIDE DEF read, s, e, body
<1>11. /\ f \in Decoders /\ f.expectedBodyBytes = <<>>
       /\ f.bufferedBytes = b - n
       /\ f.chunks = e.chunks /\ f.headChunkIndex = e.headChunkIndex
       /\ f.headChunkOffset = e.headChunkOffset
       /\ f.bufferedBytes = e.bufferedBytes
  <2>1. <<>> \in Seq(Nat)
    OBVIOUS
  <2> QED  BY <1>9, <2>1 DEF Decoders
<1> HIDE DEF f
<1>12. Holds(f, Wire, p)
  BY <1>9, <1>11 DEF Holds, Rest, Compact
<1>13. r.frames \in Seq(Payloads) /\ Append(r.frames, body) \in Seq(Payloads)
  BY <1>3 DEF Drains
<1>14. /\ s \in Drains /\ s.decoder = f /\ s.frames = Append(r.frames, body)
       /\ s.tooLarge = r.tooLarge
  BY <1>10, <1>11, <1>13 DEF Drains
<1>15. s.frames = Cut(payloads, m0, m + 1)
  <2>1. Append(Cut(payloads, m0, m), payloads[m + 1]) = Cut(payloads, m0, m + 1)
    BY <1>1, <1>2, CutMore
  <2> QED  BY <1>14, <2>1 DEF body
<1>16. p - f.bufferedBytes = EndOf(m + 1)
  <2> HIDE DEF b
  <2> QED  BY <1>1, <1>2, <1>4, <1>7, <1>11
<1>17. Stage(f, m + 1, p)
  <2>1. \A k \in 1 .. m + 1 : ~TooLarge(Len(payloads[k]))
    <3> TAKE k \in 1 .. m + 1
    <3>1. k \in 1 .. m \/ k = m + 1
      BY <1>1
    <3> QED  BY <1>2, <3>1 DEF n, body
  <2>2. m + 1 \in 0 .. Len(payloads)
    BY <1>1, <1>2
  <2> QED  BY <1>11, <1>16, <2>1, <2>2 DEF Stage
<1>18. Draining(p, m0, s)
  BY <1>3, <1>12, <1>14, <1>15, <1>17 DEF Draining
<1>19. Measure(f) < Measure(d)
  <2>1. Len(<<n>>) = 1 /\ Len(<<>>) = 0
    OBVIOUS
  <2>2. Measure(f) = 2 * (b - n) + 0 /\ Measure(d) = 2 * b + 1
    BY <1>2, <1>11, <2>1 DEF Measure
  <2> HIDE DEF b
  <2> QED  BY <1>4, <1>5, <2>2
<1> QED  BY <1>14, <1>18, <1>19 DEF Decoded, s

\* What push returns.
Drained(p, m0, r) == r \in Drains /\ Draining(p, m0, r) /\ Stopped(r)

\* The whole loop of push: it ends with every complete frame decoded, or at the
\* first prefix over the limit.
LEMMA Drain ==
    ASSUME payloads \in Seq(Payloads), NEW p \in Nat, p =< Len(Wire),
           NEW m0 \in 0 .. Len(payloads), NEW d,
           Holds(d, Wire, p), Stage(d, m0, p)
    PROVE  Drained(p, m0, drain(d))
<1> DEFINE b == d.bufferedBytes
           limit == 2 * b + 1
           start == [decoder |-> d, frames |-> <<>>, tooLarge |-> FALSE]
           States == {r \in Drains : Draining(p, m0, r)}
           next(r) == IF Stopped(r) THEN r ELSE decodeOnce(r)
           F == [i \in 1 .. limit |-> [r \in States |-> next(r)]]
<1>1. /\ d \in Decoders /\ b \in Nat /\ limit \in Nat
      /\ m0 \in m0 .. Len(payloads) /\ m0 \in Nat /\ Len(payloads) \in Nat
      /\ m0 =< Len(payloads)
  <2>1. d \in Decoders /\ b \in Nat
    BY DEF Holds, Buffers
  <2>2. 2 * b + 1 \in Nat
    <3> HIDE DEF b
    <3> QED  BY <2>1
  <2> QED  BY <2>1, <2>2
<1>2. start \in States
  <2>1. /\ start \in Drains /\ start.decoder = d /\ start.frames = <<>>
        /\ ~start.tooLarge
    BY <1>1 DEF Drains
  <2>2. Cut(payloads, m0, m0) = <<>>
    BY <1>1, CutNone
  <2> HIDE DEF start
  <2>3. Draining(p, m0, start)
    BY <1>1, <2>1, <2>2 DEF Draining
  <2> QED  BY <2>1, <2>3
<1>3. ASSUME NEW r \in States
      PROVE  next(r) \in States /\ (~Stopped(r) => Decoded(p, m0, r, next(r)))
  <2>1. r \in Drains /\ Draining(p, m0, r)
    OBVIOUS
  <2>2. CASE Stopped(r)
    BY <2>2
  <2>3. CASE ~Stopped(r)
    <3>1. ~r.tooLarge /\ ~(r.decoder.bufferedBytes < Needs(r.decoder))
      BY <2>3 DEF Stopped
    <3>2. PICK m \in m0 .. Len(payloads) :
              Stage(r.decoder, m, p) /\ r.frames = Cut(payloads, m0, m)
      BY <2>1, <3>1 DEF Draining
    <3>3. Holds(r.decoder, Wire, p)
      BY <2>1 DEF Draining
    <3>4. CASE r.decoder.expectedBodyBytes = <<>>
      <4>1. PrefixBytes =< r.decoder.bufferedBytes
        <5>1. r.decoder.bufferedBytes \in Nat /\ PrefixBytes \in Nat
          BY <3>3, BytesAssumption DEF Holds, Buffers
        <5> QED  BY <3>1, <3>4, <5>1 DEF Needs
      <4>2. Decoded(p, m0, r, decodeOnce(r))
        BY <2>1, <3>1, <3>2, <3>3, <3>4, <4>1, DecodePrefix, Zenon
      <4> QED  BY <2>3, <4>2 DEF Decoded
    <3>5. CASE r.decoder.expectedBodyBytes # <<>>
      <4>1. Needs(r.decoder) =< r.decoder.bufferedBytes
        <5>1. /\ r.decoder.bufferedBytes \in Nat
              /\ r.decoder.expectedBodyBytes \in Seq(Nat)
          BY <3>3 DEF Holds, Buffers, Decoders
        <5>2. Needs(r.decoder) \in Nat
          BY <3>5, <5>1 DEF Needs
        <5> QED  BY <3>1, <5>1, <5>2
      <4>2. Decoded(p, m0, r, decodeOnce(r))
        BY <2>1, <3>1, <3>2, <3>3, <3>5, <4>1, DecodeBody, Zenon
      <4> QED  BY <2>3, <4>2 DEF Decoded
    <3> QED  BY <3>4, <3>5
  <2> QED  BY <2>2, <2>3
<1>4. F \in [1 .. limit -> [States -> States]]
  <2> HIDE DEF States, next, limit
  <2> QED  BY <1>3
<1>5. PICK g \in [0 .. limit -> States] :
          g[0] = start /\ \A i \in 1 .. limit : g[i] = next(g[i - 1])
  <2>1. Defined(States, limit, start, F)
    <3> HIDE DEF F, States, start, limit
    <3> QED  BY <1>1, <1>2, <1>4, Recursion
  <2>2. PICK g \in [0 .. limit -> States] :
            g[0] = start /\ \A i \in 1 .. limit : g[i] = F[i][g[i - 1]]
    <3> HIDE DEF F, States, start, limit
    <3> QED  BY <2>1 DEF Defined
  <2>3. ASSUME NEW i \in 1 .. limit
        PROVE  g[i] = next(g[i - 1])
    <3> HIDE DEF States, next, limit
    <3>1. i - 1 \in 0 .. limit
      BY <1>1
    <3>2. g[i - 1] \in States /\ g[i] = F[i][g[i - 1]]
      BY <2>2, <3>1
    <3> QED  BY <3>2
  <2> HIDE DEF next, States, F, start, limit
  <2> QED  BY <2>2, <2>3
<1> HIDE DEF F
<1> DEFINE R(f) == f = [k \in 0 .. limit |-> IF k = 0 THEN start ELSE next(f[k - 1])]
           c == CHOOSE f : R(f)
<1>6. drain(d) = c[limit]
  BY DEF drain
<1> HIDE DEF next, start, States, limit
<1>7. R(c)
  <2>1. \A k \in 0 .. limit : g[k] = IF k = 0 THEN start ELSE next(g[k - 1])
    BY <1>1, <1>5
  <2>2. R(g)
    BY <2>1
  <2> HIDE DEF R
  <2> QED  BY <2>2
<1> HIDE DEF c
<1>8. c[0] = start /\ \A k \in 1 .. limit : c[k] = next(c[k - 1])
  <2>1. 0 \in 0 .. limit /\ \A k \in 1 .. limit : k \in 0 .. limit /\ k # 0
    BY <1>1
  <2> QED  BY <1>7, <2>1
<1>9. c[limit] = g[limit]
  <2>1. \A i \in 1 .. limit : c[i - 1] = g[i - 1] => c[i] = g[i]
    BY <1>5, <1>8
  <2>2. Agree(limit, c, g)
    BY <1>1, <1>5, <1>8, <2>1, RecursionUnique
  <2> QED  BY <1>1, <2>2 DEF Agree
<1> DEFINE Left(r) == Measure(r.decoder)
           T == {k \in Nat : k =< limit => Stopped(g[k]) \/ Left(g[k]) =< limit - k}
<1>10. \A r \in States : r \in Drains /\ Left(r) \in Nat /\ Draining(p, m0, r)
  <2> TAKE r \in States
  <2>1. r \in Drains /\ Draining(p, m0, r)
    BY DEF States
  <2>2. /\ r.decoder.bufferedBytes \in Nat /\ r.decoder.expectedBodyBytes \in Seq(Nat)
        /\ Len(r.decoder.expectedBodyBytes) \in Nat
    BY <2>1, LenProperties DEF Drains, Decoders
  <2> QED  BY <2>1, <2>2 DEF Measure
<1>11. 0 \in T
  <2>1. g[0].decoder = d
    BY <1>5 DEF start
  <2>2. Len(d.expectedBodyBytes) \in 0 .. 1
    <3> DEFINE x == Len(payloads[m0 + 1])
    <3>1. d.expectedBodyBytes = <<>> \/ d.expectedBodyBytes = <<x>>
      BY DEF Stage
    <3> HIDE DEF x
    <3>2. Len(<<>>) = 0 /\ Len(<<x>>) = 1
      OBVIOUS
    <3>3. Len(d.expectedBodyBytes) = 0 \/ Len(d.expectedBodyBytes) = 1
      BY <3>1, <3>2, Zenon
    <3> QED  BY <3>3
  <2>3. Measure(d) =< limit
    BY <1>1, <2>2 DEF Measure, limit
  <2> QED  BY <1>1, <2>1, <2>3
<1>12. ASSUME NEW k \in Nat, k \in T
       PROVE  k + 1 \in T
  <2> SUFFICES ASSUME k + 1 =< limit
               PROVE  Stopped(g[k + 1]) \/ Left(g[k + 1]) =< limit - (k + 1)
    OBVIOUS
  <2>1. /\ k \in 0 .. limit /\ k + 1 \in 1 .. limit /\ k + 1 \in 0 .. limit
        /\ k =< limit
    BY <1>1
  <2>2. g[k + 1] = next(g[k]) /\ g[k] \in States /\ g[k + 1] \in States
    <3>1. (k + 1) - 1 = k
      OBVIOUS
    <3> QED  BY <1>5, <2>1, <3>1
  <2>3. Stopped(g[k]) \/ Left(g[k]) =< limit - k
    BY <1>12, <2>1
  <2>4. CASE Stopped(g[k])
    BY <2>2, <2>4 DEF next
  <2>5. CASE ~Stopped(g[k])
    <3>1. Decoded(p, m0, g[k], g[k + 1])
      BY <1>3, <2>2, <2>5
    <3>2. g[k + 1].tooLarge \/ Left(g[k + 1]) < Left(g[k])
      BY <3>1 DEF Decoded
    <3>3. CASE g[k + 1].tooLarge
      BY <3>3 DEF Stopped
    <3>4. CASE Left(g[k + 1]) < Left(g[k])
      <4>1. Left(g[k]) \in Nat /\ Left(g[k + 1]) \in Nat /\ Left(g[k]) =< limit - k
        BY <1>10, <2>2, <2>3, <2>5
      <4> HIDE DEF Left
      <4>2. Left(g[k + 1]) =< limit - (k + 1)
        BY <1>1, <2>1, <3>4, <4>1
      <4> QED  BY <4>2
    <3> QED  BY <3>2, <3>3, <3>4
  <2> QED  BY <2>4, <2>5
<1> DEFINE r == g[limit]
<1>13. r \in States
  BY <1>1, <1>5
<1>14. /\ r \in Drains /\ Draining(p, m0, r)
       /\ Stopped(r) \/ Left(r) =< 0
  <2>1. limit \in T
    <3> HIDE DEF T
    <3> QED  BY <1>1, <1>11, <1>12, SetInduction
  <2>2. limit =< limit /\ limit - limit = 0
    BY <1>1
  <2> QED  BY <1>10, <1>13, <2>1, <2>2
<1> HIDE DEF r, T
<1>15. Stopped(r)
  <2> SUFFICES ASSUME ~Stopped(r)
               PROVE  FALSE
    OBVIOUS
  <2> DEFINE x == r.decoder.bufferedBytes
             y == Len(r.decoder.expectedBodyBytes)
  <2>1. /\ x \in Nat /\ y \in Nat /\ r.decoder.expectedBodyBytes \in Seq(Nat)
        /\ 2 * x + y =< 0
    BY <1>14, LenProperties DEF Drains, Decoders, Measure
  <2>2. x = 0 /\ y = 0
    <3> HIDE DEF x, y
    <3> QED  BY <2>1
  <2>3. r.decoder.expectedBodyBytes = <<>>
    BY <2>1, <2>2
  <2>4. Needs(r.decoder) = PrefixBytes /\ 0 < PrefixBytes
    BY <2>3, BytesAssumption DEF Needs
  <2> QED  BY <2>2, <2>4 DEF Stopped
<1> QED  BY <1>6, <1>9, <1>14, <1>15 DEF Drained, r

-------------------------------------------------------------------------------
(***************************************************************************)
(* The invariant of the whole stream.                                      *)
(***************************************************************************)

\* What holds of the decoder between two pushes.
StageInv ==
    IF outcome = "tooLarge"
    THEN OversizedIn(pushed) /\ frames = Cut(payloads, 0, LastCompleteIn(kept))
    ELSE /\ \E m \in 0 .. Len(payloads) :
                Stage(decoder, m, pushed) /\ frames = Cut(payloads, 0, m)
         /\ decoder.bufferedBytes < Needs(decoder)
         /\ outcome # "open" => outcome = finish(decoder)

\* The inductive invariant.
DecoderInv ==
    /\ payloads \in Seq(Payloads)
    /\ pushed \in 0 .. Len(Wire)
    /\ outcome \in {"open", "tooLarge", "end", "length", "body"}
    /\ Holds(decoder, Wire, pushed)
    /\ StageInv

\* A new decoder holds nothing and has read no frame.
LEMMA InitDecoder == Init => DecoderInv
<1> SUFFICES ASSUME Init
             PROVE  DecoderInv
  OBVIOUS
<1>1. payloads \in Seq(Payloads) /\ Len(payloads) \in Nat
  <2>1. PICK n \in 0 .. MaxFrames : payloads \in [1 .. n -> Payloads]
    BY DEF Init
  <2> QED  BY <2>1, BoundAssumption
<1>2. /\ Wire \in Seq(Byte) /\ Len(Wire) \in Nat /\ EndOf(0) = 0
      /\ 0 \in 0 .. Len(payloads)
  BY <1>1, EndsOfFrames DEF Ends
<1>3. /\ decoder = EmptyDecoder /\ pushed = 0 /\ outcome = "open" /\ frames = <<>>
  BY DEF Init
<1>4. /\ decoder \in Decoders /\ decoder.chunks = <<>> /\ decoder.headChunkIndex = 0
      /\ decoder.headChunkOffset = 0 /\ decoder.bufferedBytes = 0
      /\ decoder.expectedBodyBytes = <<>>
  BY <1>3 DEF EmptyDecoder, Decoders
<1>5. Rest(decoder) = <<>>
  BY <1>4 DEF Rest, After
<1>6. Cut(Wire, 0, 0) = <<>> /\ Cut(payloads, 0, 0) = <<>>
  BY <1>1, <1>2, CutNone
<1>7. Holds(decoder, Wire, 0)
  <2>1. 0 - (0 + 0) = 0 /\ <<>> \in Seq(Chunk) /\ Len(<<>>) = 0
    OBVIOUS
  <2>2. Buffers(Wire, 0, <<>>, 0, 0)
    BY <1>6, <2>1, FlattenEmpty DEF Buffers
  <2> QED  BY <1>4, <1>5, <2>1, <2>2 DEF Holds, Compact
<1>8. Stage(decoder, 0, 0)
  <2>1. 0 - 0 = 0 /\ \A k \in 1 .. 0 : FALSE
    OBVIOUS
  <2> QED  BY <1>2, <1>4, <2>1 DEF Stage
<1>9. decoder.bufferedBytes < Needs(decoder)
  BY <1>4, BytesAssumption DEF Needs
<1>10. StageInv
  BY <1>2, <1>3, <1>6, <1>8, <1>9 DEF StageInv
<1> QED  BY <1>1, <1>2, <1>3, <1>7, <1>10 DEF DecoderInv

\* A stage is a number of frames: the last one that is complete.
LEMMA StageComplete ==
    ASSUME DecoderInv, outcome # "tooLarge",
           NEW m \in 0 .. Len(payloads), Stage(decoder, m, pushed)
    PROVE  /\ LastCompleteIn(pushed) = m
           /\ m < Len(payloads) => pushed < EndOf(m + 1)
<1> DEFINE b == decoder.bufferedBytes
           n == Len(payloads[m + 1])
<1>1. /\ payloads \in Seq(Payloads) /\ pushed \in Nat /\ Len(payloads) \in Nat
      /\ b \in Nat /\ b < Needs(decoder) /\ PrefixBytes \in Nat /\ EndOf(m) \in Nat
  <2>1. payloads \in Seq(Payloads) /\ pushed \in 0 .. Len(Wire) /\ b < Needs(decoder)
    BY DEF DecoderInv, StageInv
  <2>2. b \in Nat
    BY DEF DecoderInv, Holds, Buffers
  <2>3. EndOf(m) \in Nat /\ Len(Wire) \in Nat /\ Len(payloads) \in Nat
    BY <2>1, EndsOfFrames, LenProperties DEF Ends
  <2>4. pushed \in Nat
    BY <2>1, <2>3
  <2> QED  BY <2>1, <2>2, <2>3, <2>4, BytesAssumption
<1>2. m < Len(payloads) => /\ n \in Nat /\ EndOf(m + 1) = EndOf(m) + PrefixBytes + n
  <2> SUFFICES ASSUME m < Len(payloads)
               PROVE  n \in Nat /\ EndOf(m + 1) = EndOf(m) + PrefixBytes + n
    OBVIOUS
  <2>1. m \in 0 .. Len(payloads) - 1
    BY <1>1
  <2>2. payloads[m + 1] \in Payloads
    BY <1>1, <2>1
  <2>3. EndOf(m + 1) = EndOf(m) + PrefixBytes + n
    BY <1>1, <2>1, FrameOnWire
  <2> QED  BY <2>2, <2>3, EncodedFrame
<1>3. \/ pushed - b = EndOf(m) /\ b < PrefixBytes
      \/ m < Len(payloads) /\ pushed - b = EndOf(m) + PrefixBytes /\ b < n
  <2>1. CASE decoder.expectedBodyBytes = <<>> /\ pushed - b = EndOf(m)
    BY <1>1, <2>1 DEF Needs
  <2>2. CASE /\ m < Len(payloads) /\ decoder.expectedBodyBytes = <<n>>
             /\ pushed - b = EndOf(m) + PrefixBytes
    <3>1. <<n>> # <<>> /\ Head(<<n>>) = n
      OBVIOUS
    <3>2. Needs(decoder) = n
      BY <2>2, <3>1 DEF Needs
    <3> QED  BY <1>1, <2>2, <3>2
  <2> QED  BY <2>1, <2>2 DEF Stage
<1> HIDE DEF b, n
<1>4. EndOf(m) =< pushed /\ (m < Len(payloads) => pushed < EndOf(m + 1))
  BY <1>1, <1>2, <1>3
<1> QED  BY <1>1, <1>4, LastComplete

\* No push while the stream is open has met a frame over the limit.
LEMMA NotOversized ==
    ASSUME DecoderInv, outcome # "tooLarge"
    PROVE  ~OversizedIn(pushed)
<1> SUFFICES ASSUME NEW k \in DOMAIN payloads, Len(payloads[k]) > MaxFrameBytes,
                    EndOf(k - 1) + PrefixBytes =< pushed
             PROVE  FALSE
  BY DEF OversizedIn
<1>1. PICK m \in 0 .. Len(payloads) : Stage(decoder, m, pushed)
  BY DEF DecoderInv, StageInv
<1>2. m < Len(payloads) => pushed < EndOf(m + 1)
  BY <1>1, StageComplete
<1>3. /\ payloads \in Seq(Payloads) /\ pushed \in 0 .. Len(Wire)
      /\ decoder.bufferedBytes < Needs(decoder) /\ decoder.bufferedBytes \in Nat
  BY DEF DecoderInv, StageInv, Holds, Buffers
<1>4. /\ Len(payloads) \in Nat /\ k \in 1 .. Len(payloads) /\ TooLarge(Len(payloads[k]))
      /\ PrefixBytes \in Nat \ {0} /\ pushed \in Nat
  <2>1. Len(Wire) \in Nat
    BY <1>3, EndsOfFrames DEF Ends
  <2> QED  BY <1>3, <2>1, BytesAssumption DEF TooLarge
<1>5. k \notin 1 .. m
  BY <1>1, <1>4 DEF Stage
<1>6. k \in m + 1 .. Len(payloads) /\ m < Len(payloads)
  BY <1>4, <1>5
<1>7. k = m + 1
  <2> SUFFICES ASSUME k # m + 1
               PROVE  FALSE
    OBVIOUS
  <2>1. m + 1 \in 0 .. k - 1 /\ k - 1 \in 0 .. Len(payloads) /\ m + 1 \in 0 .. Len(payloads)
    BY <1>4, <1>6
  <2>2. EndOf(m + 1) =< EndOf(k - 1) /\ EndOf(m + 1) \in Nat /\ EndOf(k - 1) \in Nat
    BY <1>3, <2>1, EndsGrow, EndsOfFrames DEF Ends
  <2> QED  BY <1>2, <1>4, <1>6, <2>2
<1>8. /\ decoder.expectedBodyBytes = <<>>
      /\ pushed - decoder.bufferedBytes = EndOf(m)
  BY <1>1, <1>4, <1>7 DEF Stage
<1>9. EndOf(m) \in Nat /\ EndOf(m) + PrefixBytes =< pushed
  <2>1. k - 1 = m
    BY <1>4, <1>7
  <2> QED  BY <1>3, <2>1, EndsOfFrames DEF Ends
<1>10. decoder.bufferedBytes < PrefixBytes
  BY <1>3, <1>8 DEF Needs
<1> QED  BY <1>3, <1>4, <1>8, <1>9, <1>10

\* The two properties follow.
LEMMA InvBufferOK == DecoderInv => BufferOK
<1> SUFFICES ASSUME DecoderInv
             PROVE  BufferOK
  OBVIOUS
<1> DEFINE b == decoder.bufferedBytes
           o == decoder.headChunkOffset
           rest == SubSeq(decoder.chunks, decoder.headChunkIndex + 1, Len(decoder.chunks))
           start == pushed - (o + b)
<1>1. /\ payloads \in Seq(Payloads) /\ pushed \in 0 .. Len(Wire)
      /\ outcome \in {"open", "tooLarge", "end", "length", "body"}
      /\ Holds(decoder, Wire, pushed)
  BY DEF DecoderInv
<1>2. Wire \in Seq(Byte) /\ Len(Wire) \in Nat
  BY <1>1, EndsOfFrames DEF Ends
<1>3. /\ o \in Nat /\ b \in Nat /\ o + b =< pushed
      /\ FlattenSeq(rest) = Cut(Wire, start, pushed)
  BY <1>1 DEF Holds, Buffers, Rest, After
<1>4. /\ pushed \in Nat /\ start \in Nat /\ start =< pushed /\ pushed =< Len(Wire)
      /\ pushed - start = o + b /\ o + b \in Nat /\ o =< o + b
      /\ start + o = pushed - b /\ start + (o + b) = pushed /\ b \in 0 .. pushed
  BY <1>1, <1>2, <1>3
<1> HIDE DEF start
<1>5. Len(FlattenSeq(rest)) = o + b
  <2>1. Piece(Byte, Wire, start, pushed, Cut(Wire, start, pushed))
    BY <1>2, <1>4, CutShape, Zenon
  <2> QED  BY <1>3, <1>4, <2>1 DEF Piece
<1>6. Unread(decoder) = SubSeq(Wire, pushed - b + 1, pushed)
  <2>1. CutTwice(Wire, start, pushed, o, o + b)
    <3>1. o + b =< pushed - start
      BY <1>4
    <3> QED  BY <1>2, <1>3, <1>4, <3>1, CutCut, Zenon
  <2>2. Unread(decoder) = Cut(FlattenSeq(rest), o, o + b)
    BY DEF Unread, Cut
  <2>3. Unread(decoder) = Cut(Wire, pushed - b, pushed)
    BY <1>3, <1>4, <2>1, <2>2 DEF CutTwice
  <2> QED  BY <2>3 DEF Cut
<1> HIDE DEF rest
<1>7. Compact(decoder)
  BY <1>1 DEF Holds
<1> QED  BY <1>1, <1>4, <1>5, <1>6, <1>7 DEF BufferOK, Compact, rest

\* What has been read is what the bytes pushed complete.
LEMMA InvDecodes == DecoderInv => DecodesTheWire
<1> SUFFICES ASSUME DecoderInv
             PROVE  BordersDoNotMatter /\ OversizedRefused /\ FinishIsExact
  BY DEF DecodesTheWire
<1>0. \A k : Cut(payloads, 0, k) = SubSeq(payloads, 1, k)
  BY DEF Cut
<1>1. CASE outcome = "tooLarge"
  <2>1. OversizedIn(pushed) /\ frames = Cut(payloads, 0, LastCompleteIn(kept))
    BY <1>1 DEF DecoderInv, StageInv
  <2> QED  BY <1>0, <1>1, <2>1 DEF BordersDoNotMatter, OversizedRefused, FinishIsExact
<1>2. CASE outcome # "tooLarge"
  <2>1. PICK m \in 0 .. Len(payloads) :
            Stage(decoder, m, pushed) /\ frames = Cut(payloads, 0, m)
    BY <1>2 DEF DecoderInv, StageInv
  <2>2. LastCompleteIn(pushed) = m
    BY <1>2, <2>1, StageComplete
  <2>3. BordersDoNotMatter
    BY <1>0, <2>1, <2>2 DEF BordersDoNotMatter
  <2>4. OversizedRefused
    <3>1. ~OversizedIn(pushed)
      BY <1>2, NotOversized
    <3>2. (outcome = "tooLarge") = OversizedIn(pushed)
      BY <1>2, <3>1, Zenon DEF OversizedIn
    <3> QED  BY <1>2, <3>2 DEF OversizedRefused
  <2>5. FinishIsExact
    <3> DEFINE b == decoder.bufferedBytes
               rest == pushed - EndOf(m)
    <3>1. /\ payloads \in Seq(Payloads) /\ pushed \in 0 .. Len(Wire)
          /\ b \in Nat /\ b < Needs(decoder)
          /\ outcome # "open" => outcome = finish(decoder)
      BY <1>2 DEF DecoderInv, StageInv, Holds, Buffers
    <3>2. /\ EndOf(m) \in Nat /\ pushed \in Nat /\ PrefixBytes \in Nat
      <4>1. EndOf(m) \in Nat /\ Len(Wire) \in Nat
        BY <3>1, EndsOfFrames DEF Ends
      <4> QED  BY <3>1, <4>1, BytesAssumption
    <3>3. CASE decoder.expectedBodyBytes = <<>> /\ pushed - b = EndOf(m)
      <4>1. rest = b /\ b < PrefixBytes
        BY <3>1, <3>2, <3>3 DEF Needs
      <4>2. /\ outcome # "open" => outcome = IF b = 0 THEN "end" ELSE "length"
        BY <3>1, <3>3 DEF finish
      <4> HIDE DEF rest, b
      <4>3. /\ outcome = "end" => rest = 0
            /\ outcome = "length" => rest \in 1 .. PrefixBytes - 1
            /\ outcome # "body"
        BY <3>1, <3>2, <4>1, <4>2
      <4> QED  BY <2>2, <4>3 DEF FinishIsExact, rest
    <3>4. CASE /\ decoder.expectedBodyBytes = <<Len(payloads[m + 1])>>
               /\ pushed - b = EndOf(m) + PrefixBytes
      <4>1. rest >= PrefixBytes
        BY <3>1, <3>2, <3>4
      <4>2. decoder.expectedBodyBytes # <<>>
        BY <3>4
      <4>3. outcome # "open" => outcome = "body"
        BY <3>1, <4>2 DEF finish
      <4> HIDE DEF rest
      <4> QED  BY <2>2, <4>1, <4>3 DEF FinishIsExact, rest
    <3> QED  BY <2>1, <3>3, <3>4 DEF Stage
  <2> QED  BY <2>3, <2>4, <2>5
<1> QED  BY <1>1, <1>2

-------------------------------------------------------------------------------
(***************************************************************************)
(* Its steps, and the theorems.                                            *)
(***************************************************************************)

\* The end of the stream.
LEMMA FinishStep ==
    ASSUME DecoderInv, Finish
    PROVE  DecoderInv'
<1>1. /\ outcome = "open" /\ outcome' = finish(decoder)
      /\ payloads' = payloads /\ pushed' = pushed /\ decoder' = decoder
      /\ frames' = frames /\ kept' = kept
  BY DEF Finish
<1>2. finish(decoder) \in {"end", "length", "body"}
  BY DEF finish
<1>3. Holds(decoder, Wire, pushed)'
  BY <1>1 DEF DecoderInv, Wire
<1>4. StageInv'
  <2>1. PICK m \in 0 .. Len(payloads) :
            Stage(decoder, m, pushed) /\ frames = Cut(payloads, 0, m)
    BY <1>1 DEF DecoderInv, StageInv
  <2>2. decoder.bufferedBytes < Needs(decoder)
    BY <1>1 DEF DecoderInv, StageInv
  <2>3. Stage(decoder, m, pushed)'
    BY <1>1, <2>1 DEF Stage, EndOf
  <2>4. (outcome # "tooLarge")'
    BY <1>1, <1>2
  <2>5. \E k \in 0 .. Len(payloads') :
            Stage(decoder, k, pushed)' /\ frames' = Cut(payloads', 0, k)
    BY <1>1, <2>1, <2>3
  <2>6. outcome' = finish(decoder') /\ decoder'.bufferedBytes < Needs(decoder')
    BY <1>1, <2>2
  <2> QED  BY <2>4, <2>5, <2>6 DEF StageInv
<1> QED  BY <1>1, <1>2, <1>3, <1>4 DEF DecoderInv, Wire

\* The decoder with the chunk pushed is a decoder that holds more of the wire.
LEMMA BufferedHolds ==
    ASSUME DecoderInv, NEW n \in Nat, pushed + n =< Len(Wire)
    PROVE  /\ Holds(Buffered(SubSeq(Wire, pushed + 1, pushed + n)), Wire, pushed + n)
           /\ \A m : Stage(decoder, m, pushed) =>
                     Stage(Buffered(SubSeq(Wire, pushed + 1, pushed + n)), m, pushed + n)
<1> DEFINE chunk == SubSeq(Wire, pushed + 1, pushed + n)
           d == Buffered(chunk)
           b == decoder.bufferedBytes
           o == decoder.headChunkOffset
           h == decoder.headChunkIndex
           rest == Rest(decoder)
<1>1. /\ payloads \in Seq(Payloads) /\ pushed \in 0 .. Len(Wire)
      /\ decoder \in Decoders /\ h =< Len(decoder.chunks) /\ Compact(decoder)
      /\ Buffers(Wire, pushed, rest, o, b)
  BY DEF DecoderInv, Holds
<1>2. Wire \in Seq(Byte) /\ Len(Wire) \in Nat /\ pushed \in Nat
  BY <1>1, EndsOfFrames DEF Ends
<1>3. /\ decoder.chunks \in Seq(Chunk) /\ h \in Nat /\ b \in Nat
      /\ Len(decoder.chunks) \in Nat
  BY <1>1, LenProperties DEF Decoders
<1>4. chunk = Cut(Wire, pushed, pushed + n)
  BY DEF Cut
<1> HIDE DEF chunk, d, rest, h, b, o
<1>5. CASE n = 0
  <2>1. chunk = <<>> /\ pushed + n = pushed
    <3>1. pushed + n = pushed
      BY <1>2, <1>5
    <3>2. Cut(Wire, pushed, pushed) = <<>>
      BY <1>1, <1>2, CutNone
    <3> QED  BY <1>4, <3>1, <3>2
  <2>2. d = decoder
    BY <2>1 DEF d, Buffered
  <2>3. Holds(decoder, Wire, pushed)
    BY DEF DecoderInv
  <2> QED  BY <2>1, <2>2, <2>3 DEF d, chunk
<1>6. CASE n # 0
  <2>0. n \in Nat \ {0}
    BY <1>6
  <2>1. /\ chunk \in Chunk /\ Len(chunk) = n
        /\ Buffers(Wire, pushed + n, Append(rest, chunk), o, b + n)
    BY <1>1, <1>2, <1>4, <2>0, ChunkAdded
  <2>2. chunk # <<>> /\ b + n \in Nat
    BY <1>3, <2>1 DEF Chunk
  <2>3. d = [decoder EXCEPT !.chunks = Append(@, chunk), !.bufferedBytes = @ + Len(chunk)]
    BY <2>2 DEF d, Buffered
  <2> DEFINE more == Append(decoder.chunks, chunk)
  <2>4. more \in Seq(Chunk) /\ Len(more) = Len(decoder.chunks) + 1
    BY <1>3, <2>1, AppendProperties
  <2> HIDE DEF more
  <2>5. d = [decoder EXCEPT !.chunks = more, !.bufferedBytes = b + n]
    BY <2>1, <2>3 DEF b, more
  <2>6. /\ d \in Decoders /\ d.chunks = more /\ d.headChunkIndex = h
        /\ d.headChunkOffset = o /\ d.bufferedBytes = b + n
        /\ d.expectedBodyBytes = decoder.expectedBodyBytes
    BY <1>1, <2>2, <2>4, <2>5 DEF Decoders, h, o
  <2> HIDE DEF d
  <2>7. Rest(d) = Append(rest, chunk)
    <3>1. After(more, h) = Append(After(decoder.chunks, h), chunk)
      BY <1>1, <1>3, <2>1, AfterAppend DEF more
    <3> QED  BY <2>6, <3>1 DEF Rest, rest, h
  <2>8. Compact(d) /\ d.headChunkIndex =< Len(d.chunks)
    <3>1. h = 0 \/ (h < CompactAt /\ h * 2 < Len(decoder.chunks))
      BY <1>1 DEF Compact, h
    <3>2. h =< Len(more) /\ (h = 0 \/ (h < CompactAt /\ h * 2 < Len(more)))
      BY <1>1, <1>3, <2>4, <3>1
    <3> QED  BY <2>6, <3>2 DEF Compact
  <2>9. Holds(d, Wire, pushed + n)
    BY <2>1, <2>6, <2>7, <2>8 DEF Holds
  <2>10. \A m : Stage(decoder, m, pushed) => Stage(d, m, pushed + n)
    <3>1. (pushed + n) - (b + n) = pushed - b
      BY <1>2, <1>3
    <3> QED  BY <2>6, <3>1 DEF Stage, b
  <2> QED  BY <2>9, <2>10 DEF d, chunk
<1> QED  BY <1>5, <1>6

\* A chunk arrives, and is decoded or refused.
LEMMA PushStep ==
    ASSUME DecoderInv, NEW n \in 0 .. MaxChunk, Push(n)
    PROVE  DecoderInv'
<1> DEFINE chunk == SubSeq(Wire, pushed + 1, pushed + n)
           d == Buffered(chunk)
           p == pushed + n
           r == push(chunk)
<1>1. /\ outcome = "open" /\ p =< Len(Wire) /\ pushed' = p /\ payloads' = payloads
      /\ decoder' = r.decoder /\ frames' = frames \o r.frames
      /\ outcome' = IF r.tooLarge THEN "tooLarge" ELSE outcome
      /\ kept' = pushed
  BY DEF Push
<1>2. /\ payloads \in Seq(Payloads) /\ pushed \in 0 .. Len(Wire) /\ n \in Nat
  BY BoundAssumption DEF DecoderInv
<1>3. /\ Len(Wire) \in Nat /\ Len(payloads) \in Nat /\ p \in Nat /\ p \in 0 .. Len(Wire)
  <2>1. Len(Wire) \in Nat /\ Len(payloads) \in Nat
    BY <1>2, EndsOfFrames, LenProperties DEF Ends
  <2> QED  BY <1>1, <1>2, <2>1
<1>4. PICK m0 \in 0 .. Len(payloads) :
          Stage(decoder, m0, pushed) /\ frames = Cut(payloads, 0, m0)
  BY <1>1 DEF DecoderInv, StageInv
<1>5. Holds(d, Wire, p) /\ Stage(d, m0, p)
  BY <1>1, <1>2, <1>4, BufferedHolds
<1>6. Drained(p, m0, r)
  <2>1. r = drain(d)
    BY DEF push
  <2> HIDE DEF d, p, r
  <2> QED  BY <1>1, <1>2, <1>3, <1>4, <1>5, <2>1, Drain
<1>7. LastCompleteIn(pushed) = m0
  BY <1>1, <1>4, StageComplete
<1> HIDE DEF r, p, d, chunk
<1>8. Wire' = Wire /\ \A k : EndOf(k)' = EndOf(k)
  BY <1>1 DEF Wire, EndOf
<1>9. Holds(decoder, Wire, pushed)'
  BY <1>1, <1>6, <1>8 DEF Drained, Draining
<1>10. m0 \in Nat /\ m0 =< Len(payloads)
  BY <1>3
<1>11. StageInv'
  <2>1. CASE r.tooLarge
    <3>1. r.frames = <<>> /\ OversizedIn(p)
      BY <1>6, <2>1 DEF Drained, Draining
    <3>2. frames' = frames
      <4>1. Cut(payloads, 0, m0) \in Seq(Payloads)
        <5>1. 0 \in Nat /\ 0 =< m0
          BY <1>10
        <5>2. Piece(Payloads, payloads, 0, m0, Cut(payloads, 0, m0))
          BY <1>2, <1>10, <5>1, CutShape, Zenon
        <5> QED  BY <5>2 DEF Piece
      <4> QED  BY <1>1, <1>4, <3>1, <4>1, ConcatEmptySeq
    <3>3. OversizedIn(pushed)'
      BY <1>1, <1>8, <3>1 DEF OversizedIn
    <3>4. LastCompleteIn(kept)' = m0
      <4>1. CompleteIn(kept)' = CompleteIn(pushed)
        BY <1>1, <1>8 DEF CompleteIn
      <4> QED  BY <1>7, <4>1 DEF LastCompleteIn
    <3>5. outcome' = "tooLarge"
      BY <1>1, <2>1
    <3> QED  BY <1>1, <1>4, <3>2, <3>3, <3>4, <3>5 DEF StageInv
  <2>2. CASE ~r.tooLarge
    <3>1. PICK m \in m0 .. Len(payloads) :
              Stage(r.decoder, m, p) /\ r.frames = Cut(payloads, m0, m)
      BY <1>6, <2>2 DEF Drained, Draining
    <3>2. r.decoder.bufferedBytes < Needs(r.decoder)
      BY <1>6, <2>2 DEF Drained, Stopped
    <3>3. frames' = Cut(payloads, 0, m)
      <4>1. /\ 0 \in Nat /\ m \in Nat /\ 0 =< m0 /\ m0 =< m /\ m =< Len(payloads)
        BY <1>3, <1>10
      <4>2. Joined(payloads, 0, m0, m)
        BY <1>2, <1>10, <4>1, CutJoin, Zenon
      <4> QED  BY <1>1, <1>4, <3>1, <4>2 DEF Joined
    <3>4. Stage(decoder, m, pushed)'
      BY <1>1, <1>8, <3>1 DEF Stage
    <3>5. m \in 0 .. Len(payloads)
      BY <1>3, <1>10
    <3>6. outcome' = "open"
      BY <1>1, <2>2
    <3>7. \E k \in 0 .. Len(payloads') :
              Stage(decoder, k, pushed)' /\ frames' = Cut(payloads', 0, k)
      BY <1>1, <3>3, <3>4, <3>5
    <3> QED  BY <1>1, <3>2, <3>6, <3>7 DEF StageInv
  <2> QED  BY <2>1, <2>2
<1>12. outcome' \in {"open", "tooLarge", "end", "length", "body"}
  BY <1>1
<1> QED  BY <1>1, <1>2, <1>3, <1>8, <1>9, <1>11, <1>12 DEF DecoderInv

\* Every step keeps the invariant.
LEMMA DecoderStep == DecoderInv /\ [Next]_vars => DecoderInv'
<1> SUFFICES ASSUME DecoderInv, [Next]_vars
             PROVE  DecoderInv'
  OBVIOUS
<1>1. CASE Finish
  BY <1>1, FinishStep
<1>2. ASSUME NEW n \in 0 .. MaxChunk, Push(n)
      PROVE  DecoderInv'
  BY <1>2, PushStep
<1>3. CASE UNCHANGED vars
  <2>1. /\ payloads' = payloads /\ pushed' = pushed /\ decoder' = decoder
        /\ frames' = frames /\ outcome' = outcome /\ kept' = kept
    BY <1>3 DEF vars
  <2> QED  BY <2>1 DEF DecoderInv, StageInv, Stage, EndOf, Wire, OversizedIn,
                       LastCompleteIn, CompleteIn
<1> QED  BY <1>1, <1>2, <1>3 DEF Next

\* At every moment, for every limit, every prefix length and every way to cut the
\* wire into chunks: the fields of the decoder agree with each other and with the
\* bytes pushed (readBytes, compactConsumedChunks).
THEOREM BufferCorrect == Spec => []BufferOK
<1>1. Spec => []DecoderInv
  BY InitDecoder, DecoderStep, PTL DEF Spec
<1> QED  BY <1>1, InvBufferOK, PTL

\* And the frames returned are those that the bytes pushed complete, an oversized
\* one is refused on its prefix, and finish names what is missing (push, finish).
THEOREM DecoderCorrect == Spec => []DecodesTheWire
<1>1. Spec => []DecoderInv
  BY InitDecoder, DecoderStep, PTL DEF Spec
<1> QED  BY <1>1, InvDecodes, PTL
===============================================================================
