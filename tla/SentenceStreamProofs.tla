------------------------ MODULE SentenceStreamProofs ------------------------
(***************************************************************************)
(* Theorems about SentenceStream for any characters, checksum, sizes and   *)
(* transmissions: the live print is complete, how the characters are split *)
(* into calls of process() makes no difference to the sentences, and no    *)
(* clear sentence is lost.                                                 *)
(***************************************************************************)
EXTENDS SentenceStream, SequenceTheorems, FiniteSetTheorems,
        WellFoundedInduction, TLAPS

-----------------------------------------------------------------------------
(***************************************************************************)
(* Induction, and functions defined by it.                                 *)
(***************************************************************************)
LEMMA Induction ==
    ASSUME NEW S, 0 \in S, \A n \in Nat : n \in S => n + 1 \in S
    PROVE  Nat \subseteq S
<1> SUFFICES ASSUME Nat \ S # {} PROVE FALSE
  OBVIOUS
<1> DEFINE R == {ss \in Nat \X Nat : ss[1] < ss[2]}
<1>1. IsWellFoundedOn(R, Nat)
  BY NatLessThanWellFounded DEF OpToRel
<1>2. PICK x \in Nat \ S : \A y \in Nat \ S : ~(<<y, x>> \in R)
  <2> HIDE DEF R
  <2> QED
    BY <1>1, WFMin, Zenon
<1>3. x \in Nat /\ x # 0 /\ x \notin S
  OBVIOUS
<1>4. x - 1 \in Nat /\ x - 1 < x /\ (x - 1) + 1 = x
  BY <1>3
<1>5. x - 1 \notin S
  BY <1>3, <1>4
<1>6. <<x - 1, x>> \in R
  BY <1>3, <1>4
<1> QED
  BY <1>2, <1>4, <1>5, <1>6

\* Induction up to a bound.
LEMMA Upwards ==
    ASSUME NEW N \in Nat, NEW S, 0 \in S, \A n \in 1 .. N : n - 1 \in S => n \in S
    PROVE  0 .. N \subseteq S
<1> DEFINE E == {n \in Nat : n <= N => n \in S}
<1>1. 0 \in E
  OBVIOUS
<1>2. ASSUME NEW n \in Nat, n \in E PROVE n + 1 \in E
  <2> SUFFICES ASSUME n + 1 <= N PROVE n + 1 \in S
    OBVIOUS
  <2>1. n + 1 \in 1 .. N /\ (n + 1) - 1 = n /\ n \in S
    BY <1>2
  <2> QED
    BY <2>1
<1>3. Nat \subseteq E
  <2> HIDE DEF E
  <2> QED
    BY <1>1, <1>2, Induction
<1> QED
  BY <1>3

\* Joining sequences over a set is associative.
Associates(S) == \A a, b, c \in Seq(S) : (a \o b) \o c = a \o (b \o c)

LEMMA Associative ==
    ASSUME NEW S
    PROVE  Associates(S)
<1> SUFFICES ASSUME NEW a \in Seq(S), NEW b \in Seq(S), NEW c \in Seq(S)
             PROVE  (a \o b) \o c = a \o (b \o c)
  BY DEF Associates
<1> QED
  BY ConcatAssociative

LEMMA Least ==
    ASSUME NEW S \in SUBSET Nat, S # {}
    PROVE  Min(S) \in S /\ \A x \in S : Min(S) <= x
<1>1. \E x \in S : \A y \in S : x <= y
  <2> SUFFICES ASSUME \A x \in S : \E y \in S : ~(x <= y) PROVE FALSE
    OBVIOUS
  <2> DEFINE E == {n \in Nat : \A x \in S : x > n}
  <2>1. 0 \in E
    OBVIOUS
  <2>2. ASSUME NEW n \in Nat, n \in E PROVE n + 1 \in E
    <3> SUFFICES ASSUME NEW x \in S PROVE x > n + 1
      OBVIOUS
    <3>1. PICK y \in S : ~(x <= y)
      OBVIOUS
    <3>2. y > n /\ x > n /\ x \in Nat /\ y \in Nat
      BY <2>2
    <3> QED
      BY <3>1, <3>2
  <2>3. Nat \subseteq E
    <3> HIDE DEF E
    <3> QED
      BY <2>1, <2>2, Induction
  <2>4. PICK x \in S : TRUE
    OBVIOUS
  <2> QED
    BY <2>3, <2>4
<1> QED
  BY <1>1, Zenon DEF Min

\* The least member is the one that is as small as all.
LEMMA LeastIs ==
    ASSUME NEW S \in SUBSET Nat, NEW m \in S, \A x \in S : m <= x
    PROVE  Min(S) = m
<1>1. Min(S) \in S /\ Min(S) <= m
  BY Least
<1>2. m <= Min(S) /\ m \in Nat /\ Min(S) \in Nat
  BY <1>1
<1> QED
  BY <1>1, <1>2

LEMMA Greatest ==
    ASSUME NEW N \in Nat, NEW S \in SUBSET (1 .. N), S # {}
    PROVE  Max(S) \in S /\ \A x \in S : x <= Max(S)
<1> DEFINE T == {N - x : x \in S}
<1>1. T \in SUBSET Nat /\ T # {}
  <2>1. PICK x \in S : TRUE
    OBVIOUS
  <2>2. N - x \in T
    BY <2>1
  <2>3. ASSUME NEW y \in T PROVE y \in Nat
    <3>1. PICK z \in S : y = N - z
      OBVIOUS
    <3>2. z \in 1 .. N
      OBVIOUS
    <3> QED
      BY <3>1, <3>2
  <2> QED
    BY <2>2, <2>3
<1>2. Min(T) \in T /\ \A y \in T : Min(T) <= y
  <2> HIDE DEF T
  <2> QED
    BY <1>1, Least
<1>3. PICK x \in S : Min(T) = N - x
  BY <1>2
<1>4. \A y \in S : x >= y
  <2> SUFFICES ASSUME NEW y \in S PROVE x >= y
    OBVIOUS
  <2>1. N - y \in T
    OBVIOUS
  <2>2. N - x <= N - y
    BY <1>2, <1>3, <2>1
  <2> QED
    BY <2>2
<1>5. \E z \in S : \A y \in S : z >= y
  BY <1>4
<1>6. Max(S) \in S /\ \A y \in S : Max(S) >= y
  BY <1>5, Zenon DEF Max
<1>7. \A y \in S : y \in Nat
  OBVIOUS
<1> QED
  BY <1>6, <1>7

\* What a recursive function on 0 .. N makes step by step exists.
Makes(N, D, b, h) ==
    \E f \in [0 .. N -> D] : f[0] = b /\ \A m \in 1 .. N : f[m] = h[<<m, f[m - 1]>>]

LEMMA Recursion ==
    ASSUME NEW N \in Nat, NEW D, NEW b \in D, NEW h \in [(1 .. N) \X D -> D]
    PROVE  Makes(N, D, b, h)
<1> DEFINE Made(f, k) == f[0] = b /\ \A m \in 1 .. k : f[m] = h[<<m, f[m - 1]>>]
           E == {k \in 0 .. N : \E f \in [0 .. k -> D] : Made(f, k)}
<1>1. 0 \in E
  <2> DEFINE f == [m \in 0 .. 0 |-> b]
  <2>1. f \in [0 .. 0 -> D] /\ Made(f, 0)
    OBVIOUS
  <2> HIDE DEF f, Made
  <2> QED
    BY <2>1
<1>2. ASSUME NEW n \in 1 .. N, n - 1 \in E PROVE n \in E
  <2>1. PICK f \in [0 .. (n - 1) -> D] : Made(f, n - 1)
    BY <1>2
  <2>2. n - 1 \in 0 .. (n - 1) /\ f[n - 1] \in D
    OBVIOUS
  <2> DEFINE y == h[<<n, f[n - 1]>>]
             g == [m \in 0 .. n |-> IF m = n THEN y ELSE f[m]]
  <2>3. y \in D
    BY <2>2
  <2> HIDE DEF y
  <2>4. g \in [0 .. n -> D]
    BY <2>3
  <2>5. (\A m \in 0 .. (n - 1) : g[m] = f[m]) /\ g[n] = y
    OBVIOUS
  <2> HIDE DEF g
  <2>6. g[0] = b
    BY <2>1, <2>5
  <2>7. ASSUME NEW m \in 1 .. n PROVE g[m] = h[<<m, g[m - 1]>>]
    <3>1. CASE m = n
      <4>1. g[m - 1] = f[n - 1]
        BY <2>5, <3>1
      <4> QED
        BY <2>5, <3>1, <4>1 DEF y
    <3>2. CASE m # n
      <4>1. m \in 1 .. (n - 1) /\ m \in 0 .. (n - 1) /\ m - 1 \in 0 .. (n - 1)
        BY <3>2
      <4>2. g[m] = f[m] /\ g[m - 1] = f[m - 1]
        BY <2>5, <4>1
      <4>3. f[m] = h[<<m, f[m - 1]>>]
        BY <2>1, <4>1
      <4> QED
        BY <4>2, <4>3
    <3> QED
      BY <3>1, <3>2
  <2>8. Made(g, n)
    BY <2>6, <2>7
  <2> HIDE DEF Made
  <2> QED
    BY <2>4, <2>8
<1>3. 0 .. N \subseteq E
  <2> HIDE DEF E
  <2> QED
    BY <1>1, <1>2, Upwards
<1>4. N \in E
  <2> HIDE DEF E
  <2>1. N \in 0 .. N
    OBVIOUS
  <2> QED
    BY <1>3, <2>1
<1> QED
  BY <1>4 DEF Makes

\* Two functions that are made alike are the same.
LEMMA Same ==
    ASSUME NEW N \in Nat, NEW f, NEW g, DOMAIN f = 0 .. N, DOMAIN g = 0 .. N,
           f = [m \in 0 .. N |-> f[m]], g = [m \in 0 .. N |-> g[m]],
           f[0] = g[0], \A m \in 1 .. N : f[m - 1] = g[m - 1] => f[m] = g[m]
    PROVE  f = g
<1> DEFINE E == {m \in 0 .. N : f[m] = g[m]}
<1>1. 0 \in E
  OBVIOUS
<1>2. ASSUME NEW m \in 1 .. N, m - 1 \in E PROVE m \in E
  <2>1. m \in 0 .. N /\ f[m - 1] = g[m - 1]
    BY <1>2
  <2> QED
    BY <2>1
<1>3. 0 .. N \subseteq E
  <2> HIDE DEF E
  <2> QED
    BY <1>1, <1>2, Upwards
<1>4. \A m \in 0 .. N : f[m] = g[m]
  BY <1>3
<1> QED
  BY <1>4
-----------------------------------------------------------------------------
(***************************************************************************)
(* The filter of printable characters.                                     *)
(***************************************************************************)
Filtering(f, t, S) ==
    f = [n \in 0 .. Len(t) |->
            IF n = 0 THEN <<>>
            ELSE IF t[n] \in S THEN Append(f[n - 1], t[n]) ELSE f[n - 1]]

Filters(f, t, S) ==
    /\ f[0] = <<>>
    /\ \A n \in 1 .. Len(t) :
          f[n] = IF t[n] \in S THEN Append(f[n - 1], t[n]) ELSE f[n - 1]

LEMMA FilteringStep ==
    ASSUME NEW t, Len(t) \in Nat, NEW S, NEW f, Filtering(f, t, S)
    PROVE  Filters(f, t, S)
<1>1. \A n \in 0 .. Len(t) :
          f[n] = IF n = 0 THEN <<>>
                 ELSE IF t[n] \in S THEN Append(f[n - 1], t[n]) ELSE f[n - 1]
  BY Zenon DEF Filtering
<1>2. 0 \in 0 .. Len(t) /\ \A n \in 1 .. Len(t) : n \in 0 .. Len(t) /\ n # 0
  OBVIOUS
<1> QED
  BY <1>1, <1>2 DEF Filters

LEMMA FilteringExists ==
    ASSUME NEW X, NEW t \in Seq(X), NEW S
    PROVE  \E f \in [0 .. Len(t) -> Seq(S)] : Filtering(f, t, S)
<1> DEFINE N == Len(t)
           Grow(n, v) == IF t[n] \in S THEN Append(v, t[n]) ELSE v
           h == [x \in (1 .. N) \X Seq(S) |-> Grow(x[1], x[2])]
<1>1. \A n \in 1 .. N, v \in Seq(S) : Grow(n, v) \in Seq(S)
  OBVIOUS
<1>2. h \in [(1 .. N) \X Seq(S) -> Seq(S)]
  <2> HIDE DEF N, Grow
  <2> QED
    BY <1>1
<1>3. \A n \in 1 .. N, v \in Seq(S) : h[<<n, v>>] = Grow(n, v)
  <2> HIDE DEF N, Grow
  <2> QED
    OBVIOUS
<1>4. N \in Nat /\ <<>> \in Seq(S)
  OBVIOUS
<1> HIDE DEF h
<1>5. PICK f \in [0 .. N -> Seq(S)] :
          f[0] = <<>> /\ \A m \in 1 .. N : f[m] = h[<<m, f[m - 1]>>]
  <2> HIDE DEF N, Grow
  <2> DEFINE D == Seq(S)
             b == <<>>
  <2>1. b \in D /\ h \in [(1 .. N) \X D -> D]
    BY <1>2, <1>4
  <2> HIDE DEF D, b
  <2>2. Makes(N, D, b, h)
    BY <1>4, <2>1, Recursion
  <2> QED
    BY <2>2 DEF Makes, D, b
<1>6. ASSUME NEW m \in 0 .. N
      PROVE  f[m] = IF m = 0 THEN <<>>
                    ELSE IF t[m] \in S THEN Append(f[m - 1], t[m]) ELSE f[m - 1]
  <2>1. CASE m = 0
    BY <1>5, <2>1
  <2>2. CASE m # 0
    <3>1. m \in 1 .. N /\ m - 1 \in 0 .. N
      BY <2>2
    <3>2. f[m - 1] \in Seq(S)
      BY <3>1
    <3>3. f[m] = Grow(m, f[m - 1])
      <4> HIDE DEF N, Grow
      <4> QED
        BY <1>3, <1>5, <3>1, <3>2
    <3> QED
      BY <2>2, <3>3
  <2> QED
    BY <2>1, <2>2
<1>7. f = [m \in 0 .. N |-> f[m]]
  OBVIOUS
<1>8. Filtering(f, t, S)
  <2> DEFINE r == [m \in 0 .. N |-> IF m = 0 THEN <<>>
                      ELSE IF t[m] \in S THEN Append(f[m - 1], t[m]) ELSE f[m - 1]]
  <2>1. \A m \in 0 .. N : f[m] = r[m]
    BY <1>6, Zenon
  <2>2. r = [m \in 0 .. N |-> r[m]]
    OBVIOUS
  <2>3. f = r
    <3> HIDE DEF r
    <3> QED
      BY <1>7, <2>1, <2>2
  <2> QED
    BY <2>3, Zenon DEF Filtering
<1> QED
  BY <1>8

LEMMA FilteredIs ==
    ASSUME NEW X, NEW t \in Seq(X), NEW S
    PROVE  \E f \in [0 .. Len(t) -> Seq(S)] :
              Filtering(f, t, S) /\ Filtered(t, S) = f[Len(t)]
<1>1. PICK f \in [0 .. Len(t) -> Seq(S)] : Filtering(f, t, S)
  BY FilteringExists
<1>2. ASSUME NEW g, Filtering(g, t, S) PROVE g = f
  <2>1. g = [m \in 0 .. Len(t) |-> g[m]] /\ DOMAIN g = 0 .. Len(t)
    BY <1>2 DEF Filtering
  <2>2. f = [m \in 0 .. Len(t) |-> f[m]] /\ DOMAIN f = 0 .. Len(t)
    OBVIOUS
  <2>0. Len(t) \in Nat
    OBVIOUS
  <2>3. /\ f[0] = <<>>
        /\ \A n \in 1 .. Len(t) :
              f[n] = IF t[n] \in S THEN Append(f[n - 1], t[n]) ELSE f[n - 1]
    BY <1>1, <2>0, FilteringStep DEF Filters
  <2>4. /\ g[0] = <<>>
        /\ \A n \in 1 .. Len(t) :
              g[n] = IF t[n] \in S THEN Append(g[n - 1], t[n]) ELSE g[n - 1]
    BY <1>2, <2>0, FilteringStep DEF Filters
  <2>5. \A m \in 1 .. Len(t) : g[m - 1] = f[m - 1] => g[m] = f[m]
    BY <2>3, <2>4
  <2>6. g[0] = f[0] /\ Len(t) \in Nat
    BY <2>3, <2>4
  <2> QED
    BY <2>1, <2>2, <2>5, <2>6, Same
<1>3. f = CHOOSE g : Filtering(g, t, S)
  BY <1>1, <1>2
<1>4. Filtered(t, S) = (CHOOSE g : Filtering(g, t, S))[Len(t)]
  BY DEF Filtered, Filtering
<1> QED
  BY <1>1, <1>3, <1>4

LEMMA FilteredRange ==
    ASSUME NEW X, NEW t \in Seq(X), NEW S
    PROVE  Filtered(t, S) \in Seq(S)
<1>1. PICK f \in [0 .. Len(t) -> Seq(S)] : Filtered(t, S) = f[Len(t)]
  BY FilteredIs
<1>2. Len(t) \in 0 .. Len(t)
  OBVIOUS
<1> QED
  BY <1>1, <1>2

LEMMA FilteredEmpty ==
    ASSUME NEW S
    PROVE  Filtered(<<>>, S) = <<>>
<1>1. <<>> \in Seq(S) /\ Len(<<>>) = 0
  OBVIOUS
<1>2. PICK f : Filtering(f, <<>>, S) /\ Filtered(<<>>, S) = f[Len(<<>>)]
  BY <1>1, FilteredIs
<1>3. Filters(f, <<>>, S)
  BY <1>1, <1>2, FilteringStep
<1> QED
  BY <1>1, <1>2, <1>3 DEF Filters

\* The characters of two portions are filtered as one.
LEMMA FilteredJoin ==
    ASSUME NEW X, NEW a \in Seq(X), NEW b \in Seq(X), NEW S
    PROVE  Filtered(a \o b, S) = Filtered(a, S) \o Filtered(b, S)
<1> DEFINE t == a \o b
           N == Len(a)
           M == Len(b)
           Step(f, s, m) == f[m] = IF s[m] \in S THEN Append(f[m - 1], s[m]) ELSE f[m - 1]
<1>1. /\ t \in Seq(X) /\ N \in Nat /\ M \in Nat /\ Len(t) = N + M
      /\ (\A m \in 1 .. N : t[m] = a[m]) /\ (\A m \in 1 .. M : t[N + m] = b[m])
  OBVIOUS
<1>2. PICK f \in [0 .. Len(t) -> Seq(S)] : Filtering(f, t, S) /\ Filtered(t, S) = f[Len(t)]
  <2> HIDE DEF t
  <2> QED
    BY <1>1, FilteredIs
<1>3. PICK g \in [0 .. N -> Seq(S)] : Filtering(g, a, S) /\ Filtered(a, S) = g[N]
  BY FilteredIs
<1>4. PICK h \in [0 .. M -> Seq(S)] : Filtering(h, b, S) /\ Filtered(b, S) = h[M]
  BY FilteredIs
<1>5. f[0] = <<>> /\ \A m \in 1 .. (N + M) : Step(f, t, m)
  <2> HIDE DEF t
  <2>1. Filters(f, t, S)
    BY <1>1, <1>2, FilteringStep
  <2> QED
    BY <1>1, <2>1 DEF Filters
<1>6. g[0] = <<>> /\ \A m \in 1 .. N : Step(g, a, m)
  <2>1. Filters(g, a, S)
    BY <1>1, <1>3, FilteringStep
  <2> QED
    BY <2>1 DEF Filters
<1>7. h[0] = <<>> /\ \A m \in 1 .. M : Step(h, b, m)
  <2>1. Filters(h, b, S)
    BY <1>1, <1>4, FilteringStep
  <2> QED
    BY <2>1 DEF Filters
<1> HIDE DEF t, N, M
<1> DEFINE E == {m \in 0 .. N : f[m] = g[m]}
<1>8. 0 \in E
  BY <1>1, <1>5, <1>6
<1>9. ASSUME NEW m \in 1 .. N, m - 1 \in E PROVE m \in E
  <2>1. m \in 1 .. (N + M) /\ m \in 0 .. N /\ f[m - 1] = g[m - 1] /\ t[m] = a[m]
    BY <1>1, <1>9
  <2> QED
    BY <1>5, <1>6, <2>1
<1>10. f[N] = g[N]
  <2>1. 0 .. N \subseteq E
    <3> HIDE DEF E
    <3> QED
      BY <1>1, <1>8, <1>9, Upwards
  <2>2. N \in 0 .. N
    BY <1>1
  <2> QED
    BY <2>1, <2>2
<1> DEFINE v == g[N]
           F == {m \in 0 .. M : f[N + m] = v \o h[m]}
<1>11. v \in Seq(S) /\ \A m \in 0 .. M : h[m] \in Seq(S)
  BY <1>1
<1> HIDE DEF v
<1>12. 0 \in F
  <2>1. v \o <<>> = v /\ N + 0 = N /\ 0 \in 0 .. M
    BY <1>1, <1>11
  <2> QED
    BY <1>7, <1>10, <2>1 DEF v
<1>13. ASSUME NEW m \in 1 .. M, m - 1 \in F PROVE m \in F
  <2>1. /\ N + m \in 1 .. (N + M) /\ (N + m) - 1 = N + (m - 1)
        /\ m \in 0 .. M /\ m - 1 \in 0 .. M
    BY <1>1
  <2>2. f[N + (m - 1)] = v \o h[m - 1] /\ t[N + m] = b[m]
    BY <1>1, <1>13
  <2>3. Step(f, t, N + m)
    BY <1>5, <2>1
  <2>4. Step(h, b, m)
    BY <1>7
  <2>5. CASE b[m] \in S
    <3>1. f[N + m] = Append(v \o h[m - 1], b[m])
      BY <2>1, <2>2, <2>3, <2>5
    <3>2. h[m] = Append(h[m - 1], b[m])
      BY <2>4, <2>5
    <3> DEFINE w == h[m - 1]
               c == b[m]
    <3>3. w \in Seq(S) /\ c \in S
      BY <1>11, <2>1, <2>5
    <3> HIDE DEF w, c
    <3>4. Append(v \o w, c) = v \o Append(w, c)
      <4>1. v \o w \in Seq(S) /\ <<c>> \in Seq(S)
        BY <1>11, <3>3, ConcatProperties
      <4>2. Append(v \o w, c) = (v \o w) \o <<c>> /\ Append(w, c) = w \o <<c>>
        BY <3>3, <4>1, AppendIsConcat
      <4>3. (v \o w) \o <<c>> = v \o (w \o <<c>>)
        <5>1. Associates(S)
          BY Associative
        <5> QED
          BY <1>11, <3>3, <4>1, <5>1 DEF Associates
      <4> QED
        BY <4>2, <4>3
    <3> QED
      BY <2>1, <3>1, <3>2, <3>4 DEF w, c
  <2>6. CASE b[m] \notin S
    BY <2>1, <2>2, <2>3, <2>4, <2>6
  <2> QED
    BY <2>5, <2>6
<1>14. f[N + M] = v \o h[M]
  <2>1. 0 .. M \subseteq F
    <3> HIDE DEF F
    <3> QED
      BY <1>1, <1>12, <1>13, Upwards
  <2>2. M \in 0 .. M
    BY <1>1
  <2> QED
    BY <2>1, <2>2
<1> QED
  BY <1>1, <1>2, <1>3, <1>4, <1>14 DEF v, t, M
-----------------------------------------------------------------------------
(***************************************************************************)
(* What a newline is read as.                                              *)
(***************************************************************************)
NoNewline(s) == \A n \in DOMAIN s : s[n] # "nl"

LEMMA SpacedFacts ==
    ASSUME NEW t \in Seq(Printable)
    PROVE  /\ Spaced(t) \in Seq(Printable) /\ Len(Spaced(t)) = Len(t)
           /\ \A n \in 1 .. Len(t) : Spaced(t)[n] = IF t[n] = "nl" THEN " " ELSE t[n]
           /\ NoNewline(Spaced(t))
<1>1. DOMAIN t = 1 .. Len(t) /\ Len(t) \in Nat /\ \A n \in 1 .. Len(t) : t[n] \in Printable
  OBVIOUS
<1>2. " " \in Printable /\ " " # "nl"
  BY DEF Printable, CallChar
<1>3. Spaced(t) = [n \in 1 .. Len(t) |-> IF t[n] = "nl" THEN " " ELSE t[n]]
  BY <1>1 DEF Spaced
<1>4. \A n \in 1 .. Len(t) : (IF t[n] = "nl" THEN " " ELSE t[n]) \in Printable
  BY <1>1, <1>2
<1>5. Spaced(t) \in Seq(Printable) /\ Len(Spaced(t)) = Len(t) /\ DOMAIN Spaced(t) = 1 .. Len(t)
  <2>1. Spaced(t) \in [1 .. Len(t) -> Printable]
    BY <1>3, <1>4, Zenon
  <2> QED
    BY <1>1, <2>1, SeqDef
<1>6. \A n \in 1 .. Len(t) : Spaced(t)[n] = IF t[n] = "nl" THEN " " ELSE t[n]
  BY <1>3
<1> QED
  BY <1>2, <1>5, <1>6 DEF NoNewline

LEMMA SpacedIs ==
    ASSUME NEW s \in Seq(Printable), NoNewline(s)
    PROVE  Spaced(s) = s
<1>1. Spaced(s) = [n \in DOMAIN s |-> s[n]]
  BY DEF Spaced, NoNewline
<1>2. s = [n \in DOMAIN s |-> s[n]]
  OBVIOUS
<1> QED
  BY <1>1, <1>2

\* Sequences with the same members at the same places are the same.
LEMMA SameMembers ==
    ASSUME NEW X, NEW a \in Seq(X), NEW b \in Seq(X), Len(a) = Len(b),
           \A n \in 1 .. Len(a) : a[n] = b[n]
    PROVE  a = b
  OBVIOUS

LEMMA SpacedJoin ==
    ASSUME NEW a \in Seq(Printable), NEW b \in Seq(Printable)
    PROVE  Spaced(a \o b) = Spaced(a) \o Spaced(b)
<1> DEFINE x == Spaced(a)
           y == Spaced(b)
           t == a \o b
           z == Spaced(t)
           As(v) == IF v = "nl" THEN " " ELSE v
<1>1. t \in Seq(Printable) /\ Len(t) = Len(a) + Len(b) /\ Len(a) \in Nat /\ Len(b) \in Nat
  BY ConcatProperties
<1>2. \A n \in 1 .. (Len(a) + Len(b)) : t[n] = IF n <= Len(a) THEN a[n] ELSE b[n - Len(a)]
  BY ConcatProperties
<1>3. x \in Seq(Printable) /\ Len(x) = Len(a) /\ \A n \in 1 .. Len(a) : x[n] = As(a[n])
  BY SpacedFacts
<1>4. y \in Seq(Printable) /\ Len(y) = Len(b) /\ \A n \in 1 .. Len(b) : y[n] = As(b[n])
  BY SpacedFacts
<1> HIDE DEF t
<1>5. z \in Seq(Printable) /\ Len(z) = Len(t) /\ \A n \in 1 .. Len(t) : z[n] = As(t[n])
  BY <1>1, SpacedFacts
<1> HIDE DEF x, y, z, As
<1>6. x \o y \in Seq(Printable) /\ Len(x \o y) = Len(x) + Len(y)
  BY <1>3, <1>4, ConcatProperties
<1>7. \A n \in 1 .. (Len(x) + Len(y)) : (x \o y)[n] = IF n <= Len(x) THEN x[n] ELSE y[n - Len(x)]
  BY <1>3, <1>4, ConcatProperties
<1>8. ASSUME NEW n \in 1 .. Len(z) PROVE z[n] = (x \o y)[n]
  <2>1. n \in 1 .. (Len(a) + Len(b)) /\ z[n] = As(t[n])
    BY <1>1, <1>5
  <2>2. CASE n <= Len(a)
    <3>1. n \in 1 .. Len(a)
      BY <1>1, <2>1, <2>2
    <3>2. (x \o y)[n] = x[n] /\ t[n] = a[n]
      BY <1>2, <1>3, <1>4, <1>7, <2>1, <2>2
    <3> QED
      BY <1>3, <2>1, <3>1, <3>2
  <2>3. CASE ~(n <= Len(a))
    <3>1. n - Len(a) \in 1 .. Len(b)
      BY <1>1, <2>1, <2>3
    <3>2. (x \o y)[n] = y[n - Len(a)] /\ t[n] = b[n - Len(a)]
      BY <1>2, <1>3, <1>4, <1>7, <2>1, <2>3
    <3> QED
      BY <1>4, <2>1, <3>1, <3>2
  <2> QED
    BY <2>2, <2>3
<1>9. z = x \o y
  BY <1>1, <1>3, <1>4, <1>5, <1>6, <1>8, SameMembers
<1> QED
  BY <1>9 DEF x, y, z, t

-----------------------------------------------------------------------------
(***************************************************************************)
(* The sentence in a stream without newlines: it begins at i, has its      *)
(* comma at k and ends at e, all as early as can be.                       *)
(***************************************************************************)
IsSentence(s, i, k, e) ==
    /\ i \in Begins(s) /\ k \in Commas(s, i) /\ e \in Ends(s, k)
    /\ \A j \in Matching(s) : i <= j
    /\ \A j \in Commas(s, i) : k <= j
    /\ \A j \in Ends(s, k) : e <= j

Parts(s, i, k, e) ==
    [callsign |-> SubSeq(s, i, k - 1),
     data     |-> SubSeq(s, k + 1, e - 1),
     crc      |-> SubSeq(s, e + 1, e + CrcLen),
     rest     |-> SubSeq(s, e + CrcLen, Len(s))]

\* The same sentence, whatever the rest is.
Alike(x, y) == x.callsign = y.callsign /\ x.data = y.data /\ x.crc = y.crc

Prolonged(q, p, t) == Alike(q, p) /\ q.rest = p.rest \o t

LEMMA Places1 ==
    ASSUME NEW s \in Seq(Printable), NEW i, NEW k
    PROVE  /\ Begins(s) \in SUBSET Nat /\ Matching(s) \in SUBSET Nat
           /\ i \in Nat => Commas(s, i) \in SUBSET Nat
           /\ k \in Nat => Ends(s, k) \in SUBSET Nat
<1>1. Len(s) \in Nat /\ CrcLen \in Nat
  BY CrcAssumption
<1>2. Begins(s) \in SUBSET Nat
  BY <1>1 DEF Begins
<1>3. Matching(s) \subseteq Begins(s)
  BY DEF Matching
<1>4. i \in Nat => Commas(s, i) \in SUBSET Nat
  <2> SUFFICES ASSUME i \in Nat PROVE (i + 1) .. Len(s) \subseteq Nat
    BY DEF Commas
  <2> QED
    BY <1>1
<1>5. k \in Nat => Ends(s, k) \in SUBSET Nat
  BY <1>1 DEF Ends
<1> QED
  BY <1>2, <1>3, <1>4, <1>5

\* The end of a sentence also ends one with an earlier comma.
LEMMA EarlierComma ==
    ASSUME NEW s \in Seq(Printable), NEW k \in Nat, NEW m \in Nat, m <= k, NEW e \in Ends(s, k)
    PROVE  e \in Ends(s, m)
<1>1. Len(s) \in Nat /\ CrcLen \in Nat
  BY CrcAssumption
<1>2. e \in (k + 2) .. (Len(s) - CrcLen)
  BY DEF Ends
<1>3. e \in (m + 2) .. (Len(s) - CrcLen)
  BY <1>1, <1>2
<1> QED
  BY <1>3 DEF Ends

LEMMA SentenceThere ==
    ASSUME NEW s \in Seq(Printable), Matching(s) # {}
    PROVE  LET i == Min(Matching(s))
               k == Min(Commas(s, i))
               e == Min(Ends(s, k))
           IN  IsSentence(s, i, k, e)
<1> DEFINE i == Min(Matching(s))
           k == Min(Commas(s, i))
           e == Min(Ends(s, k))
<1>1. i \in Matching(s) /\ \A j \in Matching(s) : i <= j
  BY Places1, Least
<1>2. i \in Begins(s) /\ i \in Nat
  BY <1>1, Places1 DEF Matching
<1>3. PICK m \in Commas(s, i) : Ends(s, m) # {}
  <2> HIDE DEF i
  <2> QED
    BY <1>1 DEF Matching
<1> HIDE DEF i
<1>4. Commas(s, i) \in SUBSET Nat /\ Commas(s, i) # {}
  BY <1>2, <1>3, Places1
<1>5. k \in Commas(s, i) /\ k \in Nat /\ m \in Nat /\ \A j \in Commas(s, i) : k <= j
  BY <1>3, <1>4, Least
<1> HIDE DEF k
<1>6. PICK x \in Ends(s, m) : TRUE
  BY <1>3
<1>7. x \in Ends(s, k)
  BY <1>3, <1>5, <1>6, EarlierComma
<1>8. e \in Ends(s, k) /\ \A j \in Ends(s, k) : e <= j
  BY <1>5, <1>7, Places1, Least
<1> HIDE DEF e
<1>9. IsSentence(s, i, k, e)
  BY <1>1, <1>2, <1>5, <1>8 DEF IsSentence
<1> QED
  BY <1>9 DEF i, k, e

LEMMA SentenceBounds ==
    ASSUME NEW s \in Seq(Printable), NEW i, NEW k, NEW e, IsSentence(s, i, k, e)
    PROVE  /\ Len(s) \in Nat /\ CrcLen \in Nat /\ CrcLen >= 1
           /\ i \in 2 .. Len(s) /\ k \in (i + 1) .. Len(s) /\ e \in (k + 2) .. (Len(s) - CrcLen)
           /\ i \in Nat /\ k \in Nat /\ e \in Nat
           /\ i < k /\ k + 1 < e /\ e + CrcLen <= Len(s)
<1>1. Len(s) \in Nat /\ CrcLen \in Nat /\ CrcLen >= 1
  BY CrcAssumption
<1>2. i \in 2 .. Len(s) /\ k \in (i + 1) .. Len(s) /\ e \in (k + 2) .. (Len(s) - CrcLen)
  BY DEF IsSentence, Begins, Commas, Ends
<1> QED
  BY <1>1, <1>2

LEMMA SentenceIs ==
    ASSUME NEW s \in Seq(Printable), NEW i, NEW k, NEW e, IsSentence(s, i, k, e)
    PROVE  /\ Matching(s) # {} /\ i = Min(Matching(s))
           /\ k = Min(Commas(s, i)) /\ e = Min(Ends(s, k))
<1>1. i \in Nat /\ k \in Nat
  BY SentenceBounds
<1>2. i \in Matching(s)
  BY DEF IsSentence, Matching
<1>3. k \in Commas(s, i) /\ e \in Ends(s, k)
  BY DEF IsSentence
<1>4. /\ Matching(s) \in SUBSET Nat /\ Commas(s, i) \in SUBSET Nat /\ Ends(s, k) \in SUBSET Nat
  BY <1>1, Places1
<1>5. Min(Matching(s)) = i
  BY <1>2, <1>4, LeastIs DEF IsSentence
<1>6. Min(Commas(s, i)) = k
  BY <1>3, <1>4, LeastIs DEF IsSentence
<1>7. Min(Ends(s, k)) = e
  BY <1>3, <1>4, LeastIs DEF IsSentence
<1> QED
  BY <1>2, <1>5, <1>6, <1>7
LEMMA ExtractedIs ==
    ASSUME NEW t \in Seq(Printable), NEW i, NEW k, NEW e, IsSentence(Spaced(t), i, k, e)
    PROVE  Extracted(t) = Parts(Spaced(t), i, k, e)
<1>1. Spaced(t) \in Seq(Printable)
  BY SpacedFacts
<1> DEFINE s == Spaced(t)
<1>2. /\ i = Min(Matching(s))
      /\ k = Min(Commas(s, i)) /\ e = Min(Ends(s, k))
  <2> HIDE DEF s
  <2> QED
    BY <1>1, SentenceIs DEF s
<1> QED
  BY <1>2, Zenon DEF Extracted, Parts

(***************************************************************************)
(* A sentence that is there stays where it is, whatever comes behind it:   *)
(* an earlier "$" could not be completed before, and the "$" of the        *)
(* sentence is no part of a callsign.                                      *)
(***************************************************************************)
LEMMA Extended ==
    ASSUME NEW s \in Seq(Printable), NEW t \in Seq(Printable),
           NEW i, NEW k, NEW e, IsSentence(s, i, k, e)
    PROVE  IsSentence(s \o t, i, k, e)
<1> DEFINE u == s \o t
           N == Len(s)
<1>1. /\ N \in Nat /\ CrcLen \in Nat /\ CrcLen >= 1
      /\ i \in 2 .. N /\ k \in (i + 1) .. N /\ e \in (k + 2) .. (N - CrcLen)
      /\ i \in Nat /\ k \in Nat /\ e \in Nat
      /\ i < k /\ k + 1 < e /\ e + CrcLen <= N
  BY SentenceBounds
<1>2. /\ u \in Seq(Printable) /\ Len(u) \in Nat /\ N <= Len(u)
      /\ \A n \in 1 .. N : u[n] = s[n]
  BY ConcatProperties
<1> HIDE DEF u, N
<1>3. ASSUME NEW j \in 2 .. N
      PROVE  j \in Begins(u) <=> j \in Begins(s)
  <2>1. j \in 1 .. N /\ j - 1 \in 1 .. N /\ j \in 2 .. Len(u)
    BY <1>1, <1>2
  <2>2. u[j] = s[j] /\ u[j - 1] = s[j - 1]
    BY <1>2, <2>1
  <2> QED
    BY <2>1, <2>2 DEF Begins, N
<1>4. ASSUME NEW m \in Nat, m >= 1, NEW j \in (m + 1) .. N
      PROVE  j \in Commas(u, m) <=> j \in Commas(s, m)
  <2>1. j \in 1 .. N /\ j \in (m + 1) .. Len(u) /\ \A n \in m .. (j - 1) : n \in 1 .. N
    BY <1>1, <1>2, <1>4
  <2>2. u[j] = s[j] /\ \A n \in m .. (j - 1) : u[n] = s[n]
    BY <1>2, <2>1
  <2> QED
    BY <2>1, <2>2 DEF Commas, N
<1>5. ASSUME NEW m \in Nat, NEW j \in (m + 2) .. (N - CrcLen)
      PROVE  j \in Ends(u, m) <=> j \in Ends(s, m)
  <2>0. j \in Nat /\ m + 2 <= j /\ j + CrcLen <= N
    BY <1>1
  <2>1. /\ j \in 1 .. N /\ j \in (m + 2) .. (Len(u) - CrcLen)
        /\ \A n \in 1 .. CrcLen : j + n \in 1 .. N
    BY <1>1, <1>2, <2>0
  <2>2. u[j] = s[j] /\ \A n \in 1 .. CrcLen : u[j + n] = s[j + n]
    BY <1>2, <2>1
  <2> QED
    BY <2>1, <2>2 DEF Ends, N
<1>6. i \in Begins(s) /\ k \in Commas(s, i) /\ e \in Ends(s, k)
  BY DEF IsSentence
<1>7. i \in Begins(u) /\ k \in Commas(u, i) /\ e \in Ends(u, k)
  <2>1. i >= 1
    BY <1>1
  <2>2. i \in Begins(u)
    BY <1>1, <1>3, <1>6
  <2>3. k \in Commas(u, i)
    BY <1>1, <1>4, <1>6, <2>1
  <2>4. e \in Ends(u, k)
    BY <1>1, <1>5, <1>6
  <2> QED
    BY <2>2, <2>3, <2>4
<1>8. ASSUME NEW j \in Commas(u, i) PROVE k <= j
  <2>1. j \in (i + 1) .. Len(u)
    BY DEF Commas
  <2>2. CASE j <= N
    <3>1. j \in (i + 1) .. N /\ i >= 1
      BY <1>1, <2>1, <2>2
    <3>2. j \in Commas(s, i)
      BY <1>1, <1>4, <3>1
    <3> QED
      BY <3>2 DEF IsSentence
  <2> QED
    BY <1>1, <1>2, <2>1, <2>2
<1>9. ASSUME NEW j \in Ends(u, k) PROVE e <= j
  <2>1. j \in (k + 2) .. (Len(u) - CrcLen)
    BY DEF Ends
  <2>2. CASE j <= N - CrcLen
    <3>1. j \in (k + 2) .. (N - CrcLen)
      BY <1>1, <1>2, <2>1, <2>2
    <3>2. j \in Ends(s, k)
      BY <1>1, <1>5, <3>1
    <3> QED
      BY <3>2 DEF IsSentence
  <2> QED
    BY <1>1, <1>2, <2>1, <2>2
<1>10. ASSUME NEW j \in Matching(u) PROVE i <= j
  <2> SUFFICES ASSUME j < i PROVE FALSE
    <3>1. j \in Nat
      BY <1>2, Places1
    <3> QED
      BY <1>1, <3>1
  <2>1. j \in Begins(u)
    BY DEF Matching
  <2>2. j \in 2 .. Len(u) /\ u[j] # "$"
    BY <2>1 DEF Begins
  <2>3. j \in 2 .. N /\ j \in Nat /\ j >= 1
    BY <1>1, <1>2, <2>2
  <2>4. j \in Begins(s)
    BY <1>3, <2>1, <2>3
  <2>5. PICK m \in Commas(u, j) : TRUE
    BY DEF Matching
  <2>6. m \in (j + 1) .. Len(u) /\ u[m] = "," /\ \A n \in j .. (m - 1) : u[n] \in CallChar
    BY <2>5 DEF Commas
  <2>15. m \in Nat /\ j + 1 <= m
    <3>1. m \in (j + 1) .. Len(u)
      BY <2>6
    <3>2. j \in Nat /\ Len(u) \in Nat
      BY <1>2, <2>3
    <3> QED
      BY <3>1, <3>2
  <2>7. i - 1 \in 1 .. N /\ u[i - 1] = "$"
    <3>1. i - 1 \in 1 .. N
      BY <1>1
    <3>2. s[i - 1] = "$"
      BY <1>6 DEF Begins
    <3> QED
      BY <1>2, <3>1, <3>2
  <2>8. "$" \notin CallChar /\ "$" # ","
    BY ClassAssumption DEF CallChar
  <2>9. m < i - 1
    <3>1. j <= i - 1 /\ m \in Nat
      <4>1. j <= i - 1
        BY <1>1, <2>3
      <4> QED
        BY <2>15, <4>1
    <3>2. m # i - 1
      BY <2>6, <2>7, <2>8
    <3>3. ASSUME m > i - 1 PROVE FALSE
      <4>1. i - 1 \in j .. (m - 1)
        BY <1>1, <2>3, <3>1, <3>3
      <4> QED
        BY <2>6, <2>7, <2>8, <4>1
    <3> QED
      BY <1>1, <3>1, <3>2, <3>3
  <2>10. m \in (j + 1) .. N /\ m \in Nat /\ m <= k
    BY <1>1, <2>3, <2>9, <2>15
  <2>11. m \in Commas(s, j)
    BY <1>4, <2>3, <2>5, <2>10
  <2>12. e \in Ends(s, m)
    BY <1>1, <1>6, <2>10, EarlierComma
  <2>13. j \in Matching(s)
    BY <2>4, <2>11, <2>12 DEF Matching
  <2>14. i <= j
    BY <2>13 DEF IsSentence
  <2> QED
    BY <1>1, <2>3, <2>14
<1>11. IsSentence(u, i, k, e)
  BY <1>7, <1>8, <1>9, <1>10 DEF IsSentence
<1> QED
  BY <1>11 DEF u

\* What is before position n of s is not changed by what comes behind s.
LEMMA PartOf ==
    ASSUME NEW s \in Seq(Printable), NEW t \in Seq(Printable),
           NEW m \in Nat, NEW n \in Nat, 1 <= m, m <= n, n <= Len(s)
    PROVE  SubSeq(s \o t, m, n) = SubSeq(s, m, n)
<1>1. m \in 1 .. Len(s) /\ n \in 1 .. Len(s)
  OBVIOUS
<1> QED
  BY <1>1, SubSeqOfConcat1

LEMMA RestOf ==
    ASSUME NEW s \in Seq(Printable), NEW t \in Seq(Printable),
           NEW m \in Nat, 1 <= m, m <= Len(s)
    PROVE  SubSeq(s \o t, m, Len(s \o t)) = SubSeq(s, m, Len(s)) \o t
<1> DEFINE u == s \o t
           x == SubSeq(u, m, Len(u))
           r == SubSeq(s, m, Len(s))
           y == r \o t
           N == Len(s)
<1>1. /\ u \in Seq(Printable) /\ Len(u) = N + Len(t) /\ N \in Nat /\ Len(t) \in Nat
      /\ \A n \in 1 .. (N + Len(t)) : u[n] = IF n <= N THEN s[n] ELSE t[n - N]
  BY ConcatProperties
<1>2. r \in Seq(Printable) /\ Len(r) = N - m + 1 /\ \A n \in 1 .. (N - m + 1) : r[n] = s[m + n - 1]
  OBVIOUS
<1> HIDE DEF u, r
<1>3. /\ x \in Seq(Printable) /\ Len(x) = Len(u) - m + 1
      /\ \A n \in 1 .. (Len(u) - m + 1) : x[n] = u[m + n - 1]
  BY <1>1
<1>4. /\ y \in Seq(Printable) /\ Len(y) = Len(r) + Len(t)
      /\ \A n \in 1 .. (Len(r) + Len(t)) : y[n] = IF n <= Len(r) THEN r[n] ELSE t[n - Len(r)]
  BY <1>2, ConcatProperties
<1> HIDE DEF x, y, N
<1>5. ASSUME NEW n \in 1 .. Len(x) PROVE x[n] = y[n]
  <2>1. /\ n \in 1 .. (Len(u) - m + 1) /\ n \in 1 .. (Len(r) + Len(t))
        /\ m + n - 1 \in 1 .. (N + Len(t))
    BY <1>1, <1>2, <1>3 DEF N
  <2>2. x[n] = u[m + n - 1]
    BY <1>3, <2>1
  <2>3. CASE n <= Len(r)
    <3>1. n \in 1 .. (N - m + 1) /\ m + n - 1 <= N
      BY <1>1, <1>2, <2>1, <2>3
    <3>2. u[m + n - 1] = s[m + n - 1] /\ y[n] = r[n]
      BY <1>1, <1>4, <2>1, <2>3, <3>1
    <3> QED
      BY <1>2, <2>2, <3>1, <3>2
  <2>4. CASE ~(n <= Len(r))
    <3>1. ~(m + n - 1 <= N) /\ (m + n - 1) - N = n - Len(r)
      BY <1>1, <1>2, <2>1, <2>4
    <3>2. u[m + n - 1] = t[n - Len(r)] /\ y[n] = t[n - Len(r)]
      BY <1>1, <1>4, <2>1, <2>4, <3>1
    <3> QED
      BY <2>2, <3>2
  <2> QED
    BY <2>3, <2>4
<1>6. Len(x) = Len(y)
  BY <1>1, <1>2, <1>3, <1>4
<1>7. x = y
  BY <1>3, <1>4, <1>5, <1>6, SameMembers
<1> QED
  BY <1>7 DEF x, y, u, r

LEMMA PartsExtended ==
    ASSUME NEW s \in Seq(Printable), NEW t \in Seq(Printable),
           NEW i, NEW k, NEW e, IsSentence(s, i, k, e)
    PROVE  Prolonged(Parts(s \o t, i, k, e), Parts(s, i, k, e), t)
<1>1. /\ Len(s) \in Nat /\ CrcLen \in Nat /\ CrcLen >= 1
      /\ i \in 2 .. Len(s)
      /\ i \in Nat /\ k \in Nat /\ e \in Nat
      /\ i < k /\ k + 1 < e /\ e + CrcLen <= Len(s)
  BY SentenceBounds
<1>2. SubSeq(s \o t, i, k - 1) = SubSeq(s, i, k - 1)
  <2>1. k - 1 \in Nat /\ 1 <= i /\ i <= k - 1 /\ k - 1 <= Len(s)
    BY <1>1
  <2> QED
    BY <1>1, <2>1, PartOf
<1>3. SubSeq(s \o t, k + 1, e - 1) = SubSeq(s, k + 1, e - 1)
  <2>1. k + 1 \in Nat /\ e - 1 \in Nat /\ 1 <= k + 1 /\ k + 1 <= e - 1 /\ e - 1 <= Len(s)
    BY <1>1
  <2> QED
    BY <2>1, PartOf
<1>4. SubSeq(s \o t, e + 1, e + CrcLen) = SubSeq(s, e + 1, e + CrcLen)
  <2>1. /\ e + 1 \in Nat /\ e + CrcLen \in Nat /\ 1 <= e + 1 /\ e + 1 <= e + CrcLen
        /\ e + CrcLen <= Len(s)
    BY <1>1
  <2> QED
    BY <2>1, PartOf
<1>5. SubSeq(s \o t, e + CrcLen, Len(s \o t)) = SubSeq(s, e + CrcLen, Len(s)) \o t
  <2>1. e + CrcLen \in Nat /\ 1 <= e + CrcLen /\ e + CrcLen <= Len(s)
    BY <1>1
  <2> QED
    BY <2>1, RestOf
<1> QED
  BY <1>2, <1>3, <1>4, <1>5, Zenon DEF Parts, Alike, Prolonged

\* A part of a sequence whose members are all of a kind.
LEMMA PartRange ==
    ASSUME NEW s \in Seq(Printable), NEW S, NEW m \in Nat, NEW n \in Nat,
           1 <= m, m <= n, n <= Len(s), \A x \in m .. n : s[x] \in S
    PROVE  /\ SubSeq(s, m, n) \in Seq(S) /\ Len(SubSeq(s, m, n)) = n - m + 1
           /\ \A x \in 1 .. (n - m + 1) : SubSeq(s, m, n)[x] = s[m + x - 1]
<1> DEFINE r == SubSeq(s, m, n)
           L == n - m + 1
<1>1. L \in Nat
  OBVIOUS
<1>2. r \in Seq(Printable) /\ Len(r) = L /\ \A x \in 1 .. L : r[x] = s[m + x - 1]
  OBVIOUS
<1>3. \A x \in 1 .. L : m + x - 1 \in m .. n
  OBVIOUS
<1>4. \A x \in 1 .. L : r[x] \in S
  BY <1>2, <1>3
<1>5. r \in [1 .. L -> S]
  <2>1. r = [x \in 1 .. L |-> r[x]]
    <3> HIDE DEF r, L
    <3> QED
      BY <1>1, <1>2
  <2> HIDE DEF r, L
  <2> QED
    BY <1>4, <2>1
<1>6. r \in Seq(S)
  <2> HIDE DEF r, L
  <2> QED
    BY <1>1, <1>5, SeqDef
<1> QED
  BY <1>2, <1>6

LEMMA PartsTypes ==
    ASSUME NEW s \in Seq(Printable), NEW i, NEW k, NEW e, IsSentence(s, i, k, e)
    PROVE  LET p == Parts(s, i, k, e)
           IN  /\ p.callsign \in Seq(CallChar) /\ p.data \in Seq(Printable)
               /\ p.crc \in Seq(Word) /\ p.rest \in Seq(Printable)
               /\ NoNewline(s) => NoNewline(p.rest)
               /\ Len(p.rest) < Len(s)
<1>1. /\ Len(s) \in Nat /\ CrcLen \in Nat /\ CrcLen >= 1
      /\ i \in Nat /\ k \in Nat /\ e \in Nat /\ 2 <= i
      /\ i < k /\ k + 1 < e /\ e + CrcLen <= Len(s)
  BY SentenceBounds
<1>2. \A n \in 1 .. Len(s) : s[n] \in Printable
  BY ElementOfSeq
<1>3. SubSeq(s, i, k - 1) \in Seq(CallChar)
  <2>1. k - 1 \in Nat /\ 1 <= i /\ i <= k - 1 /\ k - 1 <= Len(s)
    BY <1>1
  <2>2. \A n \in i .. (k - 1) : s[n] \in CallChar
    BY DEF IsSentence, Commas
  <2> QED
    BY <1>1, <2>1, <2>2, PartRange
<1>4. SubSeq(s, k + 1, e - 1) \in Seq(Printable)
  <2>1. k + 1 \in Nat /\ e - 1 \in Nat /\ 1 <= k + 1 /\ k + 1 <= e - 1 /\ e - 1 <= Len(s)
    BY <1>1
  <2>2. \A n \in (k + 1) .. (e - 1) : n \in 1 .. Len(s)
    BY <1>1
  <2>3. \A n \in (k + 1) .. (e - 1) : s[n] \in Printable
    BY <1>2, <2>2
  <2> QED
    BY <2>1, <2>3, PartRange
<1>5. SubSeq(s, e + 1, e + CrcLen) \in Seq(Word)
  <2>1. /\ e + 1 \in Nat /\ e + CrcLen \in Nat /\ 1 <= e + 1 /\ e + 1 <= e + CrcLen
        /\ e + CrcLen <= Len(s)
    BY <1>1
  <2>2. \A n \in 1 .. CrcLen : s[e + n] \in Word
    BY DEF IsSentence, Ends
  <2>3. ASSUME NEW n \in (e + 1) .. (e + CrcLen) PROVE s[n] \in Word
    <3>1. n - e \in 1 .. CrcLen /\ e + (n - e) = n
      BY <1>1
    <3> QED
      BY <2>2, <3>1
  <2> QED
    BY <2>1, <2>3, PartRange
<1> DEFINE r == SubSeq(s, e + CrcLen, Len(s))
           m == e + CrcLen
<1>6. /\ m \in Nat /\ 1 <= m /\ m <= Len(s) /\ 1 < m
      /\ \A n \in m .. Len(s) : n \in 1 .. Len(s)
  BY <1>1
<1>7. /\ r \in Seq(Printable) /\ Len(r) = Len(s) - m + 1
      /\ \A n \in 1 .. (Len(s) - m + 1) : r[n] = s[m + n - 1]
  <2>1. \A n \in m .. Len(s) : s[n] \in Printable
    BY <1>2, <1>6
  <2> HIDE DEF m
  <2>2. /\ SubSeq(s, m, Len(s)) \in Seq(Printable)
        /\ Len(SubSeq(s, m, Len(s))) = Len(s) - m + 1
        /\ \A n \in 1 .. (Len(s) - m + 1) : SubSeq(s, m, Len(s))[n] = s[m + n - 1]
    BY <1>1, <1>6, <2>1, PartRange
  <2> QED
    BY <2>2 DEF m
<1> HIDE DEF r, m
<1>8. ASSUME NoNewline(s) PROVE NoNewline(r)
  <2> SUFFICES ASSUME NEW n \in 1 .. (Len(s) - m + 1) PROVE r[n] # "nl"
    BY <1>7 DEF NoNewline
  <2>1. m + n - 1 \in 1 .. Len(s)
    BY <1>1, <1>6
  <2>2. m + n - 1 \in DOMAIN s
    BY <2>1
  <2> QED
    BY <1>7, <1>8, <2>2 DEF NoNewline
<1>9. Len(r) < Len(s)
  BY <1>1, <1>6, <1>7
<1> QED
  BY <1>3, <1>4, <1>5, <1>7, <1>8, <1>9 DEF Parts, r
-----------------------------------------------------------------------------
(***************************************************************************)
(* What extractSentence says of a stream, newlines or not.                 *)
(***************************************************************************)
LEMMA HasSpaced ==
    ASSUME NEW t \in Seq(Printable)
    PROVE  HasSentence(Spaced(t)) <=> HasSentence(t)
<1> DEFINE s == Spaced(t)
<1>1. /\ s \in Seq(Printable) /\ Len(s) = Len(t) /\ NoNewline(s)
      /\ \A n \in 1 .. Len(t) : s[n] = IF t[n] = "nl" THEN " " ELSE t[n]
  BY SpacedFacts
<1> HIDE DEF s
<1>2. Spaced(s) = s
  BY <1>1, SpacedIs
<1>3. DOMAIN s = 1 .. Len(t) /\ DOMAIN t = 1 .. Len(t)
  BY <1>1, LenProperties
<1>4. \A n \in 1 .. Len(t) : s[n] = "*" <=> t[n] = "*"
  BY <1>1
<1>5. (\E n \in DOMAIN s : s[n] = "*") <=> (\E n \in DOMAIN t : t[n] = "*")
  BY <1>3, <1>4
<1>6. HasSentence(s) <=> HasSentence(t)
  BY <1>2, <1>5 DEF HasSentence, s
<1> QED
  BY <1>6 DEF s

LEMMA NothingInNothing == ~HasSentence(<<>>)
<1>1. DOMAIN <<>> = {}
  OBVIOUS
<1> QED
  BY <1>1 DEF HasSentence

LEMMA Parsed ==
    ASSUME NEW t \in Seq(Printable), HasSentence(t)
    PROVE  \E i, k, e : /\ IsSentence(Spaced(t), i, k, e)
                        /\ Extracted(t) = Parts(Spaced(t), i, k, e)
<1> DEFINE s == Spaced(t)
           i == Min(Matching(s))
           k == Min(Commas(s, i))
           e == Min(Ends(s, k))
<1>1. s \in Seq(Printable) /\ Matching(s) # {}
  BY SpacedFacts DEF HasSentence
<1>2. IsSentence(s, i, k, e)
  <2> HIDE DEF s
  <2> QED
    BY <1>1, SentenceThere
<1> HIDE DEF i, k, e
<1>3. Extracted(t) = Parts(s, i, k, e)
  BY <1>2, ExtractedIs
<1> QED
  BY <1>2, <1>3

-----------------------------------------------------------------------------
(***************************************************************************)
(* The scanner's state, and what can be told of it when newlines and       *)
(* last_sentence_ are left out.                                            *)
(***************************************************************************)
State == [stream : Seq(Printable), valid : Seq(Sentences), last : Seq(Printable)]

Spacious == {s \in Seq(Printable) : NoNewline(s)}
Look == [stream : Spacious, valid : Seq(Sentences)]

Plain(r) == [stream |-> Spaced(r.stream), valid |-> r.valid]

Confirmed(x) == IF ValidCrc(x) THEN <<Sentence(x)>> ELSE <<>>

Taken(x) ==
    [stream |-> Extracted(x.stream).rest, valid |-> x.valid \o Confirmed(Extracted(x.stream))]

More(x, t) == [stream |-> x.stream \o t, valid |-> x.valid]

LEMMA ConfirmedAlike ==
    ASSUME NEW x, NEW y, Alike(x, y)
    PROVE  Confirmed(x) = Confirmed(y)
<1>1. Body(x) = Body(y)
  BY DEF Body, Alike
<1>2. ValidCrc(x) <=> ValidCrc(y)
  BY <1>1 DEF ValidCrc, Alike
<1>3. Sentence(x) = Sentence(y)
  BY DEF Sentence, Alike
<1> QED
  BY <1>2, <1>3 DEF Confirmed

\* What a sentence is made of.
Pieces(x) ==
    /\ x.callsign \in Seq(CallChar) /\ x.data \in Seq(Printable)
    /\ x.crc \in Seq(Word) /\ x.rest \in Spacious

LEMMA ExtractedFacts ==
    ASSUME NEW t \in Seq(Printable), HasSentence(t)
    PROVE  /\ Pieces(Extracted(t)) /\ Len(Extracted(t).rest) < Len(t)
           /\ Extracted(Spaced(t)) = Extracted(t)
<1>1. PICK i, k, e : /\ IsSentence(Spaced(t), i, k, e)
                     /\ Extracted(t) = Parts(Spaced(t), i, k, e)
  BY Parsed
<1> DEFINE s == Spaced(t)
<1>2. s \in Seq(Printable) /\ NoNewline(s) /\ Len(s) = Len(t)
  BY SpacedFacts
<1>3. IsSentence(s, i, k, e) /\ Extracted(t) = Parts(s, i, k, e)
  BY <1>1
<1> HIDE DEF s
<1>4. Spaced(s) = s
  BY <1>2, SpacedIs
<1>5. Extracted(s) = Parts(s, i, k, e)
  BY <1>2, <1>3, <1>4, ExtractedIs
<1> DEFINE p == Parts(s, i, k, e)
<1>6. /\ p.callsign \in Seq(CallChar) /\ p.data \in Seq(Printable)
      /\ p.crc \in Seq(Word) /\ p.rest \in Seq(Printable)
      /\ NoNewline(p.rest) /\ Len(p.rest) < Len(s)
  BY <1>2, <1>3, PartsTypes
<1> HIDE DEF p
<1>7. Pieces(p) /\ Len(p.rest) < Len(t)
  BY <1>2, <1>6 DEF Pieces, Spacious
<1> QED
  BY <1>3, <1>5, <1>7 DEF s, p

LEMMA ConfirmedType ==
    ASSUME NEW x, Pieces(x)
    PROVE  Confirmed(x) \in Seq(Sentences)
<1>1. Sentence(x) \in Sentences
  BY Zenon DEF Sentence, Sentences, Pieces
<1> HIDE DEF Sentences
<1>2. <<Sentence(x)>> \in Seq(Sentences) /\ <<>> \in Seq(Sentences)
  BY <1>1
<1> QED
  BY <1>2 DEF Confirmed

LEMMA OneMember ==
    ASSUME NEW S, NEW c \in S
    PROVE  <<c>> \in Seq(S)
  OBVIOUS

LEMMA BodyType ==
    ASSUME NEW x, Pieces(x)
    PROVE  Body(x) \o <<"*">> \o x.crc \in Seq(Printable)
<1>1. x.callsign \in Seq(CallChar) /\ x.data \in Seq(Printable) /\ x.crc \in Seq(Word)
  BY DEF Pieces
<1>2. CallChar \subseteq Printable /\ Word \subseteq Printable /\ "," \in Printable /\ "*" \in Printable
  BY DEF CallChar, Printable
<1> DEFINE a == x.callsign
           b == x.data
           c == x.crc
           P == Printable
           u == <<",">>
           v == <<"*">>
<1>3. a \in Seq(CallChar) /\ b \in Seq(P) /\ c \in Seq(Word) /\ u \in Seq(P) /\ v \in Seq(P)
  <2>1. u \in Seq(P) /\ v \in Seq(P)
    <3>1. "," \in P /\ "*" \in P
      BY <1>2
    <3> QED
      BY <3>1, OneMember
  <2> QED
    BY <1>1, <2>1
<1> HIDE DEF a, b, c, u, v, P
<1>4. a \in Seq(P)
  BY <1>2, <1>3, SeqMonotonic DEF P
<1>5. c \in Seq(P)
  BY <1>2, <1>3, SeqMonotonic DEF P
<1>6. a \o u \in Seq(P)
  BY <1>3, <1>4, ConcatProperties
<1>7. (a \o u) \o b \in Seq(P)
  BY <1>3, <1>6, ConcatProperties
<1>8. ((a \o u) \o b) \o v \in Seq(P)
  BY <1>3, <1>7, ConcatProperties
<1>9. (((a \o u) \o b) \o v) \o c \in Seq(P)
  BY <1>5, <1>8, ConcatProperties
<1> QED
  BY <1>9 DEF a, b, c, u, v, P, Body

(***************************************************************************)
(* One sentence taken out of the stream.                                   *)
(***************************************************************************)
LEMMA FoundFacts ==
    ASSUME NEW r \in State, HasSentence(r.stream)
    PROVE  /\ Found(r) \in State /\ Len(Found(r).stream) < Len(r.stream)
           /\ Plain(Found(r)) = Taken(Plain(r))
<1> DEFINE t == r.stream
           x == Extracted(t)
           q == Found(r)
<1>1. t \in Seq(Printable) /\ r.valid \in Seq(Sentences) /\ HasSentence(t)
  BY DEF State
<1>2. q = [stream |-> x.rest, valid |-> r.valid \o Confirmed(x), last |-> Body(x) \o <<"*">> \o x.crc]
  BY Zenon DEF Found, Confirmed
<1> HIDE DEF t
<1>3. Pieces(x) /\ Len(x.rest) < Len(t) /\ Extracted(Spaced(t)) = x
  BY <1>1, ExtractedFacts
<1> HIDE DEF x, q
<1>4. Confirmed(x) \in Seq(Sentences)
  BY <1>3, ConfirmedType
<1>5. r.valid \o Confirmed(x) \in Seq(Sentences)
  <2> DEFINE v == r.valid
             w == Confirmed(x)
  <2>1. v \in Seq(Sentences) /\ w \in Seq(Sentences)
    BY <1>1, <1>4
  <2> HIDE DEF v, w
  <2>2. v \o w \in Seq(Sentences)
    BY <2>1, ConcatProperties
  <2> QED
    BY <2>2 DEF v, w
<1>6. Body(x) \o <<"*">> \o x.crc \in Seq(Printable)
  BY <1>3, BodyType
<1>7. x.rest \in Seq(Printable) /\ NoNewline(x.rest)
  BY <1>3 DEF Pieces, Spacious
<1>8. q \in State
  <2> DEFINE y == Body(x) \o <<"*">> \o x.crc
             v == r.valid \o Confirmed(x)
  <2>1. y \in Seq(Printable) /\ v \in Seq(Sentences) /\ q = [stream |-> x.rest, valid |-> v, last |-> y]
    BY <1>2, <1>5, <1>6
  <2> HIDE DEF y, v
  <2> QED
    BY <1>7, <2>1, Zenon DEF State
<1>9. q.stream = x.rest /\ q.valid = r.valid \o Confirmed(x)
  BY <1>2
<1>10. Spaced(x.rest) = x.rest
  BY <1>7, SpacedIs
<1>11. Plain(q) = [stream |-> x.rest, valid |-> r.valid \o Confirmed(x)]
  BY <1>9, <1>10 DEF Plain
<1>12. Plain(r).stream = Spaced(t) /\ Plain(r).valid = r.valid
  BY DEF Plain, t
<1>13. Taken(Plain(r)) = [stream |-> x.rest, valid |-> r.valid \o Confirmed(x)]
  BY <1>3, <1>12 DEF Taken
<1> QED
  BY <1>3, <1>8, <1>9, <1>11, <1>13 DEF q, t

LEMMA TakenFacts ==
    ASSUME NEW x \in Look, HasSentence(x.stream)
    PROVE  /\ Taken(x) \in Look
           /\ \E c \in Seq(Sentences) : Taken(x).valid = x.valid \o c
<1> DEFINE y == Extracted(x.stream)
           c == Confirmed(y)
<1>1. x.stream \in Seq(Printable) /\ x.valid \in Seq(Sentences)
  BY DEF Look, Spacious
<1>2. Pieces(y)
  BY <1>1, ExtractedFacts
<1> HIDE DEF y
<1>3. c \in Seq(Sentences) /\ y.rest \in Spacious
  BY <1>2, ConfirmedType DEF Pieces
<1> HIDE DEF c
<1>4. x.valid \o c \in Seq(Sentences)
  <2> DEFINE v == x.valid
  <2>1. v \in Seq(Sentences)
    BY <1>1
  <2> HIDE DEF v
  <2>2. v \o c \in Seq(Sentences)
    BY <1>3, <2>1, ConcatProperties
  <2> QED
    BY <2>2 DEF v
<1>5. Taken(x) = [stream |-> y.rest, valid |-> x.valid \o c]
  BY DEF Taken, y, c
<1> DEFINE v == x.valid \o c
<1>6. Taken(x) = [stream |-> y.rest, valid |-> v] /\ v \in Seq(Sentences)
  BY <1>4, <1>5
<1>7. Taken(x).valid = x.valid \o c
  BY <1>5
<1> HIDE DEF v
<1>8. Taken(x) \in Look
  BY <1>3, <1>6 DEF Look
<1> QED
  BY <1>3, <1>7, <1>8

\* A sentence is taken in the same way when more characters are there.
LEMMA TakenMore ==
    ASSUME NEW x \in Look, NEW t \in Spacious, HasSentence(x.stream)
    PROVE  /\ More(x, t) \in Look /\ HasSentence(More(x, t).stream)
           /\ Taken(More(x, t)) = More(Taken(x), t)
<1> DEFINE s == x.stream
           u == s \o t
<1>1. /\ s \in Seq(Printable) /\ NoNewline(s) /\ HasSentence(s)
      /\ t \in Seq(Printable) /\ NoNewline(t) /\ x.valid \in Seq(Sentences)
  BY DEF Look, Spacious
<1>2. More(x, t).stream = u /\ More(x, t).valid = x.valid /\ More(x, t) = [stream |-> u, valid |-> x.valid]
  BY DEF More
<1> HIDE DEF s
<1>3. /\ u \in Seq(Printable) /\ Len(u) = Len(s) + Len(t) /\ Len(s) \in Nat /\ Len(t) \in Nat
      /\ \A n \in 1 .. (Len(s) + Len(t)) : u[n] = IF n <= Len(s) THEN s[n] ELSE t[n - Len(s)]
  BY <1>1, ConcatProperties
<1>4. NoNewline(u)
  <2> HIDE DEF u
  <2> SUFFICES ASSUME NEW n \in 1 .. (Len(s) + Len(t)) PROVE u[n] # "nl"
    BY <1>3 DEF NoNewline
  <2>1. CASE n <= Len(s)
    <3>1. n \in DOMAIN s
      BY <1>1, <1>3, <2>1
    <3> QED
      BY <1>1, <1>3, <2>1, <3>1 DEF NoNewline
  <2>2. CASE ~(n <= Len(s))
    <3>1. n - Len(s) \in DOMAIN t
      BY <1>1, <1>3, <2>2
    <3> QED
      BY <1>1, <1>3, <2>2, <3>1 DEF NoNewline
  <2> QED
    BY <2>1, <2>2
<1>5. Spaced(s) = s
  BY <1>1, SpacedIs
<1>6. PICK i, k, e : IsSentence(s, i, k, e) /\ Extracted(s) = Parts(s, i, k, e)
  BY <1>1, <1>5, Parsed
<1>7. IsSentence(u, i, k, e)
  BY <1>1, <1>6, Extended
<1> DEFINE p == Parts(s, i, k, e)
           q == Parts(u, i, k, e)
<1>8. Alike(q, p) /\ q.rest = p.rest \o t
  <2>1. s \in Seq(Printable) /\ t \in Seq(Printable) /\ IsSentence(s, i, k, e)
    BY <1>1, <1>6
  <2>2. Prolonged(q, p, t)
    BY <2>1, PartsExtended
  <2> QED
    BY <2>2 DEF Prolonged
<1> HIDE DEF u, p, q
<1>9. Spaced(u) = u
  BY <1>3, <1>4, SpacedIs
<1>10. Extracted(u) = q /\ Extracted(s) = p
  BY <1>3, <1>6, <1>7, <1>9, ExtractedIs DEF p, q
<1>11. HasSentence(u)
  <2>1. PICK n \in DOMAIN s : s[n] = "*"
    BY <1>1 DEF HasSentence
  <2>2. n \in 1 .. Len(s)
    BY <1>1, <2>1
  <2>3. n \in DOMAIN u /\ u[n] = "*"
    BY <1>3, <2>1, <2>2
  <2>4. Matching(u) # {}
    BY <1>3, <1>7, SentenceIs
  <2> QED
    BY <1>9, <2>3, <2>4 DEF HasSentence
<1>12. More(x, t) \in Look
  <2>1. u \in Spacious
    BY <1>3, <1>4 DEF Spacious
  <2> QED
    BY <1>1, <1>2, <2>1, Zenon DEF Look
<1>13. Confirmed(q) = Confirmed(p)
  BY <1>8, ConfirmedAlike
<1>14. Taken(More(x, t)) = [stream |-> q.rest, valid |-> x.valid \o Confirmed(q)]
  BY <1>2, <1>10 DEF Taken
<1>15. Taken(x) = [stream |-> p.rest, valid |-> x.valid \o Confirmed(p)]
  BY <1>10 DEF Taken, s
<1>16. More(Taken(x), t) = [stream |-> p.rest \o t, valid |-> x.valid \o Confirmed(p)]
  BY <1>15 DEF More
<1> QED
  BY <1>2, <1>8, <1>11, <1>12, <1>13, <1>14, <1>16
-----------------------------------------------------------------------------
(***************************************************************************)
(* One sentence after the other: b is what a becomes when n of them have   *)
(* been taken.                                                             *)
(***************************************************************************)
Run(f, n, a, b) ==
    /\ f \in [0 .. n -> Look] /\ f[0] = a /\ f[n] = b
    /\ \A m \in 1 .. n : HasSentence(f[m - 1].stream) /\ f[m] = Taken(f[m - 1])

Leads(a, b) == \E n \in Nat : \E f : Run(f, n, a, b)

LEMMA LeadsSelf ==
    ASSUME NEW a \in Look
    PROVE  Leads(a, a)
<1> DEFINE f == [m \in 0 .. 0 |-> a]
<1>1. Run(f, 0, a, a)
  BY DEF Run
<1> HIDE DEF f
<1> QED
  BY <1>1 DEF Leads

LEMMA LeadsType ==
    ASSUME NEW a, NEW b, Leads(a, b)
    PROVE  a \in Look /\ b \in Look
<1>0. PICK n \in Nat : \E f : Run(f, n, a, b)
  BY DEF Leads
<1>1. PICK f : Run(f, n, a, b)
  BY <1>0
<1>2. 0 \in 0 .. n /\ n \in 0 .. n
  OBVIOUS
<1> QED
  BY <1>1, <1>2 DEF Run

LEMMA LeadsOn ==
    ASSUME NEW a, NEW b, Leads(a, b), HasSentence(b.stream)
    PROVE  Leads(a, Taken(b))
<1>0. PICK n \in Nat : \E f : Run(f, n, a, b)
  BY DEF Leads
<1>1. PICK f : Run(f, n, a, b)
  BY <1>0
<1> DEFINE c == Taken(b)
           g == [m \in 0 .. (n + 1) |-> IF m = n + 1 THEN c ELSE f[m]]
<1>2. c \in Look
  BY LeadsType, TakenFacts
<1> HIDE DEF c
<1>3. /\ f \in [0 .. n -> Look] /\ f[0] = a /\ f[n] = b
      /\ \A m \in 1 .. n : HasSentence(f[m - 1].stream) /\ f[m] = Taken(f[m - 1])
  BY <1>1 DEF Run
<1>4. g \in [0 .. (n + 1) -> Look]
  <2> HIDE DEF Look
  <2> QED
    BY <1>2, <1>3
<1>5. g[n + 1] = c /\ \A m \in 0 .. n : g[m] = f[m]
  OBVIOUS
<1> HIDE DEF g
<1>6. g[0] = a
  BY <1>3, <1>5
<1>7. ASSUME NEW m \in 1 .. (n + 1)
      PROVE  HasSentence(g[m - 1].stream) /\ g[m] = Taken(g[m - 1])
  <2>1. CASE m = n + 1
    <3>1. g[m - 1] = b
      BY <1>3, <1>5, <2>1
    <3> QED
      BY <1>5, <2>1, <3>1 DEF c
  <2>2. CASE m # n + 1
    <3>1. m \in 1 .. n /\ m \in 0 .. n /\ m - 1 \in 0 .. n
      BY <2>2
    <3>2. g[m] = f[m] /\ g[m - 1] = f[m - 1]
      BY <1>5, <3>1
    <3> QED
      BY <1>3, <3>1, <3>2
  <2> QED
    BY <2>1, <2>2
<1>8. Run(g, n + 1, a, c) /\ n + 1 \in Nat
  BY <1>4, <1>5, <1>6, <1>7 DEF Run
<1>9. Leads(a, c)
  BY <1>8 DEF Leads
<1> QED
  BY <1>9 DEF c

\* More characters do not change which sentences have been taken.
LEMMA LeadsMore ==
    ASSUME NEW a, NEW b, Leads(a, b), NEW t \in Spacious
    PROVE  Leads(More(a, t), More(b, t))
<1>0. PICK n \in Nat : \E f : Run(f, n, a, b)
  BY DEF Leads
<1>1. PICK f : Run(f, n, a, b)
  BY <1>0
<1>2. /\ f \in [0 .. n -> Look] /\ f[0] = a /\ f[n] = b
      /\ \A m \in 1 .. n : HasSentence(f[m - 1].stream) /\ f[m] = Taken(f[m - 1])
  BY <1>1 DEF Run
<1> DEFINE g == [m \in 0 .. n |-> More(f[m], t)]
<1>3. ASSUME NEW x \in Look PROVE More(x, t) \in Look
  <2> DEFINE s == x.stream
             u == s \o t
  <2>1. /\ s \in Seq(Printable) /\ NoNewline(s)
        /\ t \in Seq(Printable) /\ NoNewline(t) /\ x.valid \in Seq(Sentences)
    BY DEF Look, Spacious
  <2>2. Spaced(s) = s /\ Spaced(t) = t
    BY <2>1, SpacedIs
  <2> HIDE DEF s
  <2>3. u \in Seq(Printable) /\ Spaced(u) = Spaced(s) \o Spaced(t)
    BY <2>1, ConcatProperties, SpacedJoin
  <2>4. Spaced(u) = u
    BY <2>2, <2>3
  <2> HIDE DEF u
  <2>5. u \in Spacious
    BY <2>3, <2>4, SpacedFacts DEF Spacious
  <2>6. More(x, t) = [stream |-> u, valid |-> x.valid]
    BY DEF More, u, s
  <2> QED
    BY <2>1, <2>5, <2>6 DEF Look
<1>4. \A m \in 0 .. n : f[m] \in Look /\ g[m] = More(f[m], t) /\ g[m] \in Look
  <2>1. \A m \in 0 .. n : f[m] \in Look
    BY <1>2
  <2> QED
    BY <1>3, <2>1
<1>5. g \in [0 .. n -> Look]
  <2>1. \A m \in 0 .. n : More(f[m], t) \in Look
    BY <1>4
  <2> QED
    BY <2>1
<1> HIDE DEF g
<1>6. g[0] = More(a, t) /\ g[n] = More(b, t)
  <2>1. 0 \in 0 .. n /\ n \in 0 .. n
    OBVIOUS
  <2> QED
    BY <1>2, <1>4, <2>1
<1>7. ASSUME NEW m \in 1 .. n
      PROVE  HasSentence(g[m - 1].stream) /\ g[m] = Taken(g[m - 1])
  <2>1. m \in 0 .. n /\ m - 1 \in 0 .. n
    OBVIOUS
  <2> DEFINE x == f[m - 1]
  <2>2. x \in Look /\ HasSentence(x.stream) /\ f[m] = Taken(x)
    BY <1>2, <1>4, <2>1
  <2>3. g[m - 1] = More(x, t) /\ g[m] = More(f[m], t)
    BY <1>4, <2>1
  <2> HIDE DEF x
  <2>4. HasSentence(More(x, t).stream) /\ Taken(More(x, t)) = More(Taken(x), t)
    BY <2>2, TakenMore
  <2> QED
    BY <2>2, <2>3, <2>4
<1>8. Run(g, n, More(a, t), More(b, t))
  BY <1>5, <1>6, <1>7 DEF Run
<1> QED
  BY <1>8 DEF Leads

(***************************************************************************)
(* Only one way leads on: everything that a stream leads to is on the way  *)
(* to the one in which no sentence is left.                                *)
(***************************************************************************)
LEMMA OneWay ==
    ASSUME NEW a, NEW b, Leads(a, b), NEW c, Leads(a, c), ~HasSentence(c.stream)
    PROVE  /\ \E d \in Seq(Sentences) : c.valid = b.valid \o d
           /\ ~HasSentence(b.stream) => b = c
<1>0. PICK n \in Nat : \E f : Run(f, n, a, b)
  BY DEF Leads
<1>1. PICK f : Run(f, n, a, b)
  BY <1>0
<1>k. PICK k \in Nat : \E g : Run(g, k, a, c)
  BY DEF Leads
<1>2. PICK g : Run(g, k, a, c)
  BY <1>k
<1>3. /\ f \in [0 .. n -> Look] /\ f[0] = a /\ f[n] = b
      /\ \A m \in 1 .. n : HasSentence(f[m - 1].stream) /\ f[m] = Taken(f[m - 1])
  BY <1>1 DEF Run
<1>4. /\ g \in [0 .. k -> Look] /\ g[0] = a /\ g[k] = c
      /\ \A m \in 1 .. k : HasSentence(g[m - 1].stream) /\ g[m] = Taken(g[m - 1])
  BY <1>2 DEF Run
<1>5. ASSUME NEW N \in Nat, N <= n, N <= k PROVE f[N] = g[N]
  <2> DEFINE E == {m \in 0 .. N : f[m] = g[m]}
  <2>1. 0 \in E
    BY <1>3, <1>4
  <2>2. ASSUME NEW m \in 1 .. N, m - 1 \in E PROVE m \in E
    <3>1. m \in 1 .. n /\ m \in 1 .. k /\ m \in 0 .. N /\ f[m - 1] = g[m - 1]
      BY <1>5, <2>2
    <3> QED
      BY <1>3, <1>4, <3>1
  <2>3. 0 .. N \subseteq E
    <3> HIDE DEF E
    <3> QED
      BY <2>1, <2>2, Upwards
  <2>4. N \in 0 .. N
    OBVIOUS
  <2> QED
    BY <2>3, <2>4
<1>6. n <= k
  <2> SUFFICES ASSUME k < n PROVE FALSE
    OBVIOUS
  <2>1. k <= n /\ k <= k
    OBVIOUS
  <2>2. f[k] = c
    BY <1>4, <1>5, <2>1
  <2>3. k + 1 \in 1 .. n /\ (k + 1) - 1 = k
    OBVIOUS
  <2>4. HasSentence(f[k].stream)
    BY <1>3, <2>3
  <2> QED
    BY <2>2, <2>4
<1>7. g[n] = b
  <2>1. n <= n /\ n <= k
    BY <1>6
  <2> QED
    BY <1>3, <1>5, <2>1
<1>8. ASSUME ~HasSentence(b.stream) PROVE b = c
  <2>1. CASE n = k
    BY <1>4, <1>7, <2>1
  <2>2. CASE n # k
    <3>1. n + 1 \in 1 .. k /\ (n + 1) - 1 = n
      BY <1>6, <2>2
    <3>2. HasSentence(g[n].stream)
      BY <1>4, <3>1
    <3> QED
      BY <1>7, <1>8, <3>2
  <2> QED
    BY <2>1, <2>2
<1>9. \E d \in Seq(Sentences) : c.valid = b.valid \o d
  <2> DEFINE E == {m \in 0 .. (k - n) :
                      \E d \in Seq(Sentences) : g[n + m].valid = b.valid \o d}
  <2>1. b.valid \in Seq(Sentences)
    BY LeadsType DEF Look
  <2>2. 0 \in E
    <3>1. b.valid \o <<>> = b.valid /\ <<>> \in Seq(Sentences)
      <4> DEFINE v == b.valid
      <4>1. v \in Seq(Sentences)
        BY <2>1
      <4> HIDE DEF v
      <4>2. v \o <<>> = v
        BY <4>1, ConcatEmptySeq
      <4> QED
        BY <4>2 DEF v
    <3>2. n + 0 = n /\ 0 \in 0 .. (k - n)
      BY <1>6
    <3> QED
      BY <1>7, <3>1, <3>2
  <2>3. ASSUME NEW m \in 1 .. (k - n), m - 1 \in E PROVE m \in E
    <3>1. PICK d \in Seq(Sentences) : g[n + (m - 1)].valid = b.valid \o d
      BY <2>3
    <3> DEFINE x == g[n + (m - 1)]
    <3>2. /\ n + m \in 1 .. k /\ (n + m) - 1 = n + (m - 1) /\ n + (m - 1) \in 0 .. k
          /\ m \in 0 .. (k - n)
      BY <1>6
    <3>3. x \in Look /\ HasSentence(x.stream) /\ g[n + m] = Taken(x)
      BY <1>4, <3>2
    <3>4. x.valid = b.valid \o d
      BY <3>1
    <3> HIDE DEF x
    <3>5. PICK y \in Seq(Sentences) : Taken(x).valid = x.valid \o y
      BY <3>3, TakenFacts
    <3>6. (b.valid \o d) \o y = b.valid \o (d \o y) /\ d \o y \in Seq(Sentences)
      <4> DEFINE v == b.valid
      <4>1. v \in Seq(Sentences)
        BY <2>1
      <4> HIDE DEF v
      <4>2. (v \o d) \o y = v \o (d \o y)
        <5>1. Associates(Sentences)
          BY Associative
        <5> QED
          BY <4>1, <5>1 DEF Associates
      <4>3. d \o y \in Seq(Sentences)
        BY ConcatProperties
      <4> QED
        BY <4>2, <4>3 DEF v
    <3>7. g[n + m].valid = b.valid \o (d \o y)
      BY <3>3, <3>4, <3>5, <3>6
    <3> QED
      BY <3>2, <3>6, <3>7
  <2>4. 0 .. (k - n) \subseteq E
    <3>1. k - n \in Nat
      BY <1>6
    <3> HIDE DEF E
    <3> QED
      BY <2>2, <2>3, <3>1, Upwards
  <2>5. k - n \in 0 .. (k - n) /\ n + (k - n) = k
    BY <1>6
  <2>6. k - n \in E
    <3> HIDE DEF E
    <3> QED
      BY <2>4, <2>5
  <2> QED
    BY <1>4, <2>5, <2>6
<1> QED
  BY <1>8, <1>9

-----------------------------------------------------------------------------
(***************************************************************************)
(* The loop of process().                                                  *)
(***************************************************************************)
Scanning(f, r) ==
    f = [n \in 0 .. Len(r.stream) |-> IF n = 0 THEN r ELSE ScannedOnce(f[n - 1])]

Scans(f, r) == f[0] = r /\ \A n \in 1 .. Len(r.stream) : f[n] = ScannedOnce(f[n - 1])

LEMMA ScanningStep ==
    ASSUME NEW r \in State, NEW f, Scanning(f, r)
    PROVE  Scans(f, r)
<1>1. \A n \in 0 .. Len(r.stream) : f[n] = IF n = 0 THEN r ELSE ScannedOnce(f[n - 1])
  BY Zenon DEF Scanning
<1>2. r.stream \in Seq(Printable)
  BY DEF State
<1>3. Len(r.stream) \in Nat
  BY <1>2, LenProperties
<1>4. 0 \in 0 .. Len(r.stream) /\ \A n \in 1 .. Len(r.stream) : n \in 0 .. Len(r.stream) /\ n # 0
  BY <1>3
<1> QED
  BY <1>1, <1>4 DEF Scans

LEMMA ScannedOnceType ==
    ASSUME NEW r \in State
    PROVE  ScannedOnce(r) \in State
  BY FoundFacts DEF ScannedOnce

LEMMA ScanningExists ==
    ASSUME NEW r \in State
    PROVE  \E f \in [0 .. Len(r.stream) -> State] : Scanning(f, r)
<1> DEFINE N == Len(r.stream)
           h == [x \in (1 .. N) \X State |-> ScannedOnce(x[2])]
<1>1. N \in Nat
  <2>1. r.stream \in Seq(Printable)
    BY DEF State
  <2> QED
    BY <2>1, LenProperties
<1> HIDE DEF N
<1>2. h \in [(1 .. N) \X State -> State]
  BY ScannedOnceType
<1>3. \A n \in 1 .. N, v \in State : h[<<n, v>>] = ScannedOnce(v)
  OBVIOUS
<1> HIDE DEF h
<1>4. Makes(N, State, r, h)
  BY <1>1, <1>2, Recursion
<1>5. PICK f \in [0 .. N -> State] : f[0] = r /\ \A m \in 1 .. N : f[m] = h[<<m, f[m - 1]>>]
  BY <1>4 DEF Makes
<1>6. ASSUME NEW m \in 0 .. N
      PROVE  f[m] = IF m = 0 THEN r ELSE ScannedOnce(f[m - 1])
  <2>1. CASE m = 0
    BY <1>5, <2>1
  <2>2. CASE m # 0
    <3>1. m \in 1 .. N /\ m - 1 \in 0 .. N
      BY <1>1, <2>2
    <3>2. f[m - 1] \in State
      BY <3>1
    <3> QED
      BY <1>3, <1>5, <2>2, <3>1, <3>2
  <2> QED
    BY <2>1, <2>2
<1>7. f = [m \in 0 .. N |-> f[m]]
  OBVIOUS
<1>8. Scanning(f, r)
  <2> DEFINE g == [m \in 0 .. N |-> IF m = 0 THEN r ELSE ScannedOnce(f[m - 1])]
  <2>1. \A m \in 0 .. N : f[m] = g[m]
    BY <1>6, Zenon
  <2>2. g = [m \in 0 .. N |-> g[m]]
    OBVIOUS
  <2>3. f = g
    <3> HIDE DEF g
    <3> QED
      BY <1>7, <2>1, <2>2
  <2> QED
    BY <2>3, Zenon DEF Scanning, N
<1> QED
  BY <1>8 DEF N

LEMMA ScannedAllIs ==
    ASSUME NEW r \in State
    PROVE  \E f \in [0 .. Len(r.stream) -> State] :
              Scans(f, r) /\ ScannedAll(r) = f[Len(r.stream)]
<1> DEFINE N == Len(r.stream)
<1>1. PICK f \in [0 .. N -> State] : Scanning(f, r)
  BY ScanningExists
<1>2. N \in Nat
  <2>1. r.stream \in Seq(Printable)
    BY DEF State
  <2> QED
    BY <2>1, LenProperties
<1>3. Scans(f, r)
  BY <1>1, ScanningStep
<1>4. ASSUME NEW g, Scanning(g, r) PROVE g = f
  <2>1. g = [m \in 0 .. N |-> g[m]] /\ DOMAIN g = 0 .. N
    BY <1>4 DEF Scanning
  <2>2. f = [m \in 0 .. N |-> f[m]] /\ DOMAIN f = 0 .. N
    OBVIOUS
  <2>3. Scans(g, r)
    BY <1>4, ScanningStep
  <2>4. g[0] = f[0] /\ \A m \in 1 .. N : g[m - 1] = f[m - 1] => g[m] = f[m]
    BY <1>3, <2>3 DEF Scans
  <2> HIDE DEF N
  <2> QED
    BY <1>2, <2>1, <2>2, <2>4, Same
<1>5. f = CHOOSE g : Scanning(g, r)
  BY <1>1, <1>4
<1>6. ScannedAll(r) = (CHOOSE g : Scanning(g, r))[N]
  BY DEF ScannedAll, Scanning
<1> QED
  BY <1>3, <1>5, <1>6

LEMMA PlainType ==
    ASSUME NEW r \in State
    PROVE  Plain(r) \in Look /\ (HasSentence(Plain(r).stream) <=> HasSentence(r.stream))
<1>1. r.stream \in Seq(Printable) /\ r.valid \in Seq(Sentences)
  BY DEF State
<1>2. Spaced(r.stream) \in Spacious /\ (HasSentence(Spaced(r.stream)) <=> HasSentence(r.stream))
  BY <1>1, SpacedFacts, HasSpaced DEF Spacious
<1>3. Plain(r) = [stream |-> Spaced(r.stream), valid |-> r.valid]
  BY DEF Plain
<1>4. Plain(r).stream = Spaced(r.stream)
  BY <1>3
<1>5. Plain(r) \in Look
  BY <1>1, <1>2, <1>3 DEF Look
<1> QED
  BY <1>2, <1>4, <1>5

(***************************************************************************)
(* The loop ends when no sentence is left, each pass takes one.            *)
(***************************************************************************)
LEMMA ScannedAllFacts ==
    ASSUME NEW r \in State, NEW a, Leads(a, Plain(r))
    PROVE  /\ ScannedAll(r) \in State /\ ~HasSentence(ScannedAll(r).stream)
           /\ Leads(a, Plain(ScannedAll(r)))
<1> DEFINE N == Len(r.stream)
<1>1. r.stream \in Seq(Printable) /\ N \in Nat
  <2>1. r.stream \in Seq(Printable)
    BY DEF State
  <2> QED
    BY <2>1, LenProperties
<1>2. PICK f \in [0 .. N -> State] : Scans(f, r) /\ ScannedAll(r) = f[N]
  BY ScannedAllIs
<1>3. f[0] = r /\ \A m \in 1 .. N : f[m] = ScannedOnce(f[m - 1])
  BY <1>2 DEF Scans
<1> DEFINE Left(x, m) == ~HasSentence(x.stream) \/ Len(x.stream) + m <= N
           E == {m \in 0 .. N : Leads(a, Plain(f[m])) /\ Left(f[m], m)}
<1>4. 0 \in E
  BY <1>1, <1>3
<1>5. ASSUME NEW m \in 1 .. N, m - 1 \in E PROVE m \in E
  <2> DEFINE x == f[m - 1]
             y == f[m]
  <2>1. m \in 0 .. N /\ m - 1 \in 0 .. N
    BY <1>1
  <2>2. x \in State /\ Leads(a, Plain(x)) /\ Left(x, m - 1) /\ y = ScannedOnce(x)
    BY <1>3, <1>5, <2>1
  <2> HIDE DEF x, y, N
  <2>3. CASE HasSentence(x.stream)
    <3>1. y = Found(x)
      BY <2>2, <2>3 DEF ScannedOnce
    <3>2. y \in State /\ Len(y.stream) < Len(x.stream) /\ Plain(y) = Taken(Plain(x))
      BY <2>2, <2>3, <3>1, FoundFacts
    <3>3. HasSentence(Plain(x).stream)
      BY <2>2, <2>3, PlainType
    <3>4. Leads(a, Plain(y))
      BY <2>2, <3>2, <3>3, LeadsOn
    <3>5. Len(y.stream) \in Nat /\ Len(x.stream) \in Nat
      <4>1. x.stream \in Seq(Printable) /\ y.stream \in Seq(Printable)
        BY <2>2, <3>2 DEF State
      <4> QED
        BY <4>1, LenProperties
    <3>6. Left(y, m)
      BY <1>1, <2>2, <2>3, <3>2, <3>5
    <3> QED
      BY <2>1, <3>4, <3>6 DEF y
  <2>4. CASE ~HasSentence(x.stream)
    <3>1. y = x
      BY <2>2, <2>4 DEF ScannedOnce
    <3> QED
      BY <2>1, <2>2, <2>4, <3>1 DEF y
  <2> QED
    BY <2>3, <2>4
<1>6. 0 .. N \subseteq E
  <2> HIDE DEF E, N
  <2> QED
    BY <1>1, <1>4, <1>5, Upwards
<1>7. N \in 0 .. N
  BY <1>1
<1>8. Leads(a, Plain(f[N])) /\ Left(f[N], N)
  BY <1>6, <1>7
<1> DEFINE q == f[N]
<1>9. q \in State
  BY <1>7
<1> HIDE DEF q, N
<1>10. ~HasSentence(q.stream)
  <2>1. q.stream \in Seq(Printable)
    BY <1>9 DEF State
  <2>2. Len(q.stream) \in Nat
    BY <2>1, LenProperties
  <2>3. CASE Len(q.stream) + N <= N
    <3>1. Len(q.stream) = 0
      BY <1>1, <2>2, <2>3
    <3>2. q.stream = <<>>
      BY <2>1, <3>1, EmptySeq
    <3> QED
      BY <3>2, NothingInNothing
  <2> QED
    BY <1>8, <2>3 DEF q
<1> QED
  BY <1>2, <1>8, <1>9, <1>10 DEF q
-----------------------------------------------------------------------------
(***************************************************************************)
(* The invariant: as long as nothing was cut, what one scan of the whole   *)
(* text takes leads to the stream and the sentences there are.             *)
(***************************************************************************)
Beginning == [stream |-> Spaced(Text), valid |-> <<>>]
Now == [stream |-> Spaced(stream), valid |-> sentences]

OnTheWay ==
    ~cut => Leads(Beginning, Now) /\ (Len(stream) > ScanSize => ~HasSentence(stream))

IInv == TypeOK /\ LivePrintComplete /\ OnTheWay

LEMMA TextIs ==
    ASSUME TypeOK
    PROVE  /\ received \in Seq(Anything) /\ Len(received) \in Nat
           /\ SubSeq(received, 1, pos) \in Seq(Anything) /\ Text \in Seq(Printable)
<1>1. received \in Seq(Anything)
  BY ReceivedAssumption DEF TypeOK
<1>2. Len(received) \in Nat /\ pos \in 0 .. Len(received)
  BY <1>1, LenProperties DEF TypeOK
<1>3. \A i \in 1 .. pos : received[i] \in Anything
  BY <1>1, <1>2
<1>4. SubSeq(received, 1, pos) \in Seq(Anything)
  BY <1>2, <1>3, SubSeqProperties
<1>5. Text \in Seq(Printable)
  BY <1>4, FilteredRange DEF Text
<1> QED
  BY <1>1, <1>2, <1>4, <1>5

LEMMA EmptySpaced == <<>> \in Spacious /\ Spaced(<<>>) = <<>>
<1>1. <<>> \in Seq(Printable) /\ DOMAIN <<>> = {}
  BY EmptySeq
<1>2. NoNewline(<<>>)
  BY <1>1 DEF NoNewline
<1> QED
  BY <1>1, <1>2, SpacedIs DEF Spacious

LEMMA InitIInv == Init => IInv
<1> SUFFICES ASSUME Init PROVE IInv
  OBVIOUS
<1>1. /\ received \in Transmissions /\ pos = 0 /\ stream = <<>> /\ chr = <<>>
      /\ last_sentence = <<>> /\ printed = <<>> /\ sentences = <<>> /\ cut = FALSE
  BY DEF Init
<1>2. <<>> \in Seq(Printable) /\ <<>> \in Seq(Sentences) /\ Len(<<>>) = 0
  BY EmptySeq
<1>3. received \in Seq(Anything)
  BY <1>1, ReceivedAssumption
<1>4. pos \in 0 .. Len(received)
  <2>1. Len(received) \in Nat
    BY <1>3, LenProperties
  <2> QED
    BY <1>1, <2>1
<1>5. TypeOK
  BY <1>1, <1>2, <1>4, Zenon DEF TypeOK
<1>6. Text = <<>>
  <2>1. SubSeq(received, 1, pos) = <<>>
    BY <1>1, SubSeqEmpty
  <2> QED
    BY <2>1, FilteredEmpty DEF Text
<1>7. LivePrintComplete
  BY <1>1, <1>2, <1>6, ConcatEmptySeq DEF LivePrintComplete
<1>8. OnTheWay
  <2> DEFINE x == [stream |-> <<>>, valid |-> <<>>]
  <2>1. x \in Look
    BY <1>2, EmptySpaced DEF Look
  <2>2. Beginning = x /\ Now = x
    BY <1>1, <1>6, EmptySpaced DEF Beginning, Now
  <2> HIDE DEF x
  <2>3. Leads(Beginning, Now)
    BY <2>1, <2>2, LeadsSelf
  <2>4. ~(Len(stream) > ScanSize)
    BY <1>1, <1>2, SizeAssumption
  <2> QED
    BY <2>3, <2>4 DEF OnTheWay
<1> QED
  BY <1>5, <1>7, <1>8 DEF IInv

LEMMA CutType ==
    ASSUME NEW t \in Seq(Printable)
    PROVE  Cut(t) \in Seq(Printable)
<1> DEFINE D == {n \in DOMAIN t : t[n] = "$"}
<1>1. Cut(t) = IF Len(t) <= Limit THEN t ELSE IF D = {} THEN <<>> ELSE SubSeq(t, Max(D), Len(t))
  BY DEF Cut, CutToDollar
<1>2. <<>> \in Seq(Printable) /\ Len(t) \in Nat /\ DOMAIN t = 1 .. Len(t)
  BY EmptySeq, LenProperties
<1>3. ASSUME D # {} PROVE SubSeq(t, Max(D), Len(t)) \in Seq(Printable)
  <2>1. D \in SUBSET (1 .. Len(t))
    BY <1>2
  <2> DEFINE d == Max(D)
  <2>2. d \in D
    <3> HIDE DEF D
    <3> QED
      BY <1>2, <1>3, <2>1, Greatest
  <2>3. d \in 1 .. Len(t)
    BY <2>1, <2>2
  <2> HIDE DEF d, D
  <2>4. \A i \in d .. Len(t) : t[i] \in Printable
    <3>1. \A i \in d .. Len(t) : i \in 1 .. Len(t)
      BY <1>2, <2>3
    <3> QED
      BY <3>1, ElementOfSeq
  <2>5. d \in Int /\ Len(t) \in Int
    BY <1>2, <2>3
  <2>6. SubSeq(t, d, Len(t)) \in Seq(Printable)
    BY <2>4, <2>5, SubSeqProperties
  <2> QED
    BY <2>6 DEF d
<1> HIDE DEF D
<1> QED
  BY <1>1, <1>2, <1>3

\* The text has n more characters.
LEMMA TextGrows ==
    ASSUME TypeOK, NEW n \in Nat, pos + n <= Len(received), pos' = pos + n, received' = received
    PROVE  /\ Filtered(SubSeq(received, pos + 1, pos + n), Printable) \in Seq(Printable)
           /\ Text' = Text \o Filtered(SubSeq(received, pos + 1, pos + n), Printable)
<1> DEFINE a == SubSeq(received, 1, pos)
           b == SubSeq(received, pos + 1, pos + n)
<1>1. received \in Seq(Anything) /\ Len(received) \in Nat /\ a \in Seq(Anything)
  BY TextIs
<1>2. pos \in Nat /\ pos \in 0 .. Len(received)
  BY <1>1 DEF TypeOK
<1>3. b \in Seq(Anything)
  <2>1. \A i \in (pos + 1) .. (pos + n) : i \in 1 .. Len(received)
    BY <1>1, <1>2
  <2>2. \A i \in (pos + 1) .. (pos + n) : received[i] \in Anything
    BY <1>1, <2>1, ElementOfSeq
  <2>3. pos + 1 \in Int /\ pos + n \in Int
    BY <1>2
  <2> QED
    BY <2>2, <2>3, SubSeqProperties
<1>4. a \o b = SubSeq(received, 1, pos + n)
  <2> DEFINE q == pos + n
             w == received
  <2>1. 1 \in 1 .. Len(w) + 1 /\ pos \in 1 - 1 .. Len(w) /\ q \in pos .. Len(w)
    BY <1>1, <1>2
  <2>2. w \in Seq(Anything)
    BY <1>1
  <2> HIDE DEF q, w
  <2>3. SubSeq(w, 1, pos) \o SubSeq(w, pos + 1, q) = SubSeq(w, 1, q)
    BY <2>1, <2>2, ConcatAdjacentSubSeq
  <2> QED
    BY <2>3 DEF q, w
<1>5. Text' = Filtered(SubSeq(received, 1, pos + n), Printable)
  BY DEF Text
<1> HIDE DEF a, b
<1>6. Filtered(a \o b, Printable) = Filtered(a, Printable) \o Filtered(b, Printable)
  BY <1>1, <1>3, FilteredJoin
<1>7. Filtered(b, Printable) \in Seq(Printable)
  BY <1>3, FilteredRange
<1> QED
  BY <1>4, <1>5, <1>6, <1>7 DEF Text, a, b

\* The live print after a portion x, handed over or not.
LEMMA LivePrint ==
    ASSUME NEW p \in Seq(Printable), NEW c \in Seq(Printable), NEW x \in Seq(Printable)
    PROVE  /\ c \o x \in Seq(Printable) /\ p \o c \o x \in Seq(Printable)
           /\ (p \o c \o x) \o <<>> = (p \o c) \o x
           /\ p \o (c \o x) = (p \o c) \o x
<1>1. c \o x \in Seq(Printable) /\ p \o c \in Seq(Printable)
  BY ConcatProperties
<1> DEFINE y == p \o c
<1>2. y \in Seq(Printable)
  BY <1>1
<1> HIDE DEF y
<1>3. y \o x \in Seq(Printable)
  BY <1>2, ConcatProperties
<1> DEFINE z == y \o x
<1>4. z \in Seq(Printable)
  BY <1>3
<1> HIDE DEF z
<1>5. z \o <<>> = z
  BY <1>4, ConcatEmptySeq
<1>6. (p \o c) \o x = p \o (c \o x)
  <2>1. Associates(Printable)
    BY Associative
  <2> QED
    BY <2>1 DEF Associates
<1> QED
  BY <1>1, <1>3, <1>5, <1>6 DEF y, z

LEMMA ProcessIInv ==
    ASSUME IInv, NEW n \in Chunks, NEW due \in BOOLEAN, Process(n, due)
    PROVE  IInv'
<1> DEFINE new == Filtered(SubSeq(received, pos + 1, pos + n), Printable)
           r0 == [stream |-> stream \o new, valid |-> sentences, last |-> last_sentence]
           r == IF Len(r0.stream) > ScanSize THEN Scanned(r0) ELSE r0
<1>1. /\ pos + n <= Len(received) /\ pos' = pos + n /\ received' = received
      /\ sentences' = r.valid /\ last_sentence' = r.last
      /\ stream' = Cut(r.stream)
      /\ cut' = (cut \/ stream' # r.stream)
      /\ printed' = IF due THEN printed \o chr \o new ELSE printed
      /\ chr' = IF due THEN <<>> ELSE chr \o new
  BY DEF Process, Kept, AfterCall, Cleared
<1>2. TypeOK /\ n \in Nat
  BY ReceivedAssumption DEF IInv
<1>3. /\ received \in Transmissions /\ pos \in 0 .. Len(received)
      /\ stream \in Seq(Printable) /\ chr \in Seq(Printable) /\ printed \in Seq(Printable)
      /\ last_sentence \in Seq(Printable) /\ sentences \in Seq(Sentences) /\ cut \in BOOLEAN
  BY <1>2 DEF TypeOK
<1>4. new \in Seq(Printable) /\ Text' = Text \o new
  BY <1>1, <1>2, TextGrows
<1>5. Text \in Seq(Printable) /\ Len(received) \in Nat
  BY <1>2, TextIs
<1> HIDE DEF new
<1>6. stream \o new \in Seq(Printable)
  BY <1>3, <1>4, ConcatProperties
<1>7. r0 \in State /\ r0.stream = stream \o new /\ r0.valid = sentences
  BY <1>3, <1>6 DEF State
<1> DEFINE s == stream \o new
<1>8. Plain(r0) = [stream |-> Spaced(s), valid |-> sentences]
  BY <1>7 DEF Plain
<1> HIDE DEF r0, s
<1>9. r \in State /\ (Len(r.stream) > ScanSize => ~HasSentence(r.stream))
  <2>1. CASE Len(r0.stream) > ScanSize
    <3>1. r = ScannedAll(r0)
      BY <2>1 DEF Scanned
    <3>2. Plain(r0) \in Look
      BY <1>7, PlainType
    <3>3. Leads(Plain(r0), Plain(r0))
      BY <3>2, LeadsSelf
    <3> QED
      BY <1>7, <3>1, <3>3, ScannedAllFacts
  <2>2. CASE ~(Len(r0.stream) > ScanSize)
    BY <1>7, <2>2
  <2> QED
    BY <2>1, <2>2
<1>10. ASSUME NEW a, Leads(a, Plain(r0)) PROVE Leads(a, Plain(r))
  <2>1. CASE Len(r0.stream) > ScanSize
    <3>1. r = ScannedAll(r0)
      BY <2>1 DEF Scanned
    <3> QED
      BY <1>7, <1>10, <3>1, ScannedAllFacts
  <2>2. CASE ~(Len(r0.stream) > ScanSize)
    BY <1>10, <2>2
  <2> QED
    BY <2>1, <2>2
<1> HIDE DEF r
<1>11. r.stream \in Seq(Printable) /\ r.valid \in Seq(Sentences) /\ r.last \in Seq(Printable)
  BY <1>9 DEF State
<1>12. TypeOK'
  <2>1. pos' \in 0 .. Len(received')
    BY <1>1, <1>2, <1>3, <1>5
  <2>2. stream' \in Seq(Printable)
    BY <1>1, <1>11, CutType
  <2>3. chr' \in Seq(Printable) /\ printed' \in Seq(Printable)
    <3>1. chr \o new \in Seq(Printable) /\ printed \o chr \o new \in Seq(Printable)
      BY <1>3, <1>4, LivePrint
    <3>2. <<>> \in Seq(Printable)
      BY EmptySeq
    <3> QED
      BY <1>1, <1>3, <3>1, <3>2
  <2>4. cut' \in BOOLEAN
    BY <1>1, <1>3
  <2> QED
    BY <1>1, <1>3, <1>11, <2>1, <2>2, <2>3, <2>4 DEF TypeOK
<1>13. LivePrintComplete'
  <2>1. printed \o chr = Text
    BY DEF IInv, LivePrintComplete
  <2> DEFINE p == printed
             c == chr
             x == new
  <2>4. p \in Seq(Printable) /\ c \in Seq(Printable) /\ x \in Seq(Printable)
    BY <1>3, <1>4
  <2> HIDE DEF p, c, x
  <2>5. (p \o c \o x) \o <<>> = (p \o c) \o x /\ p \o (c \o x) = (p \o c) \o x
    BY <2>4, LivePrint
  <2>2. /\ (printed \o chr \o new) \o <<>> = (printed \o chr) \o new
        /\ printed \o (chr \o new) = (printed \o chr) \o new
    BY <2>5 DEF p, c, x
  <2>3. printed' \o chr' = Text'
    BY <1>1, <1>4, <2>1, <2>2
  <2> QED
    BY <2>3 DEF LivePrintComplete
<1>14. OnTheWay'
  <2> SUFFICES ASSUME ~cut' PROVE Leads(Beginning', Now') /\ (Len(stream') > ScanSize => ~HasSentence(stream'))
    BY DEF OnTheWay
  <2>1. ~cut /\ stream' = r.stream
    BY <1>1
  <2>2. Leads(Beginning, Now)
    BY <2>1 DEF IInv, OnTheWay
  <2> DEFINE t == Spaced(new)
  <2>3. t \in Spacious
    BY <1>4, SpacedFacts DEF Spacious
  <2>4. Spaced(s) = Spaced(stream) \o t /\ Spaced(Text \o new) = Spaced(Text) \o t
    BY <1>3, <1>4, <1>5, SpacedJoin DEF s
  <2> HIDE DEF t
  <2>5. Leads(More(Beginning, t), More(Now, t))
    BY <2>2, <2>3, LeadsMore
  <2>6. More(Now, t) = Plain(r0)
    BY <1>8, <2>4 DEF More, Now
  <2>7. More(Beginning, t) = Beginning'
    BY <1>4, <2>4 DEF More, Beginning
  <2>8. Leads(Beginning', Plain(r))
    BY <1>10, <2>5, <2>6, <2>7
  <2>9. Plain(r) = Now'
    BY <1>1, <2>1 DEF Plain, Now
  <2> QED
    BY <1>9, <2>1, <2>8, <2>9
<1> QED
  BY <1>12, <1>13, <1>14 DEF IInv

LEMMA StutterIInv == IInv /\ UNCHANGED vars => IInv'
<1> SUFFICES ASSUME IInv, UNCHANGED vars PROVE IInv'
  OBVIOUS
<1> QED
  BY DEF IInv, vars, TypeOK, LivePrintComplete, OnTheWay, Beginning, Now, Text

(***************************************************************************)
(* The second half of process() keeps the invariant.                       *)
(***************************************************************************)
THEOREM Inductive == Spec => []IInv
<1>1. IInv /\ [Next]_vars => IInv'
  BY ProcessIInv, StutterIInv DEF Next
<1> QED
  BY InitIInv, <1>1, PTL DEF Spec

(***************************************************************************)
(* Every variable keeps its type: only printable characters are kept, and  *)
(* what the expression takes for callsign and checksum is one.             *)
(***************************************************************************)
THEOREM TypeCorrect == Spec => []TypeOK
<1>1. IInv => TypeOK
  BY DEF IInv
<1> QED
  BY <1>1, Inductive, PTL

(***************************************************************************)
(* The live print: what character_callback_ was given and what waits for   *)
(* the next 250 ms are the printable text, for any pace of the callbacks.  *)
(***************************************************************************)
THEOREM PrintComplete == Spec => []LivePrintComplete
<1>1. IInv => LivePrintComplete
  BY DEF IInv
<1> QED
  BY <1>1, Inductive, PTL

LEMMA Split ==
    ASSUME IInv
    PROVE  ChunkIndependent
<1> SUFFICES ASSUME ~cut
             PROVE  /\ IsPrefix(sentences, AtOnce)
                    /\ Len(stream) > ScanSize => sentences = AtOnce
  BY DEF ChunkIndependent
<1> DEFINE r == [stream |-> Text, valid |-> <<>>, last |-> <<>>]
           q == ScannedAll(r)
           c == Plain(q)
<1>1. TypeOK /\ Leads(Beginning, Now) /\ (Len(stream) > ScanSize => ~HasSentence(stream))
  BY DEF IInv, OnTheWay
<1>2. stream \in Seq(Printable) /\ sentences \in Seq(Sentences) /\ Text \in Seq(Printable)
  BY <1>1, TextIs DEF TypeOK
<1>3. r \in State /\ Plain(r) = Beginning
  <2>1. <<>> \in Seq(Printable) /\ <<>> \in Seq(Sentences)
    BY EmptySeq
  <2>2. r \in State
    BY <1>2, <2>1 DEF State
  <2>3. Plain(r) = Beginning
    BY DEF Plain, Beginning
  <2> QED
    BY <2>2, <2>3
<1>4. AtOnce = q.valid
  BY DEF AtOnce
<1> HIDE DEF r
<1>5. Leads(Beginning, Plain(r))
  BY <1>1, <1>3, LeadsType, LeadsSelf
<1>6. q \in State /\ ~HasSentence(q.stream) /\ Leads(Beginning, c)
  BY <1>3, <1>5, ScannedAllFacts
<1> HIDE DEF q
<1>7. ~HasSentence(c.stream) /\ c.valid = q.valid
  BY <1>6, PlainType DEF Plain
<1> HIDE DEF c
<1>8. /\ \E d \in Seq(Sentences) : c.valid = Now.valid \o d
      /\ ~HasSentence(Now.stream) => Now = c
  BY <1>1, <1>6, <1>7, OneWay
<1>9. Now.valid = sentences /\ (HasSentence(Now.stream) <=> HasSentence(stream))
  BY <1>2, HasSpaced DEF Now
<1>10. IsPrefix(sentences, AtOnce)
  <2>1. PICK d \in Seq(Sentences) : AtOnce = sentences \o d
    BY <1>4, <1>7, <1>8, <1>9
  <2> DEFINE x == sentences
             y == x \o d
  <2>2. x \in Seq(Sentences)
    BY <1>2
  <2> HIDE DEF x
  <2>3. y \in Seq(Sentences) /\ Len(y) = Len(x) + Len(d) /\ \A i \in 1 .. Len(x) : y[i] = x[i]
    BY <2>2, ConcatProperties
  <2>4. Len(x) \in Nat /\ Len(d) \in Nat
    BY <2>2, LenProperties
  <2> HIDE DEF y
  <2>5. SubSeq(x, 1, Len(x)) = SubSeq(y, 1, Len(x))
    BY <2>2, <2>3, <2>4
  <2>6. IsPrefix(x, y)
    BY <2>3, <2>4, <2>5 DEF IsPrefix
  <2> QED
    BY <2>1, <2>6 DEF x, y
<1>11. Len(stream) > ScanSize => sentences = AtOnce
  BY <1>1, <1>4, <1>7, <1>8, <1>9
<1> QED
  BY <1>10, <1>11

(***************************************************************************)
(* How the characters are split into calls of process() makes no           *)
(* difference to the sentences, for any checksum and any text, as long as  *)
(* the stream has not been cut.                                            *)
(***************************************************************************)
THEOREM AnySplit == Spec => []ChunkIndependent
<1>1. IInv => ChunkIndependent
  BY Split
<1> QED
  BY <1>1, Inductive, PTL

-----------------------------------------------------------------------------
(***************************************************************************)
(* A clear sentence, by the places of its "$", "," and "*".                *)
(***************************************************************************)
InOrder(t, b, k, e) ==
    /\ b \in Nat /\ k \in Nat /\ e \in Nat
    /\ 1 <= b /\ b + 1 < k /\ k + 1 < e /\ e + CrcLen <= Len(t)

Marks(t, b, k, e) ==
    /\ InOrder(t, b, k, e)
    /\ t[b] = "$" /\ t[k] = "," /\ t[e] = "*"
    /\ \A n \in (b + 1) .. (k - 1) : t[n] \in CallChar \ {","}
    /\ \A n \in (k + 1) .. (e - 1) : t[n] \notin {"$", "*"}
    /\ \A n \in (e + 1) .. (e + CrcLen) : t[n] \in Word
    /\ ValidCrc(Reading(t, b, k, e))

LEMMA Ranges ==
    ASSUME NEW t \in Seq(Printable), NEW b, NEW k, NEW e
    PROVE  InOrder(t, b, k, e) <=>
              /\ b \in 1 .. Len(t) /\ k \in 1 .. Len(t) /\ e \in 1 .. Len(t)
              /\ b + 1 < k /\ k + 1 < e /\ e + CrcLen <= Len(t)
<1>1. Len(t) \in Nat /\ CrcLen \in Nat
  BY CrcAssumption
<1> QED
  BY <1>1 DEF InOrder

LEMMA Triple ==
    ASSUME NEW A, NEW B, NEW C, NEW x \in A \X B \X C
    PROVE  x = <<x[1], x[2], x[3]>> /\ x[1] \in A /\ x[2] \in B /\ x[3] \in C
  OBVIOUS

LEMMA IntactIs ==
    ASSUME NEW t \in Seq(Printable), NEW x
    PROVE  x \in Intact(t) <=> x = <<x[1], x[2], x[3]>> /\ Marks(t, x[1], x[2], x[3])
<1>1. DOMAIN t = 1 .. Len(t) /\ Len(t) \in Nat /\ CrcLen \in Nat
  BY CrcAssumption
<1>2. ASSUME x \in Intact(t) PROVE x = <<x[1], x[2], x[3]>> /\ Marks(t, x[1], x[2], x[3])
  <2>1. x \in Places(t, "$") \X Places(t, ",") \X Places(t, "*")
    BY <1>2 DEF Intact
  <2>2. /\ x = <<x[1], x[2], x[3]>>
        /\ x[1] \in Places(t, "$") /\ x[2] \in Places(t, ",") /\ x[3] \in Places(t, "*")
    <3> DEFINE A == Places(t, "$")
               B == Places(t, ",")
               C == Places(t, "*")
    <3>1. x \in A \X B \X C
      BY <2>1
    <3> HIDE DEF A, B, C
    <3>2. x = <<x[1], x[2], x[3]>> /\ x[1] \in A /\ x[2] \in B /\ x[3] \in C
      BY <3>1, Triple
    <3> QED
      BY <3>2 DEF A, B, C
  <2>3. /\ x[1] + 1 < x[2] /\ x[2] + 1 < x[3] /\ x[3] + CrcLen <= Len(t)
        /\ IntactAt(t, x[1], x[2], x[3])
    BY <1>2 DEF Intact
  <2>4. /\ x[1] \in 1 .. Len(t) /\ x[2] \in 1 .. Len(t) /\ x[3] \in 1 .. Len(t)
        /\ t[x[1]] = "$" /\ t[x[2]] = "," /\ t[x[3]] = "*"
    BY <1>1, <2>2 DEF Places
  <2>5. InOrder(t, x[1], x[2], x[3])
    BY <2>3, <2>4, Ranges
  <2> QED
    BY <2>2, <2>3, <2>4, <2>5 DEF Marks, IntactAt
<1>3. ASSUME x = <<x[1], x[2], x[3]>>, Marks(t, x[1], x[2], x[3]) PROVE x \in Intact(t)
  <2>0. /\ InOrder(t, x[1], x[2], x[3])
        /\ t[x[1]] = "$" /\ t[x[2]] = "," /\ t[x[3]] = "*"
    BY <1>3 DEF Marks
  <2>4. x[1] \in 1 .. Len(t) /\ x[2] \in 1 .. Len(t) /\ x[3] \in 1 .. Len(t)
    BY <2>0, Ranges
  <2>1. x[1] \in Places(t, "$") /\ x[2] \in Places(t, ",") /\ x[3] \in Places(t, "*")
    BY <1>1, <2>0, <2>4 DEF Places
  <2>2. x \in Places(t, "$") \X Places(t, ",") \X Places(t, "*")
    BY <1>3, <2>1
  <2>3. /\ x[1] + 1 < x[2] /\ x[2] + 1 < x[3] /\ x[3] + CrcLen <= Len(t)
        /\ IntactAt(t, x[1], x[2], x[3])
    BY <1>3, <2>0, Ranges, Zenon DEF Marks, IntactAt
  <2> QED
    BY <2>2, <2>3 DEF Intact
<1> QED
  BY <1>2, <1>3

\* There is no "$" in a sentence but the one it begins with.
LEMMA NoDollarWithin ==
    ASSUME NEW t \in Seq(Printable), NEW b, NEW k, NEW e, Marks(t, b, k, e),
           NEW n \in Nat, b < n, n <= e + CrcLen
    PROVE  t[n] # "$"
<1>0. InOrder(t, b, k, e)
  BY DEF Marks
<1>1. "$" \notin Word /\ "$" \notin CallChar
  BY ClassAssumption DEF CallChar
<1>2. CrcLen \in Nat
  BY CrcAssumption
<1>3. CASE n < k
  <2>1. n \in (b + 1) .. (k - 1)
    BY <1>0, <1>3 DEF InOrder
  <2> QED
    BY <1>1, <2>1 DEF Marks
<1>4. CASE n = k
  BY <1>4 DEF Marks
<1>5. CASE k < n /\ n < e
  <2>1. n \in (k + 1) .. (e - 1)
    BY <1>0, <1>5 DEF InOrder
  <2> QED
    BY <2>1 DEF Marks
<1>6. CASE n = e
  BY <1>6 DEF Marks
<1>7. CASE e < n
  <2>1. n \in (e + 1) .. (e + CrcLen)
    BY <1>0, <1>2, <1>7 DEF InOrder
  <2> QED
    BY <1>1, <2>1 DEF Marks
<1>8. k \in Nat /\ e \in Nat
  BY <1>0 DEF InOrder
<1> QED
  BY <1>3, <1>4, <1>5, <1>6, <1>7, <1>8

\* A sentence is known by its "$".
LEMMA SamePlaces ==
    ASSUME NEW t \in Seq(Printable), NEW x \in Intact(t), NEW y \in Intact(t), x[1] = y[1]
    PROVE  x = y
<1>1. ASSUME NEW b, NEW k, NEW e, NEW l, NEW d, Marks(t, b, k, e), Marks(t, b, l, d)
      PROVE  k = l /\ e = d
  <2>0. InOrder(t, b, k, e) /\ InOrder(t, b, l, d)
    BY <1>1 DEF Marks
  <2>1. b \in Nat /\ k \in Nat /\ e \in Nat /\ l \in Nat /\ d \in Nat
    BY <2>0 DEF InOrder
  <2>2. ~(k < l)
    <3> SUFFICES ASSUME k < l PROVE FALSE
      OBVIOUS
    <3>1. k \in (b + 1) .. (l - 1)
      BY <2>0 DEF InOrder
    <3> QED
      BY <1>1, <3>1 DEF Marks
  <2>3. ~(l < k)
    <3> SUFFICES ASSUME l < k PROVE FALSE
      OBVIOUS
    <3>1. l \in (b + 1) .. (k - 1)
      BY <2>0 DEF InOrder
    <3> QED
      BY <1>1, <3>1 DEF Marks
  <2>4. k = l
    BY <2>1, <2>2, <2>3
  <2>5. ~(e < d)
    <3> SUFFICES ASSUME e < d PROVE FALSE
      OBVIOUS
    <3>1. e \in (l + 1) .. (d - 1)
      BY <2>0, <2>4 DEF InOrder
    <3> QED
      BY <1>1, <3>1 DEF Marks
  <2>6. ~(d < e)
    <3> SUFFICES ASSUME d < e PROVE FALSE
      OBVIOUS
    <3>1. d \in (k + 1) .. (e - 1)
      BY <2>0, <2>4 DEF InOrder
    <3> QED
      BY <1>1, <3>1 DEF Marks
  <2> QED
    BY <2>1, <2>4, <2>5, <2>6
<1>2. Marks(t, x[1], x[2], x[3]) /\ Marks(t, x[1], y[2], y[3])
  BY IntactIs
<1>3. x[2] = y[2] /\ x[3] = y[3]
  BY <1>1, <1>2
<1>4. x = <<x[1], x[2], x[3]>> /\ y = <<y[1], y[2], y[3]>>
  BY IntactIs
<1> QED
  BY <1>3, <1>4

\* There are finitely many.
LEMMA IntactFinite ==
    ASSUME NEW t \in Seq(Printable), NEW K \in SUBSET Intact(t)
    PROVE  IsFiniteSet(K)
<1> DEFINE B == {n \in 1 .. Len(t) : \E x \in K : x[1] = n}
           f == [n \in B |-> CHOOSE x \in K : x[1] = n]
<1>1. Len(t) \in Nat
  OBVIOUS
<1>2. IsFiniteSet(B)
  <2>1. IsFiniteSet(1 .. Len(t))
    BY <1>1, FS_Interval
  <2>2. B \in SUBSET (1 .. Len(t))
    OBVIOUS
  <2> HIDE DEF B
  <2> QED
    BY <2>1, <2>2, FS_Subset
<1>3. ASSUME NEW x \in K PROVE x[1] \in B /\ f[x[1]] = x
  <2>1. InOrder(t, x[1], x[2], x[3])
    BY IntactIs DEF Marks
  <2>2. x[1] \in 1 .. Len(t)
    BY <1>1, <2>1, CrcAssumption DEF InOrder
  <2>3. x[1] \in B
    BY <2>2
  <2> DEFINE y == CHOOSE z \in K : z[1] = x[1]
  <2>4. y \in K /\ y[1] = x[1]
    OBVIOUS
  <2>5. f[x[1]] = y
    BY <2>3
  <2> HIDE DEF f, y, B
  <2>6. y = x
    BY <2>4, SamePlaces
  <2> QED
    BY <2>3, <2>5, <2>6
<1>4. ASSUME NEW n \in B PROVE f[n] \in K
  OBVIOUS
<1>5. f \in [B -> K]
  BY <1>4
<1>6. \A x \in K : \E n \in B : f[n] = x
  BY <1>3
<1> HIDE DEF f, B
<1>7. f \in Surjection(B, K)
  BY <1>5, <1>6 DEF Surjection
<1> QED
  BY <1>2, <1>7, FS_Surjection

(***************************************************************************)
(* A window on a text w: the characters behind the p-th up to the n-th.    *)
(***************************************************************************)
LEMMA WindowFacts ==
    ASSUME NEW w \in Seq(Printable), NEW N \in 0 .. Len(w), NEW p \in 0 .. N
    PROVE  /\ SubSeq(w, p + 1, N) \in Seq(Printable) /\ Len(SubSeq(w, p + 1, N)) = N - p
           /\ \A n \in 1 .. (N - p) : SubSeq(w, p + 1, N)[n] = w[p + n]
<1>1. Len(w) \in Nat /\ N \in Int /\ p + 1 \in Int /\ N - p \in Nat
  OBVIOUS
<1>2. \A n \in (p + 1) .. N : n \in 1 .. Len(w)
  BY <1>1
<1>3. \A n \in (p + 1) .. N : w[n] \in Printable
  BY <1>2, ElementOfSeq
<1> DEFINE m == p + 1
           s == SubSeq(w, m, N)
<1>4. m \in Int /\ \A n \in m .. N : w[n] \in Printable
  BY <1>1, <1>3
<1> HIDE DEF m
<1>5. /\ s \in Seq(Printable) /\ Len(s) = IF m <= N THEN N - m + 1 ELSE 0
      /\ \A n \in 1 .. N - m + 1 : s[n] = w[m + n - 1]
  BY <1>1, <1>4, SubSeqProperties
<1> HIDE DEF s
<1>6. Len(s) = N - p
  BY <1>1, <1>5 DEF m
<1>7. ASSUME NEW n \in 1 .. (N - p) PROVE s[n] = w[p + n]
  <2>1. n \in 1 .. N - m + 1 /\ m + n - 1 = p + n
    BY <1>1 DEF m
  <2> QED
    BY <1>5, <2>1
<1> QED
  BY <1>5, <1>6, <1>7 DEF s, m

LEMMA WindowPart ==
    ASSUME NEW w \in Seq(Printable), NEW N \in 0 .. Len(w), NEW p \in 0 .. N,
           NEW m \in 1 .. (N - p), NEW n \in 1 .. (N - p)
    PROVE  SubSeq(SubSeq(w, p + 1, N), m, n) = SubSeq(w, p + m, p + n)
<1>1. Len(w) \in Nat /\ p + 1 \in 1 .. Len(w) /\ N \in 1 .. Len(w)
  OBVIOUS
<1>2. m \in 1 .. N - (p + 1) + 1 /\ n \in 1 .. N - (p + 1) + 1
  OBVIOUS
<1> DEFINE q == p + 1
<1>3. q \in 1 .. Len(w) /\ m \in 1 .. N - q + 1 /\ n \in 1 .. N - q + 1
  BY <1>1, <1>2
<1>4. q + m - 1 = p + m /\ q + n - 1 = p + n
  OBVIOUS
<1> HIDE DEF q
<1>5. SubSeq(SubSeq(w, q, N), m, n) = SubSeq(w, q + m - 1, q + n - 1)
  BY <1>1, <1>3, SubSeqOfSubSeq
<1> QED
  BY <1>4, <1>5 DEF q

\* A sentence is read in a window as in the text.
LEMMA WindowReading ==
    ASSUME NEW w \in Seq(Printable), NEW N \in 0 .. Len(w), NEW p \in 0 .. N,
           NEW b \in Nat, NEW k \in Nat, NEW e \in Nat,
           b + 1 < k, k + 1 < e, e + CrcLen <= N - p
    PROVE  Reading(SubSeq(w, p + 1, N), b, k, e) = Reading(w, p + b, p + k, p + e)
<1> DEFINE s == SubSeq(w, p + 1, N)
<1>1. CrcLen \in Nat /\ CrcLen >= 1 /\ Len(w) \in Nat /\ N \in Nat /\ p \in Nat
  BY CrcAssumption
<1>2. /\ b + 1 \in 1 .. (N - p) /\ k - 1 \in 1 .. (N - p) /\ k + 1 \in 1 .. (N - p)
      /\ e - 1 \in 1 .. (N - p) /\ e + 1 \in 1 .. (N - p) /\ e + CrcLen \in 1 .. (N - p)
  BY <1>1
<1>3. ASSUME NEW m \in 1 .. (N - p), NEW n \in 1 .. (N - p)
      PROVE  SubSeq(s, m, n) = SubSeq(w, p + m, p + n)
  BY WindowPart
<1> HIDE DEF s
<1>4. /\ SubSeq(s, b + 1, k - 1) = SubSeq(w, p + (b + 1), p + (k - 1))
      /\ SubSeq(s, k + 1, e - 1) = SubSeq(w, p + (k + 1), p + (e - 1))
      /\ SubSeq(s, e + 1, e + CrcLen) = SubSeq(w, p + (e + 1), p + (e + CrcLen))
  BY <1>2, <1>3
<1>5. /\ p + (b + 1) = (p + b) + 1 /\ p + (k - 1) = (p + k) - 1 /\ p + (k + 1) = (p + k) + 1
      /\ p + (e - 1) = (p + e) - 1 /\ p + (e + 1) = (p + e) + 1
      /\ p + (e + CrcLen) = (p + e) + CrcLen
  BY <1>1
<1>6. Reading(s, b, k, e) = Reading(w, p + b, p + k, p + e)
  BY <1>4, <1>5 DEF Reading
<1> QED
  BY <1>6 DEF s

\* The marks of a sentence in the first N characters of a text.
LEMMA MarksPrefix ==
    ASSUME NEW w \in Seq(Printable), NEW N \in 0 .. Len(w), NEW b, NEW k, NEW e
    PROVE  Marks(SubSeq(w, 1, N), b, k, e) <=> Marks(w, b, k, e) /\ e + CrcLen <= N
<1> DEFINE s == SubSeq(w, 1, N)
<1>1. /\ N \in Nat /\ Len(w) \in Nat /\ N <= Len(w) /\ CrcLen \in Nat /\ CrcLen >= 1
      /\ N - 0 = N /\ 0 + 1 = 1 /\ 0 \in 0 .. N
  BY CrcAssumption
<1>2. s \in Seq(Printable) /\ Len(s) = N /\ \A n \in 1 .. N : s[n] = w[n]
  <2>1. /\ SubSeq(w, 0 + 1, N) \in Seq(Printable) /\ Len(SubSeq(w, 0 + 1, N)) = N - 0
        /\ \A n \in 1 .. (N - 0) : SubSeq(w, 0 + 1, N)[n] = w[0 + n]
    BY <1>1, WindowFacts
  <2> QED
    BY <1>1, <2>1
<1>3. ASSUME InOrder(w, b, k, e), e + CrcLen <= N PROVE Reading(s, b, k, e) = Reading(w, b, k, e)
  <2>1. /\ b \in Nat /\ k \in Nat /\ e \in Nat /\ b + 1 < k /\ k + 1 < e
        /\ e + CrcLen <= N - 0 /\ 0 + b = b /\ 0 + k = k /\ 0 + e = e
    BY <1>1, <1>3 DEF InOrder
  <2>2. Reading(SubSeq(w, 0 + 1, N), b, k, e) = Reading(w, 0 + b, 0 + k, 0 + e)
    BY <1>1, <2>1, WindowReading
  <2> QED
    BY <1>1, <2>1, <2>2
<1> HIDE DEF s
<1>4. InOrder(s, b, k, e) <=> InOrder(w, b, k, e) /\ e + CrcLen <= N
  BY <1>1, <1>2 DEF InOrder
<1>5. ASSUME InOrder(w, b, k, e), e + CrcLen <= N
      PROVE  Marks(s, b, k, e) <=> Marks(w, b, k, e)
  <2>1. /\ b \in 1 .. N /\ k \in 1 .. N /\ e \in 1 .. N
        /\ \A n \in (b + 1) .. (k - 1) : n \in 1 .. N
        /\ \A n \in (k + 1) .. (e - 1) : n \in 1 .. N
        /\ \A n \in (e + 1) .. (e + CrcLen) : n \in 1 .. N
    BY <1>1, <1>5 DEF InOrder
  <2>2. /\ s[b] = w[b] /\ s[k] = w[k] /\ s[e] = w[e]
        /\ \A n \in (b + 1) .. (k - 1) : s[n] = w[n]
        /\ \A n \in (k + 1) .. (e - 1) : s[n] = w[n]
        /\ \A n \in (e + 1) .. (e + CrcLen) : s[n] = w[n]
    BY <1>2, <2>1
  <2>3. Reading(s, b, k, e) = Reading(w, b, k, e) /\ InOrder(s, b, k, e)
    BY <1>3, <1>4, <1>5
  <2> QED
    BY <1>5, <2>2, <2>3, Zenon DEF Marks
<1>6. Marks(s, b, k, e) <=> Marks(w, b, k, e) /\ e + CrcLen <= N
  <2>1. Marks(s, b, k, e) => InOrder(s, b, k, e)
    BY DEF Marks
  <2>2. Marks(w, b, k, e) => InOrder(w, b, k, e)
    BY DEF Marks
  <2> QED
    BY <1>4, <1>5, <2>1, <2>2
<1> QED
  BY <1>6 DEF s

LEMMA IntactPrefix ==
    ASSUME NEW w \in Seq(Printable), NEW N \in 0 .. Len(w), NEW x
    PROVE  x \in Intact(SubSeq(w, 1, N)) <=> x \in Intact(w) /\ x[3] + CrcLen <= N
<1>1. SubSeq(w, 1, N) \in Seq(Printable)
  <2>1. 0 \in 0 .. N /\ 0 + 1 = 1
    OBVIOUS
  <2> QED
    BY <2>1, WindowFacts
<1> QED
  BY <1>1, IntactIs, MarksPrefix

-----------------------------------------------------------------------------
(***************************************************************************)
(* Clear sentences.                                                        *)
(***************************************************************************)
LEMMA PlaceIs ==
    ASSUME NEW t \in Seq(Printable), NEW c, NEW n
    PROVE  n \in Places(t, c) <=> n \in 1 .. Len(t) /\ t[n] = c
  BY DEF Places

\* A "$" at d that may belong to y, up to x.
Covers(t, d, y, b) == d <= y[1] /\ y[1] <= b /\ \A n \in d .. y[1] : t[n] = "$"

LEMMA ClearIs ==
    ASSUME NEW t, NEW x
    PROVE  x \in Clear(t) <=>
              /\ x \in Intact(t)
              /\ \A d \in Places(t, "$") : d < x[1] => \E y \in Intact(t) : Covers(t, d, y, x[1])
  BY DEF Clear, Covers

\* The last "$" of a run before a clear sentence begins a clear sentence.
LEMMA ClearBefore ==
    ASSUME NEW t \in Seq(Printable), NEW x \in Clear(t), NEW d \in Places(t, "$"),
           d < x[1], t[d + 1] # "$"
    PROVE  \E y \in Clear(t) : y[1] = d
<1>1. PICK y \in Intact(t) : Covers(t, d, y, x[1])
  BY ClearIs
<1>2. ASSUME NEW z \in Intact(t) PROVE z[1] \in Nat
  BY IntactIs DEF Marks, InOrder
<1>3. d \in 1 .. Len(t) /\ Len(t) \in Nat /\ x \in Intact(t)
  BY PlaceIs, ClearIs
<1>4. x[1] \in Nat /\ y[1] \in Nat
  BY <1>2, <1>3
<1>5. y[1] = d
  <2>1. CASE y[1] > d
    <3>1. d + 1 \in d .. y[1]
      BY <1>3, <1>4, <2>1
    <3> QED
      BY <1>1, <3>1 DEF Covers
  <2> QED
    BY <1>1, <1>3, <1>4, <2>1 DEF Covers
<1>6. ASSUME NEW c \in Places(t, "$"), c < y[1]
      PROVE  \E z \in Intact(t) : Covers(t, c, z, y[1])
  <2>1. c \in 1 .. Len(t)
    BY PlaceIs
  <2>2. c < x[1]
    BY <1>3, <1>4, <1>5, <1>6, <2>1
  <2>3. PICK z \in Intact(t) : Covers(t, c, z, x[1])
    BY <2>2, ClearIs
  <2>4. z[1] \in Nat
    BY <1>2
  <2>5. ~(z[1] > d)
    <3> SUFFICES ASSUME z[1] > d PROVE FALSE
      OBVIOUS
    <3>1. d + 1 \in c .. z[1]
      BY <1>3, <1>5, <1>6, <2>1, <2>4
    <3> QED
      BY <2>3, <3>1 DEF Covers
  <2>6. Covers(t, c, z, y[1])
    BY <1>3, <1>5, <2>3, <2>4, <2>5 DEF Covers
  <2> QED
    BY <2>6
<1>7. y \in Clear(t)
  BY <1>6, ClearIs
<1> QED
  BY <1>5, <1>7

\* The clear sentences of the first N characters are those that end there.
LEMMA ClearPrefix ==
    ASSUME NEW w \in Seq(Printable), NEW N \in 0 .. Len(w), NEW x
    PROVE  x \in Clear(SubSeq(w, 1, N)) <=> x \in Clear(w) /\ x[3] + CrcLen <= N
<1> DEFINE s == SubSeq(w, 1, N)
<1>1. N \in Nat /\ Len(w) \in Nat /\ N <= Len(w) /\ CrcLen \in Nat
  BY CrcAssumption
<1>2. s \in Seq(Printable) /\ Len(s) = N /\ \A n \in 1 .. N : s[n] = w[n]
  <2>1. 0 \in 0 .. N /\ 0 + 1 = 1 /\ N - 0 = N
    BY <1>1
  <2>2. /\ SubSeq(w, 0 + 1, N) \in Seq(Printable) /\ Len(SubSeq(w, 0 + 1, N)) = N - 0
        /\ \A n \in 1 .. (N - 0) : SubSeq(w, 0 + 1, N)[n] = w[0 + n]
    BY <2>1, WindowFacts
  <2> QED
    BY <1>1, <2>1, <2>2
<1>3. ASSUME NEW z PROVE z \in Intact(s) <=> z \in Intact(w) /\ z[3] + CrcLen <= N
  BY IntactPrefix
<1> HIDE DEF s
<1>4. ASSUME NEW z \in Intact(w) PROVE InOrder(w, z[1], z[2], z[3])
  BY IntactIs DEF Marks
<1>5. ASSUME NEW d \in Nat, NEW z, z[1] \in Nat, NEW b \in Nat, d >= 1, b <= N
      PROVE  Covers(s, d, z, b) <=> Covers(w, d, z, b)
  <2>1. ASSUME z[1] <= b, NEW n \in d .. z[1] PROVE s[n] = w[n]
    <3>1. n \in 1 .. N
      BY <1>1, <1>5, <2>1
    <3> QED
      BY <1>2, <3>1
  <2> QED
    BY <2>1 DEF Covers
<1>6. ASSUME x \in Intact(w), x[3] + CrcLen <= N
      PROVE  x \in Clear(s) <=> x \in Clear(w)
  <2>1. x \in Intact(s) /\ x[1] \in Nat /\ x[1] <= N /\ x[1] < x[3] /\ x[3] \in Nat
    BY <1>1, <1>3, <1>4, <1>6 DEF InOrder
  <2>2. ASSUME NEW d, d < x[1] PROVE d \in Places(s, "$") <=> d \in Places(w, "$")
    <3>1. d \in 1 .. Len(s) <=> d \in 1 .. Len(w)
      BY <1>1, <1>2, <2>1, <2>2
    <3> QED
      BY <1>2, <3>1, PlaceIs
  <2>3. ASSUME NEW d \in Places(w, "$"), d < x[1]
        PROVE  (\E y \in Intact(s) : Covers(s, d, y, x[1]))
                  <=> (\E y \in Intact(w) : Covers(w, d, y, x[1]))
    <3>1. d \in Nat /\ d >= 1
      BY PlaceIs
    <3>2. ASSUME NEW y \in Intact(s), Covers(s, d, y, x[1])
          PROVE  y \in Intact(w) /\ Covers(w, d, y, x[1])
      <4>1. y \in Intact(w)
        BY <1>3
      <4>2. y[1] \in Nat
        BY <1>4, <4>1 DEF InOrder
      <4> QED
        BY <1>5, <2>1, <3>1, <3>2, <4>1, <4>2
    <3>3. ASSUME NEW y \in Intact(w), Covers(w, d, y, x[1])
          PROVE  y \in Intact(s) /\ Covers(s, d, y, x[1])
      <4>1. y[3] + CrcLen <= N
        <5>0. y[1] <= x[1] /\ InOrder(w, y[1], y[2], y[3])
          BY <1>4, <3>3 DEF Covers
        <5>1. y[1] \in Nat /\ y[3] \in Nat
          BY <5>0 DEF InOrder
        <5>2. CASE y[1] = x[1]
          <6>1. y = x
            BY <1>6, <5>2, SamePlaces
          <6> QED
            BY <1>6, <6>1
        <5>3. CASE y[1] # x[1]
          <6>1. w[x[1]] = "$" /\ Marks(w, y[1], y[2], y[3])
            BY <1>6, IntactIs DEF Marks
          <6>2. y[1] < x[1]
            BY <2>1, <5>0, <5>1, <5>3
          <6>3. ~(x[1] <= y[3] + CrcLen)
            BY <2>1, <6>1, <6>2, NoDollarWithin
          <6> QED
            BY <1>1, <2>1, <5>1, <6>3
        <5> QED
          BY <5>2, <5>3
      <4>2. y[1] \in Nat
        BY <1>4 DEF InOrder
      <4> QED
        BY <1>3, <1>5, <2>1, <3>1, <3>3, <4>1, <4>2
    <3> QED
      BY <3>2, <3>3
  <2> QED
    BY <1>6, <2>1, <2>2, <2>3, ClearIs
<1>7. x \in Clear(s) => x \in Intact(s)
  BY ClearIs
<1>8. x \in Clear(w) => x \in Intact(w)
  BY ClearIs
<1>9. x \in Clear(s) <=> x \in Clear(w) /\ x[3] + CrcLen <= N
  BY <1>3, <1>6, <1>7, <1>8
<1> QED
  BY <1>9 DEF s

(***************************************************************************)
(* Clear sentences up to a place, and their number.                        *)
(***************************************************************************)
UpTo(t, b) == {y \in Clear(t) : y[1] <= b}

LEMMA ClearBounds ==
    ASSUME NEW t \in Seq(Printable), NEW x \in Clear(t)
    PROVE  /\ x \in Intact(t) /\ Marks(t, x[1], x[2], x[3]) /\ InOrder(t, x[1], x[2], x[3])
           /\ x[1] \in Nat /\ x[2] \in Nat /\ x[3] \in Nat /\ x[1] \in Places(t, "$")
<1>1. x \in Intact(t)
  BY ClearIs
<1>2. Marks(t, x[1], x[2], x[3])
  BY <1>1, IntactIs
<1>3. InOrder(t, x[1], x[2], x[3]) /\ t[x[1]] = "$"
  BY <1>2 DEF Marks
<1>4. x[1] \in 1 .. Len(t)
  BY <1>3, Ranges
<1> QED
  BY <1>1, <1>2, <1>3, <1>4, PlaceIs DEF InOrder

LEMMA RankIs ==
    ASSUME NEW t \in Seq(Printable), NEW b
    PROVE  /\ IsFiniteSet(UpTo(t, b)) /\ Rank(t, b) = Cardinality(UpTo(t, b))
           /\ Rank(t, b) \in Nat
           /\ \A x \in Clear(t) : x[1] <= b => Rank(t, b) >= 1
<1>1. UpTo(t, b) \in SUBSET Intact(t)
  BY ClearIs DEF UpTo
<1>2. IsFiniteSet(UpTo(t, b)) /\ Rank(t, b) = Cardinality(UpTo(t, b))
  BY <1>1, IntactFinite DEF Rank, UpTo
<1>3. Rank(t, b) \in Nat
  BY <1>2, FS_CardinalityType
<1>4. ASSUME NEW x \in Clear(t), x[1] <= b PROVE Rank(t, b) >= 1
  <2>1. UpTo(t, b) # {}
    BY <1>4 DEF UpTo
  <2>2. Cardinality(UpTo(t, b)) # 0
    BY <1>2, <2>1, FS_EmptySet
  <2> QED
    BY <1>2, <1>3, <2>2
<1> QED
  BY <1>2, <1>3, <1>4

\* One clear sentence between p and q is one more.
LEMMA RankStep ==
    ASSUME NEW t \in Seq(Printable), NEW x \in Clear(t), NEW p \in Nat, NEW q \in Nat,
           p < x[1], x[1] <= q, \A y \in Clear(t) : p < y[1] /\ y[1] <= q => y = x
    PROVE  Rank(t, q) = Rank(t, p) + 1 /\ Rank(t, x[1]) = Rank(t, q)
<1>1. \A y \in Clear(t) : y[1] \in Nat
  BY ClearBounds
<1>2. UpTo(t, q) = UpTo(t, p) \cup {x} /\ x \notin UpTo(t, p)
  BY <1>1 DEF UpTo
<1>3. UpTo(t, x[1]) = UpTo(t, q)
  BY <1>1 DEF UpTo
<1>4. IsFiniteSet(UpTo(t, p)) /\ Rank(t, p) = Cardinality(UpTo(t, p))
  BY RankIs
<1>5. Rank(t, q) = Cardinality(UpTo(t, q)) /\ Rank(t, x[1]) = Cardinality(UpTo(t, x[1]))
  BY RankIs
<1>6. Cardinality(UpTo(t, p) \cup {x}) = Cardinality(UpTo(t, p)) + 1
  BY <1>2, <1>4, FS_AddElement
<1> QED
  BY <1>2, <1>3, <1>4, <1>5, <1>6

-----------------------------------------------------------------------------
(***************************************************************************)
(* A complete sentence in a window can be matched there.                   *)
(***************************************************************************)
LEMMA ThereInWindow ==
    ASSUME NEW w \in Seq(Printable), NEW N \in 0 .. Len(w), NEW p \in 0 .. N,
           NEW b, NEW k, NEW e, Marks(w, b, k, e), b > p, e + CrcLen <= N
    PROVE  /\ b + 1 - p \in Matching(SubSeq(w, p + 1, N))
           /\ e - p \in 1 .. (N - p) /\ SubSeq(w, p + 1, N)[e - p] = "*"
<1> DEFINE s == SubSeq(w, p + 1, N)
           i == b + 1 - p
           l == k - p
           d == e - p
<1>1. /\ s \in Seq(Printable) /\ Len(s) = N - p
      /\ \A n \in 1 .. (N - p) : s[n] = w[p + n]
  BY WindowFacts
<1> HIDE DEF s
<1>2. InOrder(w, b, k, e) /\ w[b] = "$" /\ w[k] = "," /\ w[e] = "*"
  BY DEF Marks
<1>3. /\ b \in Nat /\ k \in Nat /\ e \in Nat /\ N \in Nat /\ p \in Nat
      /\ CrcLen \in Nat /\ CrcLen >= 1 /\ b + 1 < k /\ k + 1 < e
  <2>1. N \in Nat /\ p \in Nat /\ CrcLen \in Nat /\ CrcLen >= 1
    BY CrcAssumption
  <2>2. b \in Nat /\ k \in Nat /\ e \in Nat /\ b + 1 < k /\ k + 1 < e
    BY <1>2 DEF InOrder
  <2> QED
    BY <2>1, <2>2
<1>4. /\ i \in 2 .. (N - p) /\ i - 1 \in 1 .. (N - p) /\ p + (i - 1) = b /\ p + i = b + 1
      /\ l \in (i + 1) .. (N - p) /\ l \in 1 .. (N - p) /\ p + l = k
      /\ d \in (l + 2) .. ((N - p) - CrcLen) /\ d \in 1 .. (N - p) /\ p + d = e
  BY <1>3
<1>5. s[i - 1] = "$" /\ s[l] = "," /\ s[d] = "*"
  BY <1>1, <1>2, <1>4
<1>6. s[i] # "$"
  <2>1. b + 1 \in Nat /\ b < b + 1 /\ b + 1 <= e + CrcLen
    BY <1>3
  <2>2. w[b + 1] # "$"
    BY <2>1, NoDollarWithin
  <2>3. i \in 1 .. (N - p)
    BY <1>4
  <2>4. s[i] = w[p + i]
    BY <1>1, <2>3
  <2> QED
    BY <1>4, <2>2, <2>4
<1>7. ASSUME NEW n \in i .. (l - 1) PROVE s[n] \in CallChar
  <2>1. n \in 1 .. (N - p) /\ p + n \in (b + 1) .. (k - 1)
    BY <1>3, <1>4
  <2>2. w[p + n] \in CallChar
    BY <2>1 DEF Marks
  <2> QED
    BY <1>1, <2>1, <2>2
<1>8. ASSUME NEW n \in 1 .. CrcLen PROVE s[d + n] \in Word
  <2>1. d + n \in 1 .. (N - p) /\ p + (d + n) = e + n /\ e + n \in (e + 1) .. (e + CrcLen)
    BY <1>3, <1>4
  <2>2. w[e + n] \in Word
    BY <2>1 DEF Marks
  <2> QED
    BY <1>1, <2>1, <2>2
<1> HIDE DEF i, l, d
<1>9. i \in Begins(s)
  BY <1>1, <1>4, <1>5, <1>6 DEF Begins
<1>10. l \in Commas(s, i)
  BY <1>1, <1>4, <1>5, <1>7 DEF Commas
<1>11. d \in Ends(s, l)
  BY <1>1, <1>4, <1>5, <1>8 DEF Ends
<1>12. i \in Matching(s)
  BY <1>9, <1>10, <1>11 DEF Matching
<1> QED
  BY <1>4, <1>5, <1>12 DEF s, i, d

\* No clear sentence is passed over by the one that is found.
LEMMA NonePassed ==
    ASSUME NEW w \in Seq(Printable), NEW N \in 0 .. Len(w), NEW p \in 0 .. N,
           NEW i, NEW k, NEW e, IsSentence(SubSeq(w, p + 1, N), i, k, e),
           NEW x \in Clear(w), x[1] > p
    PROVE  x[1] >= p + i - 1
<1> DEFINE s == SubSeq(w, p + 1, N)
           b == p + i - 1
<1>1. s \in Seq(Printable) /\ Len(s) = N - p /\ \A n \in 1 .. (N - p) : s[n] = w[p + n]
  BY WindowFacts
<1>2. IsSentence(s, i, k, e)
  OBVIOUS
<1> HIDE DEF s
<1>3. i \in 2 .. (N - p) /\ i \in Nat /\ N \in Nat /\ p \in Nat
  BY <1>1, <1>2, SentenceBounds
<1>4. s[i - 1] = "$" /\ \A j \in Matching(s) : i <= j
  BY <1>2 DEF IsSentence, Begins
<1>5. w[b] = "$" /\ b \in Nat /\ b <= N
  <2>1. i - 1 \in 1 .. (N - p) /\ p + (i - 1) = b
    BY <1>3
  <2>2. b \in Nat /\ b <= N
    BY <1>3
  <2> QED
    BY <1>1, <1>4, <2>1, <2>2
<1>6. Marks(w, x[1], x[2], x[3]) /\ x[1] \in Nat /\ x[3] \in Nat /\ CrcLen \in Nat
  BY ClearBounds, CrcAssumption
<1> SUFFICES ASSUME x[1] < b PROVE FALSE
  BY <1>5, <1>6
<1>7. ~(b <= x[3] + CrcLen)
  BY <1>5, <1>6, NoDollarWithin
<1>8. x[3] + CrcLen <= N
  BY <1>5, <1>6, <1>7
<1>9. x[1] + 1 - p \in Matching(s)
  BY <1>6, <1>8, ThereInWindow DEF s
<1>10. i <= x[1] + 1 - p
  BY <1>4, <1>9
<1> QED
  BY <1>3, <1>6, <1>10

\* What is found in the window begins where the sentence y does.
FoundAt(w, N, p, i, k, e, y) ==
    IsSentence(SubSeq(w, p + 1, N), i, k, e) /\ y[1] = p + i - 1

\* The sentence that is found is the clear one that begins there.
LEMMA FoundIs ==
    ASSUME NEW w \in Seq(Printable), NEW N \in 0 .. Len(w), NEW p \in 0 .. N,
           NEW i, NEW k, NEW e, NEW y \in Clear(w), FoundAt(w, N, p, i, k, e, y)
    PROVE  y[2] = p + k /\ y[3] = p + e
<1> DEFINE s == SubSeq(w, p + 1, N)
           L == N - p
<1>1. s \in Seq(Printable) /\ Len(s) = L /\ \A n \in 1 .. L : s[n] = w[p + n]
  BY WindowFacts
<1>2. IsSentence(s, i, k, e) /\ y[1] = p + i - 1
  BY DEF FoundAt
<1> HIDE DEF s
<1>3. /\ CrcLen \in Nat /\ CrcLen >= 1 /\ i \in Nat /\ k \in Nat /\ e \in Nat /\ 2 <= i
      /\ i < k /\ k + 1 < e /\ e + CrcLen <= L /\ L \in Nat /\ p \in Nat /\ N \in Nat
  BY <1>1, <1>2, SentenceBounds
<1>4. /\ k \in Commas(s, i) /\ e \in Ends(s, k)
      /\ \A j \in Commas(s, i) : k <= j
      /\ \A j \in Ends(s, k) : e <= j
  BY <1>2 DEF IsSentence
<1>5. Marks(w, y[1], y[2], y[3]) /\ y[1] \in Nat /\ y[2] \in Nat /\ y[3] \in Nat
  BY ClearBounds
<1>6. y[1] + 1 < y[2] /\ y[2] + 1 < y[3]
  BY <1>5 DEF Marks, InOrder
<1> DEFINE l == y[2]
           d == y[3]
<1>7. /\ w[l] = "," /\ w[d] = "*"
      /\ \A n \in (p + i) .. (l - 1) : w[n] \in CallChar \ {","}
      /\ \A n \in (l + 1) .. (d - 1) : w[n] \notin {"$", "*"}
      /\ \A n \in (d + 1) .. (d + CrcLen) : w[n] \in Word
  <2>1. y[1] + 1 = p + i
    BY <1>2, <1>3
  <2> QED
    BY <1>5, <2>1 DEF Marks
<1>8. l \in Nat /\ d \in Nat /\ p + i < l /\ l + 1 < d
  BY <1>2, <1>3, <1>5, <1>6
<1> HIDE DEF L, l, d
<1>9. ~(l < p + k)
  <2> SUFFICES ASSUME l < p + k PROVE FALSE
    OBVIOUS
  <2>1. l - p \in (i + 1) .. L /\ l - p \in 1 .. L /\ p + (l - p) = l
    BY <1>3, <1>8
  <2>2. s[l - p] = ","
    BY <1>1, <1>7, <2>1
  <2>3. ASSUME NEW n \in i .. ((l - p) - 1) PROVE s[n] \in CallChar
    <3>1. n \in 1 .. L /\ p + n \in (p + i) .. (l - 1)
      BY <1>3, <1>8, <2>1
    <3> QED
      BY <1>1, <1>7, <3>1
  <2>4. l - p \in Commas(s, i)
    BY <1>1, <2>1, <2>2, <2>3 DEF Commas
  <2> QED
    BY <1>3, <1>4, <1>8, <2>4
<1>10. ~(p + k < l)
  <2> SUFFICES ASSUME p + k < l PROVE FALSE
    OBVIOUS
  <2>1. p + k \in (p + i) .. (l - 1) /\ k \in 1 .. L
    BY <1>3, <1>8
  <2>2. s[k] = ","
    BY <1>4 DEF Commas
  <2> QED
    BY <1>1, <1>7, <2>1, <2>2
<1>11. l = p + k
  BY <1>3, <1>8, <1>9, <1>10
<1>12. ~(p + e < d)
  <2> SUFFICES ASSUME p + e < d PROVE FALSE
    OBVIOUS
  <2>1. p + e \in (l + 1) .. (d - 1) /\ e \in 1 .. L
    BY <1>3, <1>8, <1>11
  <2>2. s[e] \in {"*", "$"}
    BY <1>4 DEF Ends
  <2> QED
    BY <1>1, <1>7, <2>1, <2>2
<1>13. ~(d < p + e)
  <2> SUFFICES ASSUME d < p + e PROVE FALSE
    OBVIOUS
  <2>1. d - p \in (k + 2) .. (L - CrcLen) /\ d - p \in 1 .. L /\ p + (d - p) = d
    BY <1>3, <1>8, <1>11
  <2>2. s[d - p] \in {"*", "$"}
    BY <1>1, <1>7, <2>1
  <2>3. ASSUME NEW n \in 1 .. CrcLen PROVE s[(d - p) + n] \in Word
    <3>1. (d - p) + n \in 1 .. L /\ p + ((d - p) + n) = d + n /\ d + n \in (d + 1) .. (d + CrcLen)
      BY <1>3, <1>8, <2>1
    <3> QED
      BY <1>1, <1>7, <3>1
  <2>4. d - p \in Ends(s, k)
    BY <1>1, <2>1, <2>2, <2>3 DEF Ends
  <2> QED
    BY <1>3, <1>4, <1>8, <2>4
<1>14. d = p + e
  BY <1>3, <1>8, <1>12, <1>13
<1> QED
  BY <1>11, <1>14 DEF l, d

(***************************************************************************)
(* The invariant.  The stream is what is left of the text w behind its     *)
(* p-th character.  Every clear sentence that begins up to there has been  *)
(* given in its place, and as long as others follow, nothing was given     *)
(* besides.                                                                *)
(***************************************************************************)
Given(w, x, val) ==
    /\ Rank(w, x[1]) <= Len(val)
    /\ val[Rank(w, x[1])] = Reading(w, x[1], x[2], x[3])

Behind(w, N, p, y) ==
    /\ y.stream = SubSeq(w, p + 1, N)
    /\ \A x \in Clear(w) : x[1] <= p => Given(w, x, y.valid)
    /\ (\E x \in Clear(w) : x[1] > p) => Len(y.valid) = Rank(w, p)

Held(w, N, y) == \E p \in 0 .. N : Behind(w, N, p, y)

LEMMA GivenMore ==
    ASSUME NEW w \in Seq(Printable), NEW x \in Clear(w),
           NEW v \in Seq(Sentences), NEW c \in Seq(Sentences), Given(w, x, v)
    PROVE  Given(w, x, v \o c)
<1> DEFINE r == Rank(w, x[1])
           u == v \o c
<1>1. r \in Nat /\ r >= 1
  <2>1. x[1] <= x[1]
    BY ClearBounds
  <2> QED
    BY <2>1, RankIs
<1>2. r <= Len(v) /\ v[r] = Reading(w, x[1], x[2], x[3])
  BY DEF Given
<1> HIDE DEF r
<1>3. /\ Len(u) = Len(v) + Len(c) /\ Len(v) \in Nat /\ Len(c) \in Nat
      /\ \A n \in 1 .. Len(v) : u[n] = v[n]
  BY ConcatProperties, LenProperties
<1> HIDE DEF u
<1>4. r <= Len(u) /\ u[r] = v[r]
  BY <1>1, <1>2, <1>3
<1>5. Given(w, x, u)
  BY <1>2, <1>4 DEF Given, r
<1> QED
  BY <1>5 DEF u

LEMMA LastGiven ==
    ASSUME NEW S, NEW v \in Seq(S), NEW c \in S
    PROVE  Len(v \o <<c>>) = Len(v) + 1 /\ (v \o <<c>>)[Len(v) + 1] = c
  OBVIOUS

\* What is found at i is what is read in the text.
LEMMA PartsReading ==
    ASSUME NEW w \in Seq(Printable), NEW N \in 0 .. Len(w), NEW p \in 0 .. N,
           NEW i, NEW k, NEW e, IsSentence(SubSeq(w, p + 1, N), i, k, e)
    PROVE  LET x == Parts(SubSeq(w, p + 1, N), i, k, e)
               r == Reading(w, p + i - 1, p + k, p + e)
           IN  Alike(x, r) /\ Sentence(x) = r /\ x.rest = SubSeq(w, p + e + CrcLen, N)
<1> DEFINE s == SubSeq(w, p + 1, N)
           x == Parts(s, i, k, e)
           r == Reading(w, p + i - 1, p + k, p + e)
<1>1. s \in Seq(Printable) /\ Len(s) = N - p
  BY WindowFacts
<1>2. IsSentence(s, i, k, e)
  OBVIOUS
<1>3. /\ CrcLen \in Nat /\ CrcLen >= 1 /\ i \in Nat /\ k \in Nat /\ e \in Nat /\ 2 <= i
      /\ i < k /\ k + 1 < e /\ e + CrcLen <= N - p /\ N - p \in Nat /\ p \in Nat /\ N \in Nat
  <2> HIDE DEF s
  <2>1. /\ CrcLen \in Nat /\ CrcLen >= 1 /\ i \in Nat /\ k \in Nat /\ e \in Nat /\ 2 <= i
        /\ i < k /\ k + 1 < e /\ e + CrcLen <= Len(s) /\ Len(s) \in Nat
    BY <1>1, <1>2, SentenceBounds
  <2> QED
    BY <1>1, <2>1
<1>4. Reading(s, i - 1, k, e) = r
  <2>1. i - 1 \in Nat /\ (i - 1) + 1 < k /\ p + (i - 1) = p + i - 1
    BY <1>3
  <2>2. Reading(s, i - 1, k, e) = Reading(w, p + (i - 1), p + k, p + e)
    BY <1>3, <2>1, WindowReading
  <2> QED
    BY <2>1, <2>2
<1>5. x.rest = SubSeq(w, p + e + CrcLen, N)
  <2>1. e + CrcLen \in 1 .. (N - p) /\ N - p \in 1 .. (N - p)
    BY <1>3
  <2>2. SubSeq(s, e + CrcLen, N - p) = SubSeq(w, p + (e + CrcLen), p + (N - p))
    BY <2>1, WindowPart
  <2>3. p + (e + CrcLen) = p + e + CrcLen /\ p + (N - p) = N
    BY <1>3
  <2> QED
    BY <1>1, <2>2, <2>3 DEF Parts
<1>6. (i - 1) + 1 = i
  BY <1>3
<1> HIDE DEF s
<1>7. Sentence(x) = Reading(s, i - 1, k, e)
  BY <1>6 DEF Sentence, Parts, Reading
<1> HIDE DEF r
<1>8. r.callsign = x.callsign /\ r.data = x.data /\ r.crc = x.crc
  BY <1>4, <1>7 DEF Sentence
<1>9. Alike(x, r)
  BY <1>8 DEF Alike
<1> QED
  BY <1>4, <1>5, <1>7, <1>9 DEF s, r

\* The checksum is right or wrong for both.
LEMMA AlikeValid ==
    ASSUME NEW x, NEW y, Alike(x, y)
    PROVE  ValidCrc(x) <=> ValidCrc(y)
<1>1. Body(x) = Body(y)
  BY DEF Body, Alike
<1> QED
  BY <1>1 DEF ValidCrc, Alike

(***************************************************************************)
(* A sentence that is taken out of the stream is the next clear one, when  *)
(* there is one.                                                           *)
(***************************************************************************)
LEMMA HeldTaken ==
    ASSUME NEW w \in Seq(Printable), NEW N \in 0 .. Len(w), NEW y \in Look,
           HasSentence(y.stream), Held(w, N, y)
    PROVE  Held(w, N, Taken(y))
<1>1. PICK p \in 0 .. N : Behind(w, N, p, y)
  BY DEF Held
<1> DEFINE s == SubSeq(w, p + 1, N)
           v == y.valid
<1>2. y.stream = s /\ HasSentence(s) /\ v \in Seq(Sentences) /\ s \in Seq(Printable) /\ NoNewline(s)
  BY <1>1 DEF Behind, Look, Spacious
<1>3. /\ \A x \in Clear(w) : x[1] <= p => Given(w, x, v)
      /\ (\E x \in Clear(w) : x[1] > p) => Len(v) = Rank(w, p)
  BY <1>1 DEF Behind
<1>4. PICK i, k, e : IsSentence(s, i, k, e) /\ Extracted(s) = Parts(s, i, k, e)
  <2> HIDE DEF s
  <2>1. Spaced(s) = s
    BY <1>2, SpacedIs
  <2> QED
    BY <1>2, <2>1, Parsed
<1> DEFINE x == Parts(s, i, k, e)
           r == Reading(w, p + i - 1, p + k, p + e)
           b == p + i - 1
           q == p + e + CrcLen - 1
           c == Confirmed(x)
<1>5. Alike(x, r) /\ Sentence(x) = r /\ x.rest = SubSeq(w, p + e + CrcLen, N)
  BY <1>4, PartsReading
<1>6. Len(s) = N - p /\ \A n \in 1 .. (N - p) : s[n] = w[p + n]
  BY WindowFacts
<1>7. /\ CrcLen \in Nat /\ CrcLen >= 1 /\ i \in Nat /\ k \in Nat /\ e \in Nat /\ 2 <= i
      /\ i < k /\ k + 1 < e /\ e + CrcLen <= N - p /\ N - p \in Nat /\ p \in Nat /\ N \in Nat
  <2>0. N - p \in Nat /\ p \in Nat /\ N \in Nat
    OBVIOUS
  <2> HIDE DEF s
  <2>1. /\ CrcLen \in Nat /\ CrcLen >= 1 /\ i \in Nat /\ k \in Nat /\ e \in Nat /\ 2 <= i
        /\ i < k /\ k + 1 < e /\ e + CrcLen <= Len(s) /\ Len(s) \in Nat
    BY <1>2, <1>4, SentenceBounds
  <2> QED
    BY <1>6, <2>0, <2>1
<1>8. Pieces(x)
  <2> HIDE DEF s
  <2> QED
    BY <1>2, <1>4, ExtractedFacts
<1>9. c \in Seq(Sentences) /\ Sentence(x) \in Sentences
  <2> HIDE DEF x
  <2>1. Sentence(x) \in Sentences
    BY <1>8, Zenon DEF Sentence, Sentences, Pieces
  <2> QED
    BY <1>8, <2>1, ConfirmedType
<1>10. Taken(y).stream = x.rest /\ Taken(y).valid = v \o c
  BY <1>2, <1>4 DEF Taken
<1>11. q \in 0 .. N /\ q + 1 = p + e + CrcLen /\ p < b /\ b < q /\ b \in Nat /\ q \in Nat
  BY <1>7
<1>12. ASSUME NEW z \in Clear(w), z[1] > p PROVE z[1] >= b
  BY <1>4, <1>12, NonePassed
<1>13. b \in Places(w, "$") /\ w[b + 1] # "$"
  <2>1. s[i - 1] = "$" /\ s[i] # "$"
    BY <1>4 DEF IsSentence, Begins
  <2>2. i - 1 \in 1 .. (N - p) /\ i \in 1 .. (N - p) /\ p + (i - 1) = b /\ p + i = b + 1
    BY <1>7
  <2>3. b \in 1 .. Len(w)
    BY <1>7
  <2>4. w[b] = "$" /\ w[b + 1] # "$"
    BY <1>6, <2>1, <2>2
  <2> QED
    BY <2>3, <2>4, PlaceIs
<1> HIDE DEF s, v, c, x, b, q, r
<1>14. Behind(w, N, q, Taken(y))
  <2>1. CASE \E z \in Clear(w) : z[1] > p
    <3>1. PICK z \in Clear(w) : z[1] = b
      <4>1. PICK a \in Clear(w) : a[1] > p
        BY <2>1
      <4>2. a[1] >= b /\ a[1] \in Nat
        BY <1>12, <4>1, ClearBounds
      <4>3. CASE a[1] = b
        BY <4>3
      <4>4. CASE a[1] # b
        <5>1. b < a[1]
          BY <1>11, <4>2, <4>4
        <5> QED
          BY <1>13, <5>1, ClearBefore
      <4> QED
        BY <4>3, <4>4
    <3>2. z[2] = p + k /\ z[3] = p + e
      <4>1. IsSentence(SubSeq(w, p + 1, N), i, k, e)
        BY <1>4 DEF s
      <4>2. z[1] = p + i - 1
        BY <3>1 DEF b
      <4>3. FoundAt(w, N, p, i, k, e, z)
        BY <4>1, <4>2 DEF FoundAt
      <4> QED
        BY <4>3, FoundIs
    <3>3. Marks(w, z[1], z[2], z[3]) /\ z \in Intact(w)
      BY ClearBounds
    <3>4. ASSUME NEW a \in Clear(w), p < a[1], a[1] <= q PROVE a = z
      <4>1. a[1] >= b /\ a[1] \in Nat /\ a \in Intact(w) /\ w[a[1]] = "$"
        BY <1>12, <3>4, ClearBounds, PlaceIs
      <4>2. CASE a[1] = b
        BY <3>1, <3>3, <4>1, <4>2, SamePlaces
      <4>3. CASE a[1] # b
        <5>1. z[1] < a[1] /\ a[1] <= z[3] + CrcLen
          BY <1>7, <1>11, <3>1, <3>2, <3>4, <4>1, <4>3
        <5> QED
          BY <3>3, <4>1, <5>1, NoDollarWithin
      <4> QED
        BY <4>2, <4>3
    <3>5. Rank(w, q) = Rank(w, p) + 1 /\ Rank(w, b) = Rank(w, q)
      <4>1. p < z[1] /\ z[1] <= q
        BY <1>7, <1>11, <3>1
      <4>2. Rank(w, q) = Rank(w, p) + 1 /\ Rank(w, z[1]) = Rank(w, q)
        BY <1>7, <1>11, <3>4, <4>1, RankStep
      <4> QED
        BY <3>1, <4>2
    <3>6. Reading(w, z[1], z[2], z[3]) = r
      BY <3>1, <3>2 DEF r, b
    <3>7. c = <<r>>
      <4>1. ValidCrc(r)
        BY <3>3, <3>6 DEF Marks
      <4>2. ValidCrc(x)
        BY <1>5, <4>1, AlikeValid
      <4> QED
        BY <1>5, <4>2 DEF c, Confirmed
    <3>8. r \in Sentences
      BY <1>5, <1>9
    <3>9. Len(v \o c) = Len(v) + 1 /\ (v \o c)[Len(v) + 1] = r
      BY <1>2, <3>7, <3>8, LastGiven
    <3>10. Len(v) = Rank(w, p) /\ Len(v) + 1 = Rank(w, q)
      BY <1>3, <2>1, <3>5
    <3>11. ASSUME NEW a \in Clear(w), a[1] <= q PROVE Given(w, a, v \o c)
      <4>1. CASE a[1] <= p
        BY <1>2, <1>3, <1>9, <4>1, GivenMore
      <4>2. CASE ~(a[1] <= p)
        <5>1. a[1] \in Nat
          BY ClearBounds
        <5>2. a = z
          BY <1>7, <3>4, <3>11, <4>2, <5>1
        <5>3. Rank(w, a[1]) = Len(v) + 1
          BY <3>1, <3>5, <3>10, <5>2
        <5>4. Len(v) + 1 <= Len(v \o c)
          <6>1. Len(v) \in Nat
            BY <1>2, LenProperties
          <6> QED
            BY <3>9, <6>1
        <5> QED
          BY <3>6, <3>9, <5>2, <5>3, <5>4 DEF Given
      <4> QED
        BY <4>1, <4>2
    <3>12. Len(v \o c) = Rank(w, q)
      BY <3>9, <3>10
    <3> QED
      BY <1>5, <1>10, <1>11, <3>11, <3>12 DEF Behind
  <2>2. CASE ~ \E z \in Clear(w) : z[1] > p
    <3>1. ASSUME NEW a \in Clear(w) PROVE a[1] <= p /\ a[1] \in Nat
      BY <1>7, <2>2, ClearBounds
    <3>2. ASSUME NEW a \in Clear(w) PROVE Given(w, a, v \o c)
      BY <1>2, <1>3, <1>9, <3>1, GivenMore
    <3>3. ~ \E a \in Clear(w) : a[1] > q
      BY <1>7, <1>11, <3>1
    <3> QED
      BY <1>5, <1>10, <1>11, <3>2, <3>3 DEF Behind
  <2> QED
    BY <2>1, <2>2
<1> QED
  BY <1>11, <1>14 DEF Held

LEMMA HeldLeads ==
    ASSUME NEW w \in Seq(Printable), NEW N \in 0 .. Len(w), NEW a, NEW b,
           Leads(a, b), Held(w, N, a)
    PROVE  Held(w, N, b)
<1>0. PICK n \in Nat : \E f : Run(f, n, a, b)
  BY DEF Leads
<1>1. PICK f : Run(f, n, a, b)
  BY <1>0
<1>2. /\ f \in [0 .. n -> Look] /\ f[0] = a /\ f[n] = b
      /\ \A m \in 1 .. n : HasSentence(f[m - 1].stream) /\ f[m] = Taken(f[m - 1])
  BY <1>1 DEF Run
<1> DEFINE E == {m \in 0 .. n : Held(w, N, f[m])}
<1>3. 0 \in E
  BY <1>2
<1>4. ASSUME NEW m \in 1 .. n, m - 1 \in E PROVE m \in E
  <2>1. m \in 0 .. n /\ m - 1 \in 0 .. n /\ f[m - 1] \in Look /\ Held(w, N, f[m - 1])
    BY <1>2, <1>4
  <2> DEFINE y == f[m - 1]
  <2>2. y \in Look /\ Held(w, N, y) /\ HasSentence(y.stream) /\ f[m] = Taken(y)
    BY <1>2, <2>1
  <2> HIDE DEF y
  <2>3. Held(w, N, Taken(y))
    BY <2>2, HeldTaken
  <2> QED
    BY <2>1, <2>2, <2>3
<1>5. 0 .. n \subseteq E
  <2> HIDE DEF E
  <2> QED
    BY <1>3, <1>4, Upwards
<1>6. n \in 0 .. n
  OBVIOUS
<1> QED
  BY <1>2, <1>5, <1>6

\* More characters of the text.
LEMMA HeldMore ==
    ASSUME NEW w \in Seq(Printable), NEW M \in 0 .. Len(w), NEW N \in 0 .. M,
           NEW y \in Look, NEW t \in Seq(Printable), Len(t) = M - N,
           \A n \in 1 .. (M - N) : t[n] = w[N + n], Held(w, N, y)
    PROVE  Held(w, M, More(y, t))
<1>1. PICK p \in 0 .. N : Behind(w, N, p, y)
  BY DEF Held
<1> DEFINE s == y.stream
           u == s \o t
           v == SubSeq(w, p + 1, M)
<1>2. /\ N \in Nat /\ M \in Nat /\ p \in Nat /\ p <= N /\ N <= M /\ M <= Len(w) /\ p \in 0 .. M
      /\ N \in 0 .. Len(w)
  OBVIOUS
<1>3. s = SubSeq(w, p + 1, N)
  BY <1>1 DEF Behind
<1>4. s \in Seq(Printable) /\ Len(s) = N - p /\ \A n \in 1 .. (N - p) : s[n] = w[p + n]
  BY <1>2, <1>3, WindowFacts
<1>5. v \in Seq(Printable) /\ Len(v) = M - p /\ \A n \in 1 .. (M - p) : v[n] = w[p + n]
  BY <1>2, WindowFacts
<1>6. More(y, t).stream = u /\ More(y, t).valid = y.valid
  BY DEF More
<1> HIDE DEF s
<1>7. /\ u \in Seq(Printable) /\ Len(u) = Len(s) + Len(t)
      /\ \A n \in 1 .. (Len(s) + Len(t)) : u[n] = IF n <= Len(s) THEN s[n] ELSE t[n - Len(s)]
  BY <1>4, ConcatProperties
<1> HIDE DEF u, v
<1>8. ASSUME NEW n \in 1 .. Len(u) PROVE u[n] = v[n]
  <2>1. n \in 1 .. (M - p) /\ n \in 1 .. (Len(s) + Len(t)) /\ Len(s) = N - p
    BY <1>2, <1>4, <1>7, <1>8
  <2>2. CASE n <= N - p
    <3>1. n \in 1 .. (N - p)
      BY <1>2, <2>1, <2>2
    <3> QED
      BY <1>4, <1>5, <1>7, <2>1, <2>2, <3>1
  <2>3. CASE ~(n <= N - p)
    <3>1. n - (N - p) \in 1 .. (M - N) /\ N + (n - (N - p)) = p + n
      BY <1>2, <2>1, <2>3
    <3> QED
      BY <1>4, <1>5, <1>7, <2>1, <2>3, <3>1
  <2> QED
    BY <2>2, <2>3
<1>9. Len(u) = Len(v)
  BY <1>2, <1>4, <1>5, <1>7
<1>10. u = v
  BY <1>5, <1>7, <1>8, <1>9, SameMembers
<1>11. Behind(w, M, p, More(y, t))
  BY <1>1, <1>6, <1>10 DEF Behind, v
<1> QED
  BY <1>2, <1>11 DEF Held

\* The rest of a stream without a sentence has none.
LEMMA RestHasNone ==
    ASSUME NEW s \in Seq(Printable), NEW m \in 1 .. Len(s), NoNewline(s), ~HasSentence(s)
    PROVE  ~HasSentence(SubSeq(s, m, Len(s)))
<1> DEFINE L == Len(s)
           p == m - 1
           r == SubSeq(s, m, L)
<1>1. L \in Nat /\ p \in 0 .. L /\ p \in Nat /\ L \in 0 .. Len(s) /\ p + 1 = m
  OBVIOUS
<1>2. r \in Seq(Printable) /\ Len(r) = L - p /\ \A n \in 1 .. (L - p) : r[n] = s[p + n]
  <2> HIDE DEF L, p
  <2>1. /\ SubSeq(s, p + 1, L) \in Seq(Printable) /\ Len(SubSeq(s, p + 1, L)) = L - p
        /\ \A n \in 1 .. (L - p) : SubSeq(s, p + 1, L)[n] = s[p + n]
    BY <1>1, WindowFacts
  <2> QED
    BY <1>1, <2>1
<1> HIDE DEF r, p
<1>3. NoNewline(r)
  <2> SUFFICES ASSUME NEW n \in 1 .. (L - p) PROVE r[n] # "nl"
    BY <1>2 DEF NoNewline
  <2>1. p + n \in DOMAIN s
    BY <1>1
  <2> QED
    BY <1>2, <2>1 DEF NoNewline
<1>4. Spaced(s) = s /\ Spaced(r) = r
  BY <1>2, <1>3, SpacedIs
<1>5. ASSUME NEW i \in Matching(r) PROVE p + i \in Matching(s)
  <2>0. i \in Begins(r)
    BY <1>5 DEF Matching
  <2>1. /\ i \in 2 .. Len(r) /\ r[i - 1] = "$" /\ r[i] # "$"
    BY <2>0 DEF Begins
  <2>2. PICK k \in Commas(r, i) : Ends(r, k) # {}
    BY <1>5 DEF Matching
  <2>3. PICK e \in Ends(r, k) : TRUE
    BY <2>2
  <2>4. /\ k \in (i + 1) .. Len(r) /\ r[k] = "," /\ \A n \in i .. (k - 1) : r[n] \in CallChar
    BY <2>2 DEF Commas
  <2>5. /\ e \in (k + 2) .. (Len(r) - CrcLen) /\ r[e] \in {"*", "$"}
        /\ \A n \in 1 .. CrcLen : r[e + n] \in Word
    BY <2>3 DEF Ends
  <2>6. /\ CrcLen \in Nat /\ CrcLen >= 1 /\ i \in Nat /\ k \in Nat /\ e \in Nat /\ 2 <= i
        /\ i < k /\ k + 1 < e /\ e + CrcLen <= L - p
    <3>1. CrcLen \in Nat /\ CrcLen >= 1
      BY CrcAssumption
    <3>2. i \in Nat /\ 2 <= i /\ L - p \in Nat
      BY <1>1, <1>2, <2>1
    <3>3. k \in (i + 1) .. (L - p) /\ e \in (k + 2) .. ((L - p) - CrcLen)
      BY <1>2, <2>4, <2>5
    <3> HIDE DEF L
    <3> QED
      BY <1>1, <3>1, <3>2, <3>3
  <2> HIDE DEF L
  <2>7. p + i \in Begins(s)
    <3>1. /\ i \in 1 .. (L - p) /\ i - 1 \in 1 .. (L - p) /\ p + i \in 2 .. L
          /\ p + (i - 1) = (p + i) - 1
      BY <1>1, <2>6
    <3> QED
      BY <1>2, <2>1, <3>1 DEF Begins, L
  <2>8. p + k \in Commas(s, p + i)
    <3>1. k \in 1 .. (L - p) /\ p + k \in ((p + i) + 1) .. L
      BY <1>1, <2>6
    <3>2. s[p + k] = ","
      BY <1>2, <2>4, <3>1
    <3>3. ASSUME NEW n \in (p + i) .. ((p + k) - 1) PROVE s[n] \in CallChar
      <4>1. n - p \in i .. (k - 1) /\ n - p \in 1 .. (L - p) /\ p + (n - p) = n
        BY <1>1, <2>6
      <4> QED
        BY <1>2, <2>4, <4>1
    <3> QED
      BY <3>1, <3>2, <3>3 DEF Commas, L
  <2>9. p + e \in Ends(s, p + k)
    <3>1. e \in 1 .. (L - p) /\ p + e \in ((p + k) + 2) .. (L - CrcLen)
      BY <1>1, <2>6
    <3>2. s[p + e] \in {"*", "$"}
      BY <1>2, <2>5, <3>1
    <3>3. ASSUME NEW n \in 1 .. CrcLen PROVE s[(p + e) + n] \in Word
      <4>1. e + n \in 1 .. (L - p) /\ p + (e + n) = (p + e) + n
        BY <1>1, <2>6
      <4> QED
        BY <1>2, <2>5, <4>1
    <3> QED
      BY <3>1, <3>2, <3>3 DEF Ends, L
  <2> QED
    BY <2>7, <2>8, <2>9 DEF Matching
<1>6. (\E n \in DOMAIN r : r[n] = "*") => (\E n \in DOMAIN s : s[n] = "*")
  <2> SUFFICES ASSUME NEW n \in 1 .. (L - p), r[n] = "*" PROVE \E a \in DOMAIN s : s[a] = "*"
    BY <1>2
  <2>1. p + n \in DOMAIN s
    BY <1>1
  <2> QED
    BY <1>2, <2>1
<1>7. ~HasSentence(r)
  <2> HIDE DEF L
  <2> QED
    BY <1>4, <1>5, <1>6 DEF HasSentence
<1> QED
  BY <1>7 DEF r

(***************************************************************************)
(* The overflow protection drops nothing that is clear: of a stream that   *)
(* has been scanned, it keeps everything from the last "$".                *)
(***************************************************************************)
Dollars(t) == {n \in DOMAIN t : t[n] = "$"}
Remainder(t) == IF Dollars(t) = {} THEN <<>> ELSE SubSeq(t, Max(Dollars(t)), Len(t))

LEMMA LastDollar ==
    ASSUME NEW t \in Seq(Printable), Dollars(t) # {}
    PROVE  /\ Max(Dollars(t)) \in 1 .. Len(t) /\ t[Max(Dollars(t))] = "$"
           /\ \A n \in 1 .. Len(t) : t[n] = "$" => n <= Max(Dollars(t))
<1> DEFINE S == Dollars(t)
<1>1. Len(t) \in Nat /\ S \in SUBSET (1 .. Len(t)) /\ \A n \in S : t[n] = "$"
  BY DEF Dollars
<1>2. \A n \in 1 .. Len(t) : t[n] = "$" => n \in S
  BY DEF Dollars
<1> HIDE DEF S
<1>3. Max(S) \in S /\ \A n \in S : Max(S) >= n
  <2>1. S # {}
    BY DEF S
  <2>2. Max(S) \in S /\ \A n \in S : n <= Max(S)
    BY <1>1, <2>1, Greatest
  <2> QED
    BY <1>1, <2>2
<1> QED
  BY <1>1, <1>2, <1>3 DEF S

LEMMA HeldCut ==
    ASSUME NEW w \in Seq(Printable), NEW N \in 0 .. Len(w), NEW y \in Look,
           ~HasSentence(y.stream), Held(w, N, y)
    PROVE  Held(w, N, [stream |-> Remainder(y.stream), valid |-> y.valid])
<1>1. PICK p \in 0 .. N : Behind(w, N, p, y)
  BY DEF Held
<1> DEFINE s == y.stream
           v == y.valid
           z == [stream |-> Remainder(s), valid |-> v]
<1>2. N \in Nat /\ p \in Nat /\ N \in 0 .. Len(w) /\ N - p \in Nat /\ CrcLen \in Nat
  BY CrcAssumption
<1>3. /\ s = SubSeq(w, p + 1, N) /\ s \in Seq(Printable) /\ NoNewline(s) /\ ~HasSentence(s)
      /\ \A x \in Clear(w) : x[1] <= p => Given(w, x, v)
      /\ (\E x \in Clear(w) : x[1] > p) => Len(v) = Rank(w, p)
  BY <1>1 DEF Behind, Look, Spacious
<1>4. z.stream = Remainder(s) /\ z.valid = v
  OBVIOUS
<1> HIDE DEF s, v, z
<1>5. Len(s) = N - p /\ \A n \in 1 .. (N - p) : s[n] = w[p + n]
  BY <1>3, WindowFacts
<1>6. ASSUME NEW x \in Clear(w)
      PROVE  /\ x[1] \in Nat /\ x[3] \in Nat /\ Marks(w, x[1], x[2], x[3]) /\ w[x[1]] = "$"
             /\ x[1] < x[3]
  BY ClearBounds, PlaceIs DEF InOrder
<1>7. ASSUME NEW q \in p .. N, Remainder(s) = SubSeq(w, q + 1, N),
             \A x \in Clear(w) : x[1] > p => x[1] > q
      PROVE  Held(w, N, z)
  <2>1. q \in 0 .. N /\ q \in Nat /\ p <= q
    BY <1>2
  <2>2. UpTo(w, p) = UpTo(w, q)
    BY <1>2, <1>6, <1>7, <2>1 DEF UpTo
  <2>3. Rank(w, p) = Rank(w, q)
    BY <2>2, RankIs
  <2>4. ASSUME NEW x \in Clear(w), x[1] <= q PROVE Given(w, x, v)
    <3>1. x[1] <= p
      BY <1>2, <1>6, <1>7, <2>1, <2>4
    <3> QED
      BY <1>3, <3>1
  <2>5. (\E x \in Clear(w) : x[1] > q) => Len(v) = Rank(w, q)
    <3> SUFFICES ASSUME NEW x \in Clear(w), x[1] > q PROVE Len(v) = Rank(w, q)
      OBVIOUS
    <3>1. x[1] > p
      BY <1>2, <1>6, <2>1
    <3> QED
      BY <1>3, <2>3, <3>1
  <2>6. Behind(w, N, q, z)
    BY <1>4, <1>7, <2>4, <2>5 DEF Behind
  <2> QED
    BY <2>1, <2>6 DEF Held
<1>8. ASSUME Dollars(s) = {} PROVE Held(w, N, z)
  <2>1. Remainder(s) = SubSeq(w, N + 1, N)
    <3>1. SubSeq(w, N + 1, N) = <<>>
      BY <1>2, SubSeqEmpty
    <3> QED
      BY <1>8, <3>1 DEF Remainder
  <2>2. ASSUME NEW x \in Clear(w), x[1] > p PROVE x[1] > N
    <3> SUFFICES ASSUME x[1] <= N PROVE FALSE
      BY <1>2, <1>6
    <3>1. x[1] - p \in 1 .. (N - p) /\ p + (x[1] - p) = x[1]
      BY <1>2, <1>6, <2>2
    <3>2. s[x[1] - p] = "$"
      BY <1>5, <1>6, <3>1
    <3>3. x[1] - p \in DOMAIN s
      BY <1>3, <1>5, <3>1
    <3> QED
      BY <1>8, <3>2, <3>3 DEF Dollars
  <2>3. N \in p .. N
    BY <1>2
  <2> QED
    BY <1>7, <2>1, <2>2, <2>3
<1>9. ASSUME Dollars(s) # {} PROVE Held(w, N, z)
  <2> DEFINE m == Max(Dollars(s))
             q == p + m - 1
  <2>1. m \in 1 .. (N - p) /\ s[m] = "$"
    BY <1>3, <1>5, <1>9, LastDollar
  <2>2. Remainder(s) = SubSeq(s, m, N - p)
    BY <1>5, <1>9 DEF Remainder
  <2> HIDE DEF m
  <2>3. N - p \in 1 .. (N - p) /\ p + (N - p) = N /\ q \in p .. N /\ q + 1 = p + m /\ m \in Nat
    BY <1>2, <2>1
  <2>4. Remainder(s) = SubSeq(w, p + m, N)
    <3>1. SubSeq(SubSeq(w, p + 1, N), m, N - p) = SubSeq(w, p + m, p + (N - p))
      BY <1>2, <2>1, <2>3, WindowPart
    <3> QED
      BY <1>3, <2>2, <2>3, <3>1
  <2>5. ASSUME NEW x \in Clear(w), x[1] > p PROVE x[1] > q
    <3> SUFFICES ASSUME x[1] <= q PROVE FALSE
      BY <1>2, <1>6, <2>3
    <3>1. w[p + m] = "$" /\ p + m \in Nat /\ x[1] < p + m /\ p + m <= N
      BY <1>2, <1>5, <1>6, <2>1, <2>3
    <3>2. ~(p + m <= x[3] + CrcLen)
      BY <1>6, <3>1, NoDollarWithin
    <3>3. x[3] + CrcLen <= N
      BY <1>2, <1>6, <3>1, <3>2
    <3>4. x[1] + 1 - p \in Matching(s) /\ x[3] - p \in 1 .. (N - p) /\ s[x[3] - p] = "*"
      BY <1>2, <1>3, <1>6, <2>5, <3>3, ThereInWindow, Zenon
    <3>5. x[3] - p \in DOMAIN s
      BY <1>3, <1>5, <3>4
    <3>6. Spaced(s) = s
      BY <1>3, SpacedIs
    <3> QED
      BY <1>3, <3>4, <3>5, <3>6 DEF HasSentence
  <2> HIDE DEF q
  <2>6. Remainder(s) = SubSeq(w, q + 1, N)
    BY <2>3, <2>4
  <2> QED
    BY <1>7, <2>3, <2>5, <2>6
<1>10. Held(w, N, z)
  BY <1>8, <1>9
<1> QED
  BY <1>10 DEF z, s, v

(***************************************************************************)
(* When no sentence waits in the stream, all that are clear were given.    *)
(***************************************************************************)
LEMMA HeldAll ==
    ASSUME NEW w \in Seq(Printable), NEW N \in 0 .. Len(w), NEW y \in Look,
           ~HasSentence(y.stream), Held(w, N, y), NEW x \in Clear(SubSeq(w, 1, N))
    PROVE  Given(SubSeq(w, 1, N), x, y.valid)
<1>1. PICK p \in 0 .. N : Behind(w, N, p, y)
  BY DEF Held
<1> DEFINE s == y.stream
           v == y.valid
           t == SubSeq(w, 1, N)
<1>2. N \in Nat /\ p \in Nat /\ N \in 0 .. Len(w) /\ N - p \in Nat /\ CrcLen \in Nat
  BY CrcAssumption
<1>3. /\ s = SubSeq(w, p + 1, N) /\ s \in Seq(Printable) /\ NoNewline(s) /\ ~HasSentence(s)
      /\ \A a \in Clear(w) : a[1] <= p => Given(w, a, v)
  BY <1>1 DEF Behind, Look, Spacious
<1>4. x \in Clear(w) /\ x[3] + CrcLen <= N
  BY ClearPrefix
<1> HIDE DEF s, v
<1>5. ASSUME NEW a \in Clear(w)
      PROVE  /\ a[1] \in Nat /\ a[2] \in Nat /\ a[3] \in Nat /\ Marks(w, a[1], a[2], a[3])
             /\ w[a[1]] = "$" /\ a[1] + 1 < a[2] /\ a[2] + 1 < a[3] /\ a \in Intact(w)
  BY ClearBounds, PlaceIs DEF InOrder
<1>6. x[1] <= p
  <2> SUFFICES ASSUME x[1] > p PROVE FALSE
    BY <1>2, <1>4, <1>5
  <2>0. Marks(w, x[1], x[2], x[3])
    BY <1>4, <1>5
  <2>1. x[1] + 1 - p \in Matching(s) /\ x[3] - p \in 1 .. (N - p) /\ s[x[3] - p] = "*"
    BY <1>2, <1>3, <1>4, <2>0, ThereInWindow
  <2>2. x[3] - p \in DOMAIN s
    BY <1>2, <1>3, <2>1, WindowFacts
  <2>3. Spaced(s) = s
    BY <1>3, SpacedIs
  <2> QED
    BY <1>3, <2>1, <2>2, <2>3 DEF HasSentence
<1>7. Given(w, x, v)
  BY <1>3, <1>4, <1>6
<1>8. ASSUME NEW a \in Clear(w), a[1] <= x[1] PROVE a[3] + CrcLen <= N
  <2>1. CASE a[1] = x[1]
    <3>1. a = x
      BY <1>4, <1>5, <2>1, SamePlaces
    <3> QED
      BY <1>4, <3>1
  <2>2. CASE a[1] # x[1]
    <3>0. /\ a[1] \in Nat /\ x[1] \in Nat /\ w[x[1]] = "$"
          /\ x[2] \in Nat /\ x[3] \in Nat /\ x[1] + 1 < x[2] /\ x[2] + 1 < x[3]
      BY <1>4, <1>5
    <3>1. a[1] < x[1] /\ x[1] \in Nat /\ w[x[1]] = "$" /\ x[1] <= N
      BY <1>2, <1>4, <1>8, <2>2, <3>0
    <3>2. ~(x[1] <= a[3] + CrcLen)
      BY <1>5, <3>1, NoDollarWithin
    <3> QED
      BY <1>2, <1>5, <3>1, <3>2
  <2> QED
    BY <2>1, <2>2
<1>9. UpTo(t, x[1]) = UpTo(w, x[1])
  <2>1. \A a : a \in Clear(t) <=> a \in Clear(w) /\ a[3] + CrcLen <= N
    BY ClearPrefix
  <2> HIDE DEF t
  <2> QED
    BY <1>8, <2>1 DEF UpTo
<1>10. t \in Seq(Printable)
  <2>1. 0 \in 0 .. N /\ 0 + 1 = 1
    BY <1>2
  <2> QED
    BY <2>1, WindowFacts
<1>11. Reading(t, x[1], x[2], x[3]) = Reading(w, x[1], x[2], x[3])
  <2> DEFINE b == x[1]
             k == x[2]
             e == x[3]
  <2>1. /\ b \in Nat /\ k \in Nat /\ e \in Nat /\ b + 1 < k /\ k + 1 < e
        /\ e + CrcLen <= N - 0 /\ 0 + b = b /\ 0 + k = k /\ 0 + e = e /\ 0 \in 0 .. N /\ 0 + 1 = 1
    BY <1>2, <1>4, <1>5
  <2> HIDE DEF b, k, e
  <2>2. Reading(SubSeq(w, 0 + 1, N), b, k, e) = Reading(w, 0 + b, 0 + k, 0 + e)
    BY <1>2, <2>1, WindowReading
  <2> QED
    BY <2>1, <2>2 DEF b, k, e
<1> HIDE DEF t
<1>12. Rank(t, x[1]) = Rank(w, x[1])
  BY <1>9, <1>10, RankIs
<1>13. Given(t, x, v)
  BY <1>7, <1>11, <1>12 DEF Given
<1> QED
  BY <1>13 DEF t, v

\* Everything that will be received, as the scanner reads it.
Whole == Spaced(Filtered(received, Printable))

LEMMA WholeAt ==
    ASSUME NEW r \in Seq(Anything), NEW n \in 0 .. Len(r)
    PROVE  LET w == Spaced(Filtered(r, Printable))
               t == Filtered(SubSeq(r, 1, n), Printable)
           IN  /\ w \in Seq(Printable) /\ t \in Seq(Printable) /\ Len(t) \in 0 .. Len(w)
               /\ Spaced(t) = SubSeq(w, 1, Len(t))
<1> DEFINE a == SubSeq(r, 1, n)
           b == SubSeq(r, n + 1, Len(r))
           x == Filtered(a, Printable)
           y == Filtered(b, Printable)
           w == Spaced(Filtered(r, Printable))
<1>1. Len(r) \in Nat /\ n \in Nat /\ \A i \in 1 .. Len(r) : r[i] \in Anything
  BY ElementOfSeq
<1>2. a \in Seq(Anything)
  <2>1. \A i \in 1 .. n : r[i] \in Anything
    BY <1>1
  <2> QED
    BY <1>1, <2>1, SubSeqProperties
<1>3. b \in Seq(Anything)
  <2>1. \A i \in (n + 1) .. Len(r) : r[i] \in Anything
    BY <1>1
  <2>2. n + 1 \in Int /\ Len(r) \in Int
    BY <1>1
  <2> QED
    BY <2>1, <2>2, SubSeqProperties
<1>4. a \o b = r
  <2> DEFINE q == Len(r)
  <2>1. 1 \in 1 .. Len(r) + 1 /\ n \in 1 - 1 .. Len(r) /\ q \in n .. Len(r)
    BY <1>1
  <2> HIDE DEF q
  <2>2. SubSeq(r, 1, n) \o SubSeq(r, n + 1, q) = SubSeq(r, 1, q)
    BY <2>1, ConcatAdjacentSubSeq
  <2>3. SubSeq(r, 1, Len(r)) = r
    BY SubSeqFull
  <2> QED
    BY <2>2, <2>3, Zenon DEF q
<1> HIDE DEF a, b
<1>5. x \in Seq(Printable) /\ y \in Seq(Printable)
  BY <1>2, <1>3, FilteredRange
<1>6. Filtered(r, Printable) = x \o y
  <2>1. Filtered(a \o b, Printable) = Filtered(a, Printable) \o Filtered(b, Printable)
    BY <1>2, <1>3, FilteredJoin
  <2> QED
    BY <1>4, <2>1
<1> HIDE DEF x, y
<1>7. w = Spaced(x) \o Spaced(y)
  BY <1>5, <1>6, SpacedJoin
<1> DEFINE u == Spaced(x)
           v == Spaced(y)
<1>8. u \in Seq(Printable) /\ Len(u) = Len(x) /\ v \in Seq(Printable) /\ Len(v) = Len(y)
  BY <1>5, SpacedFacts
<1>9. w = u \o v
  BY <1>7
<1> HIDE DEF u, v, w
<1>10. /\ w \in Seq(Printable) /\ Len(w) = Len(u) + Len(v) /\ Len(u) \in Nat /\ Len(v) \in Nat
       /\ \A i \in 1 .. Len(u) : w[i] = u[i]
  <2>1. u \in Seq(Printable) /\ v \in Seq(Printable)
    BY <1>8
  <2>2. Len(u) \in Nat /\ Len(v) \in Nat
    BY <2>1, LenProperties
  <2>3. /\ u \o v \in Seq(Printable) /\ Len(u \o v) = Len(u) + Len(v)
        /\ \A i \in 1 .. Len(u) + Len(v) :
             (u \o v)[i] = IF i <= Len(u) THEN u[i] ELSE v[i - Len(u)]
    BY <2>1, ConcatProperties
  <2> QED
    BY <1>9, <2>2, <2>3
<1>11. u = SubSeq(w, 1, Len(u))
  <2> DEFINE N == Len(u)
             s == SubSeq(w, 1, N)
  <2>1. N \in 0 .. Len(w) /\ 0 \in 0 .. N /\ N - 0 = N /\ 0 + 1 = 1 /\ N \in Nat
    BY <1>10
  <2> HIDE DEF N
  <2>2. /\ SubSeq(w, 0 + 1, N) \in Seq(Printable) /\ Len(SubSeq(w, 0 + 1, N)) = N - 0
        /\ \A i \in 1 .. (N - 0) : SubSeq(w, 0 + 1, N)[i] = w[0 + i]
    BY <1>10, <2>1, WindowFacts
  <2>3. s \in Seq(Printable) /\ Len(s) = N /\ \A i \in 1 .. N : s[i] = w[0 + i]
    BY <2>1, <2>2
  <2> HIDE DEF s
  <2>4. \A i \in 1 .. N : s[i] = u[i]
    BY <1>10, <2>1, <2>3 DEF N
  <2>5. s = u
    BY <1>8, <2>3, <2>4, SameMembers DEF N
  <2> QED
    BY <2>5 DEF s, N
<1>12. Len(x) \in 0 .. Len(w)
  BY <1>8, <1>10
<1> QED
  BY <1>5, <1>8, <1>10, <1>11, <1>12 DEF u, w, x, a

\* The text so far is where it begins.
LEMMA TextIsPrefix ==
    ASSUME TypeOK
    PROVE  /\ Whole \in Seq(Printable) /\ Text \in Seq(Printable) /\ Len(Text) \in 0 .. Len(Whole)
           /\ Spaced(Text) = SubSeq(Whole, 1, Len(Text))
<1>1. received \in Seq(Anything) /\ pos \in 0 .. Len(received)
  BY TextIs DEF TypeOK
<1> QED
  BY <1>1, WholeAt DEF Whole, Text

(***************************************************************************)
(* The inductive invariant of process(): the stream is the text behind     *)
(* some character, the clear sentences up to it are those that             *)
(* sentence_callback_ was given, and a stream longer than the threshold    *)
(* has been scanned until no sentence was left.                            *)
(***************************************************************************)
ClearKept == Held(Whole, Len(Text), Now)
Settled == Len(stream) > ScanSize => ~HasSentence(stream)
ClearInv == ClearKept /\ Settled

\* What process() does to the stream: new characters are added, sentences are
\* taken, and the stream is cut.
Advances(new, r) ==
    /\ new \in Seq(Printable) /\ r \in State
    /\ Text' = Text \o new /\ received' = received
    /\ Leads(More(Now, Spaced(new)), Plain(r))
    /\ Len(r.stream) > ScanSize => ~HasSentence(r.stream)
    /\ stream' = Cut(r.stream) /\ sentences' = r.valid

LEMMA ProcessScans ==
    ASSUME TypeOK, NEW n \in Chunks, NEW due \in BOOLEAN, Process(n, due)
    PROVE  \E new, r : Advances(new, r)
<1> DEFINE new == Filtered(SubSeq(received, pos + 1, pos + n), Printable)
           r0 == [stream |-> stream \o new, valid |-> sentences, last |-> last_sentence]
           r == IF Len(r0.stream) > ScanSize THEN Scanned(r0) ELSE r0
<1>1. /\ pos + n <= Len(received) /\ pos' = pos + n /\ received' = received
      /\ sentences' = r.valid /\ stream' = Cut(r.stream)
  BY DEF Process, Kept
<1>2. n \in Nat
  BY ReceivedAssumption
<1>3. stream \in Seq(Printable) /\ last_sentence \in Seq(Printable) /\ sentences \in Seq(Sentences)
  BY DEF TypeOK
<1>4. new \in Seq(Printable) /\ Text' = Text \o new
  BY <1>1, <1>2, TextGrows
<1> HIDE DEF new
<1>5. stream \o new \in Seq(Printable)
  BY <1>3, <1>4, ConcatProperties
<1>6. r0 \in State /\ r0.stream = stream \o new /\ r0.valid = sentences
  BY <1>3, <1>5 DEF State
<1>7. Plain(r0) = More(Now, Spaced(new))
  <2>1. Spaced(stream \o new) = Spaced(stream) \o Spaced(new)
    BY <1>3, <1>4, SpacedJoin
  <2> QED
    BY <1>6, <2>1 DEF Plain, More, Now
<1> HIDE DEF r0
<1>8. Leads(Plain(r0), Plain(r0))
  BY <1>6, PlainType, LeadsSelf
<1>9. /\ r \in State /\ Leads(Plain(r0), Plain(r))
      /\ Len(r.stream) > ScanSize => ~HasSentence(r.stream)
  <2>1. CASE Len(r0.stream) > ScanSize
    <3>1. r = ScannedAll(r0)
      BY <2>1 DEF Scanned
    <3> QED
      BY <1>6, <1>8, <3>1, ScannedAllFacts
  <2>2. CASE ~(Len(r0.stream) > ScanSize)
    BY <1>6, <1>8, <2>2
  <2> QED
    BY <2>1, <2>2
<1> HIDE DEF r
<1>10. Advances(new, r)
  BY <1>1, <1>4, <1>7, <1>9 DEF Advances
<1> QED
  BY <1>10

\* The overflow protection cuts the same where newlines are spaces.
LEMMA SpacedRemainder ==
    ASSUME NEW t \in Seq(Printable)
    PROVE  Spaced(Remainder(t)) = Remainder(Spaced(t))
<1> DEFINE s == Spaced(t)
           L == Len(t)
<1>1. /\ s \in Seq(Printable) /\ Len(s) = L /\ L = Len(t) /\ L \in Nat
      /\ \A n \in 1 .. L : s[n] = IF t[n] = "nl" THEN " " ELSE t[n]
  BY SpacedFacts, LenProperties, Zenon
<1>0. Len(s) = L /\ L = Len(t) /\ L \in Nat
  BY SpacedFacts, LenProperties, Zenon
<1> HIDE DEF s, L
<1>2. DOMAIN s = 1 .. L /\ DOMAIN t = 1 .. L
  <2>1. DOMAIN s = 1 .. Len(s)
    BY <1>1, LenProperties, Zenon
  <2>2. DOMAIN t = 1 .. Len(t)
    BY LenProperties
  <2> QED
    BY <1>0, <2>1, <2>2
<1>3. \A n \in 1 .. L : s[n] = "$" <=> t[n] = "$"
  BY <1>1
<1>4. Dollars(s) = Dollars(t)
  BY <1>2, <1>3 DEF Dollars
<1>5. CASE Dollars(t) = {}
  BY <1>4, <1>5, EmptySpaced DEF Remainder, s
<1>6. CASE Dollars(t) # {}
  <2> DEFINE m == Max(Dollars(t))
             p == m - 1
             a == SubSeq(t, m, L)
             b == SubSeq(s, m, L)
  <2>1. m \in 1 .. L
    BY <1>6, LastDollar DEF L
  <2>2. Remainder(t) = a /\ Remainder(s) = b
    BY <1>1, <1>4, <1>6 DEF Remainder, L
  <2> HIDE DEF m
  <2>3. p \in 0 .. L /\ p + 1 = m /\ L \in 0 .. Len(t) /\ L \in 0 .. Len(s) /\ p \in Nat
    <3>1. m \in Nat /\ 1 <= m /\ m <= L
      BY <1>0, <2>1
    <3>2. p \in 0 .. L /\ p + 1 = m /\ p \in Nat
      BY <1>0, <3>1
    <3>3. L \in 0 .. Len(t) /\ L \in 0 .. Len(s)
      BY <1>0
    <3> QED
      BY <3>2, <3>3
  <2> HIDE DEF p
  <2>4. /\ SubSeq(t, p + 1, L) \in Seq(Printable) /\ Len(SubSeq(t, p + 1, L)) = L - p
        /\ \A n \in 1 .. (L - p) : SubSeq(t, p + 1, L)[n] = t[p + n]
    BY <2>3, WindowFacts
  <2>5. /\ SubSeq(s, p + 1, L) \in Seq(Printable) /\ Len(SubSeq(s, p + 1, L)) = L - p
        /\ \A n \in 1 .. (L - p) : SubSeq(s, p + 1, L)[n] = s[p + n]
    BY <1>1, <2>3, WindowFacts
  <2>6. /\ a \in Seq(Printable) /\ Len(a) = L - p /\ b \in Seq(Printable) /\ Len(b) = L - p
        /\ \A n \in 1 .. (L - p) : a[n] = t[p + n] /\ b[n] = s[p + n]
    BY <2>3, <2>4, <2>5
  <2> HIDE DEF a, b
  <2>7. /\ Spaced(a) \in Seq(Printable) /\ Len(Spaced(a)) = L - p
        /\ \A n \in 1 .. (L - p) : Spaced(a)[n] = IF a[n] = "nl" THEN " " ELSE a[n]
    BY <2>6, SpacedFacts
  <2>8. ASSUME NEW n \in 1 .. (L - p) PROVE Spaced(a)[n] = b[n]
    <3>1. p + n \in 1 .. L
      <4>1. L \in Nat /\ p \in Nat /\ p <= L
        BY <1>0, <2>3
      <4>2. n \in Nat /\ 1 <= n /\ n <= L - p
        BY <4>1
      <4> QED
        BY <4>1, <4>2
    <3> QED
      BY <1>1, <2>6, <2>7, <3>1
  <2>9. Spaced(a) = b
    BY <2>6, <2>7, <2>8, SameMembers
  <2> QED
    BY <2>2, <2>9 DEF s
<1> QED
  BY <1>5, <1>6

LEMMA CutIs ==
    ASSUME NEW t
    PROVE  Cut(t) = IF Len(t) <= Limit THEN t ELSE Remainder(t)
  BY DEF Cut, CutToDollar, Remainder, Dollars

LEMMA InitKept == Init => ClearInv
<1> SUFFICES ASSUME Init PROVE ClearInv
  OBVIOUS
<1>1. TypeOK /\ stream = <<>> /\ sentences = <<>> /\ pos = 0
  BY InitIInv DEF IInv, Init
<1>2. Text = <<>>
  <2>1. SubSeq(received, 1, pos) = <<>>
    BY <1>1, SubSeqEmpty
  <2> QED
    BY <2>1, FilteredEmpty DEF Text
<1>3. Whole \in Seq(Printable) /\ Len(<<>>) = 0
  BY <1>1, TextIsPrefix
<1> DEFINE w == Whole
<1>4. w \in Seq(Printable)
  BY <1>3
<1> HIDE DEF w
<1>5. ASSUME NEW x \in Clear(w) PROVE ~(x[1] <= 0)
  BY <1>4, ClearBounds DEF InOrder
<1>6. UpTo(w, 0) = {}
  BY <1>5 DEF UpTo
<1>7. Rank(w, 0) = 0
  BY <1>4, <1>6, RankIs, FS_EmptySet
<1>8. Now.stream = <<>> /\ Now.valid = <<>>
  BY <1>1, EmptySpaced DEF Now
<1>9. SubSeq(w, 0 + 1, 0) = <<>>
  BY SubSeqEmpty
<1>10. Behind(w, 0, 0, Now)
  BY <1>3, <1>5, <1>7, <1>8, <1>9 DEF Behind
<1>11. Held(w, 0, Now)
  BY <1>10 DEF Held
<1>12. ClearKept
  BY <1>2, <1>3, <1>11 DEF ClearKept, w
<1>13. Settled
  BY <1>1, <1>3, SizeAssumption DEF Settled
<1> QED
  BY <1>12, <1>13 DEF ClearInv

LEMMA NowType ==
    ASSUME TypeOK
    PROVE  Now \in Look /\ (HasSentence(Now.stream) <=> HasSentence(stream))
<1>1. stream \in Seq(Printable) /\ sentences \in Seq(Sentences)
  BY DEF TypeOK
<1>2. Spaced(stream) \in Spacious /\ (HasSentence(Spaced(stream)) <=> HasSentence(stream))
  BY <1>1, SpacedFacts, HasSpaced DEF Spacious
<1> QED
  BY <1>1, <1>2 DEF Now, Look

LEMMA ProcessKept ==
    ASSUME TypeOK, TypeOK', ClearInv, NEW n \in Chunks, NEW due \in BOOLEAN, Process(n, due)
    PROVE  ClearInv'
<1>1. PICK new, r : Advances(new, r)
  BY ProcessScans
<1>2. /\ new \in Seq(Printable) /\ r \in State
      /\ Text' = Text \o new /\ received' = received
      /\ Leads(More(Now, Spaced(new)), Plain(r))
      /\ Len(r.stream) > ScanSize => ~HasSentence(r.stream)
      /\ stream' = Cut(r.stream) /\ sentences' = r.valid
  BY <1>1 DEF Advances
<1> DEFINE w == Whole
           N == Len(Text)
           M == Len(Text')
           t == Spaced(new)
<1>3. /\ w \in Seq(Printable) /\ Text \in Seq(Printable) /\ N \in 0 .. Len(w)
      /\ Spaced(Text) = SubSeq(w, 1, N)
  BY TextIsPrefix
<1>4. Whole' = w /\ M \in 0 .. Len(w) /\ Spaced(Text') = SubSeq(w, 1, M)
  <2>1. received' \in Seq(Anything) /\ pos' \in 0 .. Len(received')
    <3>1. received \in Seq(Anything)
      BY TextIs
    <3> QED
      BY <1>2, <3>1 DEF TypeOK
  <2>2. Whole' = w
    BY <1>2 DEF Whole
  <2>3. /\ Len(Text') \in 0 .. Len(Spaced(Filtered(received', Printable)))
        /\ Spaced(Text') = SubSeq(Spaced(Filtered(received', Printable)), 1, Len(Text'))
    BY <2>1, WholeAt DEF Text
  <2> QED
    BY <2>2, <2>3 DEF Whole
<1>5. t \in Seq(Printable) /\ Len(t) = Len(new) /\ M = N + Len(new) /\ Len(new) \in Nat /\ N \in Nat
  <2>1. t \in Seq(Printable) /\ Len(t) = Len(new)
    BY <1>2, SpacedFacts
  <2>2. Len(Text \o new) = Len(Text) + Len(new) /\ Len(new) \in Nat /\ Len(Text) \in Nat
    BY <1>2, <1>3, ConcatProperties, LenProperties
  <2> QED
    BY <1>2, <2>1, <2>2
<1>6. \A i \in 1 .. (M - N) : t[i] = w[N + i]
  <2>1. Spaced(Text') = Spaced(Text) \o t
    BY <1>2, <1>3, SpacedJoin
  <2> DEFINE a == Spaced(Text)
             b == Spaced(Text')
  <2>2. a \in Seq(Printable) /\ Len(a) = N
    BY <1>3, SpacedFacts
  <2>3. b = a \o t
    BY <2>1
  <2>4. b = SubSeq(w, 1, M)
    BY <1>4
  <2> HIDE DEF a, b, t, N, M, w
  <2>5. \A i \in 1 .. (Len(a) + Len(t)) : b[i] = IF i <= Len(a) THEN a[i] ELSE t[i - Len(a)]
    BY <1>5, <2>2, <2>3, ConcatProperties
  <2>6. 0 \in 0 .. M /\ 0 + 1 = 1 /\ M - 0 = M /\ M \in Nat
    BY <1>5
  <2>7. \A i \in 1 .. (M - 0) : SubSeq(w, 0 + 1, M)[i] = w[0 + i]
    BY <1>3, <1>4, <2>6, WindowFacts
  <2>8. \A i \in 1 .. M : b[i] = w[0 + i]
    BY <2>4, <2>6, <2>7
  <2> SUFFICES ASSUME NEW i \in 1 .. (M - N) PROVE t[i] = w[N + i]
    OBVIOUS
  <2>9. /\ N + i \in 1 .. M /\ N + i \in 1 .. (Len(a) + Len(t)) /\ ~(N + i <= Len(a))
        /\ (N + i) - Len(a) = i /\ 0 + (N + i) = N + i
    BY <1>5, <2>2, <2>6
  <2> QED
    BY <2>5, <2>8, <2>9
<1>7. Now \in Look /\ Held(w, N, Now)
  BY NowType DEF ClearInv, ClearKept
<1> HIDE DEF w, N, M, t
<1>8. Held(w, M, More(Now, t))
  <2>1. N \in 0 .. M /\ Len(t) = M - N
    BY <1>5
  <2> QED
    BY <1>3, <1>4, <1>5, <1>6, <1>7, <2>1, HeldMore
<1> DEFINE y == Plain(r)
           s == r.stream
<1>9. Held(w, M, y) /\ y \in Look /\ (HasSentence(y.stream) <=> HasSentence(s))
  <2>1. Leads(More(Now, t), y)
    BY <1>2 DEF t
  <2>2. Held(w, M, y)
    BY <1>3, <1>4, <1>8, <2>1, HeldLeads
  <2> QED
    BY <1>2, <2>2, PlainType
<1>10. y.stream = Spaced(s) /\ y.valid = sentences' /\ s \in Seq(Printable)
  BY <1>2 DEF Plain, State
<1>11. Now' = [stream |-> Spaced(stream'), valid |-> sentences']
  BY DEF Now
<1>12. Len(s) \in Nat /\ (Len(s) > ScanSize => ~HasSentence(s))
  BY <1>2, <1>10, LenProperties
<1>13. y = [stream |-> y.stream, valid |-> y.valid]
  BY DEF Plain
<1> HIDE DEF y, s
<1>14. CASE Len(s) <= Limit
  <2>1. stream' = s
    BY <1>2, <1>14, CutIs DEF s
  <2>2. Now' = y
    BY <1>10, <1>11, <1>13, <2>1
  <2>3. ClearKept'
    BY <1>4, <1>9, <2>2 DEF ClearKept, M
  <2>4. Settled'
    BY <1>12, <2>1 DEF Settled
  <2> QED
    BY <2>3, <2>4 DEF ClearInv
<1>15. CASE ~(Len(s) <= Limit)
  <2>1. stream' = Remainder(s)
    BY <1>2, <1>15, CutIs DEF s
  <2>2. ~HasSentence(s) /\ ~HasSentence(y.stream)
    BY <1>9, <1>12, <1>15, SizeAssumption
  <2>3. Now' = [stream |-> Remainder(y.stream), valid |-> y.valid]
    BY <1>10, <1>11, <2>1, SpacedRemainder
  <2>4. Held(w, M, Now')
    BY <1>3, <1>4, <1>9, <2>2, <2>3, HeldCut
  <2>5. ClearKept'
    BY <1>4, <2>4 DEF ClearKept, M
  <2>6. Settled'
    <3> DEFINE z == Spaced(s)
    <3>1. z \in Seq(Printable) /\ NoNewline(z) /\ ~HasSentence(z)
      BY <1>10, <2>2, SpacedFacts
    <3>2. Spaced(stream') = Remainder(z)
      BY <1>10, <2>1, SpacedRemainder
    <3> HIDE DEF z
    <3>3. ~HasSentence(Remainder(z))
      <4>1. CASE Dollars(z) = {}
        BY <4>1, NothingInNothing DEF Remainder
      <4>2. CASE Dollars(z) # {}
        <5> DEFINE m == Max(Dollars(z))
        <5>1. m \in 1 .. Len(z)
          BY <3>1, <4>2, LastDollar
        <5>2. Remainder(z) = SubSeq(z, m, Len(z))
          BY <4>2 DEF Remainder
        <5> HIDE DEF m
        <5> QED
          BY <3>1, <5>1, <5>2, RestHasNone
      <4> QED
        BY <4>1, <4>2
    <3>4. stream' \in Seq(Printable)
      BY DEF TypeOK
    <3>5. ~HasSentence(stream')
      BY <3>2, <3>3, <3>4, HasSpaced
    <3> QED
      BY <3>5 DEF Settled
  <2> QED
    BY <2>5, <2>6 DEF ClearInv
<1> QED
  BY <1>14, <1>15

LEMMA StutterKept == ClearInv /\ UNCHANGED vars => ClearInv'
<1> SUFFICES ASSUME ClearInv, UNCHANGED vars PROVE ClearInv'
  OBVIOUS
<1> QED
  BY DEF ClearInv, vars, ClearKept, Settled, Whole, Text, Now

(***************************************************************************)
(* Between the calls of process(), char_stream_ is what follows a          *)
(* character of the received text before which every clear sentence was    *)
(* given to the callback in its place, and holds no sentence once it is    *)
(* longer than the threshold of extractSentences.                          *)
(***************************************************************************)
THEOREM ClearInductive == Spec => []ClearInv
<1>1. IInv => TypeOK
  BY DEF IInv
<1>2. TypeOK /\ TypeOK' /\ ClearInv /\ [Next]_vars => ClearInv'
  BY ProcessKept, StutterKept DEF Next
<1> QED
  BY InitKept, <1>1, <1>2, Inductive, PTL DEF Spec

LEMMA AllFound ==
    ASSUME TypeOK, ClearInv
    PROVE  ClearSentencesFound
<1> DEFINE t == Spaced(Text)
<1> SUFFICES ASSUME Len(stream) > ScanSize, NEW x \in Clear(t)
             PROVE  /\ Rank(t, x[1]) <= Len(sentences)
                    /\ sentences[Rank(t, x[1])] = Reading(t, x[1], x[2], x[3])
  BY DEF ClearSentencesFound
<1>1. /\ Whole \in Seq(Printable) /\ Len(Text) \in 0 .. Len(Whole)
      /\ t = SubSeq(Whole, 1, Len(Text))
  BY TextIsPrefix
<1>2. Now \in Look /\ ~HasSentence(Now.stream) /\ Held(Whole, Len(Text), Now)
  BY NowType DEF ClearInv, ClearKept, Settled
<1>3. Now.valid = sentences
  BY DEF Now
<1> DEFINE w == Whole
           N == Len(Text)
<1> HIDE DEF t
<1>4. x \in Clear(SubSeq(w, 1, N)) /\ w \in Seq(Printable) /\ N \in 0 .. Len(w) /\ Held(w, N, Now)
  BY <1>1, <1>2
<1> HIDE DEF w, N
<1>5. Given(SubSeq(w, 1, N), x, Now.valid)
  BY <1>2, <1>4, HeldAll
<1>6. Given(t, x, sentences)
  BY <1>1, <1>3, <1>5 DEF w, N
<1> QED
  BY <1>6 DEF Given

(***************************************************************************)
(* For any transmission, checksum, sizes and division into calls of        *)
(* process(), no clear sentence is lost, given twice or out of its place:  *)
(* once the stream is longer than the threshold of extractSentences, the   *)
(* n-th clear sentence of the text is the n-th that sentence_callback_ was *)
(* given, and cutting the stream at its limit never drops one.             *)
(***************************************************************************)
THEOREM NoClearSentenceLost == Spec => []ClearSentencesFound
<1>1. IInv /\ ClearInv => ClearSentencesFound
  BY AllFound DEF IInv
<1> QED
  BY <1>1, Inductive, ClearInductive, PTL
=============================================================================
