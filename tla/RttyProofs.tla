----------------------------- MODULE RttyProofs -----------------------------
(***************************************************************************)
(* Theorems about Rtty for any numbers of data and stop bits, any noise    *)
(* and any text: how the stream is split into calls makes no difference.   *)
(***************************************************************************)
EXTENDS Rtty, SequenceTheorems, FiniteSetTheorems, WellFoundedInduction, TLAPS

-----------------------------------------------------------------------------
(***************************************************************************)
(* Induction, up and down.                                                 *)
(***************************************************************************)
LEMMA Induction ==
    ASSUME NEW S, 0 \in S, \A n \in Nat : n \in S => n + 1 \in S
    PROVE  Nat \subseteq S
<1> SUFFICES ASSUME Nat \ S # {} PROVE FALSE
  OBVIOUS
<1> DEFINE R == {ss \in Nat \X Nat : ss[1] < ss[2]}
<1>1. IsWellFoundedOn(R, Nat)
  BY NatLessThanWellFounded DEF OpToRel
<1>2. PICK x \in Nat \ S : \A y \in Nat \ S : ~(<<y, x>> \in R)
  <2> HIDE DEF R
  <2> QED
    BY <1>1, WFMin, Zenon
<1>3. x \in Nat /\ x # 0 /\ x \notin S
  OBVIOUS
<1>4. x - 1 \in Nat /\ x - 1 < x /\ (x - 1) + 1 = x
  BY <1>3
<1>5. x - 1 \notin S
  BY <1>3, <1>4
<1>6. <<x - 1, x>> \in R
  BY <1>3, <1>4
<1> QED
  BY <1>2, <1>4, <1>5, <1>6

\* From behind the last of N bits back to the first.
LEMMA Backwards ==
    ASSUME NEW N \in Nat, NEW S, N + 1 \in S,
           \A i \in 1 .. N : (\A j \in (i + 1) .. (N + 1) : j \in S) => i \in S
    PROVE  1 .. (N + 1) \subseteq S
<1> DEFINE T == {k \in Nat : \A j \in 1 .. (N + 1) : j >= (N + 1) - k => j \in S}
<1>1. 0 \in T
  OBVIOUS
<1>2. ASSUME NEW k \in Nat, k \in T PROVE k + 1 \in T
  <2> SUFFICES ASSUME NEW j \in 1 .. (N + 1), j >= (N + 1) - (k + 1) PROVE j \in S
    OBVIOUS
  <2>1. CASE j >= (N + 1) - k
    BY <1>2, <2>1
  <2>2. CASE j = N + 1
    BY <2>2
  <2>3. CASE j = N - k /\ j # N + 1
    <3>1. j \in 1 .. N /\ \A m \in (j + 1) .. (N + 1) : m \in 1 .. (N + 1) /\ m >= (N + 1) - k
      BY <2>3
    <3>2. \A m \in (j + 1) .. (N + 1) : m \in S
      BY <1>2, <3>1
    <3> QED
      BY <3>1, <3>2
  <2> QED
    BY <2>1, <2>2, <2>3
<1>3. Nat \subseteq T
  <2> HIDE DEF T
  <2> QED
    BY <1>1, <1>2, Induction
<1>4. N + 1 \in T
  BY <1>3
<1> QED
  BY <1>4

-----------------------------------------------------------------------------
(***************************************************************************)
(* The loop of operator() over N bits, L bits to a character: P are the    *)
(* bits at which a whole character begins.  f[i] are the beginnings that   *)
(* the loop finds from bit i on.                                           *)
(***************************************************************************)
Fits(P, N, L) == \A i \in P : i \in 1 .. N /\ (i + L) - 1 <= N

Scanning(f, P, N, L) ==
    f = [i \in 1 .. (N + 1) |-> IF i > N THEN <<>>
                                ELSE IF i \in P THEN <<i>> \o f[i + L] ELSE f[i + 1]]

\* From j on only.
ScanningFrom(f, j, P, N, L) ==
    f = [i \in j .. (N + 1) |-> IF i > N THEN <<>>
                                ELSE IF i \in P THEN <<i>> \o f[i + L] ELSE f[i + 1]]

LEMMA ScanExists ==
    ASSUME NEW N \in Nat, NEW L \in Nat, L >= 1, NEW P, Fits(P, N, L)
    PROVE  \E f : Scanning(f, P, N, L)
<1> DEFINE S == {j \in 1 .. (N + 1) : \E f : ScanningFrom(f, j, P, N, L)}
<1>1. N + 1 \in S
  <2> DEFINE f == [i \in (N + 1) .. (N + 1) |-> <<>>]
  <2>1. ScanningFrom(f, N + 1, P, N, L)
    BY DEF ScanningFrom
  <2> HIDE DEF f
  <2> QED
    BY <2>1
<1>2. ASSUME NEW j \in 1 .. N, \A k \in (j + 1) .. (N + 1) : k \in S PROVE j \in S
  <2>1. j + 1 \in S
    BY <1>2
  <2>2. PICK f : ScanningFrom(f, j + 1, P, N, L)
    BY <2>1
  <2> DEFINE g == [i \in j .. (N + 1) |->
                      IF i = j THEN IF j \in P THEN <<j>> \o f[j + L] ELSE f[j + 1]
                      ELSE f[i]]
  <2>3. \A i \in (j + 1) .. (N + 1) : g[i] = f[i]
    OBVIOUS
  <2>4. \A i \in (j + 1) .. (N + 1) : f[i] =
            IF i > N THEN <<>> ELSE IF i \in P THEN <<i>> \o f[i + L] ELSE f[i + 1]
    BY <2>2, Zenon DEF ScanningFrom
  <2>5. \A i \in j .. N : (i \in P => i + L \in (j + 1) .. (N + 1)) /\ i + 1 \in (j + 1) .. (N + 1)
    BY DEF Fits
  <2>6. ASSUME NEW i \in j .. (N + 1)
        PROVE  g[i] = IF i > N THEN <<>> ELSE IF i \in P THEN <<i>> \o g[i + L] ELSE g[i + 1]
    <3>1. CASE i = j
      <4>1. g[i] = IF i \in P THEN <<i>> \o f[i + L] ELSE f[i + 1]
        BY <3>1
      <4>2. ~(i > N) /\ i \in j .. N
        BY <3>1
      <4> HIDE DEF g
      <4> QED
        BY <2>3, <2>5, <4>1, <4>2
    <3>2. CASE i # j
      <4>1. i \in (j + 1) .. (N + 1) /\ g[i] = f[i]
        BY <2>3, <3>2
      <4>2. f[i] = IF i > N THEN <<>> ELSE IF i \in P THEN <<i>> \o f[i + L] ELSE f[i + 1]
        BY <2>4, <4>1
      <4>3. ~(i > N) => i \in j .. N
        OBVIOUS
      <4> HIDE DEF g
      <4> QED
        BY <2>3, <2>5, <4>1, <4>2, <4>3
    <3> QED
      BY <3>1, <3>2
  <2>7. ScanningFrom(g, j, P, N, L)
    <3> DEFINE h == [i \in j .. (N + 1) |-> IF i > N THEN <<>>
                        ELSE IF i \in P THEN <<i>> \o g[i + L] ELSE g[i + 1]]
    <3>1. \A i \in j .. (N + 1) : g[i] = h[i]
      BY <2>6, Zenon
    <3>2. g = [i \in j .. (N + 1) |-> g[i]] /\ h = [i \in j .. (N + 1) |-> h[i]]
      OBVIOUS
    <3>3. g = h
      <4> HIDE DEF g, h
      <4> QED
        BY <3>1, <3>2
    <3> QED
      BY <3>3, Zenon DEF ScanningFrom
  <2>8. j \in 1 .. (N + 1)
    OBVIOUS
  <2> HIDE DEF g
  <2> QED
    BY <2>7, <2>8
<1>3. 1 .. (N + 1) \subseteq S
  <2> HIDE DEF S
  <2> QED
    BY <1>1, <1>2, Backwards
<1>4. \E f : ScanningFrom(f, 1, P, N, L)
  BY <1>3
<1> QED
  BY <1>4 DEF ScanningFrom, Scanning

LEMMA ScanEnd ==
    ASSUME NEW N \in Nat, NEW P, NEW L, NEW f, Scanning(f, P, N, L)
    PROVE  f[N + 1] = <<>>
<1>1. \A i \in 1 .. (N + 1) : f[i] =
          IF i > N THEN <<>> ELSE IF i \in P THEN <<i>> \o f[i + L] ELSE f[i + 1]
  BY Zenon DEF Scanning
<1>2. N + 1 \in 1 .. (N + 1) /\ N + 1 > N
  OBVIOUS
<1> QED
  BY <1>1, <1>2

LEMMA ScanStep ==
    ASSUME NEW N \in Nat, NEW P, NEW L, NEW f, Scanning(f, P, N, L), NEW i \in 1 .. N
    PROVE  f[i] = IF i \in P THEN <<i>> \o f[i + L] ELSE f[i + 1]
<1>1. \A j \in 1 .. (N + 1) : f[j] =
          IF j > N THEN <<>> ELSE IF j \in P THEN <<j>> \o f[j + L] ELSE f[j + 1]
  BY Zenon DEF Scanning
<1>2. i \in 1 .. (N + 1) /\ ~(i > N)
  OBVIOUS
<1> QED
  BY <1>1, <1>2

\* Joining sequences over a set is associative.
Associates(S) == \A a, b, c \in Seq(S) : (a \o b) \o c = a \o (b \o c)

LEMMA Associative ==
    ASSUME NEW S
    PROVE  Associates(S)
<1> SUFFICES ASSUME NEW a \in Seq(S), NEW b \in Seq(S), NEW c \in Seq(S)
             PROVE  (a \o b) \o c = a \o (b \o c)
  BY DEF Associates
<1> QED
  BY ConcatAssociative

LEMMA Consed ==
    ASSUME NEW i \in Int, NEW s \in Seq(Int), NEW u \in Seq(Int)
    PROVE  <<i>> \o (s \o u) = (<<i>> \o s) \o u
<1>1. Associates(Int)
  BY Associative
<1>2. <<i>> \in Seq(Int)
  OBVIOUS
<1> QED
  BY <1>1, <1>2, Zenon DEF Associates

\* Characters begin where a whole one does, and not before the loop has come there.
LEMMA ScanRange ==
    ASSUME NEW N \in Nat, NEW L \in Nat, L >= 1, NEW P, Fits(P, N, L), NEW f, Scanning(f, P, N, L)
    PROVE  \A i \in 1 .. (N + 1) : f[i] \in Seq({p \in P : p >= i})
<1> DEFINE S == {i \in 1 .. (N + 1) : f[i] \in Seq({p \in P : p >= i})}
<1>1. N + 1 \in S
  <2>1. f[N + 1] = <<>>
    BY ScanEnd, Zenon
  <2>2. N + 1 \in 1 .. (N + 1) /\ <<>> \in Seq({p \in P : p >= N + 1})
    OBVIOUS
  <2> QED
    BY <2>1, <2>2
<1>2. ASSUME NEW i \in 1 .. N, \A j \in (i + 1) .. (N + 1) : j \in S PROVE i \in S
  <2> SUFFICES f[i] \in Seq({p \in P : p >= i})
    OBVIOUS
  <2>1. f[i] = IF i \in P THEN <<i>> \o f[i + L] ELSE f[i + 1]
    BY ScanStep
  <2>2. CASE i \in P
    <3>1. i + L \in (i + 1) .. (N + 1)
      BY <2>2 DEF Fits
    <3>2. f[i + L] \in Seq({p \in P : p >= i + L})
      BY <1>2, <3>1
    <3>3. {p \in P : p >= i + L} \subseteq {p \in P : p >= i}
      BY DEF Fits
    <3>4. f[i + L] \in Seq({p \in P : p >= i}) /\ <<i>> \in Seq({p \in P : p >= i})
      BY <2>2, <3>2, <3>3, SeqMonotonic
    <3> QED
      BY <2>1, <2>2, <3>4, ConcatProperties
  <2>3. CASE i \notin P
    <3>1. f[i + 1] \in Seq({p \in P : p >= i + 1})
      BY <1>2
    <3>2. {p \in P : p >= i + 1} \subseteq {p \in P : p >= i}
      BY DEF Fits
    <3> QED
      BY <2>1, <2>3, <3>1, <3>2, SeqMonotonic
  <2> QED
    BY <2>2, <2>3
<1>3. 1 .. (N + 1) \subseteq S
  <2> HIDE DEF S
  <2> QED
    BY <1>1, <1>2, Backwards
<1> QED
  BY <1>3

\* The numbers s, e further on.
Moved(s, e) == [m \in 1 .. Len(s) |-> e + s[m]]

LEMMA MovedFacts ==
    ASSUME NEW s \in Seq(Int), NEW e \in Int, NEW i \in Int
    PROVE  /\ Moved(<<>>, e) = <<>>
           /\ Moved(s, e) \in Seq(Int) /\ Len(Moved(s, e)) = Len(s)
           /\ Moved(<<i>> \o s, e) = <<e + i>> \o Moved(s, e)
<1>1. Moved(<<>>, e) = <<>> /\ Moved(s, e) \in Seq(Int) /\ Len(Moved(s, e)) = Len(s)
  BY DEF Moved
<1>2. <<i>> \in Seq(Int) /\ <<e + i>> \in Seq(Int)
  OBVIOUS
<1>3. <<i>> \o s \in Seq(Int) /\ Len(<<i>> \o s) = 1 + Len(s)
  BY <1>2, ConcatProperties
<1>4. <<e + i>> \o Moved(s, e) \in Seq(Int) /\ Len(<<e + i>> \o Moved(s, e)) = 1 + Len(s)
  BY <1>1, <1>2, ConcatProperties
<1>5. Moved(<<i>> \o s, e) \in Seq(Int) /\ Len(Moved(<<i>> \o s, e)) = 1 + Len(s)
  BY <1>3 DEF Moved
<1>6. ASSUME NEW m \in 1 .. (1 + Len(s))
      PROVE  Moved(<<i>> \o s, e)[m] = (<<e + i>> \o Moved(s, e))[m]
  <2>1. (<<i>> \o s)[m] = IF m <= 1 THEN i ELSE s[m - 1]
    BY <1>2, ConcatProperties
  <2>2. (<<e + i>> \o Moved(s, e))[m] = IF m <= 1 THEN e + i ELSE Moved(s, e)[m - 1]
    BY <1>1, <1>2, ConcatProperties
  <2>3. Moved(<<i>> \o s, e)[m] = e + (<<i>> \o s)[m]
    BY <1>3 DEF Moved
  <2>4. ~(m <= 1) => Moved(s, e)[m - 1] = e + s[m - 1]
    BY DEF Moved
  <2> QED
    BY <2>1, <2>2, <2>3, <2>4
<1>7. Moved(<<i>> \o s, e) = <<e + i>> \o Moved(s, e)
  BY <1>4, <1>5, <1>6, SeqEqual
<1> QED
  BY <1>1, <1>7

\* f goes over the heads P of e + M bits, g over the heads Q of the last M of them.
Shifted(M, e, L, P, f, Q, g) ==
    /\ M \in Nat /\ e \in Nat /\ L \in Nat /\ L >= 1
    /\ Scanning(f, P, e + M, L) /\ Fits(P, e + M, L)
    /\ Scanning(g, Q, M, L) /\ Fits(Q, M, L)
    /\ \A i \in 1 .. M : i \in Q <=> e + i \in P

MovesTo(g, f, e) == f[e + 1] = Moved(g[1], e)

\* Behind e bits that are left out the loop finds the same.
LEMMA ScanShift ==
    ASSUME NEW M, NEW e, NEW L, NEW P, NEW f, NEW Q, NEW g, Shifted(M, e, L, P, f, Q, g)
    PROVE  MovesTo(g, f, e)
<1> M \in Nat /\ e \in Nat /\ L \in Nat /\ L >= 1
  BY DEF Shifted
<1> Scanning(f, P, e + M, L)
  BY DEF Shifted
<1> Fits(P, e + M, L)
  BY DEF Shifted
<1> Scanning(g, Q, M, L)
  BY DEF Shifted
<1> Fits(Q, M, L)
  BY DEF Shifted
<1> \A i \in 1 .. M : i \in Q <=> e + i \in P
  BY DEF Shifted
<1> DEFINE S == {i \in 1 .. (M + 1) : f[e + i] = Moved(g[i], e)}
<1>1. M + 1 \in S
  <2>1. e + M \in Nat /\ (e + M) + 1 = e + (M + 1)
    OBVIOUS
  <2>2. f[e + (M + 1)] = <<>> /\ g[M + 1] = <<>>
    BY <2>1, ScanEnd
  <2> QED
    BY <2>2 DEF Moved
<1>2. ASSUME NEW i \in 1 .. M, \A j \in (i + 1) .. (M + 1) : j \in S PROVE i \in S
  <2> SUFFICES f[e + i] = Moved(g[i], e)
    OBVIOUS
  <2>1. g[i] = IF i \in Q THEN <<i>> \o g[i + L] ELSE g[i + 1]
    BY ScanStep
  <2>2. e + M \in Nat /\ e + i \in 1 .. (e + M) /\ (e + i) + L = e + (i + L) /\ (e + i) + 1 = e + (i + 1)
    OBVIOUS
  <2>3. f[e + i] = IF e + i \in P THEN <<e + i>> \o f[e + (i + L)] ELSE f[e + (i + 1)]
    BY <2>2, ScanStep
  <2>4. CASE i \in Q
    <3>1. i + L \in (i + 1) .. (M + 1) /\ e + i \in P
      BY <2>4 DEF Fits
    <3>2. f[e + (i + L)] = Moved(g[i + L], e)
      BY <1>2, <3>1
    <3>3. g[i + L] \in Seq(Int)
      <4>1. i + L \in 1 .. (M + 1) /\ {q \in Q : q >= i + L} \subseteq Int
        BY <3>1 DEF Fits
      <4>2. g[i + L] \in Seq({q \in Q : q >= i + L})
        BY <4>1, ScanRange, Zenon
      <4> QED
        BY <4>1, <4>2, SeqMonotonic, Zenon
    <3>4. Moved(<<i>> \o g[i + L], e) = <<e + i>> \o Moved(g[i + L], e)
      <4>1. e \in Int /\ i \in Int
        OBVIOUS
      <4> QED
        BY <3>3, <4>1, MovedFacts, Zenon
    <3> QED
      BY <2>1, <2>3, <2>4, <3>1, <3>2, <3>4
  <2>5. CASE i \notin Q
    <3>1. f[e + (i + 1)] = Moved(g[i + 1], e)
      BY <1>2
    <3> QED
      BY <2>1, <2>3, <2>5, <3>1
  <2> QED
    BY <2>4, <2>5
<1>3. 1 .. (M + 1) \subseteq S
  <2> HIDE DEF S
  <2> QED
    BY <1>1, <1>2, Backwards
<1>4. 1 \in S
  <2>1. 1 \in 1 .. (M + 1)
    OBVIOUS
  <2> HIDE DEF S
  <2> QED
    BY <1>3, <2>1
<1> QED
  BY <1>4 DEF MovesTo

\* Where the loop goes on from i when all that it finds is s.
Behind(s, i, L) == IF s = <<>> THEN i ELSE s[Len(s)] + L

\* From i on g begins with f, and goes on behind it.
GoesOn(g, f, i, L) == g[i] = f[i] \o g[Behind(f[i], i, L)]

\* f goes over the heads P of N bits, g over the heads Q of them and M more.
Continued(N, M, L, P, f, Q, g) ==
    /\ N \in Nat /\ M \in Nat /\ L \in Nat /\ L >= 1
    /\ Scanning(f, P, N, L) /\ Fits(P, N, L)
    /\ Scanning(g, Q, N + M, L) /\ Fits(Q, N + M, L)
    /\ \A i \in 1 .. N : (i + L) - 1 <= N => (i \in P <=> i \in Q)

\* With more bits the loop finds the same in the first N, up to the last of them
\* that are used, and what the rest gives it.
LEMMA ScanSplit ==
    ASSUME NEW N, NEW M, NEW L, NEW P, NEW f, NEW Q, NEW g, Continued(N, M, L, P, f, Q, g)
    PROVE  GoesOn(g, f, 1, L)
<1> N \in Nat /\ M \in Nat /\ L \in Nat /\ L >= 1
  BY DEF Continued
<1> Scanning(f, P, N, L)
  BY DEF Continued
<1> Fits(P, N, L)
  BY DEF Continued
<1> Scanning(g, Q, N + M, L)
  BY DEF Continued
<1> Fits(Q, N + M, L)
  BY DEF Continued
<1> \A i \in 1 .. N : (i + L) - 1 <= N => (i \in P <=> i \in Q)
  BY DEF Continued
<1> DEFINE Good(i) == /\ Behind(f[i], i, L) \in i .. (N + 1)
                      /\ g[i] = f[i] \o g[Behind(f[i], i, L)]
           S == {i \in 1 .. (N + 1) : Good(i)}
<1>0. ASSUME NEW i \in 1 .. (N + 1)
      PROVE  f[i] \in Seq(Int) /\ g[i] \in Seq(Int) /\ f[i] \in Seq({p \in P : p >= i})
  <2>1. N + M \in Nat /\ i \in 1 .. ((N + M) + 1)
        /\ {p \in P : p >= i} \subseteq Int /\ {p \in Q : p >= i} \subseteq Int
    BY DEF Fits
  <2>2. f[i] \in Seq({p \in P : p >= i})
    BY ScanRange, ZenonT(60)
  <2>3. g[i] \in Seq({p \in Q : p >= i})
    BY <2>1, ScanRange, ZenonT(60)
  <2> QED
    BY <2>1, <2>2, <2>3, SeqMonotonic, Zenon
<1>1. ASSUME NEW i \in 1 .. (N + 1), f[i] = <<>> PROVE Good(i)
  <2>1. Behind(f[i], i, L) = i
    BY <1>1 DEF Behind
  <2>2. <<>> \o g[i] = g[i]
    BY <1>0, ConcatEmptySeq
  <2> QED
    BY <1>1, <2>1, <2>2
<1>2. N + 1 \in S
  <2>1. f[N + 1] = <<>>
    BY ScanEnd, Zenon
  <2>2. N + 1 \in 1 .. (N + 1)
    OBVIOUS
  <2> HIDE DEF Good
  <2> QED
    BY <1>1, <2>1, <2>2
<1>3. ASSUME NEW i \in 1 .. N, \A j \in (i + 1) .. (N + 1) : j \in S PROVE i \in S
  <2> SUFFICES ASSUME f[i] # <<>> PROVE Good(i)
    <3> i \in 1 .. (N + 1)
      OBVIOUS
    <3> HIDE DEF Good
    <3> QED
      BY <1>1
  <2>0. i \in 1 .. (N + 1) /\ i + 1 \in (i + 1) .. (N + 1) /\ i \in 1 .. (N + M) /\ N + M \in Nat
    OBVIOUS
  <2>1. f[i] = IF i \in P THEN <<i>> \o f[i + L] ELSE f[i + 1]
    BY ScanStep
  <2>2. g[i] = IF i \in Q THEN <<i>> \o g[i + L] ELSE g[i + 1]
    BY <2>0, ScanStep
  <2>3. CASE i \in P
    <3>1. i + L \in (i + 1) .. (N + 1) /\ i + L \in 1 .. (N + 1) /\ i \in Q
      BY <2>3 DEF Fits
    <3>2. Good(i + L)
      BY <1>3, <3>1
    <3> DEFINE s == f[i + L]
               b == Behind(s, i + L, L)
    <3>3. s \in Seq(Int) /\ b \in 1 .. (N + 1) /\ g[b] \in Seq(Int) /\ <<i>> \in Seq(Int)
      <4>1. s \in Seq(Int)
        BY <1>0, <3>1
      <4>2. b \in (i + L) .. (N + 1)
        BY <3>2
      <4>3. b \in 1 .. (N + 1)
        BY <3>1, <4>2
      <4>4. g[b] \in Seq(Int)
        BY <1>0, <4>3, Zenon
      <4> QED
        BY <4>1, <4>3, <4>4
    <3>4. f[i] = <<i>> \o s /\ g[i] = <<i>> \o g[i + L] /\ g[i + L] = s \o g[b]
      BY <2>1, <2>2, <2>3, <3>1, <3>2
    <3>5. b \in (i + L) .. (N + 1)
      BY <3>2
    <3> HIDE DEF s
    <3>6. Len(<<i>> \o s) = 1 + Len(s) /\ Len(s) \in Nat
          /\ (<<i>> \o s)[1 + Len(s)] = IF Len(s) = 0 THEN i ELSE s[Len(s)]
      BY <3>3, ConcatProperties
    <3>7. Behind(f[i], i, L) = b
      <4>1. s = <<>> <=> Len(s) = 0
        BY <3>3
      <4> QED
        BY <3>4, <3>6, <4>1 DEF Behind
    <3> HIDE DEF b
    <3>8. <<i>> \o (s \o g[b]) = (<<i>> \o s) \o g[b]
      <4>1. i \in Int
        OBVIOUS
      <4> QED
        BY <3>3, <4>1, Consed, Zenon
    <3>9. b \in i .. (N + 1)
      BY <3>1, <3>5
    <3> QED
      BY <3>4, <3>7, <3>8, <3>9
  <2>4. CASE i \notin P
    <3>1. f[i] = f[i + 1]
      BY <2>1, <2>4
    <3>2. f[i + 1] \in Seq({p \in P : p >= i + 1}) /\ Len(f[i + 1]) >= 1
      BY <1>0, <2>0, <3>1
    <3>3. f[i + 1][1] \in {p \in P : p >= i + 1}
      BY <3>2
    <3>4. (i + L) - 1 <= N
      BY <3>3 DEF Fits
    <3>5. i \notin Q
      BY <2>4, <3>4
    <3>6. Good(i + 1)
      BY <1>3, <2>0
    <3>7. Behind(f[i], i, L) = Behind(f[i + 1], i + 1, L)
      BY <3>1 DEF Behind
    <3>8. g[i] = g[i + 1]
      BY <2>2, <3>5
    <3>9. Behind(f[i], i, L) \in i .. (N + 1)
      BY <3>6, <3>7
    <3> QED
      BY <3>1, <3>6, <3>7, <3>8, <3>9
  <2> QED
    BY <2>3, <2>4
<1>4. 1 .. (N + 1) \subseteq S
  <2> HIDE DEF S
  <2> QED
    BY <1>2, <1>3, Backwards
<1>5. 1 \in S
  <2>1. 1 \in 1 .. (N + 1)
    OBVIOUS
  <2> HIDE DEF S
  <2> QED
    BY <1>4, <2>1
<1> QED
  BY <1>5 DEF GoesOn

\* Where no character begins any more the loop finds nothing, and where it finds
\* nothing none begins.
LEMMA ScanNone ==
    ASSUME NEW N \in Nat, NEW L \in Nat, NEW P, NEW f, Scanning(f, P, N, L),
           NEW j \in 1 .. (N + 1), \A i \in j .. N : i \notin P
    PROVE  f[j] = <<>>
<1> DEFINE S == {i \in 1 .. (N + 1) : i >= j => f[i] = <<>>}
<1>1. N + 1 \in S
  BY ScanEnd
<1>2. ASSUME NEW i \in 1 .. N, \A k \in (i + 1) .. (N + 1) : k \in S PROVE i \in S
  <2> SUFFICES ASSUME i >= j PROVE f[i] = <<>>
    OBVIOUS
  <2>1. f[i] = IF i \in P THEN <<i>> \o f[i + L] ELSE f[i + 1]
    BY ScanStep
  <2>2. i \in j .. N /\ i + 1 \in (i + 1) .. (N + 1) /\ i + 1 >= j
    OBVIOUS
  <2>3. f[i + 1] = <<>>
    BY <1>2, <2>2
  <2> QED
    BY <2>1, <2>2, <2>3
<1>3. 1 .. (N + 1) \subseteq S
  <2> HIDE DEF S
  <2> QED
    BY <1>1, <1>2, Backwards
<1>4. j >= j
  OBVIOUS
<1> QED
  BY <1>3, <1>4

LEMMA ScanNothing ==
    ASSUME NEW N \in Nat, NEW L \in Nat, L >= 1, NEW P, Fits(P, N, L), NEW f, Scanning(f, P, N, L),
           f[1] = <<>>
    PROVE  P = {}
<1> DEFINE E == {k \in Nat : k <= N => f[k + 1] = <<>>}
<1>0. ASSUME NEW i \in 1 .. N PROVE f[i] = IF i \in P THEN <<i>> \o f[i + L] ELSE f[i + 1]
  BY ScanStep
<1>1. 0 \in E
  OBVIOUS
<1>2. ASSUME NEW k \in Nat, k + 1 <= N, f[k + 1] = <<>> PROVE k + 1 \notin P
  <2> DEFINE i == k + 1
  <2>1. i \in 1 .. N
    BY <1>2
  <2> HIDE DEF i
  <2> SUFFICES ASSUME i \in P PROVE FALSE
    BY DEF i
  <2>2. f[i] = <<i>> \o f[i + L]
    <3>1. f[i] = IF i \in P THEN <<i>> \o f[i + L] ELSE f[i + 1]
      BY <1>0, <2>1, Zenon
    <3> QED
      BY <3>1, Zenon
  <2>3. i + L \in 1 .. (N + 1) /\ i \in Int
    BY <2>1 DEF Fits
  <2>4. f[i + L] \in Seq({p \in P : p >= i + L})
    BY <2>3, ScanRange, Zenon
  <2>5. {p \in P : p >= i + L} \subseteq Int
    BY DEF Fits
  <2>6. f[i + L] \in Seq(Int) /\ <<i>> \in Seq(Int)
    <3>1. f[i + L] \in Seq(Int)
      BY <2>4, <2>5, SeqMonotonic, Zenon
    <3> QED
      BY <2>3, <3>1
  <2>7. Len(<<i>> \o f[i + L]) = 1 + Len(f[i + L]) /\ Len(f[i + L]) \in Nat
    BY <2>6
  <2>8. f[i] = <<>>
    BY <1>2 DEF i
  <2> QED
    BY <2>2, <2>7, <2>8
<1>3. ASSUME NEW k \in Nat, k \in E PROVE k + 1 \in E
  <2> SUFFICES ASSUME k + 1 <= N PROVE f[(k + 1) + 1] = <<>>
    OBVIOUS
  <2>1. f[k + 1] = <<>>
    BY <1>3
  <2>2. k + 1 \notin P
    BY <1>2, <2>1
  <2> DEFINE i == k + 1
  <2>3. i \in 1 .. N /\ i \notin P
    BY <2>2
  <2> HIDE DEF i
  <2>4. f[i] = f[i + 1]
    BY <1>0, <2>3, Zenon
  <2> QED
    BY <2>1, <2>4 DEF i
<1>4. Nat \subseteq E
  <2> HIDE DEF E
  <2> QED
    BY <1>1, <1>3, Induction
<1>5. \A k \in Nat : k <= N => f[k + 1] = <<>>
  BY <1>4
<1> SUFFICES ASSUME NEW p \in P PROVE FALSE
  OBVIOUS
<1>6. p \in 1 .. N
  BY DEF Fits
<1>7. p - 1 \in Nat /\ (p - 1) + 1 = p /\ p <= N /\ p - 1 <= N
  BY <1>6
<1>8. f[(p - 1) + 1] = <<>>
  BY <1>5, <1>7
<1>9. (p - 1) + 1 \notin P
  BY <1>2, <1>7, <1>8
<1> QED
  BY <1>7, <1>9

LEMMA ScanSkip ==
    ASSUME NEW N \in Nat, NEW L, NEW P, NEW f, Scanning(f, P, N, L),
           NEW e \in 0 .. N, \A i \in 1 .. e : i \notin P
    PROVE  f[1] = f[e + 1]
<1> DEFINE E == {k \in Nat : k <= e => f[1] = f[k + 1]}
<1>0. ASSUME NEW i \in 1 .. N PROVE f[i] = IF i \in P THEN <<i>> \o f[i + L] ELSE f[i + 1]
  BY ScanStep
<1>1. 0 \in E
  OBVIOUS
<1>2. ASSUME NEW k \in Nat, k \in E PROVE k + 1 \in E
  <2> SUFFICES ASSUME k + 1 <= e PROVE f[1] = f[(k + 1) + 1]
    OBVIOUS
  <2>1. k + 1 \in 1 .. N /\ k + 1 \in 1 .. e /\ f[1] = f[k + 1]
    BY <1>2
  <2> DEFINE i == k + 1
  <2> HIDE DEF i
  <2>2. i \in 1 .. N /\ i \notin P
    BY <2>1 DEF i
  <2>3. f[i] = f[i + 1]
    BY <1>0, <2>2, Zenon
  <2> QED
    BY <2>1, <2>3 DEF i
<1>3. Nat \subseteq E
  <2> HIDE DEF E
  <2> QED
    BY <1>1, <1>2, Induction
<1> QED
  BY <1>3

-----------------------------------------------------------------------------
(***************************************************************************)
(* Powers of two, as the numbers of subsets.                               *)
(***************************************************************************)
LEMMA PowerIs ==
    ASSUME NEW n \in Nat
    PROVE  2 ^ n = Cardinality(SUBSET (1 .. n)) /\ IsFiniteSet(SUBSET (1 .. n)) /\ 2 ^ n \in Nat
<1>1. n \in Int /\ 1 \in Int /\ (IF 1 > n THEN 0 ELSE n - 1 + 1) = n
  OBVIOUS
<1>2. IsFiniteSet(1 .. n) /\ Cardinality(1 .. n) = n
  BY <1>1, FS_Interval
<1>3. IsFiniteSet(SUBSET (1 .. n)) /\ Cardinality(SUBSET (1 .. n)) = 2 ^ n
  BY <1>2, FS_SUBSET
<1> QED
  BY <1>3, FS_CardinalityType

LEMMA PowerZero == 2 ^ 0 = 1
<1>1. SUBSET (1 .. 0) = {{}}
  OBVIOUS
<1> QED
  BY <1>1, PowerIs, FS_Singleton

LEMMA PowerPositive ==
    ASSUME NEW n \in Nat
    PROVE  2 ^ n \in Nat /\ 2 ^ n > 0
<1>1. 2 ^ n = Cardinality(SUBSET (1 .. n)) /\ IsFiniteSet(SUBSET (1 .. n)) /\ 2 ^ n \in Nat
  BY PowerIs
<1>2. SUBSET (1 .. n) # {}
  OBVIOUS
<1>3. 2 ^ n # 0
  BY <1>1, <1>2, FS_EmptySet
<1> QED
  BY <1>1, <1>3

LEMMA PowerStep ==
    ASSUME NEW n \in Nat
    PROVE  2 ^ (n + 1) = 2 * 2 ^ n
<1> DEFINE A == SUBSET (1 .. n)
           B == {x \cup {n + 1} : x \in A}
           f == [x \in A |-> x \cup {n + 1}]
<1>1. SUBSET (1 .. (n + 1)) = A \cup B
  <2>1. ASSUME NEW x \in SUBSET (1 .. (n + 1)) PROVE x \in A \cup B
    <3>1. x \ {n + 1} \in A
      OBVIOUS
    <3>2. CASE n + 1 \in x
      <4>1. x = (x \ {n + 1}) \cup {n + 1}
        BY <3>2
      <4> QED
        BY <3>1, <4>1
    <3>3. CASE n + 1 \notin x
      <4>1. x = x \ {n + 1}
        BY <3>3
      <4> QED
        BY <3>1, <4>1
    <3> QED
      BY <3>2, <3>3
  <2>2. ASSUME NEW x \in A \cup B PROVE x \in SUBSET (1 .. (n + 1))
    <3>1. \A y \in A : y \in SUBSET (1 .. (n + 1)) /\ y \cup {n + 1} \in SUBSET (1 .. (n + 1))
      OBVIOUS
    <3> QED
      BY <3>1
  <2> QED
    BY <2>1, <2>2
<1>2. A \cap B = {}
  <2>1. \A x \in A : n + 1 \notin x
    OBVIOUS
  <2>2. \A x \in B : n + 1 \in x
    OBVIOUS
  <2> QED
    BY <2>1, <2>2
<1>3. f \in Bijection(A, B)
  <2>1. f \in [A -> B]
    OBVIOUS
  <2>2. \A x, y \in A : f[x] = f[y] => x = y
    <3> SUFFICES ASSUME NEW x \in A, NEW y \in A, x \cup {n + 1} = y \cup {n + 1} PROVE x = y
      OBVIOUS
    <3>1. n + 1 \notin x /\ n + 1 \notin y
      OBVIOUS
    <3> QED
      BY <3>1
  <2>3. \A y \in B : \E x \in A : f[x] = y
    OBVIOUS
  <2> HIDE DEF f, A, B
  <2> QED
    BY <2>1, <2>2, <2>3 DEF Bijection, Injection, Surjection, IsInjective
<1>4. IsFiniteSet(A) /\ Cardinality(A) = 2 ^ n /\ 2 ^ n \in Nat
  BY PowerIs
<1>5. n + 1 \in Nat
  OBVIOUS
<1>6. Cardinality(SUBSET (1 .. (n + 1))) = 2 ^ (n + 1)
  BY <1>5, PowerIs
<1> HIDE DEF f, A, B
<1>7. IsFiniteSet(B) /\ Cardinality(B) = Cardinality(A)
  BY <1>3, <1>4, FS_Bijection DEF ExistsBijection
<1>8. Cardinality(A \cup B) = Cardinality(A) + Cardinality(B) - Cardinality({})
  BY <1>2, <1>4, <1>7, FS_Union
<1>9. Cardinality({}) = 0
  BY FS_EmptySet
<1>10. Cardinality(A \cup B) = 2 * 2 ^ n
  <2> DEFINE p == 2 ^ n
  <2>1. p \in Nat /\ Cardinality(A) = p /\ Cardinality(B) = p
    BY <1>4, <1>7
  <2> HIDE DEF p
  <2>2. Cardinality(A \cup B) = 2 * p
    BY <1>8, <1>9, <2>1
  <2> QED
    BY <2>2 DEF p
<1> QED
  BY <1>1, <1>6, <1>10

-----------------------------------------------------------------------------
(***************************************************************************)
(* The value of a character with the data bits v[1], v[2], ..., v[n]: S[m] *)
(* is what the first m of them add up to.                                  *)
(***************************************************************************)
Adding(S, v, n) == S = [m \in 0 .. n |-> IF m = 0 THEN 0 ELSE S[m - 1] + v[m] * 2 ^ (m - 1)]

\* One bit after the other.
Adds(S, v, n) == S[0] = 0 /\ \A m \in 1 .. n : S[m] = S[m - 1] + v[m] * 2 ^ (m - 1)

LEMMA AddingStep ==
    ASSUME NEW n \in Nat, NEW v, NEW S, Adding(S, v, n)
    PROVE  Adds(S, v, n)
<1>1. \A m \in 0 .. n : S[m] = IF m = 0 THEN 0 ELSE S[m - 1] + v[m] * 2 ^ (m - 1)
  BY Zenon DEF Adding
<1>2. 0 \in 0 .. n /\ \A m \in 1 .. n : m \in 0 .. n /\ m # 0
  OBVIOUS
<1> QED
  BY <1>1, <1>2 DEF Adds

LEMMA AddingExists ==
    ASSUME NEW n \in Nat, NEW v \in [1 .. n -> {0, 1}]
    PROVE  \E S \in [0 .. n -> Nat] : Adding(S, v, n)
<1> DEFINE E == {k \in Nat : k <= n => \E S \in [0 .. k -> Nat] : Adding(S, v, k)}
<1>1. 0 \in E
  <2> DEFINE S == [m \in 0 .. 0 |-> 0]
  <2>1. S \in [0 .. 0 -> Nat] /\ Adding(S, v, 0)
    BY DEF Adding
  <2> HIDE DEF S
  <2> QED
    BY <2>1
<1>2. ASSUME NEW k \in Nat, k \in E PROVE k + 1 \in E
  <2> SUFFICES ASSUME k + 1 <= n PROVE \E S \in [0 .. (k + 1) -> Nat] : Adding(S, v, k + 1)
    OBVIOUS
  <2>1. PICK S \in [0 .. k -> Nat] : Adding(S, v, k)
    BY <1>2
  <2>8. Adds(S, v, k)
    BY <2>1, AddingStep
  <2> DEFINE x == v[k + 1] * 2 ^ k
             R == [m \in 0 .. (k + 1) |-> IF m = k + 1 THEN S[k] + x ELSE S[m]]
  <2>2. x \in Nat
    <3>1. v[k + 1] \in {0, 1}
      OBVIOUS
    <3>2. 2 ^ k \in Nat
      BY PowerIs
    <3> QED
      BY <3>1, <3>2
  <2>3. k \in 0 .. k /\ S[k] \in Nat
    OBVIOUS
  <2>4. R \in [0 .. (k + 1) -> Nat]
    <3> HIDE DEF x
    <3> QED
      BY <2>2, <2>3
  <2>5. \A m \in 0 .. k : R[m] = S[m]
    OBVIOUS
  <2>6. R[k + 1] = S[k] + x
    OBVIOUS
  <2> HIDE DEF R
  <2>7. ASSUME NEW m \in 0 .. (k + 1)
        PROVE  R[m] = IF m = 0 THEN 0 ELSE R[m - 1] + v[m] * 2 ^ (m - 1)
    <3>1. CASE m = k + 1
      <4>1. m # 0 /\ m - 1 = k
        BY <3>1
      <4> QED
        BY <2>3, <2>5, <2>6, <3>1, <4>1
    <3>2. CASE m = 0
      BY <2>8, <2>5, <3>2 DEF Adds
    <3>3. CASE m \in 1 .. k
      <4>1. S[m] = S[m - 1] + v[m] * 2 ^ (m - 1)
        BY <2>8, <3>3, Zenon DEF Adds
      <4>2. R[m] = S[m] /\ R[m - 1] = S[m - 1] /\ m # 0
        BY <2>5, <3>3
      <4> QED
        BY <4>1, <4>2
    <3> QED
      BY <3>1, <3>2, <3>3
  <2>9. Adding(R, v, k + 1)
    <3> DEFINE h == [m \in 0 .. (k + 1) |-> IF m = 0 THEN 0 ELSE R[m - 1] + v[m] * 2 ^ (m - 1)]
    <3>1. \A m \in 0 .. (k + 1) : R[m] = h[m]
      BY <2>7, Zenon
    <3>2. R = [m \in 0 .. (k + 1) |-> R[m]] /\ h = [m \in 0 .. (k + 1) |-> h[m]]
      BY <2>4
    <3>3. R = h
      <4> HIDE DEF h
      <4> QED
        BY <3>1, <3>2
    <3> QED
      BY <3>3, Zenon DEF Adding
  <2> QED
    BY <2>4, <2>9
<1>3. Nat \subseteq E
  <2> HIDE DEF E
  <2> QED
    BY <1>1, <1>2, Induction
<1>4. n \in E
  <2> HIDE DEF E
  <2> QED
    BY <1>3
<1> QED
  BY <1>4

LEMMA AddingUnique ==
    ASSUME NEW n \in Nat, NEW v, NEW S, Adding(S, v, n), NEW R, Adding(R, v, n)
    PROVE  S = R
<1>0. Adds(S, v, n) /\ Adds(R, v, n)
  BY AddingStep
<1> DEFINE E == {k \in Nat : k <= n => S[k] = R[k]}
<1>1. 0 \in E
  BY <1>0 DEF Adds
<1>2. ASSUME NEW k \in Nat, k \in E PROVE k + 1 \in E
  <2> SUFFICES ASSUME k + 1 <= n PROVE S[k + 1] = R[k + 1]
    OBVIOUS
  <2>1. k + 1 \in 1 .. n /\ (k + 1) - 1 = k /\ S[k] = R[k]
    BY <1>2
  <2>2. S[k + 1] = S[k] + v[k + 1] * 2 ^ k
    BY <1>0, <2>1 DEF Adds
  <2>3. R[k + 1] = R[k] + v[k + 1] * 2 ^ k
    BY <1>0, <2>1 DEF Adds
  <2> QED
    BY <2>1, <2>2, <2>3
<1>3. Nat \subseteq E
  <2> HIDE DEF E
  <2> QED
    BY <1>1, <1>2, Induction
<1>4. \A m \in 0 .. n : S[m] = R[m]
  BY <1>3
<1>5. S = [m \in 0 .. n |-> S[m]] /\ R = [m \in 0 .. n |-> R[m]]
  BY DEF Adding
<1> QED
  BY <1>4, <1>5

\* The bits of b that follow bit i.
DataBits(b, i, n) == [m \in 1 .. n |-> b[i + m]]

LEMMA CharIs ==
    ASSUME nbits \in Nat, NEW b, NEW i,
           NEW S, Adding(S, DataBits(b, i, nbits), nbits)
    PROVE  Char(b, i) = S[nbits] % 256
<1> DEFINE v == DataBits(b, i, nbits)
           V(R) == R = [m \in 0 .. nbits |-> IF m = 0 THEN 0 ELSE R[m - 1] + b[i + m] * 2 ^ (m - 1)]
<1>1. ASSUME NEW R PROVE V(R) <=> Adding(R, v, nbits)
  <2> DEFINE f == [m \in 0 .. nbits |-> IF m = 0 THEN 0 ELSE R[m - 1] + b[i + m] * 2 ^ (m - 1)]
             g == [m \in 0 .. nbits |-> IF m = 0 THEN 0 ELSE R[m - 1] + v[m] * 2 ^ (m - 1)]
  <2>1. \A m \in 1 .. nbits : v[m] = b[i + m]
    BY DEF DataBits
  <2>2. \A m \in 0 .. nbits : m # 0 => m \in 1 .. nbits
    OBVIOUS
  <2> HIDE DEF v
  <2>3. \A m \in 0 .. nbits : f[m] = g[m]
    BY <2>1, <2>2
  <2>4. f = [m \in 0 .. nbits |-> f[m]] /\ g = [m \in 0 .. nbits |-> g[m]]
    OBVIOUS
  <2>5. f = g
    <3> HIDE DEF f, g
    <3> QED
      BY <2>3, <2>4
  <2>6. V(R) <=> R = f
    BY Zenon
  <2>7. Adding(R, v, nbits) <=> R = g
    BY Zenon DEF Adding
  <2> QED
    BY <2>5, <2>6, <2>7
<1> HIDE DEF V
<1>2. \A R : V(R) => R = S
  <2> HIDE DEF v
  <2> QED
    BY <1>1, AddingUnique DEF v
<1>3. V(S)
  BY <1>1
<1>4. S = CHOOSE R : V(R)
  BY <1>2, <1>3
<1> QED
  BY <1>4 DEF Char, CharAt, V

-----------------------------------------------------------------------------
(***************************************************************************)
(* The operators of Rtty in these terms.                                   *)
(***************************************************************************)
Bits == {0, 1}
Numbers == nbits \in Nat /\ nstops \in Nat
Unset == nbits = 0 /\ nstops = 0
Heads(b) == {i \in 1 .. Len(b) : IsCharSeq(b, i)}

LEMMA HeadsFit ==
    ASSUME Numbers, NEW b \in Seq(Bits)
    PROVE  /\ FrameLen \in Nat /\ FrameLen >= 1 /\ Len(b) \in Nat
           /\ Fits(Heads(b), Len(b), FrameLen)
  BY DEF Numbers, FrameLen, Heads, Fits, IsCharSeq

LEMMA StartsIs ==
    ASSUME Numbers, NEW b \in Seq(Bits)
    PROVE  \E f : Scanning(f, Heads(b), Len(b), FrameLen) /\ Starts(b) = f[1]
<1> DEFINE V(f) == f = [i \in 1 .. (Len(b) + 1) |->
                           IF i > Len(b) THEN <<>>
                           ELSE IF IsCharSeq(b, i) THEN <<i>> \o f[i + FrameLen]
                           ELSE f[i + 1]]
<1>1. ASSUME NEW f PROVE V(f) <=> Scanning(f, Heads(b), Len(b), FrameLen)
  <2> DEFINE N == Len(b)
             P == Heads(b)
             g == [i \in 1 .. (N + 1) |-> IF i > N THEN <<>>
                      ELSE IF IsCharSeq(b, i) THEN <<i>> \o f[i + FrameLen] ELSE f[i + 1]]
             h == [i \in 1 .. (N + 1) |-> IF i > N THEN <<>>
                      ELSE IF i \in P THEN <<i>> \o f[i + FrameLen] ELSE f[i + 1]]
  <2>1. N \in Nat
    OBVIOUS
  <2>2. \A i \in 1 .. N : i \in P <=> IsCharSeq(b, i)
    BY DEF Heads
  <2> HIDE DEF N, P
  <2>3. \A i \in 1 .. (N + 1) : g[i] = h[i]
    BY <2>1, <2>2
  <2>4. g = [i \in 1 .. (N + 1) |-> g[i]] /\ h = [i \in 1 .. (N + 1) |-> h[i]]
    OBVIOUS
  <2>5. g = h
    <3> HIDE DEF g, h
    <3> QED
      BY <2>3, <2>4
  <2>6. V(f) <=> f = g
    BY Zenon DEF N
  <2>7. Scanning(f, P, N, FrameLen) <=> f = h
    BY Zenon DEF Scanning
  <2> HIDE DEF g, h, V
  <2> QED
    BY <2>5, <2>6, <2>7 DEF N, P
<1>2. \E f : Scanning(f, Heads(b), Len(b), FrameLen)
  BY HeadsFit, ScanExists, Zenon
<1> DEFINE from == CHOOSE f : V(f)
<1>3. Starts(b) = from[1]
  BY DEF Starts
<1> HIDE DEF V
<1>4. V(from)
  BY <1>1, <1>2, Zenon
<1> QED
  BY <1>1, <1>3, <1>4

\* Where the characters are that are found.
LEMMA StartsRange ==
    ASSUME Numbers, NEW b \in Seq(Bits)
    PROVE  /\ Starts(b) \in Seq(Heads(b)) /\ Starts(b) \in Seq(Int)
           /\ \A m \in 1 .. Len(Starts(b)) :
                 /\ Starts(b)[m] \in Int /\ 1 <= Starts(b)[m]
                 /\ (Starts(b)[m] + FrameLen) - 1 <= Len(b)
<1>1. PICK f : Scanning(f, Heads(b), Len(b), FrameLen) /\ Starts(b) = f[1]
  BY StartsIs
<1>2. FrameLen \in Nat /\ FrameLen >= 1 /\ Len(b) \in Nat /\ Fits(Heads(b), Len(b), FrameLen)
  BY HeadsFit
<1>3. \A i \in 1 .. (Len(b) + 1) : f[i] \in Seq({p \in Heads(b) : p >= i})
  BY <1>1, <1>2, ScanRange, Zenon
<1>4. 1 \in 1 .. (Len(b) + 1) /\ {p \in Heads(b) : p >= 1} \subseteq Heads(b) /\ Heads(b) \subseteq Int
  BY <1>2 DEF Heads
<1>5. Starts(b) \in Seq(Heads(b)) /\ Starts(b) \in Seq(Int)
  BY <1>1, <1>3, <1>4, SeqMonotonic
<1>6. ASSUME NEW m \in 1 .. Len(Starts(b)) PROVE Starts(b)[m] \in Heads(b)
  BY <1>5, ElementOfSeq
<1> QED
  BY <1>2, <1>5, <1>6 DEF Fits

\* Too few bits hold no character.
LEMMA TooFew ==
    ASSUME Numbers, NEW b \in Seq(Bits), Len(b) < FrameLen
    PROVE  Starts(b) = <<>>
<1>1. ASSUME Len(Starts(b)) >= 1 PROVE FALSE
  <2>1. 1 \in 1 .. Len(Starts(b))
    BY <1>1, StartsRange, LenProperties
  <2>2. Starts(b)[1] \in Int /\ 1 <= Starts(b)[1] /\ (Starts(b)[1] + FrameLen) - 1 <= Len(b)
    BY <2>1, StartsRange
  <2> QED
    BY <2>2, HeadsFit
<1>2. Len(Starts(b)) \in Nat /\ Starts(b) \in Seq(Int)
  BY StartsRange
<1> QED
  BY <1>1, <1>2

LEMMA ErasedRange ==
    ASSUME Numbers, NEW b \in Seq(Bits)
    PROVE  Erased(b) \in 0 .. Len(b) /\ Erased(b) + 1 = Behind(Starts(b), 1, FrameLen)
<1>1. CASE Starts(b) = <<>>
  BY <1>1 DEF Erased, UpToLastStop, Behind
<1>2. CASE Starts(b) # <<>>
  <2>1. Starts(b) \in Seq(Int)
    BY StartsRange
  <2>2. Len(Starts(b)) \in 1 .. Len(Starts(b))
    BY <1>2, <2>1
  <2>3. Starts(b)[Len(Starts(b))] \in Int /\ 1 <= Starts(b)[Len(Starts(b))]
        /\ (Starts(b)[Len(Starts(b))] + FrameLen) - 1 <= Len(b)
    BY <2>2, StartsRange
  <2>4. Erased(b) = (Starts(b)[Len(Starts(b))] + FrameLen) - 1
    BY <1>2, <2>3, HeadsFit DEF Erased, UpToLastStop, Last
  <2>5. Behind(Starts(b), 1, FrameLen) = Starts(b)[Len(Starts(b))] + FrameLen
    BY <1>2 DEF Behind
  <2> QED
    BY <2>3, <2>4, <2>5, HeadsFit
<1> QED
  BY <1>1, <1>2

\* Whether or not it is tried to decode them: what is decoded, and what is left.
LEMMA DecodedIs ==
    ASSUME Numbers, NEW b \in Seq(Bits), ~Unset
    PROVE  /\ Decoded(b) = [m \in 1 .. Len(Starts(b)) |-> Char(b, Starts(b)[m])]
           /\ Rest(b) = SubSeq(b, Erased(b) + 1, Len(b))
<1>0. Starts(b) \in Seq(Int) /\ DOMAIN Starts(b) = 1 .. Len(Starts(b))
  BY StartsRange
<1>1. CASE Tried(b)
  BY <1>0, <1>1 DEF Decoded, Rest
<1>2. CASE ~Tried(b)
  <2>1. Starts(b) = <<>>
    BY <1>2, TooFew, HeadsFit DEF Tried, Unset
  <2>2. Decoded(b) = <<>> /\ Rest(b) = b
    BY <1>2 DEF Decoded, Rest
  <2>3. Erased(b) = 0
    BY <2>1 DEF Erased, UpToLastStop
  <2>4. SubSeq(b, 1, Len(b)) = b
    BY SubSeqFull
  <2> QED
    BY <2>1, <2>2, <2>3, <2>4
<1> QED
  BY <1>1, <1>2

LEMMA UnsetIs ==
    ASSUME Unset, NEW b
    PROVE  Decoded(b) = <<>> /\ Rest(b) = b
  BY DEF Unset, Decoded, Rest, Tried

-----------------------------------------------------------------------------
(***************************************************************************)
(* More bits c behind the bits a.                                          *)
(***************************************************************************)
LEMMA JoinedBits ==
    ASSUME NEW a \in Seq(Bits), NEW c \in Seq(Bits)
    PROVE  /\ a \o c \in Seq(Bits) /\ Len(a \o c) = Len(a) + Len(c)
           /\ \A i \in 1 .. Len(a) : (a \o c)[i] = a[i]
           /\ Len(a) \in Nat /\ Len(c) \in Nat
  BY ConcatProperties

LEMMA RestIs ==
    ASSUME NEW b \in Seq(Bits), NEW e \in 0 .. Len(b)
    PROVE  /\ SubSeq(b, e + 1, Len(b)) \in Seq(Bits)
           /\ Len(SubSeq(b, e + 1, Len(b))) = Len(b) - e
           /\ \A i \in 1 .. (Len(b) - e) : SubSeq(b, e + 1, Len(b))[i] = b[e + i]
<1>1. \A i \in (e + 1) .. Len(b) : b[i] \in Bits
  OBVIOUS
<1>2. e + 1 \in Int /\ Len(b) \in Int
  OBVIOUS
<1>3. /\ SubSeq(b, e + 1, Len(b)) \in Seq(Bits)
      /\ Len(SubSeq(b, e + 1, Len(b))) = IF e + 1 <= Len(b) THEN (Len(b) - (e + 1)) + 1 ELSE 0
      /\ \A i \in 1 .. ((Len(b) - (e + 1)) + 1) : SubSeq(b, e + 1, Len(b))[i] = b[((e + 1) + i) - 1]
  BY <1>1, <1>2, SubSeqProperties
<1>4. \A i \in 1 .. (Len(b) - e) : ((e + 1) + i) - 1 = e + i /\ i \in 1 .. ((Len(b) - (e + 1)) + 1)
  OBVIOUS
<1> QED
  BY <1>3, <1>4

\* What is left of a, and c, are what is left of both.
LEMMA JoinedRest ==
    ASSUME NEW a \in Seq(Bits), NEW c \in Seq(Bits), NEW e \in 0 .. Len(a)
    PROVE  /\ SubSeq(a, e + 1, Len(a)) \o c = SubSeq(a \o c, e + 1, Len(a \o c))
           /\ e \in 0 .. Len(a \o c)
<1> DEFINE x == SubSeq(a, e + 1, Len(a))
           l == x \o c
           r == SubSeq(a \o c, e + 1, Len(a \o c))
<1>1. a \o c \in Seq(Bits) /\ Len(a \o c) = Len(a) + Len(c) /\ Len(a) \in Nat /\ Len(c) \in Nat
      /\ e \in 0 .. Len(a \o c)
  BY JoinedBits
<1>2. x \in Seq(Bits) /\ Len(x) = Len(a) - e /\ \A i \in 1 .. (Len(a) - e) : x[i] = a[e + i]
  BY RestIs
<1>3. r \in Seq(Bits) /\ Len(r) = (Len(a) + Len(c)) - e
      /\ \A i \in 1 .. ((Len(a) + Len(c)) - e) : r[i] = (a \o c)[e + i]
  BY <1>1, RestIs
<1>4. l \in Seq(Bits) /\ Len(l) = (Len(a) - e) + Len(c)
      /\ \A i \in 1 .. ((Len(a) - e) + Len(c)) : l[i] = IF i <= Len(a) - e THEN x[i] ELSE c[i - (Len(a) - e)]
  <2> HIDE DEF x
  <2>1. /\ x \o c \in Seq(Bits) /\ Len(x \o c) = Len(x) + Len(c)
        /\ \A i \in 1 .. (Len(x) + Len(c)) : (x \o c)[i] = IF i <= Len(x) THEN x[i] ELSE c[i - Len(x)]
    BY <1>2, ConcatProperties
  <2> QED
    BY <1>1, <1>2, <2>1
<1>5. \A j \in 1 .. (Len(a) + Len(c)) : (a \o c)[j] = IF j <= Len(a) THEN a[j] ELSE c[j - Len(a)]
  BY ConcatProperties
<1> HIDE DEF l, r, x
<1>6. ASSUME NEW i \in 1 .. Len(l) PROVE l[i] = r[i]
  <2>1. e \in Nat /\ i \in Nat /\ i >= 1 /\ i <= (Len(a) - e) + Len(c) /\ e + i \in 1 .. (Len(a) + Len(c))
        /\ i \in 1 .. ((Len(a) + Len(c)) - e) /\ i \in 1 .. ((Len(a) - e) + Len(c))
    BY <1>1, <1>4
  <2>2. r[i] = IF e + i <= Len(a) THEN a[e + i] ELSE c[(e + i) - Len(a)]
    BY <1>3, <1>5, <2>1
  <2>3. (e + i <= Len(a) <=> i <= Len(a) - e) /\ (e + i) - Len(a) = i - (Len(a) - e)
    BY <1>1, <2>1
  <2>4. CASE i <= Len(a) - e
    <3>1. i \in 1 .. (Len(a) - e)
      BY <2>1, <2>4
    <3> QED
      BY <1>2, <1>4, <2>1, <2>2, <2>3, <2>4, <3>1
  <2>5. CASE ~(i <= Len(a) - e)
    BY <1>4, <2>1, <2>2, <2>3, <2>5
  <2> QED
    BY <2>4, <2>5
<1>7. l = r
  <2>1. Len(l) = Len(r)
    BY <1>1, <1>3, <1>4
  <2> QED
    BY <1>3, <1>4, <1>6, <2>1, SeqEqual
<1> QED
  BY <1>1, <1>7 DEF l, r, x

\* A whole character is one by the bits it consists of.
LEMMA HeadMoves ==
    ASSUME Numbers, NEW a \in Seq(Bits), NEW c \in Seq(Bits), NEW e \in Nat, NEW i \in Nat, i >= 1,
           (i + FrameLen) - 1 <= Len(a), ((e + i) + FrameLen) - 1 <= Len(c),
           \A j \in i .. ((i + FrameLen) - 1) : a[j] = c[e + j]
    PROVE  i \in Heads(a) <=> e + i \in Heads(c)
<1>1. nbits \in Nat /\ nstops \in Nat /\ FrameLen = 1 + nbits + nstops
  BY DEF Numbers, FrameLen
<1>2. i \in 1 .. Len(a) /\ e + i \in 1 .. Len(c) /\ Len(a) \in Nat /\ Len(c) \in Nat
  BY <1>1
<1>3. a[i] = c[e + i]
  BY <1>1
<1>4. ASSUME NEW s \in 1 .. nstops PROVE a[i + nbits + s] = c[e + i + nbits + s]
  <2>1. i + nbits + s \in i .. ((i + FrameLen) - 1)
    BY <1>1
  <2>2. e + (i + nbits + s) = e + i + nbits + s
    BY <1>1
  <2> QED
    BY <2>1, <2>2
<1>5. i + FrameLen - 1 <= Len(a) /\ (e + i) + FrameLen - 1 <= Len(c)
  BY <1>1, <1>2
<1>6. i \in Heads(a) <=> a[i] = 0 /\ \A s \in 1 .. nstops : a[i + nbits + s] = 1
  BY <1>2, <1>5 DEF Heads, IsCharSeq, IsStart
<1>7. e + i \in Heads(c) <=> c[e + i] = 0 /\ \A s \in 1 .. nstops : c[e + i + nbits + s] = 1
  BY <1>2, <1>5 DEF Heads, IsCharSeq, IsStart
<1> QED
  BY <1>3, <1>4, <1>6, <1>7

\* And so is its value.
LEMMA CharMoves ==
    ASSUME Numbers, NEW a \in Seq(Bits), NEW c \in Seq(Bits), NEW e \in Nat, NEW i \in Nat, i >= 1,
           (i + FrameLen) - 1 <= Len(a),
           \A j \in i .. ((i + FrameLen) - 1) : a[j] = c[e + j]
    PROVE  Char(a, i) = Char(c, e + i)
<1>1. nbits \in Nat /\ nstops \in Nat /\ FrameLen = 1 + nbits + nstops
  BY DEF Numbers, FrameLen
<1>2. ASSUME NEW m \in 1 .. nbits PROVE a[i + m] = c[(e + i) + m] /\ a[i + m] \in Bits
  <2>1. i + m \in i .. ((i + FrameLen) - 1) /\ e + (i + m) = (e + i) + m /\ i + m \in 1 .. Len(a)
    BY <1>1
  <2> QED
    BY <2>1, ElementOfSeq
<1>3. DataBits(a, i, nbits) \in [1 .. nbits -> {0, 1}]
  BY <1>2 DEF DataBits, Bits
<1>4. DataBits(a, i, nbits) = DataBits(c, e + i, nbits)
  BY <1>2 DEF DataBits
<1>5. PICK S \in [0 .. nbits -> Nat] : Adding(S, DataBits(a, i, nbits), nbits)
  BY <1>1, <1>3, AddingExists
<1> QED
  BY <1>1, <1>4, <1>5, CharIs

\* What the loop finds in w from behind the first e bits on, r being all that follows.
LEMMA ScanMoved ==
    ASSUME Numbers, NEW r \in Seq(Bits), NEW w \in Seq(Bits), NEW e \in Nat, Len(w) = e + Len(r),
           \A i \in 1 .. Len(r) : r[i] = w[e + i],
           NEW g, Scanning(g, Heads(w), Len(w), FrameLen)
    PROVE  g[e + 1] = Moved(Starts(r), e)
<1> DEFINE M == Len(r)
           L == FrameLen
           P == Heads(w)
           Q == Heads(r)
<1>1. PICK h : Scanning(h, Q, M, L) /\ Starts(r) = h[1]
  BY StartsIs
<1>2. Fits(P, e + M, L) /\ Fits(Q, M, L) /\ M \in Nat /\ L \in Nat /\ L >= 1
  BY HeadsFit
<1>3. ASSUME NEW i \in 1 .. M PROVE i \in Heads(r) <=> e + i \in Heads(w)
  <2>1. i \in Nat /\ i >= 1
    OBVIOUS
  <2>2. CASE (i + L) - 1 <= M
    <3>1. ((e + i) + FrameLen) - 1 <= Len(w) /\ (i + FrameLen) - 1 <= Len(r)
      BY <1>2, <2>2
    <3>2. \A j \in i .. ((i + FrameLen) - 1) : r[j] = w[e + j]
      <4>1. \A j \in i .. ((i + L) - 1) : j \in 1 .. M
        BY <1>2, <2>2
      <4> QED
        BY <4>1
    <3> QED
      BY <2>1, <3>1, <3>2, HeadMoves
  <2>3. CASE ~((i + L) - 1 <= M)
    <3>1. i \notin Heads(r)
      BY <1>2, <2>3 DEF Fits
    <3>2. e + i \notin Heads(w)
      BY <1>2, <2>3 DEF Fits
    <3> QED
      BY <3>1, <3>2
  <2> QED
    BY <2>2, <2>3
<1>4. Scanning(g, P, e + M, L)
  OBVIOUS
<1>5. \A i \in 1 .. M : i \in Q <=> e + i \in P
  BY <1>3
<1> HIDE DEF M, L, P, Q
<1>6. Shifted(M, e, L, P, g, Q, h)
  BY <1>1, <1>2, <1>4, <1>5 DEF Shifted
<1>7. MovesTo(h, g, e)
  BY <1>6, ScanShift, Zenon
<1> QED
  BY <1>1, <1>7 DEF MovesTo

\* The characters of a and c are those of a, and those of what a leaves and c.
LEMMA StartsSplit ==
    ASSUME Numbers, ~Unset, NEW a \in Seq(Bits), NEW c \in Seq(Bits)
    PROVE  LET r == Rest(a) \o c
               e == Erased(a)
           IN  /\ r \in Seq(Bits) /\ e \in Nat /\ e <= Len(a) /\ Len(r) = (Len(a) - e) + Len(c)
               /\ \A i \in 1 .. Len(r) : r[i] = (a \o c)[e + i]
               /\ Starts(a \o c) = Starts(a) \o Moved(Starts(r), e)
<1> DEFINE w == a \o c
           r == Rest(a) \o c
           e == Erased(a)
           L == FrameLen
           M == Len(r)
           N == Len(a)
<1>1. w \in Seq(Bits) /\ Len(w) = N + Len(c) /\ N \in Nat /\ Len(c) \in Nat
      /\ \A i \in 1 .. N : w[i] = a[i]
  BY JoinedBits
<1>2. e \in 0 .. N /\ e + 1 = Behind(Starts(a), 1, L) /\ L \in Nat /\ L >= 1
  BY ErasedRange, HeadsFit
<1>3. Rest(a) = SubSeq(a, e + 1, Len(a))
  BY DecodedIs
<1>4. r = SubSeq(w, e + 1, Len(w)) /\ e \in 0 .. Len(w)
  BY <1>2, <1>3, JoinedRest
<1> HIDE DEF r, e
<1>5. r \in Seq(Bits) /\ M = Len(w) - e /\ \A i \in 1 .. (Len(w) - e) : r[i] = w[e + i]
  BY <1>1, <1>4, RestIs
<1>6. PICK f : Scanning(f, Heads(a), N, L) /\ Starts(a) = f[1]
  BY StartsIs
<1> HIDE DEF w
<1>7. PICK g : Scanning(g, Heads(w), Len(w), L) /\ Starts(w) = g[1]
  BY <1>1, StartsIs
<1>9. Fits(Heads(a), N, L) /\ Fits(Heads(w), Len(w), L)
  BY <1>1, <1>5, HeadsFit
<1>10. M \in Nat /\ e \in Nat /\ Len(w) = e + M /\ Len(w) = N + Len(c) /\ e <= N
  BY <1>1, <1>2, <1>5
<1>11. g[1] = f[1] \o g[e + 1]
  <2>1. ASSUME NEW i \in 1 .. N, (i + L) - 1 <= N PROVE i \in Heads(a) <=> i \in Heads(w)
    <3>1. i \in Nat /\ i >= 1 /\ ((0 + i) + FrameLen) - 1 <= Len(w) /\ 0 + i = i /\ 0 \in Nat
      BY <1>1, <1>2, <2>1
    <3>2. \A j \in i .. ((i + FrameLen) - 1) : a[j] = w[0 + j]
      <4>1. \A j \in i .. ((i + L) - 1) : j \in 1 .. N /\ 0 + j = j
        BY <1>1, <1>2, <2>1
      <4> QED
        BY <1>1, <4>1
    <3>3. i \in Heads(a) <=> 0 + i \in Heads(w)
      BY <1>1, <2>1, <3>1, <3>2, HeadMoves
    <3> QED
      BY <3>1, <3>3
  <2>2. \A i \in 1 .. N : (i + L) - 1 <= N => (i \in Heads(a) <=> i \in Heads(w))
    BY <2>1
  <2> DEFINE K == Len(c)
             P == Heads(a)
             Q == Heads(w)
  <2>3. Scanning(g, Q, N + K, L)
    BY <1>7, <1>10
  <2>4. Fits(Q, N + K, L)
    BY <1>9, <1>10
  <2>5. Scanning(f, P, N, L) /\ f[1] = Starts(a)
    BY <1>6
  <2>6. Fits(P, N, L)
    BY <1>9
  <2>7. N \in Nat /\ K \in Nat /\ L \in Nat /\ L >= 1
    BY <1>1, <1>2
  <2>8. \A i \in 1 .. N : (i + L) - 1 <= N => (i \in P <=> i \in Q)
    BY <2>2
  <2> HIDE DEF N, L, K, P, Q
  <2>9. Continued(N, K, L, P, f, Q, g)
    BY <2>3, <2>4, <2>5, <2>6, <2>7, <2>8 DEF Continued
  <2>10. GoesOn(g, f, 1, L)
    BY <2>9, ScanSplit, Zenon
  <2> QED
    BY <1>2, <2>5, <2>10 DEF L, GoesOn
<1>12. M = (N - e) + Len(c) /\ \A i \in 1 .. M : r[i] = w[e + i]
  <2>1. M = Len(w) - e
    BY <1>5
  <2> QED
    BY <1>1, <1>5, <1>10, <2>1
<1>13. g[e + 1] = Moved(Starts(r), e)
  <2>1. Len(w) = e + Len(r)
    BY <1>10
  <2>2. \A i \in 1 .. Len(r) : r[i] = w[e + i]
    BY <1>12
  <2>3. w \in Seq(Bits) /\ r \in Seq(Bits) /\ e \in Nat
    BY <1>1, <1>5, <1>10
  <2>4. Scanning(g, Heads(w), Len(w), FrameLen)
    BY <1>7
  <2> HIDE DEF M, N, L
  <2> QED
    BY <2>1, <2>2, <2>3, <2>4, ScanMoved, ZenonT(60)
<1>14. Starts(w) = Starts(a) \o Moved(Starts(r), e)
  BY <1>6, <1>7, <1>11, <1>13
<1> QED
  BY <1>5, <1>10, <1>12, <1>14 DEF r, e, w

\* The value of a whole character.
LEMMA CharRange ==
    ASSUME Numbers, NEW b \in Seq(Bits), NEW i \in Int, 1 <= i, (i + FrameLen) - 1 <= Len(b)
    PROVE  Char(b, i) \in 0 .. 255
<1>1. nbits \in Nat /\ nstops \in Nat /\ FrameLen = 1 + nbits + nstops
  BY DEF Numbers, FrameLen
<1>2. DataBits(b, i, nbits) \in [1 .. nbits -> {0, 1}]
  <2>1. ASSUME NEW m \in 1 .. nbits PROVE b[i + m] \in Bits
    <3>1. i + m \in 1 .. Len(b)
      BY <1>1
    <3> QED
      BY <3>1, ElementOfSeq
  <2> QED
    BY <2>1 DEF DataBits, Bits
<1>3. PICK S \in [0 .. nbits -> Nat] : Adding(S, DataBits(b, i, nbits), nbits)
  BY <1>1, <1>2, AddingExists
<1>4. Char(b, i) = S[nbits] % 256
  BY <1>1, <1>3, CharIs
<1>5. S[nbits] \in Nat
  BY <1>1, <1>3
<1>6. \A k \in Nat : k % 256 \in 0 .. 255
  OBVIOUS
<1> HIDE DEF Char
<1> QED
  BY <1>4, <1>5, <1>6, Zenon

LEMMA DecodedRange ==
    ASSUME Numbers, NEW b \in Seq(Bits)
    PROVE  Decoded(b) \in Seq(0 .. 255)
<1>1. CASE Unset
  <2>1. Decoded(b) = <<>>
    BY <1>1, UnsetIs
  <2> QED
    BY <2>1
<1>2. CASE ~Unset
  <2>1. Decoded(b) = [m \in 1 .. Len(Starts(b)) |-> Char(b, Starts(b)[m])]
    BY <1>2, DecodedIs
  <2>2. Len(Starts(b)) \in Nat
    BY StartsRange
  <2>3. ASSUME NEW m \in 1 .. Len(Starts(b)) PROVE Char(b, Starts(b)[m]) \in 0 .. 255
    BY StartsRange, CharRange
  <2> QED
    BY <2>1, <2>2, <2>3
<1> QED
  BY <1>1, <1>2

\* What is decoded of a and c together is what is decoded of a, then of its rest with c.
LEMMA DecodedSplit ==
    ASSUME Numbers, NEW a \in Seq(Bits), NEW c \in Seq(Bits)
    PROVE  /\ Decoded(a \o c) = Decoded(a) \o Decoded(Rest(a) \o c)
           /\ Rest(a) \o c \in Seq(Bits)
<1>0. a \o c \in Seq(Bits)
  BY JoinedBits
<1>1. CASE Unset
  <2>1. Decoded(a) = <<>> /\ Rest(a) = a /\ Decoded(a \o c) = <<>>
    BY <1>1, UnsetIs
  <2> QED
    BY <1>0, <2>1
<1>2. CASE ~Unset
  <2> DEFINE w == a \o c
             r == Rest(a) \o c
             e == Erased(a)
             A == Starts(a)
             R == Starts(r)
             W == Starts(w)
  <2>1. /\ r \in Seq(Bits) /\ e \in Nat /\ e <= Len(a) /\ Len(r) = (Len(a) - e) + Len(c)
        /\ \A i \in 1 .. Len(r) : r[i] = w[e + i]
        /\ W = A \o Moved(R, e)
    BY <1>2, StartsSplit
  <2>2. w \in Seq(Bits) /\ Len(w) = Len(a) + Len(c) /\ \A i \in 1 .. Len(a) : w[i] = a[i]
    BY JoinedBits
  <2>3. Len(a) \in Nat /\ Len(c) \in Nat /\ Numbers /\ FrameLen \in Nat /\ FrameLen >= 1
    BY HeadsFit
  <2>4. Decoded(a) = [m \in 1 .. Len(A) |-> Char(a, A[m])] /\ Decoded(a) \in Seq(0 .. 255)
    BY <1>2, DecodedIs, DecodedRange
  <2>5. A \in Seq(Int) /\ \A m \in 1 .. Len(A) : A[m] \in Int /\ 1 <= A[m] /\ (A[m] + FrameLen) - 1 <= Len(a)
    BY StartsRange
  <2> HIDE DEF r, w, e
  <2>6. Decoded(r) = [m \in 1 .. Len(R) |-> Char(r, R[m])] /\ Decoded(r) \in Seq(0 .. 255)
    BY <1>2, <2>1, DecodedIs, DecodedRange
  <2>7. Decoded(w) = [m \in 1 .. Len(W) |-> Char(w, W[m])]
    BY <1>2, <2>2, DecodedIs
  <2>8. R \in Seq(Int) /\ \A m \in 1 .. Len(R) : R[m] \in Int /\ 1 <= R[m] /\ (R[m] + FrameLen) - 1 <= Len(r)
    BY <2>1, StartsRange
  <2>9. ASSUME NEW m \in 1 .. Len(A) PROVE Char(w, A[m]) = Char(a, A[m])
    <3>1. A[m] \in Nat /\ A[m] >= 1 /\ (A[m] + FrameLen) - 1 <= Len(a) /\ 0 + A[m] = A[m] /\ 0 \in Nat
      BY <2>5
    <3>2. \A j \in A[m] .. ((A[m] + FrameLen) - 1) : a[j] = w[0 + j]
      <4>1. \A j \in A[m] .. ((A[m] + FrameLen) - 1) : j \in 1 .. Len(a) /\ 0 + j = j
        BY <2>3, <3>1
      <4> QED
        BY <2>2, <4>1
    <3> HIDE DEF A
    <3>3. Char(a, A[m]) = Char(w, 0 + A[m])
      BY <2>2, <3>1, <3>2, CharMoves
    <3> QED
      BY <3>1, <3>3
  <2>10. ASSUME NEW m \in 1 .. Len(R) PROVE Char(w, e + R[m]) = Char(r, R[m])
    <3>1. R[m] \in Nat /\ R[m] >= 1 /\ (R[m] + FrameLen) - 1 <= Len(r)
      BY <2>8
    <3>2. \A j \in R[m] .. ((R[m] + FrameLen) - 1) : r[j] = w[e + j]
      <4>1. \A j \in R[m] .. ((R[m] + FrameLen) - 1) : j \in 1 .. Len(r)
        BY <2>1, <2>3, <3>1
      <4> QED
        BY <2>1, <4>1
    <3> HIDE DEF R
    <3> QED
      BY <2>1, <2>2, <3>1, <3>2, CharMoves
  <2> HIDE DEF A, R, W
  <2> DEFINE x == Decoded(a)
             y == Decoded(r)
             z == Decoded(w)
             G == Moved(R, e)
  <2>11. G \in Seq(Int) /\ Len(G) = Len(R) /\ \A m \in 1 .. Len(R) : G[m] = e + R[m]
    <3>1. e \in Int /\ 0 \in Int
      BY <2>1
    <3>2. G \in Seq(Int) /\ Len(G) = Len(R)
      BY <2>8, <3>1, MovedFacts
    <3> QED
      BY <3>2 DEF Moved
  <2>12. /\ Len(W) = Len(A) + Len(R) /\ Len(A) \in Nat /\ Len(R) \in Nat
         /\ \A m \in 1 .. (Len(A) + Len(R)) : W[m] = IF m <= Len(A) THEN A[m] ELSE G[m - Len(A)]
    <3> HIDE DEF G
    <3>1. /\ Len(A \o G) = Len(A) + Len(G)
          /\ \A m \in 1 .. (Len(A) + Len(G)) : (A \o G)[m] = IF m <= Len(A) THEN A[m] ELSE G[m - Len(A)]
      <4>1. A \in Seq(Int) /\ G \in Seq(Int)
        BY <2>5, <2>11
      <4> QED
        BY <4>1, ConcatProperties
    <3>2. W = A \o G
      BY <2>1 DEF G
    <3> QED
      BY <2>5, <2>8, <2>11, <3>1, <3>2
  <2>13. /\ x \in Seq(0 .. 255) /\ Len(x) = Len(A) /\ \A m \in 1 .. Len(A) : x[m] = Char(a, A[m])
         /\ y \in Seq(0 .. 255) /\ Len(y) = Len(R) /\ \A m \in 1 .. Len(R) : y[m] = Char(r, R[m])
    BY <2>4, <2>6, <2>12
  <2>14. /\ x \o y \in Seq(0 .. 255) /\ Len(x \o y) = Len(A) + Len(R)
         /\ \A m \in 1 .. (Len(A) + Len(R)) : (x \o y)[m] = IF m <= Len(A) THEN x[m] ELSE y[m - Len(A)]
    <3> HIDE DEF x, y
    <3>1. /\ x \o y \in Seq(0 .. 255) /\ Len(x \o y) = Len(x) + Len(y)
          /\ \A m \in 1 .. (Len(x) + Len(y)) : (x \o y)[m] = IF m <= Len(x) THEN x[m] ELSE y[m - Len(x)]
      <4>1. x \in Seq(0 .. 255) /\ y \in Seq(0 .. 255)
        BY <2>13
      <4> QED
        BY <4>1, ConcatProperties
    <3> QED
      BY <2>13, <3>1
  <2>15. z \in Seq(0 .. 255) /\ Len(z) = Len(A) + Len(R)
         /\ \A m \in 1 .. (Len(A) + Len(R)) : z[m] = Char(w, W[m])
    <3>1. z \in Seq(0 .. 255)
      BY <2>2, DecodedRange
    <3> QED
      BY <2>7, <2>12, <3>1
  <2>16. ASSUME NEW m \in 1 .. (Len(A) + Len(R)) PROVE z[m] = (x \o y)[m]
    <3> HIDE DEF x, y, z, G
    <3>1. CASE m <= Len(A)
      <4>1. m \in 1 .. Len(A)
        BY <2>12, <3>1
      <4> QED
        BY <2>9, <2>12, <2>13, <2>14, <2>15, <3>1, <4>1
    <3>2. CASE ~(m <= Len(A))
      <4>1. m - Len(A) \in 1 .. Len(R)
        BY <2>12, <3>2
      <4>2. W[m] = e + R[m - Len(A)]
        BY <2>11, <2>12, <3>2, <4>1
      <4> QED
        BY <2>10, <2>13, <2>14, <2>15, <3>2, <4>1, <4>2
    <3> QED
      BY <3>1, <3>2
  <2>17. z = x \o y
    <3> HIDE DEF x, y, z
    <3> QED
      BY <2>14, <2>15, <2>16, SeqEqual
  <2> QED
    BY <2>1, <2>17 DEF r, w
<1> QED
  BY <1>1, <1>2

\* And what is left of a and c together is what is left of the rest of a with c.
LEMMA RestSplit ==
    ASSUME Numbers, NEW a \in Seq(Bits), NEW c \in Seq(Bits)
    PROVE  Rest(a \o c) = Rest(Rest(a) \o c)
<1>0. a \o c \in Seq(Bits)
  BY JoinedBits
<1>1. CASE Unset
  BY <1>1, UnsetIs
<1>2. CASE ~Unset
  <2> DEFINE w == a \o c
             r == Rest(a) \o c
             e == Erased(a)
             A == Starts(a)
             R == Starts(r)
             W == Starts(w)
             G == Moved(R, e)
  <2>1. /\ r \in Seq(Bits) /\ e \in Nat /\ e <= Len(a) /\ Len(r) = (Len(a) - e) + Len(c)
        /\ \A i \in 1 .. Len(r) : r[i] = w[e + i]
        /\ W = A \o G
    BY <1>2, StartsSplit
  <2>2. w \in Seq(Bits) /\ Len(w) = Len(a) + Len(c)
    BY JoinedBits
  <2>3. Len(a) \in Nat /\ Len(c) \in Nat /\ FrameLen \in Nat
    BY HeadsFit
  <2>4. e + 1 = Behind(A, 1, FrameLen) /\ A \in Seq(Int)
    BY ErasedRange, StartsRange
  <2> HIDE DEF w, r, e
  <2>5. Erased(w) \in 0 .. Len(w) /\ Erased(w) + 1 = Behind(W, 1, FrameLen)
    BY <2>2, ErasedRange
  <2>6. Erased(r) \in 0 .. Len(r) /\ Erased(r) + 1 = Behind(R, 1, FrameLen) /\ R \in Seq(Int)
    BY <2>1, ErasedRange, StartsRange
  <2> HIDE DEF A, R, W
  <2>7. G \in Seq(Int) /\ Len(G) = Len(R) /\ Len(R) \in Nat /\ \A m \in 1 .. Len(R) : G[m] = e + R[m]
    <3>1. e \in Int /\ 0 \in Int
      BY <2>1
    <3>2. G \in Seq(Int) /\ Len(G) = Len(R)
      BY <2>6, <3>1, MovedFacts
    <3> QED
      BY <2>6, <3>2 DEF Moved
  <2> HIDE DEF G
  <2>8. /\ Len(A \o G) = Len(A) + Len(G)
        /\ \A m \in 1 .. (Len(A) + Len(G)) : (A \o G)[m] = IF m <= Len(A) THEN A[m] ELSE G[m - Len(A)]
    <3>1. A \in Seq(Int) /\ G \in Seq(Int)
      BY <2>4, <2>7
    <3> QED
      BY <3>1, ConcatProperties
  <2>9. Erased(w) = e + Erased(r)
    <3>1. CASE R = <<>>
      <4>1. G = <<>>
        BY <2>7, <3>1
      <4>2. W = A
        BY <2>1, <2>4, <4>1
      <4>3. Erased(r) + 1 = 1
        BY <2>6, <3>1 DEF Behind
      <4>4. Erased(w) + 1 = e + 1
        BY <2>4, <2>5, <4>2
      <4>5. Erased(w) \in Int /\ Erased(r) \in Int /\ e \in Int
        BY <2>1, <2>5, <2>6
      <4> QED
        BY <4>3, <4>4, <4>5
    <3>2. CASE R # <<>>
      <4>1. Len(R) \in 1 .. Len(R) /\ Len(A) \in Nat
        BY <2>4, <2>6, <3>2
      <4>2. Len(W) = Len(A) + Len(R) /\ Len(W) \in 1 .. (Len(A) + Len(G)) /\ ~(Len(W) <= Len(A))
            /\ Len(W) - Len(A) = Len(R)
        BY <2>1, <2>7, <2>8, <4>1
      <4>3. W[Len(W)] = e + R[Len(R)]
        BY <2>1, <2>7, <2>8, <4>1, <4>2
      <4>4. W # <<>>
        BY <4>1, <4>2
      <4>5. R[Len(R)] \in Int
        BY <2>6, <4>1, ElementOfSeq
      <4>6. Erased(w) + 1 = W[Len(W)] + FrameLen /\ Erased(r) + 1 = R[Len(R)] + FrameLen
        BY <2>5, <2>6, <3>2, <4>4 DEF Behind
      <4>7. Erased(w) \in Int /\ Erased(r) \in Int /\ e \in Int /\ FrameLen \in Int
        BY <2>1, <2>3, <2>5, <2>6
      <4> DEFINE p == R[Len(R)]
                 q == W[Len(W)]
                 m == Erased(w)
                 n == Erased(r)
      <4>8. p \in Int /\ q = e + p /\ m + 1 = q + FrameLen /\ n + 1 = p + FrameLen /\ m \in Int /\ n \in Int
        BY <4>3, <4>5, <4>6, <4>7
      <4> HIDE DEF p, q, m, n
      <4>9. m = e + n
        BY <4>7, <4>8
      <4> QED
        BY <4>9 DEF m, n
    <3> QED
      BY <3>1, <3>2
  <2> DEFINE x == Rest(w)
             y == Rest(r)
  <2>10. x = SubSeq(w, Erased(w) + 1, Len(w))
    BY <1>2, <2>2, DecodedIs
  <2>11. y = SubSeq(r, Erased(r) + 1, Len(r))
    BY <1>2, <2>1, DecodedIs
  <2>12. x \in Seq(Bits) /\ Len(x) = Len(w) - Erased(w)
         /\ \A i \in 1 .. (Len(w) - Erased(w)) : x[i] = w[Erased(w) + i]
    BY <2>2, <2>5, <2>10, RestIs
  <2>13. y \in Seq(Bits) /\ Len(y) = Len(r) - Erased(r)
         /\ \A i \in 1 .. (Len(r) - Erased(r)) : y[i] = r[Erased(r) + i]
    BY <2>1, <2>6, <2>11, RestIs, ZenonT(60)
  <2> HIDE DEF x, y
  <2>14. Len(x) = Len(y) /\ Len(x) \in Nat
    BY <2>1, <2>2, <2>3, <2>5, <2>6, <2>9, <2>12, <2>13, SMTT(40)
  <2>15. ASSUME NEW i \in 1 .. Len(x) PROVE x[i] = y[i]
    <3>1. i \in 1 .. (Len(w) - Erased(w)) /\ i \in 1 .. (Len(r) - Erased(r))
      BY <2>12, <2>13, <2>14
    <3>2. Erased(r) + i \in 1 .. Len(r) /\ e + (Erased(r) + i) = Erased(w) + i
      <4> DEFINE m == Erased(r)
                 N == Len(r)
      <4>1. m \in Nat /\ N \in Nat /\ e \in Nat /\ i \in Nat /\ i >= 1 /\ i <= N - m
        BY <2>1, <2>6, <3>1
      <4>2. Erased(w) = e + m
        BY <2>9
      <4> HIDE DEF m, N
      <4>3. m + i \in 1 .. N /\ e + (m + i) = (e + m) + i
        BY <4>1
      <4> QED
        BY <4>2, <4>3 DEF m, N
    <3>3. x[i] = w[Erased(w) + i]
      BY <2>12, <3>1
    <3>4. y[i] = r[Erased(r) + i]
      BY <2>13, <3>1
    <3>5. r[Erased(r) + i] = w[e + (Erased(r) + i)]
      BY <2>1, <3>2
    <3> QED
      BY <3>2, <3>3, <3>4, <3>5
  <2>16. x = y
    BY <2>12, <2>13, <2>14, <2>15, SeqEqual
  <2> QED
    BY <2>16 DEF x, y, w, r
<1> QED
  BY <1>1, <1>2

-----------------------------------------------------------------------------
(***************************************************************************)
(* The transmission: G[i] is what its first i characters are sent as, when *)
(* t are the bits of each.                                                 *)
(***************************************************************************)
Growing(G, t, n) ==
    /\ G \in [0 .. n -> Seq(Bits)]
    /\ G[0] = <<>> /\ \A i \in 1 .. n : G[i] = G[i - 1] \o t[i]

LEMMA GrowingExists ==
    ASSUME NEW t \in Seq(Seq(Bits))
    PROVE  \E G : Growing(G, t, Len(t))
<1> DEFINE E == {n \in Nat : n <= Len(t) => \E G : Growing(G, t, n)}
<1>1. 0 \in E
  <2> DEFINE G == [i \in 0 .. 0 |-> <<>>]
  <2>1. Growing(G, t, 0)
    BY DEF Growing
  <2> HIDE DEF G
  <2> QED
    BY <2>1
<1>2. ASSUME NEW n \in Nat, n \in E PROVE n + 1 \in E
  <2> SUFFICES ASSUME n + 1 <= Len(t) PROVE \E G : Growing(G, t, n + 1)
    OBVIOUS
  <2>1. PICK H : Growing(H, t, n)
    BY <1>2
  <2>2. H \in [0 .. n -> Seq(Bits)] /\ H[0] = <<>> /\ \A i \in 1 .. n : H[i] = H[i - 1] \o t[i]
    BY <2>1 DEF Growing
  <2>3. H[n] \in Seq(Bits) /\ t[n + 1] \in Seq(Bits)
    <3>1. n \in 0 .. n /\ n + 1 \in 1 .. Len(t)
      OBVIOUS
    <3> QED
      BY <2>2, <3>1, ElementOfSeq
  <2>4. H[n] \o t[n + 1] \in Seq(Bits)
    BY <2>3, ConcatProperties
  <2> DEFINE G == [i \in 0 .. (n + 1) |-> IF i = n + 1 THEN H[n] \o t[n + 1] ELSE H[i]]
  <2>5. G \in [0 .. (n + 1) -> Seq(Bits)]
    BY <2>2, <2>4
  <2>6. (\A i \in 0 .. n : G[i] = H[i]) /\ G[n + 1] = H[n] \o t[n + 1]
    <3>1. n + 1 \in 0 .. (n + 1) /\ \A i \in 0 .. n : i \in 0 .. (n + 1) /\ i # n + 1
      OBVIOUS
    <3> QED
      BY <3>1, Zenon
  <2> HIDE DEF G
  <2>7. G[0] = <<>>
    BY <2>2, <2>6, SMTT(40)
  <2>8. ASSUME NEW i \in 1 .. (n + 1) PROVE G[i] = G[i - 1] \o t[i]
    <3>1. CASE i = n + 1
      <4>1. i - 1 = n /\ n \in 0 .. n
        BY <3>1
      <4> QED
        BY <2>6, <3>1, <4>1
    <3>2. CASE i # n + 1
      <4>1. i \in 1 .. n /\ i \in 0 .. n /\ i - 1 \in 0 .. n
        BY <3>2
      <4> QED
        BY <2>2, <2>6, <4>1
    <3> QED
      BY <3>1, <3>2
  <2>9. Growing(G, t, n + 1)
    BY <2>5, <2>7, <2>8 DEF Growing
  <2> QED
    BY <2>9
<1>3. Nat \subseteq E
  <2> HIDE DEF E
  <2> QED
    BY <1>1, <1>2, Induction
<1> QED
  BY <1>3

LEMMA FlattenIs ==
    ASSUME NEW t \in Seq(Seq(Bits)), NEW G, Growing(G, t, Len(t))
    PROVE  FlattenSeq(t) = G[Len(t)]
<1> DEFINE n == Len(t)
           V(F) == F = [i \in 1 .. n |-> IF i = 1 THEN t[i] ELSE F[i - 1] \o t[i]]
<1>0. n \in Nat /\ G \in [0 .. n -> Seq(Bits)] /\ G[0] = <<>> /\ \A i \in 1 .. n : G[i] = G[i - 1] \o t[i]
  <2>1. n \in Nat
    OBVIOUS
  <2> QED
    BY <2>1, Zenon DEF Growing
<1>1. CASE n = 0
  <2>1. t = <<>>
    BY <1>1
  <2> QED
    BY <1>0, <1>1, <2>1 DEF FlattenSeq
<1>2. CASE n # 0
  <2> DEFINE S == [i \in 1 .. n |-> G[i]]
  <2>1. V(S)
    <3> DEFINE h == [i \in 1 .. n |-> IF i = 1 THEN t[i] ELSE S[i - 1] \o t[i]]
    <3>1. ASSUME NEW i \in 1 .. n PROVE S[i] = h[i]
      <4>1. S[i] = G[i] /\ G[i] = G[i - 1] \o t[i] /\ h[i] = IF i = 1 THEN t[i] ELSE S[i - 1] \o t[i]
        BY <1>0
      <4>2. CASE i = 1
        <5>1. t[i] \in Seq(Bits) /\ i - 1 = 0
          BY <4>2, ElementOfSeq
        <5>2. <<>> \o t[i] = t[i]
          BY <5>1
        <5> QED
          BY <1>0, <4>1, <4>2, <5>1, <5>2
      <4>3. CASE i # 1
        <5>1. i - 1 \in 1 .. n
          BY <4>3
        <5>2. S[i - 1] = G[i - 1]
          BY <5>1
        <5> QED
          BY <4>1, <4>3, <5>2
      <4> QED
        BY <4>2, <4>3
    <3>2. S = [i \in 1 .. n |-> S[i]] /\ h = [i \in 1 .. n |-> h[i]]
      OBVIOUS
    <3>3. S = h
      <4> HIDE DEF S, h
      <4> QED
        BY <3>1, <3>2
    <3> HIDE DEF S
    <3> QED
      BY <3>3
  <2>2. ASSUME NEW F, V(F) PROVE F = S
    <3>1. \A i \in 1 .. n : F[i] = IF i = 1 THEN t[i] ELSE F[i - 1] \o t[i]
      <4> HIDE DEF n
      <4> QED
        BY <2>2, Zenon
    <3>2. \A i \in 1 .. n : S[i] = IF i = 1 THEN t[i] ELSE S[i - 1] \o t[i]
      <4> HIDE DEF n, S
      <4> QED
        BY <2>1, Zenon
    <3>3. F = [i \in 1 .. n |-> F[i]] /\ S = [i \in 1 .. n |-> S[i]]
      BY <2>2
    <3> HIDE DEF S
    <3> DEFINE E == {i \in Nat : i + 1 <= n => F[i + 1] = S[i + 1]}
    <3>4. 0 \in E
      <4>1. 1 \in 1 .. n /\ 0 + 1 = 1
        BY <1>0, <1>2
      <4> QED
        BY <3>1, <3>2, <4>1
    <3>5. ASSUME NEW i \in Nat, i \in E PROVE i + 1 \in E
      <4> SUFFICES ASSUME (i + 1) + 1 <= n PROVE F[(i + 1) + 1] = S[(i + 1) + 1]
        OBVIOUS
      <4>1. (i + 1) + 1 \in 1 .. n /\ ((i + 1) + 1) - 1 = i + 1 /\ (i + 1) + 1 # 1 /\ i + 1 <= n
        BY <1>0
      <4> QED
        BY <3>1, <3>2, <3>5, <4>1
    <3>6. Nat \subseteq E
      <4> HIDE DEF E
      <4> QED
        BY <3>4, <3>5, Induction
    <3>7. ASSUME NEW i \in 1 .. n PROVE F[i] = S[i]
      <4>1. i - 1 \in Nat /\ (i - 1) + 1 = i /\ i <= n
        BY <1>0
      <4>2. \A k \in Nat : k + 1 <= n => F[k + 1] = S[k + 1]
        BY <3>6
      <4> QED
        BY <4>1, <4>2
    <3> QED
      BY <3>3, <3>7
  <2>3. S = CHOOSE F : V(F)
    <3> HIDE DEF V, S
    <3> QED
      BY <2>1, <2>2
  <2>4. n \in 1 .. n
    BY <1>0, <1>2
  <2>5. S[n] = G[n]
    BY <2>4
  <2>6. FlattenSeq(t) = (CHOOSE F : V(F))[n]
    <3> HIDE DEF V
    <3> QED
      BY <1>2 DEF FlattenSeq, V
  <2> HIDE DEF S, V
  <2> QED
    BY <2>3, <2>5, <2>6
<1> QED
  BY <1>1, <1>2

LEMMA IdleFacts ==
    ASSUME NEW n \in Nat
    PROVE  Idle(n) \in Seq(Bits) /\ Len(Idle(n)) = n /\ \A i \in 1 .. n : Idle(n)[i] = 1
  BY DEF Idle, Bits

\* What is sent for a character: the frame, and the idle bits behind it.
Sent(c, n, s, idle) == Framed(c, n, s) \o Idle(idle)

LEMMA FramedFacts ==
    ASSUME NEW c \in Nat, NEW n \in Nat, NEW s \in Nat
    PROVE  LET x == Framed(c, n, s)
           IN  /\ x \in Seq(Bits) /\ Len(x) = 1 + n + s
               /\ x[1] = 0
               /\ \A m \in 1 .. n : x[1 + m] = (c \div 2 ^ (m - 1)) % 2
               /\ \A k \in (n + 2) .. (1 + n + s) : x[k] = 1
<1> DEFINE D == [m \in 1 .. n |-> (c \div 2 ^ (m - 1)) % 2]
           I == Idle(s)
           h == <<0>>
           y == h \o D
           x == y \o I
<1>1. \A m \in 1 .. n : D[m] = (c \div 2 ^ (m - 1)) % 2
  OBVIOUS
<1>2. ASSUME NEW m \in 1 .. n PROVE (c \div 2 ^ (m - 1)) % 2 \in Bits
  <2>1. m - 1 \in Nat
    OBVIOUS
  <2>2. 2 ^ (m - 1) \in Nat /\ 2 ^ (m - 1) > 0
    BY <2>1, PowerPositive
  <2> DEFINE p == 2 ^ (m - 1)
             q == c \div p
  <2>3. q \in Int
    <3> HIDE DEF p
    <3>1. p \in Nat /\ p > 0
      BY <2>2 DEF p
    <3> QED
      BY <3>1
  <2> HIDE DEF q
  <2>4. q % 2 \in {0, 1}
    BY <2>3
  <2> QED
    BY <2>4 DEF q, Bits
<1>3. D \in Seq(Bits) /\ Len(D) = n
  BY <1>2
<1>4. I \in Seq(Bits) /\ Len(I) = s /\ \A i \in 1 .. s : I[i] = 1
  BY IdleFacts
<1>5. h \in Seq(Bits) /\ Len(h) = 1 /\ h[1] = 0
  BY DEF Bits
<1> HIDE DEF D, I, h
<1>6. y \in Seq(Bits) /\ Len(y) = 1 + n
      /\ \A i \in 1 .. (1 + n) : y[i] = IF i <= 1 THEN h[i] ELSE D[i - 1]
  <2>1. y \in Seq(Bits) /\ Len(y) = Len(h) + Len(D)
        /\ \A i \in 1 .. (Len(h) + Len(D)) : y[i] = IF i <= Len(h) THEN h[i] ELSE D[i - Len(h)]
    BY <1>3, <1>5, ConcatProperties
  <2> HIDE DEF y
  <2> QED
    BY <1>3, <1>5, <2>1
<1> HIDE DEF y
<1>7. x \in Seq(Bits) /\ Len(x) = 1 + n + s
      /\ \A i \in 1 .. (1 + n + s) : x[i] = IF i <= 1 + n THEN y[i] ELSE I[i - (1 + n)]
  <2>1. x \in Seq(Bits) /\ Len(x) = Len(y) + Len(I)
        /\ \A i \in 1 .. (Len(y) + Len(I)) : x[i] = IF i <= Len(y) THEN y[i] ELSE I[i - Len(y)]
    BY <1>4, <1>6, ConcatProperties
  <2> HIDE DEF x
  <2> QED
    BY <1>4, <1>6, <2>1
<1>8. x = Framed(c, n, s)
  BY DEF x, y, h, D, I, Framed
<1> HIDE DEF x
<1>9. x[1] = 0
  BY <1>5, <1>6, <1>7
<1>10. ASSUME NEW m \in 1 .. n PROVE x[1 + m] = (c \div 2 ^ (m - 1)) % 2
  <2>1. 1 + m \in 1 .. (1 + n) /\ 1 + m \in 1 .. (1 + n + s) /\ ~(1 + m <= 1) /\ (1 + m) - 1 = m /\ 1 + m <= 1 + n
    OBVIOUS
  <2>2. x[1 + m] = D[m]
    BY <1>6, <1>7, <2>1
  <2> QED
    BY <1>1, <2>2 DEF D
<1>11. ASSUME NEW k \in (n + 2) .. (1 + n + s) PROVE x[k] = 1
  <2>1. k \in 1 .. (1 + n + s) /\ ~(k <= 1 + n) /\ k - (1 + n) \in 1 .. s
    OBVIOUS
  <2> QED
    BY <1>4, <1>7, <2>1
<1> QED
  BY <1>7, <1>8, <1>9, <1>10, <1>11

IsSent(x, c, n, s, idle) ==
    /\ x \in Seq(Bits) /\ Len(x) = (1 + n + s) + idle
    /\ x[1] = 0
    /\ \A m \in 1 .. n : x[1 + m] = (c \div 2 ^ (m - 1)) % 2
    /\ \A k \in (n + 2) .. ((1 + n + s) + idle) : x[k] = 1

LEMMA SentFacts ==
    ASSUME NEW c \in Nat, NEW n \in Nat, NEW s \in Nat, NEW idle \in Nat
    PROVE  IsSent(Sent(c, n, s, idle), c, n, s, idle)
<1> DEFINE y == Framed(c, n, s)
           I == Idle(idle)
           x == y \o I
           L == 1 + n + s
<1>1. /\ y \in Seq(Bits) /\ Len(y) = L /\ y[1] = 0
      /\ \A m \in 1 .. n : y[1 + m] = (c \div 2 ^ (m - 1)) % 2
      /\ \A k \in (n + 2) .. L : y[k] = 1
  BY FramedFacts
<1>2. I \in Seq(Bits) /\ Len(I) = idle /\ \A i \in 1 .. idle : I[i] = 1
  BY IdleFacts
<1>3. x = Sent(c, n, s, idle)
  BY DEF Sent
<1> HIDE DEF y, I
<1>4. x \in Seq(Bits) /\ Len(x) = L + idle
      /\ \A i \in 1 .. (L + idle) : x[i] = IF i <= L THEN y[i] ELSE I[i - L]
  <2>1. x \in Seq(Bits) /\ Len(x) = Len(y) + Len(I)
        /\ \A i \in 1 .. (Len(y) + Len(I)) : x[i] = IF i <= Len(y) THEN y[i] ELSE I[i - Len(y)]
    BY <1>1, <1>2, ConcatProperties
  <2> HIDE DEF x
  <2> QED
    BY <1>1, <1>2, <2>1
<1> HIDE DEF x
<1>5. x[1] = 0
  <2>1. 1 \in 1 .. (L + idle) /\ 1 <= L
    OBVIOUS
  <2> QED
    BY <1>1, <1>4, <2>1
<1>6. ASSUME NEW m \in 1 .. n PROVE x[1 + m] = (c \div 2 ^ (m - 1)) % 2
  <2>1. 1 + m \in 1 .. (L + idle) /\ 1 + m <= L
    OBVIOUS
  <2>2. x[1 + m] = y[1 + m]
    BY <1>4, <2>1
  <2> QED
    BY <1>1, <2>2
<1>7. ASSUME NEW k \in (n + 2) .. (L + idle) PROVE x[k] = 1
  <2>1. k \in 1 .. (L + idle)
    OBVIOUS
  <2>2. CASE k <= L
    <3>1. k \in (n + 2) .. L
      BY <2>2
    <3> QED
      BY <1>1, <1>4, <2>1, <2>2, <3>1
  <2>3. CASE ~(k <= L)
    <3>1. k - L \in 1 .. idle
      BY <2>3
    <3> QED
      BY <1>2, <1>4, <2>1, <2>3, <3>1
  <2> QED
    BY <2>2, <2>3
<1> QED
  BY <1>3, <1>4, <1>5, <1>6, <1>7 DEF IsSent

\* What comes before the text, and the text character by character.
Preamble(noise, n, s) == noise \o Idle(n + s)
SentText(t, n, s, idle) == [m \in 1 .. Len(t) |-> Sent(t[m], n, s, idle)]

CharByChar(noise, t, idle, n, s) ==
    \E G : /\ Growing(G, SentText(t, n, s, idle), Len(t))
           /\ Transmission(noise, t, idle, n, s) = Preamble(noise, n, s) \o G[Len(t)]

LEMMA TransmissionIs ==
    ASSUME NEW noise \in Seq(Bits), NEW t \in Seq(Nat), NEW idle \in Nat, NEW n \in Nat, NEW s \in Nat
    PROVE  /\ SentText(t, n, s, idle) \in Seq(Seq(Bits)) /\ Len(SentText(t, n, s, idle)) = Len(t)
           /\ Preamble(noise, n, s) \in Seq(Bits)
           /\ Transmission(noise, t, idle, n, s) \in Seq(Bits)
           /\ CharByChar(noise, t, idle, n, s)
<1> DEFINE x == SentText(t, n, s, idle)
<1>1. \A m \in 1 .. Len(t) : t[m] \in Nat
  OBVIOUS
<1>2. \A m \in 1 .. Len(t) : Sent(t[m], n, s, idle) \in Seq(Bits)
  BY <1>1, SentFacts DEF IsSent
<1>3. x \in Seq(Seq(Bits)) /\ Len(x) = Len(t)
  BY <1>2 DEF SentText
<1>4. Preamble(noise, n, s) \in Seq(Bits)
  <2>1. n + s \in Nat
    OBVIOUS
  <2>2. Idle(n + s) \in Seq(Bits)
    BY <2>1, IdleFacts
  <2> QED
    BY <2>2, ConcatProperties DEF Preamble
<1>5. Transmission(noise, t, idle, n, s) = Preamble(noise, n, s) \o FlattenSeq(x)
  <2>1. DOMAIN t = 1 .. Len(t)
    OBVIOUS
  <2>2. x = [m \in DOMAIN t |-> Framed(t[m], n, s) \o Idle(idle)]
    BY <2>1 DEF SentText, Sent
  <2> HIDE DEF x
  <2> QED
    BY <2>2 DEF Transmission, Preamble
<1> HIDE DEF x
<1>6. PICK G : Growing(G, x, Len(x))
  BY <1>3, GrowingExists
<1>7. FlattenSeq(x) = G[Len(x)]
  BY <1>3, <1>6, FlattenIs
<1>8. G[Len(t)] \in Seq(Bits)
  <2>1. G \in [0 .. Len(t) -> Seq(Bits)] /\ Len(t) \in 0 .. Len(t)
    BY <1>3, <1>6 DEF Growing
  <2> QED
    BY <2>1
<1>9. Transmission(noise, t, idle, n, s) = Preamble(noise, n, s) \o G[Len(t)]
  BY <1>3, <1>5, <1>7
<1>10. Transmission(noise, t, idle, n, s) \in Seq(Bits)
  BY <1>4, <1>8, <1>9, ConcatProperties
<1>11. Growing(G, x, Len(t))
  BY <1>3, <1>6
<1> QED
  BY <1>3, <1>4, <1>9, <1>10, <1>11 DEF x, CharByChar

-----------------------------------------------------------------------------
(***************************************************************************)
(* The value of n bits has room in n bits, and the bits of a number that   *)
(* has room in n bits add up to it.                                        *)
(***************************************************************************)
LEMMA AddingBound ==
    ASSUME NEW n \in Nat, NEW v \in [1 .. n -> {0, 1}], NEW S \in [0 .. n -> Nat], Adding(S, v, n)
    PROVE  S[n] < 2 ^ n
<1>0. Adds(S, v, n)
  BY AddingStep
<1> DEFINE E == {k \in Nat : k <= n => S[k] < 2 ^ k}
<1>1. 0 \in E
  BY <1>0, PowerZero DEF Adds
<1>2. ASSUME NEW k \in Nat, k \in E PROVE k + 1 \in E
  <2> SUFFICES ASSUME k + 1 <= n PROVE S[k + 1] < 2 ^ (k + 1)
    OBVIOUS
  <2>1. k + 1 \in 1 .. n /\ k + 1 \in 0 .. n /\ k \in 0 .. n /\ (k + 1) - 1 = k /\ S[k] < 2 ^ k
    BY <1>2
  <2> DEFINE p == 2 ^ k
             q == 2 ^ (k + 1)
             b == v[k + 1]
  <2>2. S[k + 1] = S[k] + b * p
    <3>1. S[k + 1] = S[(k + 1) - 1] + v[k + 1] * 2 ^ ((k + 1) - 1)
      BY <1>0, <2>1, Zenon DEF Adds
    <3>2. (k + 1) - 1 = k
      BY <2>1
    <3> QED
      BY <3>1, <3>2, Zenon
  <2>3. q = 2 * p /\ p \in Nat /\ p > 0
    BY PowerStep, PowerPositive
  <2>4. b \in {0, 1} /\ S[k] \in Nat /\ S[k] < p
    BY <2>1
  <2> HIDE DEF p, q, b
  <2>5. S[k + 1] < q
    BY <2>2, <2>3, <2>4
  <2> QED
    BY <2>5 DEF q
<1>3. Nat \subseteq E
  <2> HIDE DEF E
  <2> QED
    BY <1>1, <1>2, Induction
<1> QED
  BY <1>3

LEMMA Halved ==
    ASSUME NEW c \in Nat, NEW p \in Nat, p > 0
    PROVE  c \div (2 * p) = (c \div p) \div 2
<1> DEFINE d == c \div p
           q == c \div (2 * p)
           r == d \div 2
<1>1. d \in Nat /\ p * d <= c /\ c < p * (d + 1)
  OBVIOUS
<1>2. q \in Nat /\ (2 * p) * q <= c /\ c < (2 * p) * (q + 1)
  <2>1. 2 * p \in Nat /\ 2 * p > 0
    OBVIOUS
  <2> DEFINE u == 2 * p
  <2>2. u \in Nat /\ u > 0
    BY <2>1
  <2> HIDE DEF u
  <2>3. c \div u \in Nat /\ u * (c \div u) <= c /\ c < u * ((c \div u) + 1)
    BY <2>2
  <2> QED
    BY <2>3 DEF u
<1> HIDE DEF d, q
<1>3. r \in Nat /\ 2 * r <= d /\ d + 1 <= 2 * (r + 1)
  BY <1>1
<1> HIDE DEF r
<1>4. p * (2 * r) <= p * d /\ p * (d + 1) <= p * (2 * (r + 1))
  BY <1>1, <1>3
<1>5. p * (2 * r) = (2 * p) * r /\ p * (2 * (r + 1)) = (2 * p) * (r + 1)
  BY <1>3
<1>6. (2 * p) * r < (2 * p) * (q + 1)
  BY <1>1, <1>2, <1>3, <1>4, <1>5
<1>7. (2 * p) * q < (2 * p) * (r + 1)
  BY <1>1, <1>2, <1>3, <1>4, <1>5
<1>8. r < q + 1
  BY <1>2, <1>3, <1>6
<1>9. q < r + 1
  BY <1>2, <1>3, <1>7
<1> QED
  BY <1>2, <1>3, <1>8, <1>9 DEF d, q, r

LEMMA AddingDigits ==
    ASSUME NEW n \in Nat, NEW c \in Nat, c < 2 ^ n,
           NEW v, \A m \in 1 .. n : v[m] = (c \div 2 ^ (m - 1)) % 2,
           NEW S \in [0 .. n -> Nat], Adding(S, v, n)
    PROVE  S[n] = c
<1>0. Adds(S, v, n)
  BY AddingStep
<1> DEFINE E == {k \in Nat : k <= n => S[k] + 2 ^ k * (c \div 2 ^ k) = c}
<1>1. 0 \in E
  <2>1. S[0] = 0
    BY <1>0 DEF Adds
  <2>2. c \div 1 = c
    OBVIOUS
  <2> QED
    BY <2>1, <2>2, PowerZero
<1>2. ASSUME NEW k \in Nat, k \in E PROVE k + 1 \in E
  <2> SUFFICES ASSUME k + 1 <= n PROVE S[k + 1] + 2 ^ (k + 1) * (c \div 2 ^ (k + 1)) = c
    OBVIOUS
  <2> DEFINE p == 2 ^ k
             q == 2 ^ (k + 1)
             d == c \div p
             e == c \div q
             b == v[k + 1]
  <2>1. k + 1 \in 1 .. n /\ k + 1 \in 0 .. n /\ k \in 0 .. n /\ (k + 1) - 1 = k /\ S[k] + p * d = c
    BY <1>2
  <2>2. S[k + 1] = S[k] + b * p
    <3>1. S[k + 1] = S[(k + 1) - 1] + v[k + 1] * 2 ^ ((k + 1) - 1)
      BY <1>0, <2>1, Zenon DEF Adds
    <3>2. (k + 1) - 1 = k
      BY <2>1
    <3> QED
      BY <3>1, <3>2, Zenon
  <2>3. q = 2 * p /\ p \in Nat /\ p > 0
    BY PowerStep, PowerPositive
  <2>4. b = d % 2
    BY <2>1
  <2> HIDE DEF p, q, b
  <2>5. d \in Nat
    BY <2>3
  <2>6. e = d \div 2
    BY <2>3, Halved
  <2> HIDE DEF d, e
  <2>7. d = 2 * e + b /\ e \in Nat /\ b \in Nat
    BY <2>4, <2>5, <2>6
  <2>8. q * e = p * (2 * e)
    BY <2>3, <2>7
  <2>9. p * d = p * (2 * e) + b * p
    BY <2>3, <2>7
  <2>10. S[k] \in Nat /\ p * (2 * e) \in Nat /\ b * p \in Nat
    BY <2>1, <2>3, <2>7
  <2>11. S[k + 1] + q * e = c
    BY <2>1, <2>2, <2>8, <2>9, <2>10
  <2> QED
    BY <2>11 DEF q, e
<1>3. Nat \subseteq E
  <2> HIDE DEF E
  <2> QED
    BY <1>1, <1>2, Induction
<1>4. S[n] + 2 ^ n * (c \div 2 ^ n) = c
  BY <1>3
<1> DEFINE p == 2 ^ n
<1>5. p \in Nat /\ p > 0 /\ c < p
  BY PowerPositive
<1>6. c \div p = 0
  <2> HIDE DEF p
  <2> QED
    BY <1>5
<1>7. p * (c \div p) = 0
  <2> HIDE DEF p
  <2> QED
    BY <1>5, <1>6
<1>8. n \in 0 .. n /\ S[n] \in Nat
  OBVIOUS
<1> QED
  BY <1>4, <1>7, <1>8

\* What is decoded has room in nbits bits.
LEMMA DecodedBound ==
    ASSUME Numbers, NEW b \in Seq(Bits)
    PROVE  Decoded(b) \in Seq(0 .. (2 ^ nbits - 1))
<1> DEFINE p == 2 ^ nbits
           V == 0 .. (p - 1)
<1>0. nbits \in Nat /\ nstops \in Nat /\ FrameLen = 1 + nbits + nstops
  BY DEF Numbers, FrameLen
<1>1. CASE Unset
  <2>1. Decoded(b) = <<>>
    BY <1>1, UnsetIs
  <2> HIDE DEF V
  <2>2. <<>> \in Seq(V)
    OBVIOUS
  <2> QED
    BY <2>1, <2>2 DEF V
<1>2. CASE ~Unset
  <2>1. Decoded(b) = [m \in 1 .. Len(Starts(b)) |-> Char(b, Starts(b)[m])]
    BY <1>2, DecodedIs
  <2>2. Len(Starts(b)) \in Nat
    BY StartsRange
  <2>3. ASSUME NEW m \in 1 .. Len(Starts(b)) PROVE Char(b, Starts(b)[m]) \in V
    <3> DEFINE i == Starts(b)[m]
    <3>1. i \in Int /\ 1 <= i /\ (i + FrameLen) - 1 <= Len(b) /\ Len(b) \in Nat
      BY StartsRange
    <3> HIDE DEF i
    <3>2. DataBits(b, i, nbits) \in [1 .. nbits -> {0, 1}]
      <4>1. ASSUME NEW k \in 1 .. nbits PROVE b[i + k] \in Bits
        <5>1. i + k \in 1 .. Len(b)
          BY <1>0, <3>1
        <5> QED
          BY <5>1, ElementOfSeq
      <4> QED
        BY <4>1 DEF DataBits, Bits
    <3>3. PICK S \in [0 .. nbits -> Nat] : Adding(S, DataBits(b, i, nbits), nbits)
      BY <1>0, <3>2, AddingExists
    <3>4. Char(b, i) = S[nbits] % 256
      BY <1>0, <3>3, CharIs
    <3>5. S[nbits] < 2 ^ nbits
      BY <1>0, <3>2, <3>3, AddingBound
    <3>6. S[nbits] \in Nat
      BY <1>0, <3>3
    <3> DEFINE x == S[nbits]
    <3>7. x \in Nat /\ x < p /\ p \in Nat
      BY <1>0, <3>5, <3>6, PowerPositive
    <3> HIDE DEF x, p
    <3>8. x % 256 \in 0 .. (p - 1)
      BY <3>7
    <3> QED
      BY <3>4, <3>8 DEF x, i
  <2> HIDE DEF V
  <2> QED
    BY <2>1, <2>2, <2>3 DEF V
<1> QED
  BY <1>1, <1>2

-----------------------------------------------------------------------------
(***************************************************************************)
(* The invariant.                                                          *)
(***************************************************************************)
\* bits_ is what seen leaves, and the client has what it gives; or nothing has
\* been given since the numbers were changed, for bits_ may hold whole characters
\* of the new format that are only looked for with the next bits.
Received == \/ bits = Rest(seen) /\ chars = Decoded(seen)
            \/ bits = seen /\ chars = <<>>

\* Until then what has been seen, and what has yet to come, is one transmission.
FromStart ==
    settings = 0 =>
        /\ chars = Decoded(seen)
        /\ \E noise \in Noise : seen \o line = Transmission(noise, text, gap, nbits, nstops)

Shape ==
    /\ nbits \in BitCounts /\ nstops \in StopCounts
    /\ bits \in Seq(Bits) /\ line \in Seq(Bits) /\ seen \in Seq(Bits)
    /\ text \in Texts /\ gap \in Gaps
    /\ settings \in 0 .. MaxSettings

IInv == Shape /\ Received /\ FromStart

LEMMA NothingDecoded ==
    ASSUME Numbers
    PROVE  Decoded(<<>>) = <<>> /\ Rest(<<>>) = <<>>
<1>1. FrameLen >= 1 /\ FrameLen \in Nat
  BY DEF FrameLen, Numbers
<1>2. Len(<<>>) = 0
  OBVIOUS
<1>3. ~Tried(<<>>)
  BY <1>1, <1>2 DEF Tried
<1> QED
  BY <1>3 DEF Decoded, Rest

LEMMA TextFacts ==
    ASSUME Shape
    PROVE  Numbers /\ text \in Seq(Nat) /\ gap \in Nat /\ Noise \subseteq Seq(Bits)
<1>1. Numbers /\ gap \in Nat /\ Noise \subseteq Seq(Bits)
  BY CountsAssumption, LineAssumption DEF Shape, Numbers, Bits
<1>2. text \in Seq({c \in 0 .. 255 : \A n \in BitCounts : c < 2 ^ n})
  BY LineAssumption DEF Shape
<1>3. {c \in 0 .. 255 : \A n \in BitCounts : c < 2 ^ n} \subseteq Nat
  OBVIOUS
<1>4. text \in Seq(Nat)
  BY <1>2, <1>3, SeqMonotonic, Zenon
<1> QED
  BY <1>1, <1>4

LEMMA InitIInv == Init => IInv
<1> SUFFICES ASSUME Init PROVE IInv
  OBVIOUS
<1>1. PICK noise \in Noise : line = Transmission(noise, text, gap, nbits, nstops)
  BY DEF Init
<1>2. nbits \in BitCounts /\ nstops \in StopCounts /\ bits = <<>> /\ seen = <<>> /\ chars = <<>>
      /\ text \in Texts /\ gap \in Gaps /\ settings = 0
  BY DEF Init
<1>3. Numbers /\ gap \in Nat /\ noise \in Seq(Bits) /\ text \in Seq(Nat)
  <2>1. Numbers /\ gap \in Nat /\ noise \in Seq(Bits)
    BY <1>2, CountsAssumption, LineAssumption DEF Numbers, Bits
  <2>2. text \in Seq({c \in 0 .. 255 : \A n \in BitCounts : c < 2 ^ n})
    BY <1>2, LineAssumption
  <2>3. {c \in 0 .. 255 : \A n \in BitCounts : c < 2 ^ n} \subseteq Nat
    OBVIOUS
  <2>4. text \in Seq(Nat)
    BY <2>2, <2>3, SeqMonotonic, Zenon
  <2> QED
    BY <2>1, <2>4
<1>4. line \in Seq(Bits)
  BY <1>1, <1>3, TransmissionIs DEF Numbers
<1>5. settings \in 0 .. MaxSettings
  BY <1>2, BoundsAssumption
<1>6. Shape
  BY <1>2, <1>4, <1>5 DEF Shape
<1>7. Received
  BY <1>2, <1>3, NothingDecoded DEF Received
<1>8. <<>> \o line = line
  BY <1>4
<1>9. FromStart
  BY <1>1, <1>2, <1>3, <1>8, NothingDecoded DEF FromStart
<1> QED
  BY <1>6, <1>7, <1>9 DEF IInv

\* A sequence is its first n elements, and what follows them.
LEMMA Parted ==
    ASSUME NEW a \in Seq(Bits), NEW b \in Seq(Bits), NEW n \in 0 .. Len(b)
    PROVE  /\ SubSeq(b, 1, n) \in Seq(Bits) /\ SubSeq(b, n + 1, Len(b)) \in Seq(Bits)
           /\ (a \o SubSeq(b, 1, n)) \o SubSeq(b, n + 1, Len(b)) = a \o b
<1> DEFINE x == SubSeq(b, 1, n)
           y == SubSeq(b, n + 1, Len(b))
           u == a \o x
           v == u \o y
           w == a \o b
<1>0. Len(a) \in Nat /\ Len(b) \in Nat /\ n \in Nat /\ n <= Len(b)
  OBVIOUS
<1>1. y \in Seq(Bits) /\ Len(y) = Len(b) - n /\ \A i \in 1 .. (Len(b) - n) : y[i] = b[n + i]
  BY RestIs
<1>2. x \in Seq(Bits) /\ Len(x) = n /\ \A i \in 1 .. n : x[i] = b[i]
  <2>1. \A i \in 1 .. n : b[i] \in Bits
    OBVIOUS
  <2>2. 1 \in Int /\ n \in Int
    OBVIOUS
  <2>3. /\ x \in Seq(Bits)
        /\ Len(x) = IF 1 <= n THEN (n - 1) + 1 ELSE 0
        /\ \A i \in 1 .. ((n - 1) + 1) : x[i] = b[(1 + i) - 1]
    BY <2>1, <2>2, SubSeqProperties
  <2>4. (n - 1) + 1 = n /\ \A i \in 1 .. n : (1 + i) - 1 = i
    OBVIOUS
  <2> HIDE DEF x
  <2> QED
    BY <1>0, <2>3, <2>4
<1> HIDE DEF x, y
<1>3. u \in Seq(Bits) /\ Len(u) = Len(a) + n
      /\ \A i \in 1 .. (Len(a) + n) : u[i] = IF i <= Len(a) THEN a[i] ELSE x[i - Len(a)]
  <2>1. /\ u \in Seq(Bits) /\ Len(u) = Len(a) + Len(x)
        /\ \A i \in 1 .. (Len(a) + Len(x)) : u[i] = IF i <= Len(a) THEN a[i] ELSE x[i - Len(a)]
    BY <1>2, ConcatProperties
  <2> HIDE DEF u
  <2> QED
    BY <1>2, <2>1
<1> HIDE DEF u
<1>4. v \in Seq(Bits) /\ Len(v) = Len(a) + Len(b)
      /\ \A i \in 1 .. (Len(a) + Len(b)) : v[i] = IF i <= Len(a) + n THEN u[i] ELSE y[i - (Len(a) + n)]
  <2>1. /\ v \in Seq(Bits) /\ Len(v) = Len(u) + Len(y)
        /\ \A i \in 1 .. (Len(u) + Len(y)) : v[i] = IF i <= Len(u) THEN u[i] ELSE y[i - Len(u)]
    BY <1>1, <1>3, ConcatProperties
  <2>2. Len(u) = Len(a) + n /\ Len(u) + Len(y) = Len(a) + Len(b)
    BY <1>0, <1>1, <1>3
  <2> HIDE DEF v
  <2> QED
    BY <2>1, <2>2
<1>5. w \in Seq(Bits) /\ Len(w) = Len(a) + Len(b)
      /\ \A i \in 1 .. (Len(a) + Len(b)) : w[i] = IF i <= Len(a) THEN a[i] ELSE b[i - Len(a)]
  BY ConcatProperties
<1> HIDE DEF v, w
<1>6. ASSUME NEW i \in 1 .. Len(v) PROVE v[i] = w[i]
  <2>1. i \in 1 .. (Len(a) + Len(b)) /\ i \in Nat
    BY <1>0, <1>4
  <2>2. CASE i <= Len(a)
    <3>1. i <= Len(a) + n /\ i \in 1 .. (Len(a) + n)
      BY <1>0, <2>1, <2>2
    <3> QED
      BY <1>3, <1>4, <1>5, <2>1, <2>2, <3>1
  <2>3. CASE i > Len(a) /\ i <= Len(a) + n
    <3>1. i \in 1 .. (Len(a) + n) /\ ~(i <= Len(a)) /\ i - Len(a) \in 1 .. n
      BY <1>0, <2>1, <2>3
    <3> QED
      BY <1>2, <1>3, <1>4, <1>5, <2>1, <2>3, <3>1
  <2>4. CASE i > Len(a) + n
    <3>1. ~(i <= Len(a)) /\ ~(i <= Len(a) + n) /\ i - (Len(a) + n) \in 1 .. (Len(b) - n)
          /\ n + (i - (Len(a) + n)) = i - Len(a)
      BY <1>0, <2>1, <2>4
    <3> QED
      BY <1>1, <1>4, <1>5, <2>1, <3>1
  <2> QED
    BY <1>0, <2>1, <2>2, <2>3, <2>4
<1>7. v = w
  BY <1>4, <1>5, <1>6, SeqEqual
<1> QED
  BY <1>1, <1>2, <1>7 DEF v, w, u, x, y

LEMMA RestRange ==
    ASSUME Numbers, NEW b \in Seq(Bits)
    PROVE  Rest(b) \in Seq(Bits)
<1>1. CASE Unset
  BY <1>1, UnsetIs
<1>2. CASE ~Unset
  <2>1. Rest(b) = SubSeq(b, Erased(b) + 1, Len(b)) /\ Erased(b) \in 0 .. Len(b)
    BY <1>2, DecodedIs, ErasedRange
  <2> QED
    BY <2>1, RestIs
<1> QED
  BY <1>1, <1>2

\* One call gives what all that has been seen gives, but for what was given before.
LEMMA ReceiveAll ==
    ASSUME Numbers, Received, seen \in Seq(Bits), bits \in Seq(Bits), NEW b \in Seq(Bits), Receive(b)
    PROVE  /\ bits' = Rest(seen \o b) /\ chars' = Decoded(seen \o b) /\ seen' = seen \o b
           /\ bits' \in Seq(Bits) /\ seen' \in Seq(Bits)
<1>1. bits' = Rest(bits \o b) /\ chars' = chars \o Decoded(bits \o b) /\ seen' = seen \o b
  BY DEF Receive
<1>2. seen \o b \in Seq(Bits)
  BY JoinedBits
<1>3. CASE bits = Rest(seen) /\ chars = Decoded(seen)
  <2>1. Rest(seen \o b) = Rest(Rest(seen) \o b) /\ Decoded(seen \o b) = Decoded(seen) \o Decoded(Rest(seen) \o b)
    BY RestSplit, DecodedSplit
  <2> QED
    BY <1>1, <1>2, <1>3, <2>1, RestRange
<1>4. CASE bits = seen /\ chars = <<>>
  <2>1. Decoded(seen \o b) \in Seq(0 .. 255)
    BY <1>2, DecodedRange
  <2>2. <<>> \o Decoded(seen \o b) = Decoded(seen \o b)
    BY <2>1
  <2> QED
    BY <1>1, <1>2, <1>4, <2>2, RestRange
<1> QED
  BY <1>3, <1>4 DEF Received

\* The operators do not depend on anything else.
LEMMA SameFormat ==
    ASSUME nbits' = nbits, nstops' = nstops
    PROVE  Decoded(seen)' = Decoded(seen') /\ Rest(seen)' = Rest(seen')
  BY DEF Decoded, Rest, Erased, UpToLastStop, Tried, Char, CharAt, Starts, IsCharSeq, IsStart, FrameLen

LEMMA ProcessIInv ==
    ASSUME IInv, NEW n \in 1 .. MaxChunk, Process(n)
    PROVE  IInv' /\ (chars = Decoded(seen))'
<1>0. Numbers /\ text \in Seq(Nat) /\ gap \in Nat
  BY TextFacts DEF IInv
<1>1. /\ nbits \in BitCounts /\ nstops \in StopCounts
      /\ bits \in Seq(Bits) /\ line \in Seq(Bits) /\ seen \in Seq(Bits)
      /\ text \in Texts /\ gap \in Gaps
      /\ settings \in 0 .. MaxSettings
      /\ Received /\ FromStart
  BY DEF IInv, Shape
<1>2. n \in 0 .. Len(line) /\ Receive(SubSeq(line, 1, n)) /\ line' = SubSeq(line, n + 1, Len(line))
  <2>1. n <= Len(line) /\ n \in Nat
    BY DEF Process
  <2> QED
    BY <1>1, <2>1 DEF Process
<1>3. nbits' = nbits /\ nstops' = nstops /\ text' = text /\ gap' = gap /\ settings' = settings
  BY <1>2 DEF Receive
<1> DEFINE b == SubSeq(line, 1, n)
<1>4. b \in Seq(Bits) /\ line' \in Seq(Bits) /\ (seen \o b) \o line' = seen \o line
  BY <1>1, <1>2, Parted
<1> HIDE DEF b
<1>5. Receive(b)
  BY <1>2 DEF b
<1>6. /\ bits' = Rest(seen \o b) /\ chars' = Decoded(seen \o b) /\ seen' = seen \o b
      /\ bits' \in Seq(Bits) /\ seen' \in Seq(Bits)
  BY <1>0, <1>1, <1>4, <1>5, ReceiveAll
<1>7. bits' = Rest(seen') /\ chars' = Decoded(seen')
  BY <1>6
<1>8. bits' = Rest(seen)' /\ chars' = Decoded(seen)'
  BY <1>3, <1>7, SameFormat
<1>9. Shape'
  BY <1>1, <1>3, <1>4, <1>6 DEF Shape
<1>10. Received'
  BY <1>8 DEF Received
<1>11. FromStart'
  <2> SUFFICES ASSUME settings' = 0
               PROVE  /\ chars' = Decoded(seen)'
                      /\ \E noise \in Noise :
                            seen' \o line' = Transmission(noise, text', gap', nbits', nstops')
    BY DEF FromStart
  <2>1. PICK noise \in Noise : seen \o line = Transmission(noise, text, gap, nbits, nstops)
    BY <1>1, <1>3 DEF FromStart
  <2>2. seen' \o line' = Transmission(noise, text', gap', nbits', nstops')
    BY <1>3, <1>4, <1>6, <2>1
  <2> QED
    BY <1>8, <2>2
<1> QED
  BY <1>8, <1>9, <1>10, <1>11 DEF IInv

LEMMA SetIInv ==
    ASSUME IInv, SetBits \/ SetStops
    PROVE  IInv' /\ line' = line
<1>1. /\ settings < MaxSettings /\ settings' = settings + 1
      /\ seen' = bits /\ chars' = <<>>
      /\ bits' = bits /\ line' = line /\ text' = text /\ gap' = gap
      /\ nbits' \in BitCounts /\ nstops' \in StopCounts
  BY DEF SetBits, SetStops, Set, IInv, Shape
<1>2. settings' \in 0 .. MaxSettings /\ settings' # 0
  BY <1>1, BoundsAssumption DEF IInv, Shape
<1>3. Shape'
  BY <1>1, <1>2 DEF IInv, Shape
<1>4. Received'
  BY <1>1 DEF Received
<1>5. FromStart'
  BY <1>2 DEF FromStart
<1> QED
  BY <1>1, <1>3, <1>4, <1>5 DEF IInv

LEMMA StutterIInv ==
    ASSUME IInv, UNCHANGED vars
    PROVE  IInv'
<1>1. UNCHANGED <<nbits, nstops, bits, line, text, gap, settings, seen, chars>>
  BY DEF vars
<1>2. Decoded(seen)' = Decoded(seen) /\ Rest(seen)' = Rest(seen)
  BY <1>1, SameFormat
<1> QED
  BY <1>1, <1>2 DEF IInv, Shape, Received, FromStart

THEOREM Inductive == Spec => []IInv
<1>1. ASSUME IInv, [Next]_vars PROVE IInv'
  BY <1>1, ProcessIInv, SetIInv, StutterIInv DEF Next
<1> QED
  BY <1>1, InitIInv, PTL DEF Spec

\* Everything keeps its range: what a client gets are values that have room both in
\* a character of the format and in a char.
THEOREM TypeCorrect == Spec => []TypeOK
<1>1. ASSUME IInv PROVE TypeOK
  <2>1. Numbers /\ seen \in Seq(Bits)
    BY <1>1, TextFacts DEF IInv, Shape
  <2>2. chars \in Seq(0 .. 255) /\ chars \in Seq(0 .. (2 ^ nbits - 1))
    <3>1. CASE chars = Decoded(seen)
      BY <2>1, <3>1, DecodedRange, DecodedBound
    <3>2. CASE chars = <<>>
      <4>1. \A V : <<>> \in Seq(V)
        OBVIOUS
      <4> QED
        BY <3>2, <4>1, Zenon
    <3> QED
      BY <1>1, <3>1, <3>2 DEF IInv, Received
  <2> QED
    BY <1>1, <2>2 DEF IInv, Shape, TypeOK, Bits
<1> QED
  BY <1>1, Inductive, PTL

\* After each call the client has got, since the last change of the format, what one
\* call with all the bits would have given.
THEOREM AnyChunks == Spec => ChunkIndependent
<1>1. ASSUME IInv, [Next]_vars PROVE [line' # line => chars' = Decoded(seen)']_vars
  BY <1>1, ProcessIInv, SetIInv DEF Next, vars
<1> QED
  BY <1>1, Inductive, PTL DEF Spec, ChunkIndependent

-----------------------------------------------------------------------------
(***************************************************************************)
(* Noise is forgotten: bits in which no character begins, whatever follows.*)
(***************************************************************************)
Quiet(b) ==
    /\ Heads(b) = {}
    /\ \A i \in 1 .. Len(b) : i + nbits + nstops > Len(b) => b[i] = 1

LEMMA QuietHeads ==
    ASSUME Numbers, NEW b \in Seq(Bits), Quiet(b), NEW c \in Seq(Bits), NEW i \in 1 .. Len(b)
    PROVE  i \notin Heads(b \o c)
<1> DEFINE w == b \o c
<1>1. w \in Seq(Bits) /\ Len(w) = Len(b) + Len(c) /\ Len(b) \in Nat /\ Len(c) \in Nat
      /\ \A j \in 1 .. Len(b) : w[j] = b[j]
  BY JoinedBits
<1>2. nbits \in Nat /\ nstops \in Nat /\ FrameLen = 1 + nbits + nstops
  BY DEF Numbers, FrameLen
<1> HIDE DEF w
<1> SUFFICES ASSUME i \in Heads(w) PROVE FALSE
  BY DEF w
<1>3. w[i] = 0
  BY DEF Heads, IsCharSeq, IsStart
<1>4. b[i] = 0
  BY <1>1, <1>3
<1>5. i + nbits + nstops <= Len(b)
  BY <1>1, <1>2, <1>4, SMTT(40) DEF Quiet
<1>6. i \in Nat /\ i >= 1 /\ 0 \in Nat /\ 0 + i = i
      /\ (i + FrameLen) - 1 <= Len(b) /\ ((0 + i) + FrameLen) - 1 <= Len(w)
  BY <1>1, <1>2, <1>5
<1>7. \A j \in i .. ((i + FrameLen) - 1) : b[j] = w[0 + j]
  <2>1. \A j \in i .. ((i + FrameLen) - 1) : j \in 1 .. Len(b) /\ 0 + j = j
    BY <1>1, <1>2, <1>6
  <2> QED
    BY <1>1, <2>1
<1>8. i \in Heads(b) <=> 0 + i \in Heads(w)
  BY <1>1, <1>6, <1>7, HeadMoves
<1> QED
  BY <1>6, <1>8 DEF Quiet

\* What is found behind them is found as if they were not there.
LEMMA QuietStarts ==
    ASSUME Numbers, NEW b \in Seq(Bits), Quiet(b), NEW c \in Seq(Bits)
    PROVE  Starts(b \o c) = Moved(Starts(c), Len(b))
<1> DEFINE w == b \o c
<1>1. w \in Seq(Bits) /\ Len(w) = Len(b) + Len(c) /\ Len(b) \in Nat /\ Len(c) \in Nat
  BY JoinedBits
<1>2. \A i \in 1 .. Len(c) : c[i] = w[Len(b) + i]
  <2>1. \A j \in 1 .. (Len(b) + Len(c)) : w[j] = IF j <= Len(b) THEN b[j] ELSE c[j - Len(b)]
    BY ConcatProperties
  <2>2. \A i \in 1 .. Len(c) : /\ Len(b) + i \in 1 .. (Len(b) + Len(c))
                              /\ ~(Len(b) + i <= Len(b)) /\ (Len(b) + i) - Len(b) = i
    BY <1>1
  <2> HIDE DEF w
  <2> QED
    BY <2>1, <2>2
<1>3. \A i \in 1 .. Len(b) : i \notin Heads(w)
  BY QuietHeads
<1> HIDE DEF w
<1>4. PICK g : Scanning(g, Heads(w), Len(w), FrameLen) /\ Starts(w) = g[1]
  BY <1>1, StartsIs
<1>5. g[1] = g[Len(b) + 1]
  <2>1. Len(b) \in 0 .. Len(w) /\ Len(w) \in Nat
    BY <1>1
  <2> QED
    BY <1>3, <1>4, <2>1, ScanSkip
<1>6. g[Len(b) + 1] = Moved(Starts(c), Len(b))
  BY <1>1, <1>2, <1>4, ScanMoved, ZenonT(60)
<1> QED
  BY <1>4, <1>5, <1>6 DEF w

\* A whole character in the bits would have been taken.
LEMMA RestHeadless ==
    ASSUME Numbers, ~Unset, NEW a \in Seq(Bits)
    PROVE  Heads(Rest(a)) = {}
<1> DEFINE r == Rest(a)
           e == Erased(a)
<1>1. r \in Seq(Bits)
  BY RestRange
<1>2. r \o <<>> = r /\ a \o <<>> = a /\ <<>> \in Seq(Bits)
  BY <1>1, ConcatEmptySeq
<1>3. Starts(a \o <<>>) = Starts(a) \o Moved(Starts(r \o <<>>), e) /\ e \in Nat
  BY <1>2, StartsSplit
<1>4. Starts(a) = Starts(a) \o Moved(Starts(r), e)
  BY <1>2, <1>3
<1> HIDE DEF r, e
<1>5. Starts(a) \in Seq(Int) /\ Starts(r) \in Seq(Int)
  BY <1>1, StartsRange
<1>6. Moved(Starts(r), e) \in Seq(Int) /\ Len(Moved(Starts(r), e)) = Len(Starts(r))
  <2>1. e \in Int /\ 0 \in Int
    BY <1>3
  <2> QED
    BY <1>5, <2>1, MovedFacts
<1>7. Len(Starts(a) \o Moved(Starts(r), e)) = Len(Starts(a)) + Len(Starts(r))
  <2> DEFINE u == Starts(a)
             v == Moved(Starts(r), e)
  <2>1. u \in Seq(Int) /\ v \in Seq(Int)
    BY <1>5, <1>6
  <2> HIDE DEF u, v
  <2>2. Len(u \o v) = Len(u) + Len(v)
    BY <2>1, ConcatProperties
  <2> QED
    BY <1>6, <2>2 DEF u, v
<1>8. Len(Starts(r)) = 0
  BY <1>4, <1>5, <1>7
<1>9. Starts(r) = <<>>
  BY <1>5, <1>8
<1>10. PICK f : Scanning(f, Heads(r), Len(r), FrameLen) /\ Starts(r) = f[1]
  BY <1>1, StartsIs
<1>11. FrameLen \in Nat /\ FrameLen >= 1 /\ Len(r) \in Nat /\ Fits(Heads(r), Len(r), FrameLen)
  BY <1>1, HeadsFit
<1>12. Heads(r) = {}
  BY <1>9, <1>10, <1>11, ScanNothing
<1> QED
  BY <1>12 DEF r

\* Behind an idle line of the length of the data and stop bits, whatever the noise.
LEMMA PreambleQuiet ==
    ASSUME Numbers, ~Unset, NEW noise \in Seq(Bits)
    PROVE  Quiet(Rest(Preamble(noise, nbits, nstops)))
<1> DEFINE n == nbits + nstops
           a == Preamble(noise, nbits, nstops)
           I == Idle(n)
           e == Erased(a)
           r == Rest(a)
<1>1. nbits \in Nat /\ nstops \in Nat /\ n \in Nat
  BY DEF Numbers
<1>2. I \in Seq(Bits) /\ Len(I) = n /\ \A i \in 1 .. n : I[i] = 1
  BY <1>1, IdleFacts
<1>3. a = noise \o I
  BY DEF Preamble
<1> HIDE DEF a, I
<1>4. a \in Seq(Bits) /\ Len(a) = Len(noise) + n /\ Len(noise) \in Nat
      /\ \A i \in 1 .. (Len(noise) + n) : a[i] = IF i <= Len(noise) THEN noise[i] ELSE I[i - Len(noise)]
  <2>1. noise \o I \in Seq(Bits) /\ Len(noise \o I) = Len(noise) + Len(I)
        /\ \A i \in 1 .. (Len(noise) + Len(I)) : (noise \o I)[i] = IF i <= Len(noise) THEN noise[i] ELSE I[i - Len(noise)]
    BY <1>2, ConcatProperties
  <2> HIDE DEF n
  <2> QED
    BY <1>2, <1>3, <2>1
<1>5. Heads(r) = {}
  BY <1>4, RestHeadless
<1>6. r = SubSeq(a, e + 1, Len(a)) /\ e \in 0 .. Len(a)
  BY <1>4, DecodedIs, ErasedRange
<1> HIDE DEF r, e
<1>7. r \in Seq(Bits) /\ Len(r) = Len(a) - e /\ \A i \in 1 .. (Len(a) - e) : r[i] = a[e + i]
  BY <1>4, <1>6, RestIs
<1>8. ASSUME NEW i \in 1 .. Len(r), i + nbits + nstops > Len(r) PROVE r[i] = 1
  <2>1. i \in 1 .. (Len(a) - e) /\ e + i \in 1 .. (Len(noise) + n) /\ i + n > Len(a) - e
    BY <1>1, <1>4, <1>6, <1>7, <1>8
  <2>2. ~(e + i <= Len(noise)) /\ (e + i) - Len(noise) \in 1 .. n
    BY <1>1, <1>4, <1>6, <2>1
  <2>3. r[i] = I[(e + i) - Len(noise)]
    BY <1>4, <1>7, <2>1, <2>2
  <2> HIDE DEF n
  <2> QED
    BY <1>2, <2>2, <2>3
<1>9. Quiet(r)
  BY <1>5, <1>8 DEF Quiet
<1> QED
  BY <1>9 DEF r, a

\* The bits z of a character c of which at least the frame is there.
LEMMA FrameFound ==
    ASSUME Numbers, ~Unset, NEW c \in 0 .. 255, c < 2 ^ nbits, NEW idle \in Nat,
           NEW z \in Seq(Bits), FrameLen <= Len(z), Len(z) <= FrameLen + idle,
           \A i \in 1 .. Len(z) : z[i] = Sent(c, nbits, nstops, idle)[i]
    PROVE  Starts(z) = <<1>> /\ Decoded(z) = <<c>>
<1> DEFINE x == Sent(c, nbits, nstops, idle)
           L == FrameLen
           N == Len(z)
<1>1. nbits \in Nat /\ nstops \in Nat /\ L = 1 + nbits + nstops /\ N \in Nat /\ L \in Nat /\ L >= 1
      /\ L <= N /\ N <= L + idle
  BY HeadsFit DEF Numbers, FrameLen
<1>2. /\ x[1] = 0
      /\ \A m \in 1 .. nbits : x[1 + m] = (c \div 2 ^ (m - 1)) % 2
      /\ \A k \in (nbits + 2) .. ((1 + nbits + nstops) + idle) : x[k] = 1
  <2>1. c \in Nat
    OBVIOUS
  <2>2. nbits \in Nat /\ nstops \in Nat /\ idle \in Nat
    BY <1>1
  <2>3. IsSent(x, c, nbits, nstops, idle)
    BY <2>1, <2>2, SentFacts
  <2> QED
    BY <2>3, Zenon DEF IsSent
<1> HIDE DEF x
<1>3. \A i \in 1 .. N : z[i] = x[i]
  BY DEF x
<1>4. \A k \in (nbits + 2) .. N : z[k] = 1
  <2>1. \A k \in (nbits + 2) .. N : k \in 1 .. N /\ k \in (nbits + 2) .. ((1 + nbits + nstops) + idle)
    BY <1>1
  <2> QED
    BY <1>2, <1>3, <2>1
<1>5. 1 \in Heads(z)
  <2>1. 1 \in 1 .. N
    BY <1>1
  <2>2. z[1] = 0
    BY <1>2, <1>3, <2>1
  <2>3. \A s \in 1 .. nstops : z[1 + nbits + s] = 1
    <3>1. \A s \in 1 .. nstops : 1 + nbits + s \in (nbits + 2) .. N
      BY <1>1
    <3> QED
      BY <1>4, <3>1
  <2>4. 1 + FrameLen - 1 <= Len(z)
    BY <1>1
  <2> QED
    BY <2>1, <2>2, <2>3, <2>4 DEF Heads, IsCharSeq, IsStart
<1>6. \A i \in (1 + L) .. N : i \notin Heads(z)
  <2> SUFFICES ASSUME NEW i \in (1 + L) .. N PROVE z[i] # 0
    BY DEF Heads, IsCharSeq, IsStart
  <2>1. i \in (nbits + 2) .. N
    <3>1. nstops >= 1 \/ nstops = 0
      BY <1>1
    <3> QED
      BY <1>1
  <2> QED
    BY <1>4, <2>1
<1>7. PICK f : Scanning(f, Heads(z), N, L) /\ Starts(z) = f[1]
  BY StartsIs
<1> HIDE DEF L, N
<1>8. f[1 + L] = <<>>
  <2>1. 1 + L \in 1 .. (N + 1)
    BY <1>1
  <2> QED
    BY <1>1, <1>6, <1>7, <2>1, ScanNone
<1>9. Starts(z) = <<1>>
  <2>1. 1 \in 1 .. N
    BY <1>1
  <2>2. f[1] = IF 1 \in Heads(z) THEN <<1>> \o f[1 + L] ELSE f[1 + 1]
    BY <1>1, <1>7, <2>1, ScanStep
  <2>3. f[1] = <<1>> \o <<>>
    BY <1>5, <1>8, <2>2
  <2>4. <<1>> \o <<>> = <<1>>
    OBVIOUS
  <2> QED
    BY <1>7, <2>3, <2>4
<1>10. Char(z, 1) = c
  <2> DEFINE v == DataBits(z, 1, nbits)
  <2>1. \A m \in 1 .. nbits : 1 + m \in 1 .. N
    BY <1>1
  <2>2. \A m \in 1 .. nbits : v[m] = (c \div 2 ^ (m - 1)) % 2
    BY <1>2, <1>3, <2>1 DEF DataBits
  <2>3. v \in [1 .. nbits -> {0, 1}]
    BY <2>1, ElementOfSeq DEF DataBits, Bits, N
  <2> HIDE DEF v
  <2>4. PICK S \in [0 .. nbits -> Nat] : Adding(S, v, nbits)
    BY <1>1, <2>3, AddingExists
  <2>5. S[nbits] = c
    <3>1. c \in Nat
      OBVIOUS
    <3> QED
      BY <1>1, <2>2, <2>4, <3>1, AddingDigits, ZenonT(60)
  <2>6. Char(z, 1) = S[nbits] % 256
    BY <1>1, <2>4, CharIs DEF v
  <2>7. c % 256 = c
    BY SMTT(40)
  <2> QED
    BY <2>5, <2>6, <2>7
<1>11. Decoded(z) = <<c>>
  <2>1. Decoded(z) = [m \in 1 .. Len(Starts(z)) |-> Char(z, Starts(z)[m])]
    BY DecodedIs
  <2>2. Len(<<1>>) = 1 /\ 1 .. 1 = {1} /\ <<1>>[1] = 1
    OBVIOUS
  <2>3. Decoded(z) = [m \in 1 .. 1 |-> Char(z, <<1>>[m])]
    BY <1>9, <2>1, <2>2
  <2>4. Decoded(z) = [m \in 1 .. 1 |-> c]
    <3>1. \A m \in 1 .. 1 : Char(z, <<1>>[m]) = c
      BY <1>10, <2>2
    <3> QED
      BY <2>3, <3>1
  <2>5. <<c>> = [m \in 1 .. 1 |-> c]
    OBVIOUS
  <2> QED
    BY <2>4, <2>5
<1> QED
  BY <1>9, <1>11

\* Quiet bits decode to nothing.
LEMMA QuietDecoded ==
    ASSUME Numbers, ~Unset, NEW b \in Seq(Bits), Quiet(b), NEW c \in Seq(Bits)
    PROVE  Decoded(b \o c) = Decoded(c)
<1> DEFINE w == b \o c
           e == Len(b)
           R == Starts(c)
           W == Starts(w)
<1>1. w \in Seq(Bits) /\ Len(w) = e + Len(c) /\ e \in Nat /\ Len(c) \in Nat
  BY JoinedBits
<1>2. \A i \in 1 .. Len(c) : c[i] = w[e + i]
  <2>1. \A j \in 1 .. (Len(b) + Len(c)) : w[j] = IF j <= Len(b) THEN b[j] ELSE c[j - Len(b)]
    BY ConcatProperties
  <2>2. \A i \in 1 .. Len(c) : /\ Len(b) + i \in 1 .. (Len(b) + Len(c))
                              /\ ~(Len(b) + i <= Len(b)) /\ (Len(b) + i) - Len(b) = i
    BY <1>1
  <2> HIDE DEF w
  <2> QED
    BY <2>1, <2>2
<1>3. W = Moved(R, e)
  BY QuietStarts
<1> HIDE DEF w, e
<1>4. Decoded(w) = [m \in 1 .. Len(W) |-> Char(w, W[m])]
  BY <1>1, DecodedIs
<1>5. Decoded(c) = [m \in 1 .. Len(R) |-> Char(c, R[m])]
  BY DecodedIs
<1>6. R \in Seq(Int) /\ \A m \in 1 .. Len(R) : R[m] \in Int /\ 1 <= R[m] /\ (R[m] + FrameLen) - 1 <= Len(c)
  BY StartsRange
<1>7. FrameLen \in Nat /\ FrameLen >= 1
  BY HeadsFit
<1>8. ASSUME NEW m \in 1 .. Len(R) PROVE Char(w, e + R[m]) = Char(c, R[m])
  <2>1. R[m] \in Nat /\ R[m] >= 1 /\ (R[m] + FrameLen) - 1 <= Len(c)
    BY <1>6
  <2>2. \A j \in R[m] .. ((R[m] + FrameLen) - 1) : c[j] = w[e + j]
    <3>1. \A j \in R[m] .. ((R[m] + FrameLen) - 1) : j \in 1 .. Len(c)
      BY <1>1, <1>7, <2>1
    <3> QED
      BY <1>2, <3>1
  <2> HIDE DEF R
  <2> QED
    BY <1>1, <2>1, <2>2, CharMoves
<1> HIDE DEF R, W
<1>9. Len(W) = Len(R) /\ \A m \in 1 .. Len(R) : W[m] = e + R[m]
  <2>1. e \in Int /\ 0 \in Int
    BY <1>1
  <2>2. Len(Moved(R, e)) = Len(R)
    BY <1>6, <2>1, MovedFacts
  <2> QED
    BY <1>3, <2>2 DEF Moved
<1>10. \A m \in 1 .. Len(R) : Char(w, W[m]) = Char(c, R[m])
  BY <1>8, <1>9
<1>11. Decoded(w) = Decoded(c)
  BY <1>4, <1>5, <1>9, <1>10
<1> QED
  BY <1>11 DEF w

\* z is the beginning of what is sent for c, or all of it.
BeginsSent(z, c, idle) ==
    /\ z \in Seq(Bits) /\ Len(z) <= FrameLen + idle
    /\ \A i \in 1 .. Len(z) : z[i] = Sent(c, nbits, nstops, idle)[i]

LEMMA SentDecoded ==
    ASSUME Numbers, ~Unset, NEW a \in Seq(Bits), Quiet(Rest(a)),
           NEW c \in 0 .. 255, c < 2 ^ nbits, NEW idle \in Nat, NEW z, BeginsSent(z, c, idle)
    PROVE  Decoded(a \o z) = IF FrameLen <= Len(z) THEN Decoded(a) \o <<c>> ELSE Decoded(a)
<1>1. z \in Seq(Bits)
  BY DEF BeginsSent
<1>2. Decoded(a \o z) = Decoded(a) \o Decoded(z)
  <2>1. Decoded(a \o z) = Decoded(a) \o Decoded(Rest(a) \o z)
    BY <1>1, DecodedSplit
  <2>2. Decoded(Rest(a) \o z) = Decoded(z)
    BY <1>1, RestRange, QuietDecoded
  <2> QED
    BY <2>1, <2>2
<1>3. CASE FrameLen <= Len(z)
  <2>1. Decoded(z) = <<c>>
    BY <1>1, <1>3, FrameFound DEF BeginsSent
  <2> QED
    BY <1>2, <1>3, <2>1
<1>4. CASE ~(FrameLen <= Len(z))
  <2>1. Len(z) < FrameLen
    BY <1>1, <1>4, HeadsFit
  <2>2. Starts(z) = <<>>
    BY <1>1, <2>1, TooFew
  <2>3. Decoded(z) = [m \in 1 .. Len(Starts(z)) |-> Char(z, Starts(z)[m])]
    BY <1>1, DecodedIs
  <2>4. Len(<<>>) = 0 /\ 1 .. 0 = {}
    OBVIOUS
  <2>5. Decoded(z) = <<>>
    BY <2>2, <2>3, <2>4
  <2>6. Decoded(a) \in Seq(0 .. 255)
    BY DecodedRange
  <2>7. Decoded(a) \o <<>> = Decoded(a)
    BY <2>6, ConcatEmptySeq
  <2> QED
    BY <1>2, <1>4, <2>5, <2>7
<1> QED
  BY <1>3, <1>4

\* When all of it is there, only idle bits are left.
LEMMA SentQuiet ==
    ASSUME Numbers, ~Unset, NEW a \in Seq(Bits), Quiet(Rest(a)),
           NEW c \in 0 .. 255, c < 2 ^ nbits, NEW idle \in Nat
    PROVE  Quiet(Rest(a \o Sent(c, nbits, nstops, idle)))
<1> DEFINE x == Sent(c, nbits, nstops, idle)
           b == Rest(a)
           w == b \o x
           r == Rest(w)
           L == FrameLen
<1>1. nbits \in Nat /\ nstops \in Nat /\ L = 1 + nbits + nstops /\ L \in Nat /\ L >= 1 /\ c \in Nat
  BY HeadsFit DEF Numbers, FrameLen
<1>2. IsSent(x, c, nbits, nstops, idle)
  BY <1>1, SentFacts
<1>3. x \in Seq(Bits) /\ Len(x) = L + idle
  BY <1>1, <1>2 DEF IsSent
<1>4. \A k \in (L + 1) .. (L + idle) : x[k] = 1
  <2>1. \A k \in (L + 1) .. (L + idle) : k \in (nbits + 2) .. ((1 + nbits + nstops) + idle)
    BY <1>1
  <2> QED
    BY <1>2, <2>1 DEF IsSent
<1>5. Starts(x) = <<1>>
  <2>1. FrameLen <= Len(x) /\ Len(x) <= FrameLen + idle
    BY <1>1, <1>3
  <2>2. \A i \in 1 .. Len(x) : x[i] = Sent(c, nbits, nstops, idle)[i]
    OBVIOUS
  <2> HIDE DEF x, L
  <2> QED
    BY <1>3, <2>1, <2>2, FrameFound
<1>6. Rest(a \o x) = r
  <2> HIDE DEF x
  <2> QED
    BY <1>3, RestSplit
<1>7. b \in Seq(Bits) /\ Quiet(b)
  BY RestRange
<1> HIDE DEF x, b
<1>8. w \in Seq(Bits) /\ Len(w) = Len(b) + Len(x) /\ Len(b) \in Nat
      /\ \A j \in 1 .. (Len(b) + Len(x)) : w[j] = IF j <= Len(b) THEN b[j] ELSE x[j - Len(b)]
  <2>1. b \in Seq(Bits) /\ x \in Seq(Bits)
    BY <1>3, <1>7
  <2>2. w \in Seq(Bits) /\ Len(w) = Len(b) + Len(x)
        /\ \A j \in 1 .. (Len(b) + Len(x)) : w[j] = IF j <= Len(b) THEN b[j] ELSE x[j - Len(b)]
    BY <2>1, ConcatProperties
  <2>3. Len(b) \in Nat
    BY <1>7
  <2> HIDE DEF w
  <2> QED
    BY <2>2, <2>3
<1>9. Starts(w) = <<Len(b) + 1>>
  <2>1. Starts(w) = Moved(<<1>>, Len(b))
    BY <1>3, <1>5, <1>7, QuietStarts
  <2>2. Len(<<1>>) = 1 /\ 1 .. 1 = {1} /\ <<1>>[1] = 1
    OBVIOUS
  <2>3. Moved(<<1>>, Len(b)) = [m \in {1} |-> Len(b) + 1]
    BY <2>2 DEF Moved
  <2>4. <<Len(b) + 1>> = [m \in {1} |-> Len(b) + 1]
    BY <2>2
  <2> QED
    BY <2>1, <2>3, <2>4
<1> HIDE DEF w
<1>10. Erased(w) = Len(b) + L
  <2>1. Erased(w) \in 0 .. Len(w) /\ Erased(w) + 1 = Behind(Starts(w), 1, FrameLen)
    BY <1>8, ErasedRange
  <2>2. <<Len(b) + 1>> # <<>> /\ Len(<<Len(b) + 1>>) = 1 /\ <<Len(b) + 1>>[1] = Len(b) + 1
    OBVIOUS
  <2>3. Behind(Starts(w), 1, FrameLen) = (Len(b) + 1) + FrameLen
    BY <1>9, <2>2 DEF Behind
  <2> DEFINE k == Erased(w)
             n == Len(b)
  <2>4. k \in Int /\ n \in Int /\ L \in Int /\ k + 1 = (n + 1) + L
    BY <1>1, <1>8, <2>1, <2>3
  <2> HIDE DEF k, n, L
  <2>5. k = n + L
    BY <2>4
  <2> QED
    BY <2>5 DEF k, n
<1>11. r = SubSeq(w, Erased(w) + 1, Len(w)) /\ Erased(w) \in 0 .. Len(w)
  BY <1>8, DecodedIs, ErasedRange
<1> HIDE DEF r
<1>12. r \in Seq(Bits) /\ Len(r) = Len(w) - Erased(w)
       /\ \A i \in 1 .. (Len(w) - Erased(w)) : r[i] = w[Erased(w) + i]
  BY <1>8, <1>11, RestIs
<1> HIDE DEF L
<1>13. ASSUME NEW i \in 1 .. Len(r) PROVE r[i] = 1
  <2>1. Len(w) - Erased(w) = idle
    BY <1>1, <1>3, <1>8, <1>10
  <2>2. i \in 1 .. idle /\ r[i] = w[(Len(b) + L) + i]
    BY <1>10, <1>12, <2>1
  <2>3. /\ (Len(b) + L) + i \in 1 .. (Len(b) + Len(x)) /\ ~((Len(b) + L) + i <= Len(b))
        /\ ((Len(b) + L) + i) - Len(b) = L + i /\ L + i \in (L + 1) .. (L + idle)
    BY <1>1, <1>3, <1>8, <2>2
  <2>4. r[i] = x[L + i]
    BY <1>8, <2>2, <2>3
  <2> QED
    BY <1>4, <2>3, <2>4
<1>14. Heads(r) = {}
  BY <1>13 DEF Heads, IsCharSeq, IsStart
<1>15. Quiet(r)
  BY <1>13, <1>14 DEF Quiet
<1> QED
  BY <1>6, <1>15 DEF x

-----------------------------------------------------------------------------
(***************************************************************************)
(* A[i] are the bits a and what the first i characters of t are sent as.   *)
(***************************************************************************)
Fitting == {c \in 0 .. 255 : c < 2 ^ nbits}
Period(idle) == FrameLen + idle

Grown(A, a, t, idle) ==
    /\ A \in [0 .. Len(t) -> Seq(Bits)]
    /\ A[0] = a
    /\ \A i \in 1 .. Len(t) : A[i] = A[i - 1] \o Sent(t[i], nbits, nstops, idle)

OneMore(A, t, i, idle) ==
    /\ A[i] \in Seq(Bits) /\ t[i + 1] \in 0 .. 255 /\ t[i + 1] < 2 ^ nbits
    /\ Sent(t[i + 1], nbits, nstops, idle) \in Seq(Bits)
    /\ Len(Sent(t[i + 1], nbits, nstops, idle)) = Period(idle)
    /\ A[i + 1] = A[i] \o Sent(t[i + 1], nbits, nstops, idle)
    /\ A[i + 1] \in Seq(Bits) /\ Len(A[i + 1]) = Len(A[i]) + Period(idle)

LEMMA GrownStep ==
    ASSUME Numbers, NEW a \in Seq(Bits), NEW idle \in Nat, NEW t \in Seq(Fitting),
           NEW A, Grown(A, a, t, idle), NEW i \in Nat, i + 1 <= Len(t)
    PROVE  OneMore(A, t, i, idle)
<1>1. i \in 0 .. Len(t) /\ i + 1 \in 0 .. Len(t) /\ i + 1 \in 1 .. Len(t) /\ (i + 1) - 1 = i
  OBVIOUS
<1>2. t[i + 1] \in Fitting
  BY <1>1, ElementOfSeq
<1>3. t[i + 1] \in 0 .. 255 /\ t[i + 1] < 2 ^ nbits /\ t[i + 1] \in Nat
  <2> DEFINE v == t[i + 1]
  <2>1. v \in Fitting
    BY <1>2
  <2> HIDE DEF v
  <2>2. v \in 0 .. 255 /\ v < 2 ^ nbits
    BY <2>1 DEF Fitting
  <2>3. v \in Nat
    BY <2>2
  <2> QED
    BY <2>2, <2>3 DEF v
<1>4. A[i] \in Seq(Bits) /\ A[i + 1] \in Seq(Bits)
  BY <1>1 DEF Grown
<1> DEFINE x == Sent(t[i + 1], nbits, nstops, idle)
<1>5. A[i + 1] = A[i] \o x
  BY <1>1 DEF Grown
<1>6. IsSent(x, t[i + 1], nbits, nstops, idle)
  BY <1>3, SentFacts DEF Numbers
<1>7. x \in Seq(Bits) /\ Len(x) = Period(idle)
  BY <1>6 DEF IsSent, Period, FrameLen
<1> HIDE DEF x
<1>8. Len(A[i] \o x) = Len(A[i]) + Len(x)
  BY <1>4, <1>7, ConcatProperties, ZenonT(60)
<1> QED
  BY <1>3, <1>4, <1>5, <1>7, <1>8 DEF x, OneMore

LEMMA OneMoreChar ==
    ASSUME NEW d \in Seq(0 .. 255), NEW t \in Seq(Fitting), NEW i \in Nat, i + 1 <= Len(t)
    PROVE  d \o SubSeq(t, 1, i + 1) = (d \o SubSeq(t, 1, i)) \o <<t[i + 1]>>
<1> DEFINE v == SubSeq(t, 1, i)
           y == <<t[i + 1]>>
<1>1. Fitting \subseteq 0 .. 255
  BY DEF Fitting
<1>2. t \in Seq(0 .. 255)
  <2> DEFINE C == 0 .. 255
  <2>1. Fitting \subseteq C
    BY <1>1
  <2> HIDE DEF C
  <2>2. t \in Seq(C)
    BY <2>1, SeqMonotonic
  <2> QED
    BY <2>2 DEF C
<1>3. \A j \in 1 .. Len(t) : t[j] \in 0 .. 255
  BY <1>2, ElementOfSeq
<1>4. SubSeq(t, 1, i + 1) = v \o y
  <2>1. 1 \in 1 .. Len(t) /\ i + 1 \in 1 .. Len(t) /\ (i + 1) - 1 = i
    OBVIOUS
  <2>2. SubSeq(t, 1, i + 1) = SubSeq(t, 1, (i + 1) - 1) \o << t[i + 1] >>
    BY <2>1, SubSeqRecursiveSecond
  <2> QED
    BY <2>1, <2>2
<1>5. y \in Seq(0 .. 255)
  <2>1. t[i + 1] \in 0 .. 255
    BY <1>3
  <2> QED
    BY <2>1
<1>6. v \in Seq(0 .. 255)
  <2>1. \A j \in 1 .. i : t[j] \in 0 .. 255
    <3>1. \A j \in 1 .. i : j \in 1 .. Len(t)
      OBVIOUS
    <3> QED
      BY <1>3, <3>1
  <2>2. 1 \in Int /\ i \in Int
    OBVIOUS
  <2> QED
    BY <2>1, <2>2, SubSeqProperties
<1> HIDE DEF v, y
<1>7. (d \o v) \o y = d \o (v \o y)
  <2>1. Associates(0 .. 255)
    BY Associative
  <2> QED
    BY <1>5, <1>6, <2>1, SMTT(40) DEF Associates
<1> QED
  BY <1>4, <1>7 DEF v, y

LEMMA TextDecoded ==
    ASSUME Numbers, ~Unset, NEW a \in Seq(Bits), Quiet(Rest(a)), NEW idle \in Nat,
           NEW t \in Seq(Fitting), NEW A, Grown(A, a, t, idle)
    PROVE  \A i \in 0 .. Len(t) : /\ Quiet(Rest(A[i]))
                                  /\ Decoded(A[i]) = Decoded(a) \o SubSeq(t, 1, i)
                                  /\ Len(A[i]) = Len(a) + i * Period(idle)
<1> DEFINE P == Period(idle)
           Good(i) == /\ Quiet(Rest(A[i]))
                      /\ Decoded(A[i]) = Decoded(a) \o SubSeq(t, 1, i)
                      /\ Len(A[i]) = Len(a) + i * P
           E == {i \in Nat : i <= Len(t) => Good(i)}
<1>0. P \in Nat /\ Len(a) \in Nat /\ Len(t) \in Nat
  BY HeadsFit DEF Period
<1>1. 0 \in E
  <2>1. A[0] = a
    BY DEF Grown
  <2>2. SubSeq(t, 1, 0) = <<>>
    BY SubSeqEmpty
  <2>3. Decoded(a) \o <<>> = Decoded(a)
    BY DecodedRange, ConcatEmptySeq
  <2>4. 0 * P = 0
    <3> HIDE DEF P
    <3> QED
      BY <1>0
  <2>5. Len(a) = Len(a) + 0 * P
    <3> HIDE DEF P
    <3> QED
      BY <1>0, <2>4
  <2>6. Decoded(A[0]) = Decoded(a) \o SubSeq(t, 1, 0)
    BY <2>1, <2>2, <2>3
  <2>7. Good(0)
    BY <2>1, <2>5, <2>6
  <2> HIDE DEF Good
  <2> QED
    BY <2>7
<1>2. ASSUME NEW i \in Nat, i \in E PROVE i + 1 \in E
  <2> SUFFICES ASSUME i + 1 <= Len(t) PROVE Good(i + 1)
    OBVIOUS
  <2>1. Good(i)
    <3> HIDE DEF Good
    <3> QED
      BY <1>0, <1>2
  <2> DEFINE c == t[i + 1]
             x == Sent(c, nbits, nstops, idle)
  <2>2. /\ A[i] \in Seq(Bits) /\ c \in 0 .. 255 /\ c < 2 ^ nbits
        /\ x \in Seq(Bits) /\ Len(x) = P
        /\ A[i + 1] = A[i] \o x
        /\ A[i + 1] \in Seq(Bits) /\ Len(A[i + 1]) = Len(A[i]) + P
    <3>1. OneMore(A, t, i, idle)
      BY GrownStep
    <3> QED
      BY <3>1 DEF OneMore
  <2>3. Quiet(Rest(A[i + 1]))
    <3> HIDE DEF c
    <3> QED
      BY <2>1, <2>2, SentQuiet
  <2>4. BeginsSent(x, c, idle)
    <3>1. Len(x) <= FrameLen + idle
      BY <1>0, <2>2 DEF Period
    <3> QED
      BY <2>2, <3>1 DEF BeginsSent
  <2>5. FrameLen <= Len(x)
    BY <2>2, HeadsFit DEF Period
  <2>6. Decoded(A[i + 1]) = Decoded(A[i]) \o <<c>>
    <3> DEFINE b == A[i]
    <3>1. b \in Seq(Bits) /\ Quiet(Rest(b))
      BY <2>1, <2>2
    <3>2. c \in 0 .. 255 /\ c < 2 ^ nbits
      BY <2>2, SMTT(40)
    <3> HIDE DEF b, c, x
    <3>3. Decoded(b \o x) = IF FrameLen <= Len(x) THEN Decoded(b) \o <<c>> ELSE Decoded(b)
      BY <2>4, <3>1, <3>2, SentDecoded, ZenonT(60)
    <3>4. Decoded(b \o x) = Decoded(b) \o <<c>>
      BY <2>5, <3>3
    <3>5. A[i + 1] = b \o x
      BY <2>2 DEF b
    <3> QED
      BY <3>4, <3>5 DEF b
  <2>7. Decoded(A[i + 1]) = Decoded(a) \o SubSeq(t, 1, i + 1)
    <3> DEFINE d == Decoded(a)
    <3>1. d \in Seq(0 .. 255)
      BY DecodedRange
    <3> HIDE DEF d
    <3>2. d \o SubSeq(t, 1, i + 1) = (d \o SubSeq(t, 1, i)) \o <<c>>
      BY <3>1, OneMoreChar
    <3> QED
      BY <2>1, <2>6, <3>2 DEF d
  <2>8. Len(A[i + 1]) = Len(a) + (i + 1) * P
    <3> HIDE DEF P
    <3>1. (i + 1) * P = i * P + P /\ i * P \in Nat
      BY <1>0
    <3> QED
      BY <1>0, <2>1, <2>2, <3>1
  <2> QED
    BY <2>3, <2>7, <2>8
<1>3. Nat \subseteq E
  <2> HIDE DEF E
  <2> QED
    BY <1>1, <1>2, Induction
<1>4. ASSUME NEW i \in 0 .. Len(t) PROVE Good(i)
  <2>1. i \in E /\ i <= Len(t)
    <3> HIDE DEF E
    <3> QED
      BY <1>3
  <2> HIDE DEF Good
  <2> QED
    BY <2>1
<1> QED
  BY <1>4

\* What the first bits u of the transmission decode to: the first q characters, those
\* of which all is there.
BeginsWith(w, u) == Len(u) <= Len(w) /\ \A j \in 1 .. Len(u) : u[j] = w[j]

Whole(m, a, u, idle) == Len(a) + (m - 1) * Period(idle) + FrameLen <= Len(u)

Found(u, a, t, i, idle) ==
    \E q \in 0 .. i : /\ Decoded(u) = Decoded(a) \o SubSeq(t, 1, q)
                      /\ \A m \in 1 .. i : m <= q <=> Whole(m, a, u, idle)

LEMMA Later ==
    ASSUME NEW m \in Nat, NEW i \in Nat, m <= i, NEW P \in Nat
    PROVE  m * P <= i * P /\ m * P \in Nat /\ i * P \in Nat
<1>1. i * P = m * P + (i - m) * P /\ i - m \in Nat
  OBVIOUS
<1>2. (i - m) * P \in Nat /\ m * P \in Nat /\ i * P \in Nat
  BY <1>1
<1> QED
  BY <1>1, <1>2

LEMMA LongerFound ==
    ASSUME Numbers, ~Unset, NEW a \in Seq(Bits), Quiet(Rest(a)), NEW idle \in Nat,
           NEW t \in Seq(Fitting), NEW A, Grown(A, a, t, idle),
           NEW i \in Nat, i + 1 <= Len(t),
           NEW u \in Seq(Bits), BeginsWith(A[i + 1], u), Len(u) > Len(A[i])
    PROVE  Found(u, a, t, i + 1, idle)
<1> DEFINE P == Period(idle)
           F == FrameLen
           c == t[i + 1]
           x == Sent(c, nbits, nstops, idle)
           b == A[i]
           w == A[i + 1]
           l == Len(b)
           z == SubSeq(u, l + 1, Len(u))
<1>1. /\ b \in Seq(Bits) /\ c \in 0 .. 255 /\ c < 2 ^ nbits
      /\ x \in Seq(Bits) /\ Len(x) = P /\ w = b \o x
      /\ w \in Seq(Bits) /\ Len(w) = l + P
  <2>1. OneMore(A, t, i, idle)
    BY GrownStep
  <2> QED
    BY <2>1 DEF OneMore
<1>2. /\ Quiet(Rest(b)) /\ Decoded(b) = Decoded(a) \o SubSeq(t, 1, i) /\ l = Len(a) + i * P
  <2>1. i \in 0 .. Len(t)
    OBVIOUS
  <2> QED
    BY <2>1, TextDecoded
<1>3. Decoded(a) \o SubSeq(t, 1, i + 1) = Decoded(b) \o <<c>>
  <2> DEFINE d == Decoded(a)
  <2>1. d \in Seq(0 .. 255)
    BY DecodedRange
  <2> HIDE DEF d
  <2>2. d \o SubSeq(t, 1, i + 1) = (d \o SubSeq(t, 1, i)) \o <<c>>
    BY <2>1, OneMoreChar
  <2>3. Decoded(b) = d \o SubSeq(t, 1, i)
    BY <1>2 DEF d
  <2> QED
    BY <2>2, <2>3 DEF d
<1>4. F \in Nat /\ F >= 1 /\ P = F + idle /\ P \in Nat /\ Len(a) \in Nat /\ Len(u) \in Nat
  BY HeadsFit DEF Period
<1>5. l < Len(u) /\ Len(u) <= Len(w) /\ \A j \in 1 .. Len(u) : u[j] = w[j]
  BY DEF BeginsWith
<1> HIDE DEF P, F, c, x, b, w
<1>6. l \in Nat /\ l \in 0 .. Len(u)
  BY <1>1, <1>4, <1>5
<1>7. z \in Seq(Bits) /\ Len(z) = Len(u) - l /\ \A k \in 1 .. (Len(u) - l) : z[k] = u[l + k]
  BY <1>6, RestIs
<1> HIDE DEF z
<1>8. \A j \in 1 .. (l + P) : w[j] = IF j <= l THEN b[j] ELSE x[j - l]
  <2>1. \A j \in 1 .. (Len(b) + Len(x)) : (b \o x)[j] = IF j <= Len(b) THEN b[j] ELSE x[j - Len(b)]
    BY <1>1, ConcatProperties
  <2> QED
    BY <1>1, <2>1
<1>9. BeginsSent(z, c, idle)
  <2>1. Len(z) <= FrameLen + idle
    BY <1>1, <1>4, <1>5, <1>6, <1>7 DEF F
  <2>2. ASSUME NEW k \in 1 .. Len(z) PROVE z[k] = x[k]
    <3>1. l + k \in 1 .. Len(u) /\ l + k \in 1 .. (l + P) /\ ~(l + k <= l) /\ (l + k) - l = k /\ k \in 1 .. (Len(u) - l)
      BY <1>1, <1>4, <1>5, <1>6, <1>7
    <3> QED
      BY <1>5, <1>7, <1>8, <3>1
  <2> QED
    BY <1>7, <2>1, <2>2 DEF BeginsSent, x
<1>10. u = b \o z
  <2> DEFINE y == b \o z
  <2>1. y \in Seq(Bits) /\ Len(y) = Len(b) + Len(z)
        /\ \A j \in 1 .. (Len(b) + Len(z)) : y[j] = IF j <= Len(b) THEN b[j] ELSE z[j - Len(b)]
    BY <1>1, <1>7, ConcatProperties, SMTT(40)
  <2> HIDE DEF y
  <2>2. Len(y) = Len(u)
    BY <1>4, <1>6, <1>7, <2>1
  <2>3. ASSUME NEW j \in 1 .. Len(u) PROVE u[j] = y[j]
    <3>1. j \in 1 .. (Len(b) + Len(z)) /\ j \in 1 .. (l + P)
      BY <1>1, <1>4, <1>5, <1>6, <1>7
    <3>2. CASE j <= l
      BY <1>5, <1>8, <2>1, <3>1, <3>2
    <3>3. CASE ~(j <= l)
      <4>1. j - l \in 1 .. (Len(u) - l) /\ l + (j - l) = j
        BY <1>4, <1>6, <3>3
      <4> QED
        BY <1>7, <2>1, <3>1, <3>3, <4>1
    <3> QED
      BY <3>2, <3>3
  <2>4. u = y
    BY <2>1, <2>2, <2>3, SeqEqual
  <2> QED
    BY <2>4 DEF y
<1>11. Decoded(u) = IF F <= Len(z) THEN Decoded(b) \o <<c>> ELSE Decoded(b)
  <2>1. b \in Seq(Bits) /\ Quiet(Rest(b))
    BY <1>1, <1>2
  <2>2. c \in 0 .. 255 /\ c < 2 ^ nbits
    BY <1>1
  <2>3. Decoded(b \o z) = IF FrameLen <= Len(z) THEN Decoded(b) \o <<c>> ELSE Decoded(b)
    BY <1>9, <2>1, <2>2, SentDecoded, ZenonT(60)
  <2> QED
    BY <1>10, <2>3 DEF F
<1>12. \A m \in 1 .. i : Whole(m, a, u, idle)
  <2> SUFFICES ASSUME NEW m \in 1 .. i PROVE Len(a) + (m - 1) * P + F <= Len(u)
    BY DEF Whole, P, F
  <2>1. m * P <= i * P /\ m * P \in Nat /\ i * P \in Nat
    BY <1>4, Later, SMTT(40)
  <2>2. (m - 1) * P + P = m * P /\ (m - 1) * P \in Nat
    BY <1>4, SMTT(40)
  <2> QED
    BY <1>2, <1>4, <1>5, <2>1, <2>2
<1>13. Whole(i + 1, a, u, idle) <=> F <= Len(z)
  <2>1. ((i + 1) - 1) * P = i * P /\ i * P \in Nat
    BY <1>4
  <2>2. Whole(i + 1, a, u, idle) <=> Len(a) + ((i + 1) - 1) * P + F <= Len(u)
    BY DEF Whole, P, F
  <2> QED
    BY <1>2, <1>4, <1>6, <1>7, <2>1, <2>2
<1>14. CASE F <= Len(z)
  <2>1. Decoded(u) = Decoded(a) \o SubSeq(t, 1, i + 1)
    BY <1>3, <1>11, <1>14
  <2>2. \A m \in 1 .. (i + 1) : m <= i + 1 <=> Whole(m, a, u, idle)
    <3>1. \A m \in 1 .. (i + 1) : m \in 1 .. i \/ m = i + 1
      OBVIOUS
    <3>2. \A m \in 1 .. (i + 1) : Whole(m, a, u, idle)
      BY <1>12, <1>13, <1>14, <3>1
    <3> QED
      BY <3>2
  <2>3. i + 1 \in 0 .. (i + 1)
    OBVIOUS
  <2> QED
    BY <2>1, <2>2, <2>3 DEF Found
<1>15. CASE ~(F <= Len(z))
  <2>1. Decoded(u) = Decoded(a) \o SubSeq(t, 1, i)
    BY <1>2, <1>11, <1>15
  <2>2. \A m \in 1 .. (i + 1) : m <= i <=> Whole(m, a, u, idle)
    <3>1. \A m \in 1 .. (i + 1) : (m \in 1 .. i /\ m <= i) \/ (m = i + 1 /\ ~(m <= i))
      OBVIOUS
    <3> QED
      BY <1>12, <1>13, <1>15, <3>1
  <2>3. i \in 0 .. (i + 1)
    OBVIOUS
  <2> QED
    BY <2>1, <2>2, <2>3 DEF Found
<1> QED
  BY <1>14, <1>15

LEMMA PrefixFound ==
    ASSUME Numbers, ~Unset, NEW a \in Seq(Bits), Quiet(Rest(a)), NEW idle \in Nat,
           NEW t \in Seq(Fitting), NEW A, Grown(A, a, t, idle),
           NEW u \in Seq(Bits), Len(a) <= Len(u), BeginsWith(A[Len(t)], u)
    PROVE  Found(u, a, t, Len(t), idle)
<1> DEFINE P == Period(idle)
           E == {i \in Nat : i <= Len(t) /\ BeginsWith(A[i], u) => Found(u, a, t, i, idle)}
<1>0. P \in Nat /\ FrameLen \in Nat /\ FrameLen >= 1 /\ Len(a) \in Nat /\ Len(u) \in Nat /\ Len(t) \in Nat
  BY HeadsFit DEF Period
<1>1. 0 \in E
  <2> SUFFICES ASSUME BeginsWith(A[0], u) PROVE Found(u, a, t, 0, idle)
    OBVIOUS
  <2>1. A[0] = a
    BY DEF Grown
  <2>2. Len(u) = Len(a) /\ \A j \in 1 .. Len(u) : u[j] = a[j]
    BY <1>0, <2>1 DEF BeginsWith
  <2>3. u = a
    BY <2>2, SeqEqual
  <2>4. SubSeq(t, 1, 0) = <<>>
    BY SubSeqEmpty
  <2>5. Decoded(a) \o <<>> = Decoded(a)
    BY DecodedRange, ConcatEmptySeq
  <2>6. Decoded(u) = Decoded(a) \o SubSeq(t, 1, 0)
    BY <2>3, <2>4, <2>5
  <2>7. 0 \in 0 .. 0 /\ 1 .. 0 = {}
    OBVIOUS
  <2> QED
    BY <2>6, <2>7 DEF Found
<1>2. ASSUME NEW i \in Nat, i \in E PROVE i + 1 \in E
  <2> SUFFICES ASSUME i + 1 <= Len(t), BeginsWith(A[i + 1], u) PROVE Found(u, a, t, i + 1, idle)
    OBVIOUS
  <2> DEFINE b == A[i]
             w == A[i + 1]
             x == Sent(t[i + 1], nbits, nstops, idle)
  <2>1. b \in Seq(Bits) /\ x \in Seq(Bits) /\ w = b \o x
    <3>1. OneMore(A, t, i, idle)
      BY GrownStep
    <3> QED
      BY <3>1 DEF OneMore
  <2>2. Len(b) = Len(a) + i * P
    <3>1. i \in 0 .. Len(t)
      BY <1>0
    <3> QED
      BY <3>1, TextDecoded
  <2>3. Len(b) \in Nat
    BY <2>1
  <2>4. CASE Len(u) > Len(b)
    BY <2>4, LongerFound
  <2>5. CASE Len(u) <= Len(b)
    <3> HIDE DEF x
    <3>1. \A j \in 1 .. Len(b) : w[j] = b[j]
      BY <2>1, JoinedBits
    <3> HIDE DEF b, w
    <3>2. \A j \in 1 .. Len(u) : u[j] = b[j]
      <4>1. \A j \in 1 .. Len(u) : u[j] = w[j]
        BY DEF BeginsWith, w
      <4>2. \A j \in 1 .. Len(u) : j \in 1 .. Len(b)
        BY <1>0, <2>3, <2>5
      <4> QED
        BY <3>1, <4>1, <4>2
    <3>3. BeginsWith(A[i], u)
      BY <2>5, <3>2 DEF BeginsWith, b
    <3>4. Found(u, a, t, i, idle)
      BY <1>0, <1>2, <3>3
    <3>5. PICK q \in 0 .. i : /\ Decoded(u) = Decoded(a) \o SubSeq(t, 1, q)
                              /\ \A m \in 1 .. i : m <= q <=> Whole(m, a, u, idle)
      BY <3>4 DEF Found
    <3>6. ~Whole(i + 1, a, u, idle)
      <4>1. ((i + 1) - 1) * P = i * P /\ i * P \in Nat
        <5> HIDE DEF P
        <5> QED
          BY <1>0
      <4>2. Whole(i + 1, a, u, idle) <=> Len(a) + ((i + 1) - 1) * P + FrameLen <= Len(u)
        BY DEF Whole
      <4> HIDE DEF P
      <4> QED
        BY <1>0, <2>2, <2>5, <4>1, <4>2
    <3>7. \A m \in 1 .. (i + 1) : m <= q <=> Whole(m, a, u, idle)
      <4>1. \A m \in 1 .. (i + 1) : m \in 1 .. i \/ (m = i + 1 /\ ~(m <= q))
        BY <3>5
      <4> QED
        BY <3>5, <3>6, <4>1
    <3>8. q \in 0 .. (i + 1)
      BY <3>5
    <3> QED
      BY <3>5, <3>7, <3>8 DEF Found
  <2> QED
    BY <1>0, <2>3, <2>4, <2>5
<1>3. Nat \subseteq E
  <2> HIDE DEF E
  <2> QED
    BY <1>1, <1>2, Induction
<1>4. Len(t) \in E
  <2> HIDE DEF E
  <2> QED
    BY <1>0, <1>3
<1> QED
  BY <1>0, <1>4

LEMMA SuffixIs ==
    ASSUME NEW d \in Seq(0 .. 255), NEW y \in Seq(0 .. 255)
    PROVE  IsSuffix(y, d \o y)
<1> DEFINE w == d \o y
           r == Reverse(y)
           R == Reverse(w)
           n == Len(y)
           k == Len(d)
<1>1. w \in Seq(0 .. 255) /\ Len(w) = k + n /\ k \in Nat /\ n \in Nat
      /\ \A j \in 1 .. (k + n) : w[j] = IF j <= k THEN d[j] ELSE y[j - k]
  <2>1. w \in Seq(0 .. 255) /\ Len(w) = k + n
        /\ \A j \in 1 .. (k + n) : w[j] = IF j <= k THEN d[j] ELSE y[j - k]
    BY ConcatProperties
  <2>2. k \in Nat /\ n \in Nat
    OBVIOUS
  <2> HIDE DEF w
  <2> QED
    BY <2>1, <2>2
<1> HIDE DEF w
<1>2. r \in Seq(0 .. 255) /\ Len(r) = n /\ \A j \in 1 .. n : r[j] = y[(n - j) + 1]
  <2>1. \A j \in 1 .. n : y[(n - j) + 1] \in 0 .. 255
    <3>1. \A j \in 1 .. n : (n - j) + 1 \in 1 .. Len(y)
      OBVIOUS
    <3> QED
      BY <3>1, ElementOfSeq
  <2>2. r = [j \in 1 .. n |-> y[(n - j) + 1]]
    BY DEF Reverse
  <2>3. n \in Nat
    OBVIOUS
  <2>4. \A j \in 1 .. n : r[j] = y[(n - j) + 1]
    BY <2>2
  <2>5. r \in Seq(0 .. 255) /\ Len(r) = n
    BY <2>1, <2>2, <2>3
  <2> QED
    BY <2>4, <2>5
<1>3. R \in Seq(0 .. 255) /\ Len(R) = k + n /\ \A j \in 1 .. (k + n) : R[j] = w[((k + n) - j) + 1]
  <2>1. \A j \in 1 .. (k + n) : w[((k + n) - j) + 1] \in 0 .. 255
    <3>1. \A j \in 1 .. (k + n) : ((k + n) - j) + 1 \in 1 .. Len(w)
      BY <1>1
    <3> QED
      BY <1>1, <3>1, ElementOfSeq
  <2>2. R = [j \in 1 .. (k + n) |-> w[((k + n) - j) + 1]]
    BY <1>1 DEF Reverse
  <2> HIDE DEF R
  <2> QED
    BY <1>1, <2>1, <2>2
<1> HIDE DEF r, R, n, k
<1>4. \A j \in 1 .. n : R[j] = r[j]
  <2> SUFFICES ASSUME NEW j \in 1 .. n PROVE R[j] = r[j]
    OBVIOUS
  <2>1. j \in 1 .. (k + n) /\ ((k + n) - j) + 1 \in 1 .. (k + n) /\ ~(((k + n) - j) + 1 <= k)
        /\ (((k + n) - j) + 1) - k = (n - j) + 1
    BY <1>1
  <2> QED
    BY <1>1, <1>2, <1>3, <2>1, ZenonT(60)
<1>5. SubSeq(r, 1, n) = r
  BY <1>2, SubSeqFull
<1>6. SubSeq(R, 1, n) = r
  <2> DEFINE v == SubSeq(R, 1, n)
  <2>1. \A j \in 1 .. n : R[j] \in 0 .. 255
    BY <1>2, <1>4, ElementOfSeq
  <2>2. 1 \in Int /\ n \in Int
    BY <1>1
  <2>3. v \in Seq(0 .. 255) /\ Len(v) = (IF 1 <= n THEN (n - 1) + 1 ELSE 0)
        /\ \A j \in 1 .. ((n - 1) + 1) : v[j] = R[(1 + j) - 1]
    BY <2>1, <2>2, SubSeqProperties
  <2> HIDE DEF v
  <2>4. Len(v) = n /\ \A j \in 1 .. n : v[j] = R[j]
    <3>1. (n - 1) + 1 = n /\ (~(1 <= n) => n = 0) /\ \A j \in 1 .. n : (1 + j) - 1 = j
      BY <1>1
    <3> QED
      BY <2>3, <3>1
  <2>5. v = r
    BY <1>2, <1>4, <2>3, <2>4, SeqEqual
  <2> QED
    BY <2>5 DEF v
<1>7. Len(r) <= Len(R)
  BY <1>1, <1>2, <1>3
<1>8. IsPrefix(r, R)
  BY <1>2, <1>5, <1>6, <1>7 DEF IsPrefix
<1> QED
  BY <1>8 DEF IsSuffix, r, R, w

\* A transmission that has come so far as u.
LEMMA Decoding ==
    ASSUME Shape, ~Unset, NEW noise \in Noise, NEW u \in Seq(Bits), NEW v \in Seq(Bits),
           u \o v = Transmission(noise, text, gap, nbits, nstops)
    PROVE  \E d \in Seq(0 .. 255), q \in 0 .. Len(text) :
              /\ Decoded(u) = d \o SubSeq(text, 1, q)
              /\ \A m \in 1 .. Len(text) : m <= q <=> Len(v) <= (Len(text) - m) * Period(gap) + gap
<1> DEFINE a == Preamble(noise, nbits, nstops)
           t == text
           n == Len(text)
           P == Period(gap)
           x == SentText(t, nbits, nstops, gap)
<1>1. Numbers /\ nbits \in Nat /\ nstops \in Nat /\ t \in Seq(Nat) /\ gap \in Nat /\ noise \in Seq(Bits)
      /\ n \in Nat
  BY TextFacts DEF Numbers
<1>2. a \in Seq(Bits) /\ Quiet(Rest(a))
  BY <1>1, TransmissionIs, PreambleQuiet
<1>3. t \in Seq(Fitting)
  <2> DEFINE C == {c \in 0 .. 255 : \A k \in BitCounts : c < 2 ^ k}
  <2>1. t \in Seq(C)
    BY LineAssumption DEF Shape
  <2>2. C \subseteq Fitting
    BY DEF Fitting, Shape
  <2> HIDE DEF C
  <2> QED
    BY <2>1, <2>2, SeqMonotonic, Zenon
<1>4. PICK G : /\ Growing(G, x, n)
               /\ Transmission(noise, t, gap, nbits, nstops) = a \o G[n]
  <2>1. nbits \in Nat /\ nstops \in Nat /\ t \in Seq(Nat) /\ gap \in Nat /\ noise \in Seq(Bits)
    BY <1>1
  <2>2. CharByChar(noise, t, gap, nbits, nstops)
    BY <2>1, TransmissionIs
  <2> QED
    BY <2>2, Zenon DEF CharByChar
<1>5. G \in [0 .. n -> Seq(Bits)] /\ G[0] = <<>> /\ \A i \in 1 .. n : G[i] = G[i - 1] \o x[i]
  BY <1>4 DEF Growing
<1>6. \A i \in 1 .. n : x[i] = Sent(t[i], nbits, nstops, gap) /\ x[i] \in Seq(Bits)
  <2>1. x \in Seq(Seq(Bits)) /\ Len(x) = n
    BY <1>1, TransmissionIs
  <2>2. \A i \in 1 .. n : x[i] = Sent(t[i], nbits, nstops, gap)
    BY DEF SentText
  <2>3. \A i \in 1 .. n : x[i] \in Seq(Bits)
    <3> HIDE DEF x, n
    <3> QED
      BY <2>1, ElementOfSeq
  <2> QED
    BY <2>2, <2>3
<1> HIDE DEF a, x
<1> DEFINE A == [i \in 0 .. n |-> a \o G[i]]
<1>7. \A i \in 0 .. n : A[i] = a \o G[i] /\ A[i] \in Seq(Bits)
  <2>1. \A i \in 0 .. n : G[i] \in Seq(Bits)
    BY <1>5
  <2>2. \A i \in 0 .. n : a \o G[i] \in Seq(Bits)
    BY <1>2, <2>1, ConcatProperties
  <2> QED
    BY <2>2
<1>8. A[0] = a
  <2>1. 0 \in 0 .. n
    BY <1>1
  <2>2. a \o <<>> = a
    BY <1>2, ConcatEmptySeq
  <2> QED
    BY <1>5, <1>7, <2>1, <2>2
<1>9. ASSUME NEW i \in 1 .. n PROVE A[i] = A[i - 1] \o Sent(t[i], nbits, nstops, gap)
  <2>1. i \in 0 .. n /\ i - 1 \in 0 .. n
    BY <1>1
  <2>2. A[i] = a \o G[i] /\ A[i - 1] = a \o G[i - 1] /\ G[i] = G[i - 1] \o x[i]
    BY <1>5, <1>7, <2>1
  <2> DEFINE g == G[i - 1]
             y == x[i]
  <2>3. g \in Seq(Bits) /\ y \in Seq(Bits)
    BY <1>5, <1>6, <2>1
  <2> HIDE DEF A, n, P, t, g, y
  <2>. a \in Seq(Bits)
    BY <1>2
  <2>4. (a \o g) \o y = a \o (g \o y)
    <3>1. Associates(Bits)
      BY Associative
    <3> QED
      BY <2>3, <3>1 DEF Associates
  <2>5. A[i] = A[i - 1] \o x[i]
    BY <2>2, <2>4 DEF g, y
  <2> QED
    BY <1>6, <2>5
<1>10. Grown(A, a, t, gap)
  <2>1. A \in [0 .. n -> Seq(Bits)]
    BY <1>7
  <2> HIDE DEF A
  <2> QED
    BY <1>8, <1>9, <2>1 DEF Grown
<1> DEFINE w == u \o v
<1>11. A[n] = w
  <2>1. n \in 0 .. n
    BY <1>1
  <2> QED
    BY <1>4, <1>7, <2>1
<1>12. Len(w) = Len(u) + Len(v) /\ Len(u) \in Nat /\ Len(v) \in Nat /\ \A j \in 1 .. Len(u) : w[j] = u[j]
  BY JoinedBits
<1>13. Len(w) = Len(a) + n * P
  <2>1. n \in 0 .. n
    BY <1>1
  <2> HIDE DEF A, w, n
  <2>2. Len(A[n]) = Len(a) + n * P
    BY <1>1, <1>2, <1>3, <1>10, <2>1, TextDecoded DEF n
  <2> QED
    BY <1>11, <2>2
<1> HIDE DEF A, w
<1>14. P \in Nat /\ FrameLen \in Nat /\ FrameLen >= 1 /\ P = FrameLen + gap /\ Len(a) \in Nat
  BY <1>1, <1>2, HeadsFit DEF Period
<1>15. ASSUME NEW m \in 1 .. n
       PROVE  Whole(m, a, u, gap) <=> Len(v) <= (n - m) * P + gap
  <2>1. Whole(m, a, u, gap) <=> Len(a) + (m - 1) * P + FrameLen <= Len(u)
    BY DEF Whole
  <2> HIDE DEF P, n
  <2>2. m \in Nat
    BY <1>1
  <2>3. (m - 1) * P = m * P - P /\ (n - m) * P = n * P - m * P /\ m * P \in Int /\ n * P \in Int
    BY <1>1, <1>14, <2>2
  <2> QED
    BY <1>1, <1>12, <1>13, <1>14, <2>1, <2>3
<1>16. CASE Len(a) <= Len(u)
  <2>1. BeginsWith(w, u)
    BY <1>12 DEF BeginsWith
  <2>2. Found(u, a, t, Len(t), gap)
    BY <1>1, <1>2, <1>3, <1>10, <1>11, <1>16, <2>1, PrefixFound
  <2>3. PICK q \in 0 .. n : /\ Decoded(u) = Decoded(a) \o SubSeq(t, 1, q)
                            /\ \A m \in 1 .. n : m <= q <=> Whole(m, a, u, gap)
    BY <2>2 DEF Found
  <2>4. Decoded(a) \in Seq(0 .. 255)
    BY <1>1, <1>2, DecodedRange
  <2>5. \A m \in 1 .. n : m <= q <=> Len(v) <= (n - m) * P + gap
    BY <1>15, <2>3, SMTT(40)
  <2> QED
    BY <2>3, <2>4, <2>5
<1>17. CASE ~(Len(a) <= Len(u))
  <2>1. SubSeq(t, 1, 0) = <<>>
    BY SubSeqEmpty
  <2>2. Decoded(u) \in Seq(0 .. 255)
    BY <1>1, DecodedRange
  <2>3. Decoded(u) = Decoded(u) \o SubSeq(t, 1, 0)
    BY <2>1, <2>2, ConcatEmptySeq
  <2>4. \A m \in 1 .. n : m <= 0 <=> Len(v) <= (n - m) * P + gap
    <3> SUFFICES ASSUME NEW m \in 1 .. n PROVE ~(m <= 0) /\ ~Whole(m, a, u, gap)
      BY <1>15
    <3>1. Whole(m, a, u, gap) <=> Len(a) + (m - 1) * P + FrameLen <= Len(u)
      BY DEF Whole
    <3>2. m - 1 \in Nat /\ ~(m <= 0)
      BY <1>1
    <3> HIDE DEF P
    <3>3. (m - 1) * P \in Nat
      BY <1>14, <3>2
    <3> QED
      BY <1>12, <1>14, <1>17, <3>1, <3>2, <3>3
  <2>5. 0 \in 0 .. n
    BY <1>1
  <2> QED
    BY <2>2, <2>3, <2>4, <2>5
<1> QED
  BY <1>16, <1>17

\* Whatever the noise, the characters sent are decoded, each as soon as its last stop bit
\* is in; what the noise may have been taken for comes before them.
THEOREM Resynchronised == Spec => []Resynchronises
<1>1. ASSUME IInv PROVE Resynchronises
  <2> SUFFICES ASSUME settings = 0, FrameLen > 1
               PROVE  IsSuffix(SubSeq(text, 1, Complete), chars)
    BY DEF Resynchronises
  <2> DEFINE n == Len(text)
  <2>1. Shape /\ Numbers /\ seen \in Seq(Bits) /\ line \in Seq(Bits) /\ gap \in Nat /\ text \in Seq(Nat)
        /\ n \in Nat
    BY <1>1, TextFacts DEF IInv, Shape
  <2>2. ~Unset
    BY <2>1 DEF Unset, FrameLen, Numbers
  <2>3. PICK noise \in Noise : seen \o line = Transmission(noise, text, gap, nbits, nstops)
    BY <1>1 DEF IInv, FromStart
  <2>4. chars = Decoded(seen)
    BY <1>1 DEF IInv, FromStart
  <2>5. PICK d \in Seq(0 .. 255), q \in 0 .. n :
           /\ chars = d \o SubSeq(text, 1, q)
           /\ \A m \in 1 .. n : m <= q <=> Len(line) <= (n - m) * Period(gap) + gap
    BY <2>1, <2>2, <2>3, <2>4, Decoding, ZenonT(60)
  <2>6. Complete = q
    <3>1. DOMAIN text = 1 .. n
      BY <2>1
    <3>2. Complete = Cardinality({m \in 1 .. n : Len(line) <= (n - m) * Period(gap) + gap})
      BY <3>1 DEF Complete, Period
    <3>3. {m \in 1 .. n : Len(line) <= (n - m) * Period(gap) + gap} = {m \in 1 .. n : m <= q}
      BY <2>5
    <3>4. {m \in 1 .. n : m <= q} = 1 .. q
      BY <2>1, <2>5
    <3>5. Cardinality(1 .. q) = q
      <4>1. 1 \in Int /\ q \in Int /\ (IF 1 > q THEN 0 ELSE q - 1 + 1) = q
        BY <2>1, <2>5
      <4> QED
        BY <4>1, FS_Interval
    <3> QED
      BY <3>2, <3>3, <3>4, <3>5
  <2> DEFINE y == SubSeq(text, 1, q)
  <2>7. y \in Seq(0 .. 255)
    <3> DEFINE C == {c \in 0 .. 255 : \A k \in BitCounts : c < 2 ^ k}
    <3>1. text \in Seq(C)
      BY <2>1, LineAssumption DEF Shape
    <3>2. C \subseteq 0 .. 255
      OBVIOUS
    <3> HIDE DEF C
    <3>3. \A j \in 1 .. q : text[j] \in 0 .. 255
      <4>1. \A j \in 1 .. q : j \in 1 .. Len(text)
        BY <2>1, <2>5
      <4>2. \A j \in 1 .. q : text[j] \in C
        BY <3>1, <4>1, ElementOfSeq
      <4> QED
        BY <3>2, <4>2
    <3>4. 1 \in Int /\ q \in Int
      BY <2>1, <2>5
    <3> QED
      BY <3>3, <3>4, SubSeqProperties
  <2> HIDE DEF y
  <2>8. IsSuffix(y, d \o y)
    BY <2>5, <2>7, SuffixIs
  <2> QED
    BY <2>5, <2>6, <2>8 DEF y
<1> QED
  BY <1>1, Inductive, PTL
=============================================================================
