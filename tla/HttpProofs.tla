----------------------------- MODULE HttpProofs -----------------------------
(***************************************************************************)
(* The HTTP layer of source/http.hpp, for every input:                     *)
(*                                                                         *)
(*   1. Util: what UrlEncode writes UrlDecode reads, Split gives the runs, *)
(*      ValidPath refuses what leaves the root, a query comes back.        *)
(*   2. HttpServer: however the input is cut into pieces, the context      *)
(*      holds the unfinished request only, and the answers are those of    *)
(*      the whole input.                                                   *)
(*   3. Any, which keeps the context for the connection: one owner for     *)
(*      each placeholder, and a value that nobody else changes.            *)
(*                                                                         *)
(* Util and HttpServer are recursive functions over sequences.  Such a     *)
(* function is given by a rule for one step (Recursion below); what it     *)
(* computes follows by induction over a set of numbers.                    *)
(***************************************************************************)
EXTENDS HttpServer, Util, FiniteSetTheorems, WellFoundedInduction, TLAPS

CONSTANTS Name, Cell, Value, Null, Dead, Free   \* as in Any

VARIABLES dummy, heap                           \* as in Any

A == INSTANCE Any

-----------------------------------------------------------------------------
(* Induction, recursion and sequences.                                     *)

(* A set of natural numbers that is not empty has a least one. *)
LEMMA LeastNumber ==
  ASSUME NEW T \in SUBSET Nat, T # {}
  PROVE  \E x \in T : \A y \in T : x <= y
<1> DEFINE R == {ss \in Nat \X Nat : ss[1] < ss[2]}
<1>1. IsWellFoundedOn(R, Nat)
  BY NatLessThanWellFounded DEF OpToRel
<1>2. \A x, y \in Nat : <<y, x>> \in R <=> y < x
  OBVIOUS
<1> HIDE DEF R
<1>3. PICK x \in T : \A y \in T : ~(<<y, x>> \in R)
  BY <1>1, WFMin
<1>4. ASSUME NEW y \in T
      PROVE  x <= y
  <2>1. ~(y < x)
    BY <1>2, <1>3
  <2>2. x \in Nat /\ y \in Nat
    OBVIOUS
  <2>3. QED
    BY <2>1, <2>2
<1>5. QED
  BY <1>4

(* Induction, with a set in the place of a predicate. *)
LEMMA NumbersBySteps ==
  ASSUME NEW S, 0 \in S, \A n \in Nat : n \in S => n + 1 \in S
  PROVE  \A n \in Nat : n \in S
<1> DEFINE T == {n \in Nat : n \notin S}
<1>1. SUFFICES ASSUME T # {}
               PROVE  FALSE
  OBVIOUS
<1>2. PICK x \in T : \A y \in T : x <= y
  BY <1>1, LeastNumber
<1>3. x # 0
  BY <1>2
<1>4. x - 1 \in Nat /\ x - 1 \notin T
  BY <1>2, <1>3
<1>5. QED
  BY <1>2, <1>4

(* Induction over a set whose members have a size. *)
LEMMA SizesBySteps ==
  ASSUME NEW D, NEW size \in [D -> Nat], NEW S,
         \A x \in D : (\A y \in D : size[y] < size[x] => y \in S) => x \in S
  PROVE  \A x \in D : x \in S
<1> DEFINE T == {size[x] : x \in {y \in D : y \notin S}}
<1>1. SUFFICES ASSUME NEW z \in D, z \notin S
               PROVE  FALSE
  OBVIOUS
<1>2. T \in SUBSET Nat /\ T # {}
  BY <1>1
<1>3. PICK n \in T : \A m \in T : n <= m
  BY <1>2, LeastNumber
<1>4. PICK x \in D : x \notin S /\ n = size[x]
  BY <1>3
<1>5. ASSUME NEW y \in D, size[y] < size[x]
      PROVE  y \in S
  <2>1. SUFFICES ASSUME y \notin S
                 PROVE  FALSE
    OBVIOUS
  <2>2. size[x] <= size[y]
    BY <1>3, <1>4, <2>1
  <2>3. size[x] \in Nat /\ size[y] \in Nat
    OBVIOUS
  <2>4. QED
    BY <1>5, <2>2, <2>3
<1>6. QED
  BY <1>4, <1>5

(* A recursive definition: what body[g] is at x depends on what g is at    *)
(* smaller arguments.                                                      *)
Descends(D, T, size, body) ==
    /\ T # {}
    /\ size \in [D -> Nat]
    /\ body \in [[D -> T] -> [D -> T]]
    /\ \A g, h \in [D -> T] : \A x \in D :
          (\A y \in D : size[y] < size[x] => g[y] = h[y]) => body[g][x] = body[h][x]

Solves(f, D, T, body) == f \in [D -> T] /\ \A x \in D : f[x] = body[f][x]

(* A recursion whose arguments get smaller has a solution.                 *)
LEMMA Recursion ==
  ASSUME NEW D, NEW T, NEW size, NEW body, Descends(D, T, size, body)
  PROVE  \E f : Solves(f, D, T, body)
<1> USE DEF Descends
<1> DEFINE Good(n, g) == \A x \in D : size[x] < n => g[x] = body[g][x]
<1>1. ASSUME NEW n \in Nat, NEW m \in Nat, NEW g \in [D -> T], NEW h \in [D -> T],
             Good(n, g), Good(m, h)
      PROVE  \A x \in D : size[x] < n /\ size[x] < m => g[x] = h[x]
  <2> DEFINE S == {x \in D : size[x] < n /\ size[x] < m => g[x] = h[x]}
  <2>1. ASSUME NEW x \in D, \A y \in D : size[y] < size[x] => y \in S
        PROVE  x \in S
    <3>1. SUFFICES ASSUME size[x] < n, size[x] < m
                   PROVE  g[x] = h[x]
      OBVIOUS
    <3>2. \A y \in D : size[y] < size[x] => g[y] = h[y]
      <4>1. \A y \in D : size[y] \in Nat
        OBVIOUS
      <4>2. QED
        BY <2>1, <3>1, <4>1
    <3>3. body[g][x] = body[h][x]
      BY <3>2
    <3>4. QED
      BY <1>1, <3>1, <3>3
  <2>2. \A x \in D : x \in S
    <3> HIDE DEF S
    <3>1. QED
      BY <2>1, SizesBySteps
  <2>3. QED
    BY <2>2
<1>2. \A n \in Nat : \E g \in [D -> T] : Good(n, g)
  <2> DEFINE S == {n \in Nat : \E g \in [D -> T] : Good(n, g)}
  <2>1. 0 \in S
    <3>1. [x \in D |-> CHOOSE t \in T : TRUE] \in [D -> T]
      OBVIOUS
    <3>2. \A g : Good(0, g)
      OBVIOUS
    <3>3. QED
      BY <3>1, <3>2
  <2>2. ASSUME NEW n \in Nat, n \in S
        PROVE  n + 1 \in S
    <3>1. PICK g \in [D -> T] : Good(n, g)
      BY <2>2
    <3> DEFINE h == body[g]
    <3>2. h \in [D -> T]
      OBVIOUS
    <3>3. \A x \in D : size[x] < n => h[x] = g[x]
      BY <3>1
    <3>4. ASSUME NEW x \in D, size[x] < n + 1
          PROVE  h[x] = body[h][x]
      <4>1. \A y \in D : size[y] < size[x] => h[y] = g[y]
        <5>1. \A y \in D : size[y] \in Nat
          OBVIOUS
        <5>2. QED
          BY <3>3, <3>4, <5>1
      <4>2. body[h][x] = body[g][x]
        BY <3>2, <4>1
      <4>3. QED
        BY <4>2
    <3>5. Good(n + 1, h)
      BY <3>4
    <3>6. QED
      BY <3>2, <3>5
  <2>3. QED
    <3>1. \A n \in Nat : n \in S
      <4> HIDE DEF S
      <4>1. QED
        BY <2>1, <2>2, NumbersBySteps
    <3>2. QED
      BY <3>1
<1> DEFINE G(n) == CHOOSE g \in [D -> T] : Good(n, g)
           f == [x \in D |-> G(size[x] + 1)[x]]
<1>3. \A n \in Nat : G(n) \in [D -> T] /\ Good(n, G(n))
  BY <1>2
<1> HIDE DEF G, Good
<1>4. \A x \in D : size[x] + 1 \in Nat
  OBVIOUS
<1>5. f \in [D -> T]
  BY <1>3, <1>4
<1>6. ASSUME NEW x \in D
      PROVE  f[x] = body[f][x]
  <2> DEFINE g == G(size[x] + 1)
  <2>1. g \in [D -> T] /\ Good(size[x] + 1, g)
    BY <1>3, <1>4
  <2>2. g[x] = body[g][x]
    BY <2>1 DEF Good
  <2>3. ASSUME NEW y \in D, size[y] < size[x]
        PROVE  f[y] = g[y]
    <3>1. G(size[y] + 1) \in [D -> T] /\ Good(size[y] + 1, G(size[y] + 1))
      BY <1>3, <1>4
    <3>2. size[y] < size[y] + 1 /\ size[y] < size[x] + 1
      BY <2>3
    <3>3. G(size[y] + 1)[y] = g[y]
      BY <1>1, <1>4, <2>1, <3>1, <3>2
    <3>4. QED
      BY <3>3
  <2>4. body[f][x] = body[g][x]
    <3> HIDE DEF g, f
    <3>1. QED
      BY <1>5, <2>1, <2>3
  <2>5. QED
    BY <2>2, <2>4
<1>7. QED
  <2> HIDE DEF f
  <2>1. QED
    BY <1>5, <1>6 DEF Solves

(* Recursion from each number to the next.                                  *)
Steps(step, n, T) == \A i \in 1 .. n : step[i] \in [T -> T]

Follows(f, n, T, a, step) ==
    /\ f \in [0 .. n -> T]
    /\ f[0] = a
    /\ \A i \in 1 .. n : f[i] = step[i][f[i - 1]]

(* A function that follows a step exists, however many steps it takes.     *)
LEMMA StepByStep ==
  ASSUME NEW n \in Nat, NEW T, NEW a \in T, NEW step, Steps(step, n, T)
  PROVE  \E f : Follows(f, n, T, a, step)
<1> DEFINE D == 0 .. n
           size == [i \in D |-> i]
           body == [g \in [D -> T] |-> [i \in D |-> IF i = 0 THEN a ELSE step[i][g[i - 1]]]]
<1>1. \A i \in D : i # 0 => i \in 1 .. n /\ i - 1 \in D /\ size[i - 1] < size[i]
  OBVIOUS
<1>2. size \in [D -> Nat] /\ T # {} /\ 0 \in D
  OBVIOUS
<1>3. ASSUME NEW g \in [D -> T], NEW i \in D
      PROVE  (IF i = 0 THEN a ELSE step[i][g[i - 1]]) \in T
  <2>1. CASE i = 0
    BY <2>1
  <2>2. CASE i # 0
    <3>1. g[i - 1] \in T /\ step[i] \in [T -> T]
      BY <1>1, <2>2 DEF Steps
    <3>2. step[i][g[i - 1]] \in T
      BY <3>1
    <3>3. QED
      BY <2>2, <3>2
  <2>3. QED
    BY <2>1, <2>2
<1>4. body \in [[D -> T] -> [D -> T]]
  BY <1>3
<1>5. ASSUME NEW g \in [D -> T], NEW h \in [D -> T], NEW x \in D,
             \A y \in D : size[y] < size[x] => g[y] = h[y]
      PROVE  body[g][x] = body[h][x]
  <2>1. CASE x = 0
    BY <2>1
  <2>2. CASE x # 0
    <3>1. g[x - 1] = h[x - 1]
      BY <1>1, <1>5, <2>2
    <3>2. QED
      BY <2>2, <3>1
  <2>3. QED
    BY <2>1, <2>2
<1>6. Descends(D, T, size, body)
  BY <1>2, <1>4, <1>5 DEF Descends
<1>7. PICK f : Solves(f, D, T, body)
  <2> HIDE DEF D, size, body
  <2>1. QED
    BY <1>6, Recursion
<1>8. f \in [D -> T] /\ \A i \in D : f[i] = IF i = 0 THEN a ELSE step[i][f[i - 1]]
  BY <1>7 DEF Solves
<1>9. \A i \in 1 .. n : i \in D /\ i # 0
  OBVIOUS
<1>10. QED
  <2> HIDE DEF size, body
  <2>1. f[0] = a
    BY <1>2, <1>8
  <2>2. \A i \in 1 .. n : f[i] = step[i][f[i - 1]]
    BY <1>8, <1>9
  <2>3. QED
    BY <1>8, <2>1, <2>2 DEF Follows
-----------------------------------------------------------------------------
(* Sequences. *)

(* What a concatenation holds, by place.                                   *)
LEMMA Concatenation ==
  ASSUME NEW S, NEW a \in Seq(S), NEW b \in Seq(S)
  PROVE  /\ a \o b \in Seq(S)
         /\ Len(a \o b) = Len(a) + Len(b)
         /\ \A j \in 1 .. Len(a) : (a \o b)[j] = a[j]
         /\ \A j \in 1 .. Len(b) : (a \o b)[Len(a) + j] = b[j]
OBVIOUS

(* Concatenation may be grouped either way.                                *)
LEMMA Grouping ==
  ASSUME NEW S, NEW a \in Seq(S), NEW b \in Seq(S), NEW c \in Seq(S)
  PROVE  a \o b \o c = a \o (b \o c)
<1> DEFINE l == a \o b
           r == b \o c
           x == l \o c
           y == a \o r
<1>1. l \in Seq(S) /\ Len(l) = Len(a) + Len(b)
  OBVIOUS
<1>2. \A j \in 1 .. Len(a) : l[j] = a[j]
  OBVIOUS
<1>3. \A j \in 1 .. Len(b) : l[Len(a) + j] = b[j]
  OBVIOUS
<1>4. r \in Seq(S) /\ Len(r) = Len(b) + Len(c)
  OBVIOUS
<1>5. \A j \in 1 .. Len(b) : r[j] = b[j]
  OBVIOUS
<1>6. \A j \in 1 .. Len(c) : r[Len(b) + j] = c[j]
  OBVIOUS
<1> HIDE DEF l, r
<1>7. x \in Seq(S) /\ Len(x) = Len(a) + Len(b) + Len(c) /\ y \in Seq(S) /\ Len(y) = Len(x)
  <2>1. x \in Seq(S) /\ Len(x) = Len(l) + Len(c)
    BY <1>1
  <2>2. y \in Seq(S) /\ Len(y) = Len(a) + Len(r)
    <3>1. r \in Seq(S)
      BY <1>4
    <3>2. QED
      BY <3>1
  <2>3. Len(a) \in Nat /\ Len(b) \in Nat /\ Len(c) \in Nat
    OBVIOUS
  <2> HIDE DEF x, y
  <2>4. QED
    BY <1>1, <1>4, <2>1, <2>2, <2>3
<1>8. ASSUME NEW j \in 1 .. Len(x)
      PROVE  x[j] = y[j]
  <2>1. CASE j \in 1 .. Len(a)
    <3>1. x[j] = l[j] /\ y[j] = a[j]
      BY <1>1, <1>4, <2>1
    <3>2. QED
      BY <1>2, <2>1, <3>1
  <2>2. CASE j \in Len(a) + 1 .. Len(a) + Len(b)
    <3> DEFINE h == j - Len(a)
    <3>1. h \in 1 .. Len(b) /\ j = Len(a) + h /\ h \in 1 .. Len(r) /\ j \in 1 .. Len(l)
      BY <1>1, <1>4, <2>2
    <3> HIDE DEF h
    <3>2. x[j] = l[j] /\ y[Len(a) + h] = r[h]
      BY <1>1, <1>4, <3>1
    <3>3. l[j] = b[h] /\ r[h] = b[h]
      BY <1>3, <1>5, <3>1
    <3>4. QED
      BY <3>1, <3>2, <3>3
  <2>3. CASE j \in Len(a) + Len(b) + 1 .. Len(x)
    <3> DEFINE h == j - (Len(a) + Len(b))
               k == Len(b) + h
    <3>1. h \in 1 .. Len(c) /\ j = Len(l) + h /\ k \in 1 .. Len(r) /\ j = Len(a) + k /\ k = Len(b) + h
      BY <1>1, <1>4, <1>7, <2>3
    <3> HIDE DEF h, k
    <3>2. x[Len(l) + h] = c[h] /\ y[Len(a) + k] = r[k]
      BY <1>1, <1>4, <3>1
    <3>3. r[k] = c[h]
      BY <1>6, <3>1
    <3>4. QED
      BY <3>1, <3>2, <3>3
  <2>4. QED
    BY <1>7, <2>1, <2>2, <2>3
<1>9. x = y
  <2> HIDE DEF x, y
  <2>1. QED
    BY <1>7, <1>8
<1>10. QED
  BY <1>9 DEF x, y, l, r

(* Two sequences that are equal everywhere. *)
LEMMA SameSequence ==
  ASSUME NEW S, NEW a \in Seq(S), NEW b \in Seq(S), Len(a) = Len(b),
         \A j \in 1 .. Len(a) : a[j] = b[j]
  PROVE  a = b
OBVIOUS

(* What a part of a sequence holds, by place.                              *)
LEMMA Part ==
  ASSUME NEW S, NEW s \in Seq(S), NEW m \in Nat, NEW n \in Nat, m >= 1, n <= Len(s)
  PROVE  /\ SubSeq(s, m, n) \in Seq(S)
         /\ Len(SubSeq(s, m, n)) = IF m <= n THEN n - m + 1 ELSE 0
         /\ \A j \in 1 .. Len(SubSeq(s, m, n)) : SubSeq(s, m, n)[j] = s[m + j - 1]
OBVIOUS

(* A rest of a sequence is an element and the next rest.                   *)
LEMMA Rests ==
  ASSUME NEW S, NEW s \in Seq(S), NEW i \in 1 .. Len(s)
  PROVE  /\ SubSeq(s, i, Len(s)) = <<s[i]>> \o SubSeq(s, i + 1, Len(s))
         /\ i = Len(s) => SubSeq(s, i, Len(s)) = <<s[i]>>
<1> DEFINE n == Len(s)
           a == SubSeq(s, i, n)
           b == SubSeq(s, i + 1, n)
           c == <<s[i]>> \o b
<1>1. n \in Nat /\ s[i] \in S
  OBVIOUS
<1>2. /\ a \in Seq(S) /\ Len(a) = n - i + 1
      /\ \A j \in 1 .. Len(a) : a[j] = s[i + j - 1]
  <2>1. i \in Nat /\ i >= 1 /\ i <= n
    BY <1>1
  <2>2. /\ a \in Seq(S) /\ Len(a) = IF i <= n THEN n - i + 1 ELSE 0
        /\ \A j \in 1 .. Len(a) : a[j] = s[i + j - 1]
    BY <1>1, <2>1, Part
  <2> HIDE DEF a
  <2>3. QED
    BY <2>1, <2>2
<1>3. /\ b \in Seq(S) /\ Len(b) = n - i
      /\ \A j \in 1 .. Len(b) : b[j] = s[i + j]
  <2>1. i + 1 \in Nat /\ i + 1 >= 1
    BY <1>1
  <2>2. /\ b \in Seq(S) /\ Len(b) = IF i + 1 <= n THEN n - (i + 1) + 1 ELSE 0
        /\ \A j \in 1 .. Len(b) : b[j] = s[(i + 1) + j - 1]
    BY <1>1, <2>1, Part
  <2> HIDE DEF b
  <2>3. Len(b) = n - i
    BY <1>1, <2>2
  <2>4. \A j \in 1 .. Len(b) : (i + 1) + j - 1 = i + j
    BY <1>1, <2>3
  <2>5. QED
    BY <2>2, <2>3, <2>4
<1> HIDE DEF a, b, n
<1>4. /\ c \in Seq(S) /\ Len(c) = Len(b) + 1 /\ c[1] = s[i]
      /\ \A j \in 1 .. Len(b) : c[j + 1] = b[j]
  <2> DEFINE e == s[i]
  <2>1. e \in S /\ b \in Seq(S)
    BY <1>1, <1>3
  <2> HIDE DEF e
  <2>2. /\ <<e>> \o b \in Seq(S) /\ Len(<<e>> \o b) = Len(b) + 1 /\ (<<e>> \o b)[1] = e
        /\ \A j \in 1 .. Len(b) : (<<e>> \o b)[j + 1] = b[j]
    BY <2>1
  <2>3. QED
    BY <2>2 DEF e
<1> HIDE DEF c
<1>5. \A j \in 1 .. Len(a) : a[j] = c[j]
  <2>1. ASSUME NEW j \in 1 .. Len(a)
        PROVE  a[j] = c[j]
    <3>1. a[j] = s[i + j - 1]
      BY <1>2
    <3>2. CASE j = 1
      <4>1. i + j - 1 = i
        BY <3>2
      <4>2. QED
        BY <1>4, <3>1, <3>2, <4>1
    <3>3. CASE j # 1
      <4> DEFINE k == j - 1
      <4>1. k \in 1 .. Len(b) /\ k + 1 = j /\ i + j - 1 = i + k
        BY <1>1, <1>2, <1>3, <3>3
      <4> HIDE DEF k
      <4>2. c[j] = b[k] /\ b[k] = s[i + k]
        BY <1>3, <1>4, <4>1
      <4>3. QED
        BY <3>1, <4>1, <4>2
    <3>4. QED
      BY <3>2, <3>3
  <2>2. QED
    BY <2>1
<1>6. Len(a) = Len(c)
  BY <1>1, <1>2, <1>3, <1>4
<1>7. a = c
  BY <1>2, <1>4, <1>5, <1>6, SameSequence
<1>8. i = n => a = <<s[i]>>
  <2>1. SUFFICES ASSUME i = n
                 PROVE  a = <<s[i]>>
    OBVIOUS
  <2> DEFINE e == s[i]
             d == <<e>>
  <2>2. Len(a) = 1 /\ a[1] = e /\ e \in S
    BY <1>1, <1>2, <2>1
  <2> HIDE DEF e
  <2>3. d \in Seq(S) /\ Len(d) = 1 /\ d[1] = e
    BY <2>2
  <2> HIDE DEF d
  <2>4. Len(a) = Len(d) /\ \A j \in 1 .. Len(a) : a[j] = d[j]
    BY <2>2, <2>3
  <2>5. a = d
    BY <1>2, <2>3, <2>4, SameSequence
  <2>6. QED
    BY <2>5 DEF d, e
<1>9. QED
  BY <1>7, <1>8 DEF a, b, c, n

-----------------------------------------------------------------------------
(***************************************************************************)
(* 1. Util.                                                                *)
(***************************************************************************)

-----------------------------------------------------------------------------
(* FlattenSeq of the community modules. *)

(* upto[i] is what the first i of ss are together. *)
IsJoining(upto, ss, S) ==
    /\ upto \in [0 .. Len(ss) -> Seq(S)]
    /\ upto[0] = <<>>
    /\ \A i \in 1 .. Len(ss) : upto[i] = upto[i - 1] \o ss[i]

(* FlattenSeq joins one sequence after another.                            *)
LEMMA Joining ==
  ASSUME NEW S, NEW ss \in Seq(Seq(S))
  PROVE  \E upto : IsJoining(upto, ss, S) /\ FlattenSeq(ss) = upto[Len(ss)]
<1> DEFINE D == 1 .. Len(ss)
           T == Seq(S)
           size == [i \in D |-> i]
           body == [g \in [D -> T] |-> [i \in D |-> IF i = 1 THEN ss[i] ELSE g[i - 1] \o ss[i]]]
<1>1. Len(ss) \in Nat
  OBVIOUS
<1>2. T # {} /\ size \in [D -> Nat]
  OBVIOUS
<1>3. \A i \in D : ss[i] \in T /\ (i # 1 => i - 1 \in D)
  OBVIOUS
<1>4. body \in [[D -> T] -> [D -> T]]
  <2>1. ASSUME NEW g \in [D -> T], NEW i \in D
        PROVE  (IF i = 1 THEN ss[i] ELSE g[i - 1] \o ss[i]) \in T
    <3>1. CASE i = 1
      BY <1>3, <3>1
    <3>2. CASE i # 1
      <4>1. g[i - 1] \in T /\ ss[i] \in T
        BY <1>3, <3>2
      <4>2. QED
        BY <3>2, <4>1
    <3>3. QED
      BY <3>1, <3>2
  <2>2. QED
    BY <2>1
<1>5. Descends(D, T, size, body)
  <2>1. ASSUME NEW g \in [D -> T], NEW h \in [D -> T], NEW x \in D,
               \A y \in D : size[y] < size[x] => g[y] = h[y]
        PROVE  body[g][x] = body[h][x]
    <3>1. CASE x = 1
      BY <3>1
    <3>2. CASE x # 1
      <4>1. x - 1 \in D /\ size[x - 1] < size[x]
        BY <1>3, <3>2
      <4>2. g[x - 1] = h[x - 1]
        BY <2>1, <4>1
      <4>3. QED
        BY <3>2, <4>2
    <3>3. QED
      BY <3>1, <3>2
  <2>2. QED
    BY <1>2, <1>4, <2>1 DEF Descends
<1>6. PICK f : Solves(f, D, T, body)
  <2> HIDE DEF D, T, size, body
  <2>1. QED
    BY <1>5, Recursion
<1>7. f = [i \in D |-> IF i = 1 THEN ss[i] ELSE f[i - 1] \o ss[i]]
  BY <1>6 DEF Solves
<1> DEFINE flatten[i \in D] == IF i = 1 THEN ss[i] ELSE flatten[i - 1] \o ss[i]
<1>8. flatten = [i \in D |-> IF i = 1 THEN ss[i] ELSE flatten[i - 1] \o ss[i]]
  BY <1>7
<1>9. Len(ss) # 0 => FlattenSeq(ss) = flatten[Len(ss)]
  BY DEF FlattenSeq
<1> HIDE DEF flatten
<1>10. \A i \in D : flatten[i] \in T
  <2> DEFINE X == {i \in D : flatten[i] \in T}
  <2>1. ASSUME NEW x \in D, \A y \in D : size[y] < size[x] => y \in X
        PROVE  x \in X
    <3>1. CASE x = 1
      BY <1>3, <1>8, <3>1
    <3>2. CASE x # 1
      <4>1. x - 1 \in D /\ size[x - 1] < size[x]
        BY <1>3, <3>2
      <4>2. flatten[x - 1] \in T /\ ss[x] \in T
        BY <1>3, <2>1, <4>1
      <4>3. flatten[x] = flatten[x - 1] \o ss[x]
        BY <1>8, <3>2
      <4>4. flatten[x - 1] \o ss[x] \in T
        BY <4>2
      <4>5. QED
        BY <4>3, <4>4
    <3>3. QED
      BY <3>1, <3>2
  <2>2. \A x \in D : x \in X
    <3> HIDE DEF X, D, size
    <3>1. QED
      BY <1>2, <2>1, SizesBySteps
  <2>3. QED
    BY <2>2
<1> DEFINE upto == [i \in 0 .. Len(ss) |-> IF i = 0 THEN <<>> ELSE flatten[i]]
<1>11. upto \in [0 .. Len(ss) -> Seq(S)]
  <2>1. \A i \in 0 .. Len(ss) : i # 0 => i \in D
    BY <1>1
  <2>2. <<>> \in Seq(S)
    OBVIOUS
  <2>3. QED
    BY <1>10, <2>1, <2>2
<1>12. ASSUME NEW i \in 1 .. Len(ss)
       PROVE  upto[i] = upto[i - 1] \o ss[i]
  <2>1. upto[i] = flatten[i]
    BY <1>1
  <2>2. CASE i = 1
    <3>1. upto[i - 1] = <<>> /\ flatten[i] = ss[i]
      BY <1>1, <1>8, <2>2
    <3>2. ss[i] \in Seq(S)
      BY <1>3
    <3>3. QED
      BY <2>1, <3>1, <3>2
  <2>3. CASE i # 1
    <3>1. upto[i - 1] = flatten[i - 1]
      BY <1>1, <2>3
    <3>2. QED
      BY <1>8, <2>1, <2>3, <3>1
  <2>4. QED
    BY <2>2, <2>3
<1>13. FlattenSeq(ss) = upto[Len(ss)]
  <2>1. CASE Len(ss) = 0
    <3>1. ss = <<>> /\ FlattenSeq(ss) = ss
      BY <2>1 DEF FlattenSeq
    <3>2. upto[Len(ss)] = <<>>
      BY <2>1
    <3>3. QED
      BY <3>1, <3>2
  <2>2. CASE Len(ss) # 0
    BY <1>1, <1>9, <2>2
  <2>3. QED
    BY <2>1, <2>2
<1>14. upto[0] = <<>>
  BY <1>1
<1>15. QED
  <2> HIDE DEF upto
  <2>1. QED
    BY <1>11, <1>12, <1>13, <1>14 DEF IsJoining

(* b begins with a. *)
Begins(a, b) == Len(a) <= Len(b) /\ \A j \in 1 .. Len(a) : b[j] = a[j]

(* What follows a beginning is in the whole at its place.                  *)
LEMMA BeginsMore ==
  ASSUME NEW S, NEW a \in Seq(S), NEW b \in Seq(S), NEW all \in Seq(S), Begins(a \o b, all)
  PROVE  Begins(a, all) /\ \A j \in 1 .. Len(b) : all[Len(a) + j] = b[j]
<1> DEFINE c == a \o b
<1>1. \A j \in 1 .. Len(a) : j \in 1 .. Len(c) /\ c[j] = a[j]
  OBVIOUS
<1>2. \A j \in 1 .. Len(b) : Len(a) + j \in 1 .. Len(c) /\ c[Len(a) + j] = b[j]
  OBVIOUS
<1>3. Len(a) <= Len(c) /\ Len(a) \in Nat /\ Len(c) \in Nat /\ Len(all) \in Nat
  OBVIOUS
<1>4. Len(c) <= Len(all) /\ \A j \in 1 .. Len(c) : all[j] = c[j]
  BY DEF Begins
<1> HIDE DEF c
<1>5. Begins(a, all)
  BY <1>1, <1>3, <1>4 DEF Begins
<1>6. QED
  BY <1>2, <1>4, <1>5

(* Each beginning is a beginning of the whole. *)
LEMMA Joined ==
  ASSUME NEW S, NEW ss \in Seq(Seq(S)), NEW upto, IsJoining(upto, ss, S)
  PROVE  /\ upto[Len(ss)] \in Seq(S)
         /\ \A k \in 1 .. Len(ss) :
              /\ upto[k] \in Seq(S) /\ upto[k - 1] \in Seq(S) /\ ss[k] \in Seq(S)
              /\ upto[k] = upto[k - 1] \o ss[k]
              /\ Begins(upto[k], upto[Len(ss)])
<1> DEFINE n == Len(ss)
           all == upto[n]
           D == 0 .. n
           size == [i \in D |-> n - i]
           X == {i \in D : Begins(upto[i], all)}
<1>1. n \in Nat /\ n \in D /\ \A i \in D : upto[i] \in Seq(S)
  <2>1. n \in Nat /\ n \in D
    OBVIOUS
  <2>2. upto \in [D -> Seq(S)]
    BY DEF IsJoining
  <2>3. QED
    BY <2>1, <2>2
<1>2. ASSUME NEW i \in 1 .. n
      PROVE  /\ ss[i] \in Seq(S) /\ i \in D /\ i - 1 \in D
             /\ upto[i] = upto[i - 1] \o ss[i]
  <2>1. ss[i] \in Seq(S) /\ i \in D /\ i - 1 \in D
    BY <1>1
  <2>2. QED
    BY <2>1 DEF IsJoining
<1>3. ASSUME NEW i \in D, \A h \in D : size[h] < size[i] => h \in X
      PROVE  i \in X
  <2>1. CASE i = n
    BY <1>1, <2>1 DEF Begins
  <2>2. CASE i # n
    <3> DEFINE h == i + 1
    <3>1. h \in 1 .. n /\ h \in D /\ size[h] < size[i] /\ h - 1 = i
      BY <1>1, <2>2
    <3> HIDE DEF h
    <3>2. Begins(upto[h], all)
      BY <1>3, <3>1
    <3>3. ss[h] \in Seq(S) /\ upto[h] = upto[i] \o ss[h]
      BY <1>2, <3>1, Zenon
    <3>4. upto[i] \in Seq(S) /\ all \in Seq(S)
      BY <1>1
    <3>5. Begins(upto[i] \o ss[h], all)
      BY <3>2, <3>3, Zenon
    <3>6. Begins(upto[i], all)
      BY <3>3, <3>4, <3>5, BeginsMore, Zenon
    <3>7. QED
      BY <3>6
  <2>3. QED
    BY <2>1, <2>2
<1>4. \A i \in D : Begins(upto[i], all)
  <2>1. size \in [D -> Nat]
    BY <1>1
  <2>2. \A i \in D : i \in X
    <3> HIDE DEF X, D, size
    <3>1. QED
      BY <1>3, <2>1, SizesBySteps
  <2>3. QED
    BY <2>2
<1>5. QED
  BY <1>1, <1>2, <1>4, Zenon
-----------------------------------------------------------------------------
(* Encoding and decoding. *)

Separators == {10, 13, Space, And, Slash, Equal, 63}

(* A hexadecimal digit stands for its value, and is no separator.          *)
LEMMA HexDigit ==
  ASSUME NEW d \in 0 .. 15
  PROVE  /\ Hex(d) \in Byte \ (Separators \cup {Percent})
         /\ HexToI(Hex(d)) = d
<1>1. CASE d < 10
  BY <1>1 DEF Hex, HexToI, Byte, Separators, Space, And, Slash, Equal, Percent, Upper, Lower, Digit
<1>2. CASE ~(d < 10)
  BY <1>2 DEF Hex, HexToI, Byte, Separators, Space, And, Slash, Equal, Percent, Upper, Lower, Digit
<1>3. QED
  BY <1>1, <1>2

(* How a byte below 128 is written: as one sign, which is read as the byte, *)
(* or as three, of which the first is the percent sign.                     *)
LEMMA EncodedByte ==
  ASSUME NEW c \in Byte, c < 128, NEW plus \in BOOLEAN
  PROVE  \/ \E e \in Byte \ (Separators \cup {Percent}) :
              /\ Encoded(c, plus) = <<e>>
              /\ (IF plus /\ e = Plus THEN Space ELSE e) = c
         \/ \E d, e \in Byte \ (Separators \cup {Percent}) :
              /\ Encoded(c, plus) = <<Percent, d, e>>
              /\ (16 * HexToI(d) + HexToI(e)) % 256 = c
<1>1. CASE Unreserved(c)
  <2>1. c \in Byte \ (Separators \cup {Percent}) /\ c # Plus
    BY <1>1 DEF Unreserved, Separators, Byte, Space, And, Slash, Equal, Percent, Plus, Dot,
                Upper, Lower, Digit
  <2>2. Encoded(c, plus) = <<c>>
    BY <1>1 DEF Encoded
  <2>3. QED
    BY <2>1, <2>2
<1>2. CASE ~Unreserved(c) /\ plus /\ c = Space
  <2>1. Plus \in Byte \ (Separators \cup {Percent})
    BY DEF Separators, Byte, Space, And, Slash, Equal, Percent, Plus
  <2>2. Encoded(c, plus) = <<Plus>>
    BY <1>2 DEF Encoded
  <2>3. QED
    BY <1>2, <2>1, <2>2
<1>3. CASE ~Unreserved(c) /\ ~(plus /\ c = Space)
  <2> DEFINE d == c \div 16
             e == c % 16
  <2>1. d \in 0 .. 15 /\ e \in 0 .. 15 /\ 16 * d + e = c /\ c % 256 = c
    BY DEF Byte
  <2>2. Encoded(c, plus) = <<Percent, Hex(d), Hex(e)>>
    <3>1. ~(c >= 128)
      BY DEF Byte
    <3>2. Encoded(c, plus) = Code(c)
      BY <1>3, Zenon DEF Encoded
    <3>3. Code(c) = <<Percent, Hex(d), Hex(e)>>
      BY <3>1, Zenon DEF Code
    <3>4. QED
      BY <3>2, <3>3, Zenon
  <2> HIDE DEF d, e
  <2>3. HexToI(Hex(d)) = d /\ HexToI(Hex(e)) = e
    BY <2>1, HexDigit
  <2>4. (16 * HexToI(Hex(d)) + HexToI(Hex(e))) % 256 = c
    BY <2>1, <2>3
  <2>5. Hex(d) \in Byte \ (Separators \cup {Percent}) /\ Hex(e) \in Byte \ (Separators \cup {Percent})
    BY <2>1, HexDigit
  <2>6. QED
    BY <2>2, <2>4, <2>5
<1>4. QED
  BY <1>1, <1>2, <1>3

(* The code of a byte below 128 has no separator in it.                    *)
LEMMA EncodedType ==
  ASSUME NEW c \in Byte, c < 128, NEW plus \in BOOLEAN
  PROVE  Encoded(c, plus) \in Seq(Byte \ Separators)
<1>1. Percent \in Byte \ Separators
  BY DEF Byte, Separators, Space, And, Slash, Equal, Percent
<1>2. \A S : Byte \ (S \cup {Percent}) \subseteq Byte \ S
  OBVIOUS
<1> DEFINE S == Byte \ Separators
           P == Byte \ (Separators \cup {Percent})
<1>3. Percent \in S /\ P \subseteq S
  BY <1>1, <1>2
<1>4. \/ \E e \in P : Encoded(c, plus) = <<e>>
      \/ \E d, e \in P : Encoded(c, plus) = <<Percent, d, e>>
  BY EncodedByte
<1> HIDE DEF S, P
<1>5. QED
  <2>1. \A x \in S : <<x>> \in Seq(S)
    OBVIOUS
  <2>2. \A x, y, z \in S : <<x, y, z>> \in Seq(S)
    OBVIOUS
  <2>3. Encoded(c, plus) \in Seq(S)
    BY <1>3, <1>4, <2>1, <2>2, Zenon
  <2>4. QED
    BY <2>3 DEF S

(* The codes of the bytes of a text, before they are joined.               *)
LEMMA EncodedText ==
  ASSUME NEW t \in Seq(Byte), SevenBit(t), NEW plus \in BOOLEAN
  PROVE  LET ss == [i \in DOMAIN t |-> Encoded(t[i], plus)]
         IN  /\ ss \in Seq(Seq(Byte \ Separators))
             /\ ss \in Seq(Seq(Byte))
             /\ Len(ss) = Len(t)
             /\ \A i \in 1 .. Len(t) : ss[i] = Encoded(t[i], plus)
<1> DEFINE ss == [i \in DOMAIN t |-> Encoded(t[i], plus)]
<1>1. DOMAIN t = 1 .. Len(t) /\ Len(t) \in Nat
  OBVIOUS
<1>2. ASSUME NEW i \in 1 .. Len(t)
      PROVE  Encoded(t[i], plus) \in Seq(Byte \ Separators)
  <2>1. t[i] \in Byte /\ t[i] < 128
    BY <1>1 DEF SevenBit
  <2>2. QED
    BY <2>1, EncodedType
<1>3. ss \in Seq(Seq(Byte \ Separators))
  BY <1>1, <1>2
<1>4. ASSUME NEW i \in 1 .. Len(t)
      PROVE  Encoded(t[i], plus) \in Seq(Byte)
  BY <1>2
<1>5. ss \in Seq(Seq(Byte))
  BY <1>1, <1>4
<1>6. QED
  BY <1>1, <1>3, <1>5

(* No sign of what UrlEncode gives separates the parts of a request line.   *)
LEMMA EncodedIsPlain ==
  ASSUME NEW t \in Seq(Byte), SevenBit(t), NEW plus \in BOOLEAN
  PROVE  UrlEncode(t, plus) \in Seq(Byte \ Separators)
<1> DEFINE ss == [i \in DOMAIN t |-> Encoded(t[i], plus)]
           S == Byte \ Separators
<1>1. ss \in Seq(Seq(S))
  BY EncodedText
<1>2. UrlEncode(t, plus) = FlattenSeq(ss)
  BY DEF UrlEncode
<1> HIDE DEF ss, S
<1>3. PICK upto : IsJoining(upto, ss, S) /\ FlattenSeq(ss) = upto[Len(ss)]
  BY <1>1, Joining
<1>4. Len(ss) \in 0 .. Len(ss)
  BY <1>1
<1>5. upto[Len(ss)] \in Seq(S)
  BY <1>3, <1>4 DEF IsJoining
<1>6. QED
  BY <1>2, <1>3, <1>5 DEF S

(* from[i] is what UrlDecode makes of t from the i-th byte on. *)
IsDecoding(from, t, plus) ==
    /\ from \in [1 .. Len(t) + 1 -> Seq(Byte)]
    /\ from[Len(t) + 1] = <<>>
    /\ \A i \in 1 .. Len(t) :
          from[i] = IF t[i] = Percent /\ i + 2 <= Len(t)
                    THEN <<(16 * HexToI(t[i + 1]) + HexToI(t[i + 2])) % 256>> \o from[i + 3]
                    ELSE <<IF plus /\ t[i] = Plus THEN Space ELSE t[i]>> \o from[i + 1]

(* Two digits decode to a byte, whatever they are.                         *)
LEMMA DecodedByte ==
  ASSUME NEW c \in Byte, NEW d \in Byte
  PROVE  (16 * HexToI(c) + HexToI(d)) % 256 \in Byte
<1>1. HexToI(c) \in Int
  BY DEF HexToI, Byte, Upper, Lower, Digit
<1>2. HexToI(d) \in Int
  BY DEF HexToI, Byte, Upper, Lower, Digit
<1> HIDE DEF HexToI
<1>3. \A a, b \in Int : (16 * a + b) % 256 \in 0 .. 255
  OBVIOUS
<1>4. QED
  BY <1>1, <1>2, <1>3 DEF Byte

(* UrlDecode reads the text from the left, a byte or a code at a time.     *)
LEMMA Decoding ==
  ASSUME NEW t \in Seq(Byte), NEW plus \in BOOLEAN
  PROVE  \E from : IsDecoding(from, t, plus) /\ UrlDecode(t, plus) = from[1]
<1> DEFINE n == Len(t)
           D == 1 .. n + 1
           T == Seq(Byte)
           size == [i \in D |-> n + 1 - i]
           Escape(i) == t[i] = Percent /\ i + 2 <= n
           two(i) == (16 * HexToI(t[i + 1]) + HexToI(t[i + 2])) % 256
           one(i) == IF plus /\ t[i] = Plus THEN Space ELSE t[i]
           body == [g \in [D -> T] |-> [i \in D |->
                      IF i > n THEN <<>>
                      ELSE IF Escape(i) THEN <<two(i)>> \o g[i + 3] ELSE <<one(i)>> \o g[i + 1]]]
<1>1. n \in Nat
  OBVIOUS
<1>2. size \in [D -> Nat] /\ T # {} /\ <<>> \in T
  BY <1>1
<1>3. ASSUME NEW i \in D, ~(i > n)
      PROVE  /\ i + 1 \in D /\ size[i + 1] < size[i] /\ <<one(i)>> \in T
             /\ Escape(i) => i + 3 \in D /\ size[i + 3] < size[i] /\ <<two(i)>> \in T
  <2>1. i \in 1 .. n /\ t[i] \in Byte /\ Space \in Byte
    <3>1. i \in 1 .. n
      BY <1>1, <1>3
    <3>2. t[i] \in Byte
      BY <3>1
    <3>3. QED
      BY <3>1, <3>2 DEF Byte, Space
  <2>2. one(i) \in Byte
    BY <2>1
  <2>3. Escape(i) => two(i) \in Byte
    <3>1. SUFFICES ASSUME Escape(i)
                   PROVE  two(i) \in Byte
      OBVIOUS
    <3>2. i + 1 \in 1 .. n /\ i + 2 \in 1 .. n
      BY <1>1, <2>1, <3>1
    <3>3. t[i + 1] \in Byte /\ t[i + 2] \in Byte
      BY <3>2
    <3>4. QED
      BY <3>3, DecodedByte
  <2> HIDE DEF one, two
  <2>4. <<one(i)>> \in T /\ (Escape(i) => <<two(i)>> \in T)
    BY <2>2, <2>3
  <2>5. QED
    BY <1>1, <2>1, <2>4
<1>17. \A a, b \in T : a \o b \in T
  OBVIOUS
<1> HIDE DEF one, two, T
<1>4. ASSUME NEW g, NEW i \in D, i > n \/ (g[i + 1] \in T /\ (Escape(i) => g[i + 3] \in T))
      PROVE  (IF i > n THEN <<>>
              ELSE IF Escape(i) THEN <<two(i)>> \o g[i + 3] ELSE <<one(i)>> \o g[i + 1]) \in T
  <2>1. CASE i > n
    BY <1>2, <2>1
  <2>2. CASE ~(i > n) /\ Escape(i)
    BY <1>3, <1>4, <1>17, <2>2
  <2>3. CASE ~(i > n) /\ ~Escape(i)
    BY <1>3, <1>4, <1>17, <2>3
  <2>4. QED
    BY <2>1, <2>2, <2>3
<1>5. Descends(D, T, size, body)
  <2>1. body \in [[D -> T] -> [D -> T]]
    <3>1. ASSUME NEW g \in [D -> T], NEW i \in D
          PROVE  i > n \/ (g[i + 1] \in T /\ (Escape(i) => g[i + 3] \in T))
      BY <1>3
    <3>2. QED
      BY <1>4, <3>1
  <2>2. ASSUME NEW g \in [D -> T], NEW h \in [D -> T], NEW x \in D,
               \A y \in D : size[y] < size[x] => g[y] = h[y]
        PROVE  body[g][x] = body[h][x]
    <3>1. CASE x > n
      BY <3>1
    <3>2. CASE ~(x > n) /\ Escape(x)
      <4>1. g[x + 3] = h[x + 3]
        BY <1>3, <2>2, <3>2
      <4>2. QED
        BY <3>2, <4>1
    <3>3. CASE ~(x > n) /\ ~Escape(x)
      <4>1. g[x + 1] = h[x + 1]
        BY <1>3, <2>2, <3>3
      <4>2. QED
        BY <3>3, <4>1
    <3>4. QED
      BY <3>1, <3>2, <3>3
  <2>3. QED
    BY <1>2, <2>1, <2>2 DEF Descends
<1>6. PICK f : Solves(f, D, T, body)
  <2> HIDE DEF D, size, body
  <2>1. QED
    BY <1>5, Recursion
<1>7. f = [i \in D |-> IF i > n THEN <<>>
                       ELSE IF Escape(i) THEN <<two(i)>> \o f[i + 3] ELSE <<one(i)>> \o f[i + 1]]
  BY <1>6 DEF Solves
<1> DEFINE from[i \in D] == IF i > n THEN <<>>
                            ELSE IF Escape(i) THEN <<two(i)>> \o from[i + 3]
                            ELSE <<one(i)>> \o from[i + 1]
<1>8. from = [i \in D |-> IF i > n THEN <<>>
                          ELSE IF Escape(i) THEN <<two(i)>> \o from[i + 3]
                          ELSE <<one(i)>> \o from[i + 1]]
  BY <1>7
<1>9. UrlDecode(t, plus) = from[1]
  BY Zenon DEF UrlDecode, one, two
<1> HIDE DEF from
<1>10. \A i \in D : from[i] \in T
  <2> DEFINE X == {i \in D : from[i] \in T}
  <2>1. ASSUME NEW x \in D, \A y \in D : size[y] < size[x] => y \in X
        PROVE  x \in X
    <3>1. x > n \/ (from[x + 1] \in T /\ (Escape(x) => from[x + 3] \in T))
      BY <1>3, <2>1
    <3>2. from[x] \in T
      BY <1>4, <1>8, <3>1
    <3>3. QED
      BY <3>2
  <2>2. \A x \in D : x \in X
    <3> HIDE DEF X, D, size
    <3>1. QED
      BY <1>2, <2>1, SizesBySteps
  <2>3. QED
    BY <2>2
<1>11. from \in [D -> T]
  BY <1>8, <1>10
<1>12. n + 1 \in D /\ n + 1 > n /\ \A i \in 1 .. n : i \in D /\ ~(i > n)
  BY <1>1
<1>13. from[n + 1] = <<>>
  BY <1>8, <1>12
<1>14. ASSUME NEW i \in 1 .. n
       PROVE  from[i] = IF Escape(i) THEN <<two(i)>> \o from[i + 3] ELSE <<one(i)>> \o from[i + 1]
  BY <1>8, <1>12
<1>15. IsDecoding(from, t, plus)
  BY <1>11, <1>13, <1>14, Zenon DEF IsDecoding, one, two, T
<1>16. QED
  BY <1>9, <1>15

(* What is encoded is decoded: where the code of the k-th byte ends, the    *)
(* bytes after it remain.                                                   *)
LEMMA DecodesWhatWasEncoded ==
  ASSUME NEW t \in Seq(Byte), SevenBit(t), NEW plus \in BOOLEAN
  PROVE  UrlDecode(UrlEncode(t, plus), plus) = t
<1> DEFINE n == Len(t)
           ss == [i \in DOMAIN t |-> Encoded(t[i], plus)]
           e == UrlEncode(t, plus)
<1>1. n \in Nat /\ Len(ss) = n /\ ss \in Seq(Seq(Byte)) /\ \A i \in 1 .. n : ss[i] = Encoded(t[i], plus)
  BY EncodedText
<1>2. e = FlattenSeq(ss)
  BY DEF UrlEncode
<1> HIDE DEF e, ss
<1>3. PICK upto : IsJoining(upto, ss, Byte) /\ e = upto[n]
  BY <1>1, <1>2, Joining
<1>4. /\ upto \in [0 .. n -> Seq(Byte)] /\ upto[0] = <<>>
      /\ e \in Seq(Byte) /\ Len(e) \in Nat
  <2>1. upto \in [0 .. n -> Seq(Byte)] /\ upto[0] = <<>>
    BY <1>1, <1>3 DEF IsJoining
  <2>2. e \in Seq(Byte)
    BY <1>1, <1>3, <2>1
  <2>3. QED
    BY <2>1, <2>2
<1>5. PICK from : IsDecoding(from, e, plus) /\ UrlDecode(e, plus) = from[1]
  BY <1>4, Decoding
<1> DEFINE Rest(k) == SubSeq(t, k + 1, n)
           D == 0 .. n
           size == [k \in D |-> n - k]
           X == {k \in D : from[Len(upto[k]) + 1] = Rest(k)}
<1>6. ASSUME NEW k \in D, k # n, k + 1 \in X
      PROVE  k \in X
  <2> DEFINE m == k + 1
             c == t[m]
             p == Len(upto[k])
             q == Len(upto[m])
             w == Encoded(c, plus)
  <2>1. m \in 1 .. n /\ m \in D /\ m - 1 = k /\ c \in Byte /\ c < 128
    <3>1. m \in 1 .. n /\ m \in D /\ m - 1 = k
      BY <1>1, <1>6
    <3>2. m \in DOMAIN t /\ c \in Byte
      BY <3>1
    <3>3. QED
      BY <3>1, <3>2 DEF SevenBit
  <2>2. Rest(k) = <<c>> \o Rest(m)
    BY <1>1, <2>1
  <2> HIDE DEF m
  <2>3. p \in Nat /\ q \in Nat
    BY <1>4, <2>1
  <2>4. /\ q = p + Len(w) /\ q <= Len(e)
        /\ \A j \in 1 .. Len(w) : e[p + j] = w[j]
    <3>1. m \in 1 .. Len(ss) /\ upto[Len(ss)] = e
      BY <1>1, <1>3, <2>1
    <3>2. ss[m] = w
      BY <1>1, <2>1
    <3>3. /\ upto[m - 1] \in Seq(Byte) /\ ss[m] \in Seq(Byte)
          /\ upto[m] = upto[m - 1] \o ss[m]
          /\ Begins(upto[m], upto[Len(ss)])
      BY <1>1, <1>3, <3>1, Joined, Zenon
    <3> DEFINE a == upto[k]
    <3>4. a \in Seq(Byte) /\ w \in Seq(Byte) /\ upto[m] = a \o w /\ Begins(a \o w, e)
      BY <2>1, <3>1, <3>2, <3>3, Zenon
    <3>5. p = Len(a)
      OBVIOUS
    <3> HIDE DEF a, w, p
    <3>6. \A j \in 1 .. Len(w) : e[Len(a) + j] = w[j]
      BY <1>4, <3>4, BeginsMore
    <3>7. Len(a \o w) <= Len(e) /\ Len(a \o w) = Len(a) + Len(w)
      BY <3>4 DEF Begins
    <3>8. QED
      BY <3>4, <3>5, <3>6, <3>7
  <2>5. from[q + 1] = Rest(m)
    BY <1>6 DEF m
  <2> HIDE DEF p, q, c, Rest
  <2>6. ASSUME NEW d \in Byte \ (Separators \cup {Percent}), w = <<d>>,
               (IF plus /\ d = Plus THEN Space ELSE d) = c
        PROVE  from[p + 1] = Rest(k)
    <3>1. q = p + 1 /\ e[p + 1] = d
      BY <2>3, <2>4, <2>6
    <3>2. p + 1 \in 1 .. Len(e) /\ q + 1 = (p + 1) + 1
      BY <1>4, <2>3, <2>4, <3>1
    <3>3. e[p + 1] # Percent
      BY <2>6, <3>1
    <3>4. from[p + 1] = <<IF plus /\ e[p + 1] = Plus THEN Space ELSE e[p + 1]>> \o from[(p + 1) + 1]
      BY <1>5, <3>2, <3>3, Zenon DEF IsDecoding
    <3>5. from[p + 1] = <<c>> \o Rest(m)
      BY <2>5, <2>6, <3>1, <3>2, <3>4, Zenon
    <3>6. QED
      BY <2>2, <3>5
  <2>7. ASSUME NEW d \in Byte \ (Separators \cup {Percent}), NEW f \in Byte \ (Separators \cup {Percent}),
               w = <<Percent, d, f>>, (16 * HexToI(d) + HexToI(f)) % 256 = c
        PROVE  from[p + 1] = Rest(k)
    <3>1. q = p + 3 /\ e[p + 1] = Percent /\ e[p + 2] = d /\ e[p + 3] = f
      BY <2>3, <2>4, <2>7
    <3>2. /\ p + 1 \in 1 .. Len(e) /\ (p + 1) + 2 <= Len(e)
          /\ q + 1 = (p + 1) + 3 /\ p + 2 = (p + 1) + 1 /\ p + 3 = (p + 1) + 2
      BY <1>4, <2>3, <2>4, <3>1
    <3>3. from[p + 1] = <<(16 * HexToI(e[(p + 1) + 1]) + HexToI(e[(p + 1) + 2])) % 256>> \o from[(p + 1) + 3]
      BY <1>5, <3>1, <3>2, Zenon DEF IsDecoding
    <3>4. from[p + 1] = <<c>> \o Rest(m)
      BY <2>5, <2>7, <3>1, <3>2, <3>3, Zenon
    <3>5. QED
      BY <2>2, <3>4
  <2>8. from[p + 1] = Rest(k)
    BY <2>1, <2>6, <2>7, EncodedByte
  <2>9. QED
    BY <2>8 DEF p, Rest
<1>7. ASSUME NEW k \in D, \A i \in D : size[i] < size[k] => i \in X
      PROVE  k \in X
  <2>1. CASE k = n
    <3>1. Rest(n) = <<>>
      BY <1>1
    <3>2. from[Len(e) + 1] = <<>>
      BY <1>5 DEF IsDecoding
    <3>3. QED
      BY <1>3, <2>1, <3>1, <3>2
  <2>2. CASE k # n
    <3>1. k + 1 \in D /\ size[k + 1] < size[k]
      BY <1>1, <2>2
    <3>2. k + 1 \in X
      BY <1>7, <3>1
    <3>3. QED
      BY <1>6, <2>2, <3>2
  <2>3. QED
    BY <2>1, <2>2
<1>8. size \in [D -> Nat] /\ 0 \in D
  BY <1>1
<1>9. \A k \in D : k \in X
  <2> HIDE DEF X, D, size
  <2>1. QED
    BY <1>7, <1>8, SizesBySteps
<1>10. from[Len(upto[0]) + 1] = Rest(0)
  BY <1>8, <1>9
<1>11. Len(upto[0]) + 1 = 1 /\ Rest(0) = t
  BY <1>1, <1>4
<1>12. QED
  BY <1>5, <1>10, <1>11 DEF e
-----------------------------------------------------------------------------
(* Find gives the first place, from offset on, that holds the delimiter.    *)
LEMMA FindFirst ==
  ASSUME NEW t \in Seq(Byte), NEW deli, NEW offset \in 1 .. Len(t) + 1
  PROVE  LET pos == Find(t, deli, offset)
         IN  \/ pos = 0 /\ \A i \in offset .. Len(t) : t[i] # deli
             \/ /\ pos \in offset .. Len(t) /\ t[pos] = deli
                /\ \A i \in offset .. pos - 1 : t[i] # deli
<1> DEFINE found == {i \in offset .. Len(t) : t[i] = deli}
           pos == Find(t, deli, offset)
<1>1. CASE found = {}
  <2>1. pos = 0
    BY <1>1 DEF Find
  <2>2. \A i \in offset .. Len(t) : t[i] # deli
    BY <1>1
  <2>3. QED
    BY <2>1, <2>2
<1>2. CASE found # {}
  <2>1. pos = Min(found)
    BY <1>2 DEF Find
  <2>2. found \in SUBSET Nat
    OBVIOUS
  <2>3. \E x \in found : \A y \in found : x <= y
    BY <1>2, <2>2, LeastNumber
  <2>4. pos \in found /\ \A y \in found : pos <= y
    BY <2>1, <2>3 DEF Min
  <2>5. pos \in offset .. Len(t) /\ t[pos] = deli
    BY <2>4
  <2>6. ASSUME NEW i \in offset .. pos - 1
        PROVE  t[i] # deli
    <3>1. i \in offset .. Len(t) /\ ~(pos <= i)
      BY <2>5
    <3>2. QED
      BY <2>4, <3>1
  <2>7. QED
    BY <2>5, <2>6
<1>3. QED
  BY <1>1, <1>2

(* from[offset] is what Split makes of t from there on.                     *)
IsSplitting(from, t, deli) ==
    /\ from \in [1 .. Len(t) + 1 -> Seq(Seq(Byte))]
    /\ from[Len(t) + 1] = <<>>
    /\ \A offset \in 1 .. Len(t) :
          LET pos == Find(t, deli, offset)
          IN  from[offset] =
                IF pos = 0 THEN <<SubSeq(t, offset, Len(t))>>
                ELSE (IF pos # offset THEN <<SubSeq(t, offset, pos - 1)>> ELSE <<>>)
                     \o from[pos + 1]

(* Split reads the text from the left, a part or a delimiter at a time.    *)
LEMMA Splitting ==
  ASSUME NEW t \in Seq(Byte), NEW deli
  PROVE  \E from : IsSplitting(from, t, deli) /\ Split(t, deli) = from[1]
<1> DEFINE n == Len(t)
           D == 1 .. n + 1
           T == Seq(Seq(Byte))
           size == [o \in D |-> n + 1 - o]
           P(o) == Find(t, deli, o)
           last(o) == <<SubSeq(t, o, n)>>
           piece(o) == IF P(o) # o THEN <<SubSeq(t, o, P(o) - 1)>> ELSE <<>>
           body == [g \in [D -> T] |-> [o \in D |->
                      IF o > n THEN <<>> ELSE IF P(o) = 0 THEN last(o)
                      ELSE piece(o) \o g[P(o) + 1]]]
<1>1. n \in Nat
  OBVIOUS
<1>2. size \in [D -> Nat] /\ T # {} /\ <<>> \in T
  <2>1. size \in [D -> Nat]
    BY <1>1
  <2>2. <<>> \in T
    OBVIOUS
  <2>3. QED
    BY <2>1, <2>2
<1>3. ASSUME NEW o \in D, ~(o > n)
      PROVE  /\ last(o) \in T
             /\ P(o) # 0 => /\ P(o) + 1 \in D /\ size[P(o) + 1] < size[o]
                            /\ piece(o) \in T
  <2>1. o \in 1 .. n
    BY <1>1, <1>3
  <2>2. last(o) \in T
    <3>1. SubSeq(t, o, n) \in Seq(Byte)
      BY <2>1
    <3> DEFINE s == SubSeq(t, o, n)
    <3> HIDE DEF s
    <3>2. <<s>> \in T
      BY <3>1 DEF s
    <3>3. QED
      BY <3>2 DEF s
  <2>3. P(o) # 0 => P(o) \in o .. n
    BY FindFirst
  <2>4. SUFFICES ASSUME P(o) # 0
                 PROVE  P(o) + 1 \in D /\ size[P(o) + 1] < size[o] /\ piece(o) \in T
    BY <2>2
  <2>5. piece(o) \in T
    <3>1. SubSeq(t, o, P(o) - 1) \in Seq(Byte)
      BY <1>1, <2>1, <2>3, <2>4
    <3> DEFINE s == SubSeq(t, o, P(o) - 1)
    <3> HIDE DEF s
    <3>2. <<s>> \in T
      BY <3>1 DEF s
    <3>3. QED
      BY <1>2, <3>2 DEF s
  <2> HIDE DEF P
  <2>6. QED
    BY <1>1, <2>1, <2>3, <2>4, <2>5
<1>4. \A a, b \in T : a \o b \in T
  OBVIOUS
<1> HIDE DEF P, last, piece, T
<1>5. ASSUME NEW g, NEW o \in D, o > n \/ P(o) = 0 \/ g[P(o) + 1] \in T
      PROVE  (IF o > n THEN <<>> ELSE IF P(o) = 0 THEN last(o) ELSE piece(o) \o g[P(o) + 1]) \in T
  <2>1. CASE o > n
    BY <1>2, <2>1
  <2>2. CASE ~(o > n) /\ P(o) = 0
    BY <1>3, <2>2
  <2>3. CASE ~(o > n) /\ P(o) # 0
    BY <1>3, <1>4, <1>5, <2>3
  <2>4. QED
    BY <2>1, <2>2, <2>3
<1>6. Descends(D, T, size, body)
  <2>1. body \in [[D -> T] -> [D -> T]]
    <3>1. ASSUME NEW g \in [D -> T], NEW o \in D
          PROVE  o > n \/ P(o) = 0 \/ g[P(o) + 1] \in T
      BY <1>3
    <3>2. QED
      BY <1>5, <3>1
  <2>2. ASSUME NEW g \in [D -> T], NEW h \in [D -> T], NEW x \in D,
               \A y \in D : size[y] < size[x] => g[y] = h[y]
        PROVE  body[g][x] = body[h][x]
    <3>1. CASE x > n \/ P(x) = 0
      BY <3>1
    <3>2. CASE ~(x > n) /\ P(x) # 0
      <4>1. g[P(x) + 1] = h[P(x) + 1]
        BY <1>3, <2>2, <3>2
      <4>2. QED
        BY <3>2, <4>1
    <3>3. QED
      BY <3>1, <3>2
  <2>3. QED
    BY <1>2, <2>1, <2>2 DEF Descends
<1>7. PICK f : Solves(f, D, T, body)
  <2> HIDE DEF D, size, body
  <2>1. QED
    BY <1>6, Recursion
<1>8. f = [o \in D |-> IF o > n THEN <<>> ELSE IF P(o) = 0 THEN last(o)
                       ELSE piece(o) \o f[P(o) + 1]]
  BY <1>7 DEF Solves
<1> DEFINE from[o \in D] == IF o > n THEN <<>> ELSE IF P(o) = 0 THEN last(o)
                            ELSE piece(o) \o from[P(o) + 1]
<1>9. from = [o \in D |-> IF o > n THEN <<>> ELSE IF P(o) = 0 THEN last(o)
                          ELSE piece(o) \o from[P(o) + 1]]
  BY <1>8
<1>10. Split(t, deli) = from[1]
  BY Zenon DEF Split, P, last, piece
<1> HIDE DEF from
<1>11. \A o \in D : from[o] \in T
  <2> DEFINE X == {o \in D : from[o] \in T}
  <2>1. ASSUME NEW x \in D, \A y \in D : size[y] < size[x] => y \in X
        PROVE  x \in X
    <3>1. x > n \/ P(x) = 0 \/ from[P(x) + 1] \in T
      BY <1>3, <2>1
    <3>2. from[x] \in T
      BY <1>5, <1>9, <3>1
    <3>3. QED
      BY <3>2
  <2>2. \A x \in D : x \in X
    <3> HIDE DEF X, D, size
    <3>1. QED
      BY <1>2, <2>1, SizesBySteps
  <2>3. QED
    BY <2>2
<1>12. from \in [D -> T]
  BY <1>9, <1>11
<1>13. n + 1 \in D /\ n + 1 > n /\ \A o \in 1 .. n : o \in D /\ ~(o > n)
  BY <1>1
<1>14. from[n + 1] = <<>>
  BY <1>9, <1>13
<1>15. ASSUME NEW o \in 1 .. n
       PROVE  from[o] = IF P(o) = 0 THEN last(o) ELSE piece(o) \o from[P(o) + 1]
  BY <1>9, <1>13
<1>16. IsSplitting(from, t, deli)
  BY <1>12, <1>14, <1>15, Zenon DEF IsSplitting, P, last, piece, T
<1>17. QED
  BY <1>10, <1>16

-----------------------------------------------------------------------------
(* What Split gives, as runs of bytes that are not the delimiter.           *)

IsRun(t, deli, a, b) ==
    /\ a \in 1 .. Len(t) /\ b \in a .. Len(t)
    /\ \A i \in a .. b : t[i] # deli
    /\ a = 1 \/ t[a - 1] = deli
    /\ b = Len(t) \/ t[b + 1] = deli

(* Runs has the maximal runs without a delimiter, and nothing else.        *)
LEMMA RunsAreRuns ==
  ASSUME NEW t \in Seq(Byte), NEW deli
  PROVE  /\ \A r \in Runs(t, deli) : r = <<r[1], r[2]>> /\ IsRun(t, deli, r[1], r[2])
         /\ \A a, b : IsRun(t, deli, a, b) => <<a, b>> \in Runs(t, deli)
<1>1. ASSUME NEW r \in Runs(t, deli)
      PROVE  r = <<r[1], r[2]>> /\ IsRun(t, deli, r[1], r[2])
  <2>1. PICK a, b \in 1 .. Len(t) : r = <<a, b>>
    BY DEF Runs
  <2>2. r[1] = a /\ r[2] = b
    BY <2>1
  <2>3. /\ a <= b
        /\ \A i \in a .. b : t[i] # deli
        /\ a = 1 \/ t[a - 1] = deli
        /\ b = Len(t) \/ t[b + 1] = deli
    BY <2>2 DEF Runs
  <2>4. QED
    BY <2>1, <2>2, <2>3 DEF IsRun
<1>2. ASSUME NEW a, NEW b, IsRun(t, deli, a, b)
      PROVE  <<a, b>> \in Runs(t, deli)
  <2>1. a \in 1 .. Len(t) /\ b \in 1 .. Len(t) /\ a <= b
    BY <1>2 DEF IsRun
  <2>2. <<a, b>>[1] = a /\ <<a, b>>[2] = b /\ <<a, b>> \in (1 .. Len(t)) \X (1 .. Len(t))
    BY <2>1
  <2>3. QED
    BY <1>2, <2>1, <2>2 DEF IsRun, Runs
<1>3. QED
  BY <1>1, <1>2

(* Two runs that begin, or end, at one place are one.                       *)
LEMMA RunsDiffer ==
  ASSUME NEW t \in Seq(Byte), NEW deli, NEW a, NEW b, NEW c, NEW d,
         IsRun(t, deli, a, b), IsRun(t, deli, c, d), a <= c, c <= b
  PROVE  a = c /\ b = d
<1>1. a \in 1 .. Len(t) /\ b \in a .. Len(t) /\ c \in 1 .. Len(t) /\ d \in c .. Len(t)
  BY DEF IsRun
<1>2. a = c
  <2>1. SUFFICES ASSUME a < c
                 PROVE  FALSE
    BY <1>1
  <2>2. c - 1 \in a .. b /\ c # 1
    BY <1>1, <2>1
  <2>3. QED
    BY <2>2 DEF IsRun
<1>3. ~(b < d)
  <2>1. SUFFICES ASSUME b < d
                 PROVE  FALSE
    OBVIOUS
  <2>2. b + 1 \in c .. d /\ b # Len(t)
    BY <1>1, <2>1
  <2>3. QED
    BY <2>2 DEF IsRun
<1>4. ~(d < b)
  <2>1. SUFFICES ASSUME d < b
                 PROVE  FALSE
    OBVIOUS
  <2>2. d + 1 \in a .. b /\ d # Len(t)
    BY <1>1, <2>1
  <2>3. QED
    BY <2>2 DEF IsRun
<1>5. QED
  BY <1>1, <1>2, <1>3, <1>4

(* The i-th member of v is the run from first[i] to last[i]: v has all runs *)
(* that begin at o or later, in their order.                                *)
InOrder(v, first, last, t, deli, o) ==
    /\ first \in [1 .. Len(v) -> Nat]
    /\ last \in [1 .. Len(v) -> Nat]
    /\ \A i \in 1 .. Len(v) :
          /\ IsRun(t, deli, first[i], last[i])
          /\ o <= first[i]
          /\ v[i] = SubSeq(t, first[i], last[i])
    /\ \A i, j \in 1 .. Len(v) : i < j => last[i] < first[j]
    /\ \A a, b : IsRun(t, deli, a, b) /\ o <= a => \E i \in 1 .. Len(v) : a = first[i]

(* One more run, before the others.                                         *)
LEMMA OneMoreRun ==
  ASSUME NEW t \in Seq(Byte), NEW deli, NEW o \in Nat, NEW b \in Nat, NEW p \in Nat,
         IsRun(t, deli, o, b), b < p, o <= b,
         NEW v \in Seq(Seq(Byte)), NEW first, NEW last, InOrder(v, first, last, t, deli, p),
         \A c, d : IsRun(t, deli, c, d) /\ o <= c => c = o \/ p <= c
  PROVE  \E f, l : InOrder(<<SubSeq(t, o, b)>> \o v, f, l, t, deli, o)
<1> DEFINE m == Len(v)
           s == SubSeq(t, o, b)
           w == <<s>> \o v
           f == [i \in 1 .. m + 1 |-> IF i = 1 THEN o ELSE first[i - 1]]
           l == [i \in 1 .. m + 1 |-> IF i = 1 THEN b ELSE last[i - 1]]
<1>1. m \in Nat /\ s \in Seq(Byte)
  <2>1. o >= 1 /\ b <= Len(t)
    BY DEF IsRun
  <2>2. QED
    BY <2>1, Part
<1>2. /\ first \in [1 .. m -> Nat]
      /\ last \in [1 .. m -> Nat]
      /\ \A i \in 1 .. m : /\ IsRun(t, deli, first[i], last[i])
                           /\ p <= first[i]
                           /\ v[i] = SubSeq(t, first[i], last[i])
      /\ \A i, j \in 1 .. m : i < j => last[i] < first[j]
      /\ \A c, d : IsRun(t, deli, c, d) /\ p <= c => \E i \in 1 .. m : c = first[i]
  BY DEF InOrder
<1>3. \A i \in 1 .. m + 1 : i # 1 => i - 1 \in 1 .. m
  BY <1>1
<1>4. f \in [1 .. m + 1 -> Nat] /\ l \in [1 .. m + 1 -> Nat]
  BY <1>2, <1>3
<1>5. /\ f[1] = o /\ l[1] = b
      /\ \A i \in 1 .. m : i + 1 \in 1 .. m + 1 /\ f[i + 1] = first[i] /\ l[i + 1] = last[i]
  BY <1>1
<1>6. /\ Len(w) = m + 1 /\ w[1] = s
      /\ \A i \in 1 .. m : w[i + 1] = v[i]
  <2> HIDE DEF s
  <2>1. QED
    BY <1>1
<1>7. \A i \in 1 .. m + 1 : i = 1 \/ \E j \in 1 .. m : i = j + 1
  <2>1. ASSUME NEW i \in 1 .. m + 1, i # 1
        PROVE  \E j \in 1 .. m : i = j + 1
    <3>1. i - 1 \in 1 .. m /\ i = (i - 1) + 1
      BY <1>1, <2>1
    <3>2. QED
      BY <3>1
  <2>2. QED
    BY <2>1
<1> HIDE DEF w, f, l, s
<1>8. ASSUME NEW i \in 1 .. m + 1
      PROVE  /\ IsRun(t, deli, f[i], l[i])
             /\ o <= f[i]
             /\ w[i] = SubSeq(t, f[i], l[i])
  <2>1. CASE i = 1
    BY <1>5, <1>6, <2>1 DEF s
  <2>2. ASSUME NEW j \in 1 .. m, i = j + 1
        PROVE  /\ IsRun(t, deli, f[i], l[i])
               /\ o <= f[i]
               /\ w[i] = SubSeq(t, f[i], l[i])
    <3>1. f[i] = first[j] /\ l[i] = last[j] /\ w[i] = v[j] /\ first[j] \in Nat
      BY <1>2, <1>5, <1>6, <2>2
    <3>2. p <= first[j] /\ IsRun(t, deli, first[j], last[j]) /\ v[j] = SubSeq(t, first[j], last[j])
      BY <1>2
    <3>3. o <= first[j]
      BY <3>1, <3>2
    <3>4. QED
      BY <3>1, <3>2, <3>3
  <2>3. QED
    BY <1>7, <2>1, <2>2
<1>9. ASSUME NEW i \in 1 .. m + 1, NEW j \in 1 .. m + 1, i < j
      PROVE  l[i] < f[j]
  <2>1. PICK k \in 1 .. m : j = k + 1
    BY <1>7, <1>9
  <2>2. f[j] = first[k] /\ p <= first[k] /\ first[k] \in Nat
    BY <1>2, <1>5, <2>1
  <2>3. CASE i = 1
    BY <1>5, <2>2, <2>3
  <2>4. ASSUME NEW h \in 1 .. m, i = h + 1
        PROVE  l[i] < f[j]
    <3>1. h < k /\ l[i] = last[h]
      BY <1>5, <1>9, <2>1, <2>4
    <3>2. QED
      BY <1>2, <2>2, <3>1
  <2>5. QED
    BY <1>7, <2>3, <2>4
<1>10. ASSUME NEW c, NEW d, IsRun(t, deli, c, d), o <= c
       PROVE  \E i \in 1 .. m + 1 : c = f[i]
  <2>1. CASE c = o
    BY <1>1, <1>5, <2>1
  <2>2. CASE p <= c
    <3>1. PICK i \in 1 .. m : c = first[i]
      BY <1>2, <1>10, <2>2
    <3>2. QED
      BY <1>5, <3>1
  <2>3. QED
    BY <1>10, <2>1, <2>2
<1>11. InOrder(w, f, l, t, deli, o)
  BY <1>4, <1>6, <1>8, <1>9, <1>10 DEF InOrder
<1>12. QED
  BY <1>11 DEF w, s

(* What Split returns are runs, each right of the one before.              *)
LEMMA SplitInOrder ==
  ASSUME NEW t \in Seq(Byte), NEW deli
  PROVE  /\ Split(t, deli) \in Seq(Seq(Byte))
         /\ \E first, last : InOrder(Split(t, deli), first, last, t, deli, 1)
<1> DEFINE n == Len(t)
<1>1. PICK from : IsSplitting(from, t, deli) /\ Split(t, deli) = from[1]
  BY Splitting
<1>2. n \in Nat /\ from \in [1 .. n + 1 -> Seq(Seq(Byte))] /\ from[n + 1] = <<>>
  BY <1>1 DEF IsSplitting
<1> DEFINE D == 1 .. n + 1
           size == [o \in D |-> n + 1 - o]
           Starts(o) == o = 1 \/ t[o - 1] = deli
           Good(o) == \E f, l : InOrder(from[o], f, l, t, deli, o)
           X == {o \in D : Starts(o) => Good(o)}
<1>3. ASSUME NEW o \in D, \A h \in D : size[h] < size[o] => h \in X
      PROVE  o \in X
  <2>1. SUFFICES ASSUME Starts(o)
                 PROVE  Good(o)
    OBVIOUS
  <2>2. CASE o = n + 1
    <3>1. \A a, b : ~(IsRun(t, deli, a, b) /\ o <= a)
      BY <1>2, <2>2 DEF IsRun
    <3>2. from[o] = <<>>
      BY <1>2, <2>2
    <3>3. InOrder(<<>>, <<>>, <<>>, t, deli, o)
      BY <3>1 DEF InOrder
    <3>4. QED
      BY <3>2, <3>3
  <2>3. CASE o # n + 1
    <3> DEFINE pos == Find(t, deli, o)
    <3>1. o \in 1 .. n /\ o \in Nat
      BY <1>2, <2>3
    <3>2. \/ pos = 0 /\ \A i \in o .. n : t[i] # deli
          \/ /\ pos \in o .. n /\ t[pos] = deli
             /\ \A i \in o .. pos - 1 : t[i] # deli
      BY FindFirst
    <3>3. from[o] = IF pos = 0 THEN <<SubSeq(t, o, n)>>
                    ELSE (IF pos # o THEN <<SubSeq(t, o, pos - 1)>> ELSE <<>>) \o from[pos + 1]
      BY <1>1, <3>1, Zenon DEF IsSplitting
    <3> HIDE DEF pos
    <3>4. CASE pos = 0
      <4>1. \A i \in o .. n : t[i] # deli
        BY <3>1, <3>2, <3>4
      <4>2. IsRun(t, deli, o, n)
        BY <1>2, <2>1, <3>1, <4>1 DEF IsRun
      <4>3. ASSUME NEW c, NEW d, IsRun(t, deli, c, d), o <= c
            PROVE  c = o \/ n + 1 <= c
        <5>1. c <= n /\ c \in Nat
          BY <4>3 DEF IsRun
        <5>2. QED
          BY <4>2, <4>3, <5>1, RunsDiffer
      <4>4. InOrder(<<>>, <<>>, <<>>, t, deli, n + 1)
        <5>1. \A a, b : ~(IsRun(t, deli, a, b) /\ n + 1 <= a)
          BY <1>2 DEF IsRun
        <5>2. QED
          BY <5>1 DEF InOrder
      <4>5. \E f, l : InOrder(<<SubSeq(t, o, n)>> \o <<>>, f, l, t, deli, o)
        <5>1. n < n + 1 /\ o <= n /\ n + 1 \in Nat /\ <<>> \in Seq(Seq(Byte))
          BY <1>2, <3>1
        <5>2. QED
          BY <1>2, <3>1, <4>2, <4>3, <4>4, <5>1, OneMoreRun
      <4>6. <<SubSeq(t, o, n)>> \o <<>> = <<SubSeq(t, o, n)>>
        BY <3>1
      <4>7. QED
        BY <3>3, <3>4, <4>5, <4>6
    <3>5. CASE pos = o
      <4>1. t[o] = deli /\ pos + 1 \in D /\ size[pos + 1] < size[o] /\ (pos + 1) - 1 = o
        BY <1>2, <3>1, <3>2, <3>5
      <4>2. Good(pos + 1)
        BY <1>3, <3>5, <4>1
      <4>3. PICK f, l : InOrder(from[pos + 1], f, l, t, deli, pos + 1)
        BY <4>2
      <4>4. from[o] = from[pos + 1]
        <5>1. from[pos + 1] \in Seq(Seq(Byte)) /\ pos # 0
          BY <1>2, <3>1, <3>5, <4>1
        <5>2. from[o] = <<>> \o from[pos + 1]
          BY <3>3, <3>5, <5>1
        <5>3. QED
          BY <5>1, <5>2
      <4>5. ASSUME NEW a, NEW b, IsRun(t, deli, a, b), o <= a
            PROVE  pos + 1 <= a
        <5>1. a # o /\ a \in Nat
          BY <3>1, <4>1, <4>5 DEF IsRun
        <5>2. QED
          BY <3>1, <3>5, <4>5, <5>1
      <4>6. \A i \in 1 .. Len(from[pos + 1]) : pos + 1 <= f[i] => o <= f[i]
        <5>1. f \in [1 .. Len(from[pos + 1]) -> Nat]
          BY <4>3 DEF InOrder
        <5>2. \A a \in Nat : pos + 1 <= a => o <= a
          BY <3>1, <3>5
        <5>3. QED
          BY <5>1, <5>2
      <4>7. InOrder(from[o], f, l, t, deli, o)
        BY <4>3, <4>4, <4>5, <4>6, Zenon DEF InOrder
      <4>8. QED
        BY <4>7
    <3>6. CASE pos # 0 /\ pos # o
      <4>1. /\ pos \in o + 1 .. n /\ t[pos] = deli
            /\ pos - 1 \in o .. n /\ pos - 1 \in Nat
            /\ (pos - 1) + 1 = pos /\ (pos + 1) - 1 = pos
            /\ pos + 1 \in D /\ size[pos + 1] < size[o]
            /\ \A i \in o .. pos - 1 : t[i] # deli
        <5>1. pos \in o .. n /\ t[pos] = deli /\ \A i \in o .. pos - 1 : t[i] # deli
          BY <3>2, <3>6
        <5>2. n \in Nat /\ o \in Nat /\ o <= n /\ 1 <= o /\ pos # o /\ pos \in Nat
          BY <3>1, <3>6, <5>1
        <5>3. /\ pos \in o + 1 .. n /\ pos - 1 \in o .. n /\ pos - 1 \in Nat
              /\ (pos - 1) + 1 = pos /\ (pos + 1) - 1 = pos
          BY <5>1, <5>2
        <5>4. pos + 1 \in D /\ size[pos + 1] = n + 1 - (pos + 1) /\ size[o] = n + 1 - o
          BY <5>1, <5>2
        <5>5. size[pos + 1] < size[o]
          BY <5>2, <5>3, <5>4
        <5>6. QED
          BY <5>1, <5>3, <5>4, <5>5
      <4>2. IsRun(t, deli, o, pos - 1)
        BY <2>1, <3>1, <4>1 DEF IsRun
      <4>3. ASSUME NEW c, NEW d, IsRun(t, deli, c, d), o <= c
            PROVE  c = o \/ pos + 1 <= c
        <5>1. c \in 1 .. n /\ t[c] # deli
          BY <4>3 DEF IsRun
        <5>2. CASE c <= pos - 1
          BY <4>2, <4>3, <5>2, RunsDiffer
        <5>3. CASE ~(c <= pos - 1)
          BY <4>1, <5>1, <5>3
        <5>4. QED
          BY <5>2, <5>3
      <4>4. Good(pos + 1)
        BY <1>3, <4>1
      <4>5. PICK f, l : InOrder(from[pos + 1], f, l, t, deli, pos + 1)
        BY <4>4
      <4>6. from[pos + 1] \in Seq(Seq(Byte))
        BY <1>2, <4>1
      <4>7. \E g, h : InOrder(<<SubSeq(t, o, pos - 1)>> \o from[pos + 1], g, h, t, deli, o)
        <5>1. pos - 1 < pos + 1 /\ o <= pos - 1 /\ pos + 1 \in Nat
          BY <3>1, <4>1
        <5>2. QED
          BY <3>1, <4>1, <4>2, <4>3, <4>5, <4>6, <5>1, OneMoreRun
      <4>8. from[o] = <<SubSeq(t, o, pos - 1)>> \o from[pos + 1]
        BY <3>3, <3>6
      <4>9. QED
        BY <4>7, <4>8
    <3>7. QED
      BY <3>4, <3>5, <3>6
  <2>4. QED
    BY <2>2, <2>3
<1>4. size \in [D -> Nat] /\ 1 \in D
  BY <1>2
<1>5. \A o \in D : o \in X
  <2> HIDE DEF X, D, size
  <2>1. QED
    BY <1>3, <1>4, SizesBySteps
<1>6. Good(1)
  BY <1>4, <1>5
<1>7. from[1] \in Seq(Seq(Byte))
  BY <1>2, <1>4
<1>8. QED
  BY <1>1, <1>6, <1>7

(* f counts what it gives.                                                  *)
LEMMA Counted ==
  ASSUME NEW k \in Nat, NEW f, \A i, j \in 1 .. k : i # j => f[i] # f[j]
  PROVE  /\ IsFiniteSet({f[i] : i \in 1 .. k})
         /\ Cardinality({f[i] : i \in 1 .. k}) = k
<1> DEFINE S == {f[i] : i \in 1 .. k}
           g == [i \in 1 .. k |-> f[i]]
<1>1. g \in Bijection(1 .. k, S)
  BY DEF Bijection, Injection, Surjection, IsInjective
<1>2. ExistsBijection(1 .. k, S)
  BY <1>1 DEF ExistsBijection
<1>3. QED
  BY <1>2, FS_CountingElements, FS_NatBijection

(* The first k of the runs.                                                 *)
FirstRuns(first, last, k) == {<<first[i], last[i]>> : i \in 1 .. k}

(* The runs are those of v, and counted.                                    *)
Enumerated(v, first, last, t, deli) ==
    /\ Runs(t, deli) = FirstRuns(first, last, Len(v))
    /\ \A i, j \in 1 .. Len(v) :
          /\ first[i] \in Nat /\ last[i] \in Nat
          /\ 1 <= first[i] /\ first[i] <= last[i] /\ last[i] <= Len(t)
          /\ v[i] = SubSeq(t, first[i], last[i])
          /\ i < j => first[i] < first[j] /\ last[i] < last[j]
    /\ \A k \in 0 .. Len(v) : /\ IsFiniteSet(FirstRuns(first, last, k))
                              /\ Cardinality(FirstRuns(first, last, k)) = k

(* Runs found in order, up to the end of the text, are all the runs.       *)
LEMMA RunsInOrder ==
  ASSUME NEW t \in Seq(Byte), NEW deli, NEW v \in Seq(Seq(Byte)), NEW first, NEW last,
         InOrder(v, first, last, t, deli, 1)
  PROVE  Enumerated(v, first, last, t, deli)
<1> DEFINE m == Len(v)
<1>1. m \in Nat
  OBVIOUS
<1>2. ASSUME NEW i \in 1 .. m
      PROVE  /\ first[i] \in Nat /\ last[i] \in Nat
             /\ 1 <= first[i] /\ first[i] <= last[i] /\ last[i] <= Len(t)
             /\ v[i] = SubSeq(t, first[i], last[i])
             /\ IsRun(t, deli, first[i], last[i])
  <2>1. first[i] \in Nat /\ last[i] \in Nat
    BY DEF InOrder
  <2>2. IsRun(t, deli, first[i], last[i]) /\ v[i] = SubSeq(t, first[i], last[i])
    BY DEF InOrder
  <2>3. QED
    BY <2>1, <2>2 DEF IsRun
<1>3. ASSUME NEW i \in 1 .. m, NEW j \in 1 .. m, i < j
      PROVE  first[i] < first[j] /\ last[i] < last[j]
  <2>1. last[i] < first[j]
    BY <1>3 DEF InOrder
  <2>2. first[i] \in Nat /\ last[i] \in Nat /\ first[i] <= last[i]
    BY <1>2
  <2>3. first[j] \in Nat /\ last[j] \in Nat /\ first[j] <= last[j]
    BY <1>2
  <2>4. QED
    BY <2>1, <2>2, <2>3
<1>4. Runs(t, deli) = FirstRuns(first, last, m)
  <2>1. ASSUME NEW r \in Runs(t, deli)
        PROVE  r \in FirstRuns(first, last, m)
    <3>1. r = <<r[1], r[2]>> /\ IsRun(t, deli, r[1], r[2])
      BY RunsAreRuns
    <3>2. 1 <= r[1] /\ r[1] \in Nat
      BY <3>1 DEF IsRun
    <3>3. PICK i \in 1 .. m : r[1] = first[i]
      BY <3>1, <3>2 DEF InOrder
    <3>4. IsRun(t, deli, first[i], last[i])
      BY <1>2
    <3>5. r[1] <= first[i] /\ first[i] <= r[2]
      BY <3>1, <3>3 DEF IsRun
    <3>6. r[2] = last[i]
      BY <3>1, <3>3, <3>4, <3>5, RunsDiffer
    <3>7. QED
      BY <3>1, <3>3, <3>6 DEF FirstRuns
  <2>2. ASSUME NEW i \in 1 .. m
        PROVE  <<first[i], last[i]>> \in Runs(t, deli)
    BY <1>2, RunsAreRuns
  <2>3. QED
    BY <2>1, <2>2 DEF FirstRuns
<1>5. ASSUME NEW k \in 0 .. m
      PROVE  /\ IsFiniteSet(FirstRuns(first, last, k))
             /\ Cardinality(FirstRuns(first, last, k)) = k
  <2> DEFINE f == [i \in 1 .. k |-> <<first[i], last[i]>>]
  <2>1. \A i, j \in 1 .. k : i # j => f[i] # f[j]
    <3>1. ASSUME NEW i \in 1 .. k, NEW j \in 1 .. k, i # j
          PROVE  first[i] # first[j]
      <4>1. i \in 1 .. m /\ j \in 1 .. m /\ (i < j \/ j < i)
        BY <1>1, <3>1
      <4>2. first[i] < first[j] \/ first[j] < first[i]
        BY <1>3, <4>1
      <4>3. QED
        BY <1>2, <4>1, <4>2
    <3>2. QED
      BY <3>1
  <2>2. {f[i] : i \in 1 .. k} = FirstRuns(first, last, k)
    BY DEF FirstRuns
  <2>3. k \in Nat
    OBVIOUS
  <2> HIDE DEF f
  <2>4. QED
    BY <2>1, <2>2, <2>3, Counted
<1>6. QED
  BY <1>2, <1>3, <1>4, <1>5, Zenon DEF Enumerated

(* Split returns the runs in the order of their places.                    *)
LEMMA SplitGivesTheRuns ==
  ASSUME NEW t \in Seq(Byte), NEW deli
  PROVE  LET runs == Runs(t, deli)
             v == Split(t, deli)
             Place(r) == Cardinality({s \in runs : s[1] <= r[1]})
         IN  /\ Len(v) = Cardinality(runs)
             /\ \A r \in runs : v[Place(r)] = SubSeq(t, r[1], r[2])
<1> DEFINE runs == Runs(t, deli)
           v == Split(t, deli)
           m == Len(v)
<1>1. v \in Seq(Seq(Byte)) /\ \E first, last : InOrder(v, first, last, t, deli, 1)
  BY SplitInOrder
<1>2. PICK first, last : InOrder(v, first, last, t, deli, 1)
  BY <1>1
<1> HIDE DEF v, runs
<1>3. /\ runs = FirstRuns(first, last, m)
      /\ \A i, j \in 1 .. m :
            /\ first[i] \in Nat /\ last[i] \in Nat
            /\ v[i] = SubSeq(t, first[i], last[i])
            /\ i < j => first[i] < first[j]
      /\ \A k \in 0 .. m : Cardinality(FirstRuns(first, last, k)) = k
  <2>1. v \in Seq(Seq(Byte))
    BY <1>1
  <2>2. Enumerated(v, first, last, t, deli)
    BY <1>2, <2>1, RunsInOrder
  <2>3. QED
    BY <2>2, Zenon DEF Enumerated, runs
<1>4. m \in Nat
  BY <1>1
<1>5. m = Cardinality(runs)
  BY <1>3, <1>4
<1>6. ASSUME NEW r \in runs
      PROVE  v[Cardinality({s \in runs : s[1] <= r[1]})] = SubSeq(t, r[1], r[2])
  <2>1. PICK k \in 1 .. m : r = <<first[k], last[k]>>
    BY <1>3 DEF FirstRuns
  <2>2. r[1] = first[k] /\ r[2] = last[k]
    BY <2>1
  <2>3. ASSUME NEW i \in 1 .. m
        PROVE  first[i] <= first[k] <=> i \in 1 .. k
    <3>1. first[i] \in Nat /\ first[k] \in Nat
      BY <1>3
    <3>2. i < k => first[i] < first[k]
      BY <1>3
    <3>3. k < i => first[k] < first[i]
      BY <1>3
    <3>4. QED
      BY <3>1, <3>2, <3>3
  <2>4. {s \in runs : s[1] <= r[1]} = FirstRuns(first, last, k)
    <3>1. ASSUME NEW s \in runs
          PROVE  s[1] <= r[1] <=> s \in FirstRuns(first, last, k)
      <4>1. PICK i \in 1 .. m : s = <<first[i], last[i]>>
        BY <1>3 DEF FirstRuns
      <4>2. s[1] = first[i]
        BY <4>1
      <4>3. ASSUME s \in FirstRuns(first, last, k)
            PROVE  i \in 1 .. k
        <5>1. PICK j \in 1 .. k : s = <<first[j], last[j]>>
          BY <4>3 DEF FirstRuns
        <5>2. first[i] = first[j] /\ j \in 1 .. m
          BY <4>2, <5>1
        <5>3. QED
          BY <2>3, <5>2
      <4>4. QED
        BY <2>2, <2>3, <4>1, <4>2, <4>3 DEF FirstRuns
    <3>2. FirstRuns(first, last, k) \subseteq runs
      <4>1. 1 .. k \subseteq 1 .. m
        BY <1>4
      <4>2. QED
        BY <1>3, <4>1 DEF FirstRuns
    <3>3. QED
      BY <3>1, <3>2
  <2>5. Cardinality({s \in runs : s[1] <= r[1]}) = k
    <3>1. k \in 0 .. m
      BY <1>4
    <3>2. Cardinality(FirstRuns(first, last, k)) = k
      BY <1>3, <3>1
    <3>3. QED
      BY <2>4, <3>2, Zenon
  <2>6. QED
    BY <1>3, <2>2, <2>5
<1>7. QED
  BY <1>5, <1>6 DEF v, runs
-----------------------------------------------------------------------------
(* The level of a path.                                                     *)

IsLevel(level, v) ==
    /\ level \in [0 .. Len(v) -> Int]
    /\ level[0] = 0
    /\ \A i \in 1 .. Len(v) :
          level[i] = IF level[i - 1] < 0 THEN level[i - 1]
                     ELSE IF v[i] = Parent THEN level[i - 1] - 1 ELSE level[i - 1] + 1

(* ValidPath counts the level up or down with each part of the path.       *)
LEMMA Levels ==
  ASSUME NEW path \in Seq(Byte)
  PROVE  \E level : /\ IsLevel(level, Split(path, Slash))
                    /\ ValidPath(path) <=> level[Len(Split(path, Slash))] >= 0
<1> DEFINE v == Split(path, Slash)
           m == Len(v)
           D == 0 .. m
           step == [i \in 1 .. m |-> [l \in Int |->
                      IF l < 0 THEN l ELSE IF v[i] = Parent THEN l - 1 ELSE l + 1]]
<1>1. m \in Nat
  <2>1. v \in Seq(Seq(Byte))
    BY SplitInOrder
  <2> HIDE DEF v
  <2>2. QED
    BY <2>1
<1>2. \A i \in D : i # 0 => i \in 1 .. m /\ i - 1 \in D
  BY <1>1
<1> HIDE DEF v, m
<1>3. Steps(step, m, Int)
  BY DEF Steps
<1>4. PICK f : Follows(f, m, Int, 0, step)
  <2> HIDE DEF step
  <2>1. 0 \in Int
    OBVIOUS
  <2>2. QED
    BY <1>1, <1>3, <2>1, StepByStep
<1>5. f = [i \in D |-> IF i = 0 THEN 0
                       ELSE IF f[i - 1] < 0 THEN f[i - 1]
                       ELSE IF v[i] = Parent THEN f[i - 1] - 1 ELSE f[i - 1] + 1]
  <2>1. ASSUME NEW i \in D, i # 0
        PROVE  f[i] = IF f[i - 1] < 0 THEN f[i - 1]
                      ELSE IF v[i] = Parent THEN f[i - 1] - 1 ELSE f[i - 1] + 1
    <3>1. i \in 1 .. m /\ f[i - 1] \in Int
      BY <1>2, <1>4, <2>1 DEF Follows
    <3>2. QED
      BY <1>4, <3>1 DEF Follows
  <2>2. QED
    BY <1>4, <2>1 DEF Follows
<1> DEFINE level[i \in D] == IF i = 0 THEN 0
                             ELSE IF level[i - 1] < 0 THEN level[i - 1]
                             ELSE IF v[i] = Parent THEN level[i - 1] - 1 ELSE level[i - 1] + 1
<1>6. level = [i \in D |-> IF i = 0 THEN 0
                           ELSE IF level[i - 1] < 0 THEN level[i - 1]
                           ELSE IF v[i] = Parent THEN level[i - 1] - 1 ELSE level[i - 1] + 1]
  BY <1>5
<1>7. ValidPath(path) <=> level[m] >= 0
  BY Zenon DEF ValidPath, v, m
<1> HIDE DEF level
<1>8. \A i \in D : level[i] \in Int
  <2> DEFINE S == {i \in Nat : i \in D => level[i] \in Int}
  <2>1. 0 \in S
    BY <1>1, <1>6
  <2>2. ASSUME NEW i \in Nat, i \in S
        PROVE  i + 1 \in S
    <3>1. SUFFICES ASSUME i + 1 \in D
                   PROVE  level[i + 1] \in Int
      OBVIOUS
    <3>2. level[i] \in Int
      BY <2>2, <1>1, <3>1
    <3>3. level[i + 1] = IF level[i] < 0 THEN level[i]
                         ELSE IF v[i + 1] = Parent THEN level[i] - 1 ELSE level[i] + 1
      <4>1. i + 1 # 0 /\ (i + 1) - 1 = i
        OBVIOUS
      <4>2. QED
        BY <1>6, <3>1, <4>1
    <3>4. QED
      BY <3>2, <3>3
  <2>3. \A i \in Nat : i \in S
    <3> HIDE DEF S
    <3>1. QED
      BY <2>1, <2>2, NumbersBySteps
  <2>4. QED
    BY <2>3
<1>9. level \in [D -> Int] /\ level[0] = 0
  BY <1>1, <1>6, <1>8
<1>10. ASSUME NEW i \in 1 .. m
       PROVE  level[i] = IF level[i - 1] < 0 THEN level[i - 1]
                         ELSE IF v[i] = Parent THEN level[i - 1] - 1 ELSE level[i - 1] + 1
  <2>1. i \in D /\ i # 0
    BY <1>1
  <2>2. QED
    BY <1>6, <2>1
<1>11. IsLevel(level, v)
  BY <1>9, <1>10 DEF IsLevel, m
<1>12. QED
  BY <1>7, <1>11 DEF v, m

(* The first k of the pieces that are "..".                                 *)
Ups(v, k) == {i \in 1 .. k : v[i] = Parent}

(* The parents among the first parts, counted one part at a time.          *)
LEMMA UpsCounted ==
  ASSUME NEW v, NEW k \in Nat
  PROVE  /\ Ups(v, 0) = {} /\ Cardinality(Ups(v, 0)) = 0
         /\ IsFiniteSet(Ups(v, k)) /\ Cardinality(Ups(v, k)) \in Nat
         /\ Cardinality(Ups(v, k + 1)) =
               IF v[k + 1] = Parent THEN Cardinality(Ups(v, k)) + 1 ELSE Cardinality(Ups(v, k))
<1>1. Ups(v, 0) = {}
  BY DEF Ups
<1>2. IsFiniteSet(Ups(v, k))
  <2>1. IsFiniteSet(1 .. k)
    BY FS_Interval
  <2>2. Ups(v, k) \in SUBSET (1 .. k)
    BY DEF Ups
  <2>3. QED
    BY <2>1, <2>2, FS_Subset
<1>3. Cardinality(Ups(v, k)) \in Nat /\ Cardinality(Ups(v, 0)) = 0
  BY <1>1, <1>2, FS_CardinalityType, FS_EmptySet
<1>4. CASE v[k + 1] = Parent
  <2>1. Ups(v, k + 1) = Ups(v, k) \cup {k + 1}
    BY <1>4 DEF Ups
  <2>2. k + 1 \notin Ups(v, k)
    BY DEF Ups
  <2>3. Cardinality(Ups(v, k) \cup {k + 1}) = Cardinality(Ups(v, k)) + 1
    BY <1>2, <2>2, FS_AddElement
  <2>4. QED
    BY <1>1, <1>2, <1>3, <1>4, <2>1, <2>3
<1>5. CASE v[k + 1] # Parent
  <2>1. Ups(v, k + 1) = Ups(v, k)
    BY <1>5 DEF Ups
  <2>2. QED
    BY <1>1, <1>2, <1>3, <1>5, <2>1
<1>6. QED
  BY <1>4, <1>5

(* The level is never below zero if no beginning has more parents than     *)
(* others.                                                                 *)
LEMMA LevelCounts ==
  ASSUME NEW v, Len(v) \in Nat, NEW level, IsLevel(level, v)
  PROVE  \A k \in 0 .. Len(v) :
            level[k] >= 0 <=> \A j \in 0 .. k : 2 * Cardinality(Ups(v, j)) <= j
<1> DEFINE m == Len(v)
           c(j) == Cardinality(Ups(v, j))
           In(k) == \A j \in 0 .. k : 2 * c(j) <= j
           Good(k) == /\ level[k] >= 0 <=> In(k)
                      /\ level[k] >= 0 => level[k] = k - 2 * c(k)
           S == {k \in Nat : k <= m => Good(k)}
<1>1. /\ m \in Nat /\ level \in [0 .. m -> Int] /\ level[0] = 0
      /\ \A i \in 1 .. m :
            level[i] = IF level[i - 1] < 0 THEN level[i - 1]
                       ELSE IF v[i] = Parent THEN level[i - 1] - 1 ELSE level[i - 1] + 1
  BY DEF IsLevel
<1>2. c(0) = 0 /\ \A j \in Nat : /\ c(j) \in Nat
                                 /\ c(j + 1) = IF v[j + 1] = Parent THEN c(j) + 1 ELSE c(j)
  BY UpsCounted
<1> HIDE DEF c, m
<1>3. 0 \in S
  <2>1. \A j \in 0 .. 0 : j = 0
    OBVIOUS
  <2>2. In(0)
    BY <1>2, <2>1
  <2>4. level[0] = 0 - 2 * c(0) /\ level[0] >= 0
    BY <1>1, <1>2
  <2>3. QED
    BY <2>2, <2>4
<1>4. ASSUME NEW k \in Nat, k \in S
      PROVE  k + 1 \in S
  <2>1. SUFFICES ASSUME k + 1 <= m
                 PROVE  Good(k + 1)
    OBVIOUS
  <2>2. Good(k) /\ level[k] \in Int
    BY <1>1, <1>4, <2>1
  <2>3. level[k + 1] = IF level[k] < 0 THEN level[k]
                       ELSE IF v[k + 1] = Parent THEN level[k] - 1 ELSE level[k] + 1
    BY <1>1, <2>1
  <2>4. In(k + 1) <=> In(k) /\ 2 * c(k + 1) <= k + 1
    BY <1>1
  <2>5. c(k) \in Nat /\ c(k + 1) \in Nat /\ c(k + 1) = IF v[k + 1] = Parent THEN c(k) + 1 ELSE c(k)
    <3>1. k + 1 \in Nat
      OBVIOUS
    <3>2. QED
      BY <1>2, <3>1
  <2> HIDE DEF In
  <2>6. CASE level[k] < 0
    BY <2>2, <2>3, <2>4, <2>6
  <2>7. CASE ~(level[k] < 0) /\ v[k + 1] = Parent
    BY <2>2, <2>3, <2>4, <2>5, <2>7
  <2>8. CASE ~(level[k] < 0) /\ v[k + 1] # Parent
    BY <2>2, <2>3, <2>4, <2>5, <2>8
  <2>9. QED
    BY <2>6, <2>7, <2>8
<1>5. \A k \in Nat : k \in S
  <2> HIDE DEF S
  <2>1. QED
    BY <1>3, <1>4, NumbersBySteps
<1>6. QED
  BY <1>1, <1>5 DEF c, m

OneToOne(f, S) == \A x, y \in S : x # y => f[x] # f[y]

(* A function that tells its arguments apart keeps their number.           *)
LEMMA Images ==
  ASSUME NEW S, IsFiniteSet(S), NEW f, OneToOne(f, S)
  PROVE  Cardinality({f[x] : x \in S}) = Cardinality(S)
<1> DEFINE T == {f[x] : x \in S}
           g == [x \in S |-> f[x]]
<1>1. g \in Bijection(S, T)
  BY DEF OneToOne, Bijection, Injection, Surjection, IsInjective
<1>2. ExistsBijection(S, T)
  BY <1>1 DEF ExistsBijection
<1>3. QED
  BY <1>2, FS_Bijection

(* The runs that end at place i or before it.                               *)
EndedBy(i, t, deli) == {r \in Runs(t, deli) : r[2] <= i}
ParentsBy(i, t, deli) == {r \in EndedBy(i, t, deli) : SubSeq(t, r[1], r[2]) = Parent}

(* Of m runs, the first k have ended at place i.                            *)
Cut(last, m, i, k) == \A j \in 1 .. m : last[j] <= i <=> j <= k

(* The runs that end by a place are the first parts that Split returns.    *)
LEMMA EndedCounted ==
  ASSUME NEW t \in Seq(Byte), NEW deli, NEW v \in Seq(Seq(Byte)), NEW first, NEW last,
         Enumerated(v, first, last, t, deli), NEW k \in 0 .. Len(v), NEW i,
         Cut(last, Len(v), i, k)
  PROVE  /\ Cardinality(EndedBy(i, t, deli)) = k
         /\ Cardinality(ParentsBy(i, t, deli)) = Cardinality(Ups(v, k))
<1> DEFINE m == Len(v)
<1>1. m \in Nat /\ k \in Nat
  OBVIOUS
<1>2. /\ Runs(t, deli) = FirstRuns(first, last, m)
      /\ \A h, j \in 1 .. m :
            /\ first[h] \in Nat /\ first[j] \in Nat
            /\ v[j] = SubSeq(t, first[j], last[j])
            /\ h < j => first[h] < first[j]
      /\ Cardinality(FirstRuns(first, last, k)) = k
  BY Zenon DEF Enumerated
<1>3. \A j \in 1 .. m : last[j] <= i <=> j \in 1 .. k
  BY <1>1 DEF Cut
<1>4. \A j \in 1 .. k : j \in 1 .. m
  BY <1>1
<1>5. \A h, j \in 1 .. m : h # j => first[h] # first[j]
  <2>1. ASSUME NEW h \in 1 .. m, NEW j \in 1 .. m, h # j
        PROVE  first[h] # first[j]
    <3>1. h < j \/ j < h
      BY <1>1, <2>1
    <3>2. first[h] < first[j] \/ first[j] < first[h]
      BY <1>2, <3>1
    <3>3. QED
      BY <1>2, <3>2
  <2>2. QED
    BY <2>1
<1> HIDE DEF m
<1> DEFINE f == [j \in 1 .. m |-> <<first[j], last[j]>>]
<1>6. /\ \A j \in 1 .. m : f[j][1] = first[j] /\ f[j][2] = last[j]
      /\ \A h, j \in 1 .. m : h # j => f[h] # f[j]
      /\ Runs(t, deli) = {f[j] : j \in 1 .. m}
      /\ FirstRuns(first, last, k) = {f[j] : j \in 1 .. k}
  <2>1. \A j \in 1 .. m : f[j][1] = first[j] /\ f[j][2] = last[j]
    OBVIOUS
  <2>2. \A h, j \in 1 .. m : h # j => f[h] # f[j]
    BY <1>5
  <2>3. Runs(t, deli) = {f[j] : j \in 1 .. m}
    BY <1>2 DEF FirstRuns
  <2>4. FirstRuns(first, last, k) = {f[j] : j \in 1 .. k}
    BY <1>4 DEF FirstRuns
  <2>5. QED
    BY <2>1, <2>2, <2>3, <2>4
<1> HIDE DEF f
<1>7. EndedBy(i, t, deli) = {f[j] : j \in 1 .. k}
  <2>1. ASSUME NEW r \in EndedBy(i, t, deli)
        PROVE  r \in {f[j] : j \in 1 .. k}
    <3>1. r \in Runs(t, deli) /\ r[2] <= i
      BY DEF EndedBy
    <3>2. PICK j \in 1 .. m : r = f[j]
      BY <1>6, <3>1
    <3>3. j \in 1 .. k
      BY <1>3, <1>6, <3>1, <3>2
    <3>4. QED
      BY <3>2, <3>3
  <2>2. ASSUME NEW j \in 1 .. k
        PROVE  f[j] \in EndedBy(i, t, deli)
    <3>1. j \in 1 .. m /\ last[j] <= i
      BY <1>3, <1>4
    <3>2. f[j] \in Runs(t, deli) /\ f[j][2] = last[j]
      BY <1>6, <3>1
    <3>3. QED
      BY <3>1, <3>2 DEF EndedBy
  <2>3. QED
    BY <2>1, <2>2
<1>8. ParentsBy(i, t, deli) = {f[j] : j \in Ups(v, k)}
  <2>1. \A j \in 1 .. k : SubSeq(t, f[j][1], f[j][2]) = v[j]
    BY <1>2, <1>4, <1>6
  <2>2. QED
    BY <1>7, <2>1 DEF ParentsBy, Ups
<1>9. Cardinality(ParentsBy(i, t, deli)) = Cardinality(Ups(v, k))
  <2>1. IsFiniteSet(Ups(v, k))
    BY <1>1, UpsCounted
  <2>2. OneToOne(f, Ups(v, k))
    BY <1>4, <1>6 DEF Ups, OneToOne
  <2>3. Cardinality({f[j] : j \in Ups(v, k)}) = Cardinality(Ups(v, k))
    BY <2>1, <2>2, Images, Zenon
  <2>4. QED
    BY <1>8, <2>3, Zenon
<1>10. Cardinality(EndedBy(i, t, deli)) = k
  BY <1>2, <1>6, <1>7
<1>11. QED
  BY <1>9, <1>10

(* At each place some k runs have ended.                                    *)
LEMMA SomeEnded ==
  ASSUME NEW m \in Nat, NEW last, NEW i \in Nat,
         \A j \in 1 .. m : last[j] \in Nat,
         \A h, j \in 1 .. m : h < j => last[h] < last[j]
  PROVE  \E k \in 0 .. m : Cut(last, m, i, k)
<1> DEFINE T == {k \in 0 .. m : k = m \/ ~(last[k + 1] <= i)}
<1>1. T \in SUBSET Nat /\ m \in T
  OBVIOUS
<1>2. PICK k \in T : \A h \in T : k <= h
  BY <1>1, LeastNumber
<1>3. ASSUME NEW j \in 1 .. m, j <= k
      PROVE  last[j] <= i
  <2>1. j - 1 \in 0 .. m /\ ~(k <= j - 1) /\ j - 1 # m /\ (j - 1) + 1 = j
    BY <1>3
  <2>2. j - 1 \notin T
    BY <1>2, <2>1
  <2>3. QED
    BY <2>1, <2>2
<1>4. ASSUME NEW j \in 1 .. m, ~(j <= k)
      PROVE  ~(last[j] <= i)
  <2>1. k # m /\ k + 1 \in 1 .. m /\ k + 1 <= j
    BY <1>4
  <2>2. ~(last[k + 1] <= i) /\ last[k + 1] \in Nat /\ last[j] \in Nat
    BY <2>1
  <2>3. k + 1 = j \/ last[k + 1] < last[j]
    BY <2>1
  <2>4. QED
    BY <2>2, <2>3
<1>5. QED
  BY <1>3, <1>4 DEF Cut

(* ValidPath counts runs, by the places at which they end.                 *)
LEMMA ValidCounts ==
  ASSUME NEW t \in Seq(Byte)
  PROVE  ValidPath(t) <=>
            \A i \in DOMAIN t :
               2 * Cardinality(ParentsBy(i, t, Slash)) <= Cardinality(EndedBy(i, t, Slash))
<1> DEFINE v == Split(t, Slash)
           m == Len(v)
           c(k) == Cardinality(Ups(v, k))
<1>1. v \in Seq(Seq(Byte)) /\ \E first, last : InOrder(v, first, last, t, Slash, 1)
  BY SplitInOrder
<1>2. PICK level : IsLevel(level, v) /\ (ValidPath(t) <=> level[m] >= 0)
  BY Levels
<1> HIDE DEF v
<1>3. PICK first, last : InOrder(v, first, last, t, Slash, 1)
  BY <1>1
<1>4. Enumerated(v, first, last, t, Slash)
  BY <1>1, <1>3, RunsInOrder
<1>5. m \in Nat /\ m \in 0 .. m
  BY <1>1
<1>6. ValidPath(t) <=> \A k \in 0 .. m : 2 * c(k) <= k
  <2>1. level[m] >= 0 <=> \A k \in 0 .. m : 2 * c(k) <= k
    BY <1>2, <1>5, LevelCounts, Zenon
  <2>2. QED
    BY <1>2, <2>1
<1>7. ASSUME NEW k \in 0 .. m, NEW i, Cut(last, m, i, k)
      PROVE  /\ Cardinality(EndedBy(i, t, Slash)) = k
             /\ Cardinality(ParentsBy(i, t, Slash)) = c(k)
  <2>1. v \in Seq(Seq(Byte)) /\ k \in 0 .. Len(v) /\ Cut(last, Len(v), i, k)
    BY <1>1, <1>7
  <2> HIDE DEF m, c
  <2>2. Cardinality(EndedBy(i, t, Slash)) = k /\ Cardinality(ParentsBy(i, t, Slash)) = Cardinality(Ups(v, k))
    BY <1>4, <2>1, EndedCounted
  <2>3. QED
    BY <2>2 DEF c
<1>8. /\ \A j \in 1 .. m : last[j] \in Nat /\ 1 <= last[j] /\ last[j] <= Len(t)
      /\ \A h, j \in 1 .. m : h < j => last[h] < last[j]
  <2>1. ASSUME NEW j \in 1 .. m
        PROVE  last[j] \in Nat /\ 1 <= last[j] /\ last[j] <= Len(t)
    <3>1. first[j] \in Nat /\ last[j] \in Nat /\ 1 <= first[j] /\ first[j] <= last[j] /\ last[j] <= Len(t)
      BY <1>4, Zenon DEF Enumerated
    <3>2. QED
      BY <3>1
  <2>2. \A h, j \in 1 .. m : h < j => last[h] < last[j]
    BY <1>4, Zenon DEF Enumerated
  <2>3. QED
    BY <2>1, <2>2
<1>9. ASSUME NEW i \in DOMAIN t, \A k \in 0 .. m : 2 * c(k) <= k
      PROVE  2 * Cardinality(ParentsBy(i, t, Slash)) <= Cardinality(EndedBy(i, t, Slash))
  <2>1. i \in Nat
    OBVIOUS
  <2>2. PICK k \in 0 .. m : Cut(last, m, i, k)
    BY <1>5, <1>8, <2>1, SomeEnded, Zenon
  <2>3. QED
    BY <1>7, <1>9, <2>2, Zenon
<1>10. ASSUME \A i \in DOMAIN t :
                 2 * Cardinality(ParentsBy(i, t, Slash)) <= Cardinality(EndedBy(i, t, Slash)),
              NEW k \in 0 .. m
       PROVE  2 * c(k) <= k
  <2>1. CASE k = 0
    BY <2>1, UpsCounted
  <2>2. CASE k # 0
    <3>1. k \in 1 .. m
      BY <2>2
    <3>2. last[k] \in DOMAIN t
      BY <1>8, <3>1
    <3>3. ASSUME NEW j \in 1 .. m
          PROVE  last[j] <= last[k] <=> j <= k
      <4>1. last[j] \in Nat /\ last[k] \in Nat
        BY <1>8, <3>1
      <4>2. (j < k => last[j] < last[k]) /\ (k < j => last[k] < last[j])
        BY <1>8, <3>1
      <4>3. j < k \/ k < j \/ j = k
        OBVIOUS
      <4>4. QED
        BY <4>1, <4>2, <4>3
    <3>4. Cardinality(EndedBy(last[k], t, Slash)) = k /\ Cardinality(ParentsBy(last[k], t, Slash)) = c(k)
      BY <1>7, <3>3 DEF Cut
    <3>5. QED
      BY <1>10, <3>2, <3>4, Zenon
  <2>3. QED
    BY <2>1, <2>2
<1>11. QED
  BY <1>6, <1>9, <1>10, Zenon
-----------------------------------------------------------------------------
(* A query.                                                                 *)

(* Items with the delimiter between them.                                   *)
Between(items, deli) == [i \in DOMAIN items |-> (IF i = 1 THEN <<>> ELSE <<deli>>) \o items[i]]

(* Items with the delimiter before each but the first.                     *)
LEMMA BetweenType ==
  ASSUME NEW deli \in Byte, NEW items \in Seq(Seq(Byte))
  PROVE  /\ Between(items, deli) \in Seq(Seq(Byte))
         /\ Len(Between(items, deli)) = Len(items)
         /\ \A i \in 1 .. Len(items) :
               Between(items, deli)[i] = IF i = 1 THEN items[i] ELSE <<deli>> \o items[i]
<1>1. \A i \in 1 .. Len(items) : items[i] \in Seq(Byte)
  OBVIOUS
<1>2. \A s \in Seq(Byte) : <<>> \o s = s /\ <<deli>> \o s \in Seq(Byte)
  OBVIOUS
<1>3. ASSUME NEW i \in 1 .. Len(items)
      PROVE  /\ (IF i = 1 THEN <<>> ELSE <<deli>>) \o items[i] \in Seq(Byte)
             /\ (IF i = 1 THEN <<>> ELSE <<deli>>) \o items[i] = IF i = 1 THEN items[i] ELSE <<deli>> \o items[i]
  <2>1. CASE i = 1
    BY <1>1, <1>2, <2>1
  <2>2. CASE i # 1
    BY <1>1, <1>2, <2>2
  <2>3. QED
    BY <2>1, <2>2
<1>4. DOMAIN items = 1 .. Len(items) /\ Len(items) \in Nat
  OBVIOUS
<1>5. QED
  BY <1>3, <1>4 DEF Between

(* Split finds the items again.                                             *)
LEMMA SplitsBetween ==
  ASSUME NEW deli \in Byte, NEW items \in Seq(Seq(Byte)),
         \A i \in 1 .. Len(items) : items[i] # <<>> /\ \A j \in 1 .. Len(items[i]) : items[i][j] # deli
  PROVE  /\ FlattenSeq(Between(items, deli)) \in Seq(Byte)
         /\ Split(FlattenSeq(Between(items, deli)), deli) = items
<1> DEFINE n == Len(items)
           ss == Between(items, deli)
           q == FlattenSeq(ss)
<1>1. /\ n \in Nat /\ ss \in Seq(Seq(Byte)) /\ Len(ss) = n
      /\ \A i \in 1 .. n : ss[i] = IF i = 1 THEN items[i] ELSE <<deli>> \o items[i]
  BY BetweenType
<1> HIDE DEF ss, q
<1>2. PICK upto : IsJoining(upto, ss, Byte) /\ q = upto[n]
  BY <1>1, Joining DEF q
<1>3. /\ upto \in [0 .. n -> Seq(Byte)] /\ upto[0] = <<>>
      /\ q \in Seq(Byte) /\ Len(q) \in Nat
  <2>1. upto \in [0 .. n -> Seq(Byte)] /\ upto[0] = <<>>
    BY <1>1, <1>2 DEF IsJoining
  <2>2. q \in Seq(Byte)
    BY <1>1, <1>2, <2>1
  <2>3. QED
    BY <2>1, <2>2
<1>4. PICK from : IsSplitting(from, q, deli) /\ Split(q, deli) = from[1]
  BY <1>3, Splitting
<1> DEFINE begin(i) == IF i = 1 THEN 1 ELSE Len(upto[i - 1]) + 2
           Rest(i) == SubSeq(items, i, n)
           D == 1 .. n
           size == [i \in D |-> n - i]
           X == {i \in D : from[begin(i)] = Rest(i)}
(* Where the i-th item is. *)
<1>5. ASSUME NEW i \in D
      PROVE  LET w == items[i]
                 o == begin(i)
             IN  /\ w \in Seq(Byte) /\ w # <<>> /\ o \in Nat \ {0}
                 /\ \A j \in 1 .. Len(w) : w[j] # deli
                 /\ Len(upto[i]) = o - 1 + Len(w) /\ Len(upto[i]) <= Len(q)
                 /\ \A j \in 1 .. Len(w) : q[o - 1 + j] = w[j]
                 /\ i # 1 => q[o - 1] = deli
  <2> DEFINE w == items[i]
             a == upto[i - 1]
             s == ss[i]
  <2>1. w \in Seq(Byte) /\ w # <<>> /\ \A j \in 1 .. Len(w) : w[j] # deli
    BY <1>1
  <2>2. a \in Seq(Byte) /\ s \in Seq(Byte) /\ upto[i] = a \o s /\ Begins(upto[i], q)
    <3>1. i \in 1 .. Len(ss) /\ upto[Len(ss)] = q
      BY <1>1, <1>2
    <3>2. /\ a \in Seq(Byte) /\ s \in Seq(Byte) /\ upto[i] = a \o s
          /\ Begins(upto[i], upto[Len(ss)])
      <4>1. ss \in Seq(Seq(Byte)) /\ IsJoining(upto, ss, Byte)
        BY <1>1, <1>2
      <4>2. QED
        BY <3>1, <4>1, Joined, Zenon
    <3>3. QED
      BY <3>1, <3>2
  <2>3. s = IF i = 1 THEN w ELSE <<deli>> \o w
    BY <1>1
  <2>4. begin(i) = IF i = 1 THEN 1 ELSE Len(a) + 2
    BY Zenon
  <2>5. i = 1 => Len(a) = 0
    BY <1>3
  <2> HIDE DEF w, a, s, begin
  <2>6. /\ Len(a) \in Nat /\ Len(w) \in Nat /\ Len(q) \in Nat
        /\ Len(a \o s) = Len(a) + Len(s) /\ Len(a \o s) <= Len(q)
        /\ \A j \in 1 .. Len(s) : q[Len(a) + j] = s[j]
    <3>1. Begins(a \o s, q)
      BY <2>2
    <3>2. \A j \in 1 .. Len(s) : q[Len(a) + j] = s[j]
      BY <1>3, <2>2, <3>1, BeginsMore
    <3>3. Len(a \o s) <= Len(q)
      BY <3>1 DEF Begins
    <3>4. QED
      BY <1>3, <2>1, <2>2, <3>2, <3>3
  <2>7. CASE i = 1
    BY <2>1, <2>2, <2>3, <2>4, <2>5, <2>6, <2>7 DEF w
  <2>8. CASE i # 1
    <3>1. /\ Len(s) = 1 + Len(w) /\ s[1] = deli
          /\ \A j \in 1 .. Len(w) : 1 + j \in 1 .. Len(s) /\ s[1 + j] = w[j]
      BY <2>1, <2>3, <2>8
    <3>2. begin(i) = Len(a) + 2
      BY <2>4, <2>8
    <3>3. q[begin(i) - 1] = deli
      <4>1. 1 \in 1 .. Len(s) /\ begin(i) - 1 = Len(a) + 1
        BY <2>6, <3>1, <3>2
      <4>2. QED
        BY <2>6, <3>1, <4>1
    <3>4. ASSUME NEW j \in 1 .. Len(w)
          PROVE  q[begin(i) - 1 + j] = w[j]
      <4>1. begin(i) - 1 + j = Len(a) + (1 + j)
        BY <2>6, <3>2
      <4>2. QED
        BY <2>6, <3>1, <4>1
    <3>5. Len(upto[i]) = begin(i) - 1 + Len(w) /\ Len(upto[i]) <= Len(q) /\ begin(i) \in Nat \ {0}
      BY <2>2, <2>6, <3>1, <3>2
    <3>6. QED
      BY <2>1, <3>3, <3>4, <3>5 DEF w
  <2>9. QED
    BY <2>7, <2>8
<1>6. ASSUME NEW i \in D, i # n => i + 1 \in X
      PROVE  i \in X
  <2> DEFINE w == items[i]
             o == begin(i)
             b == Len(upto[i])
             pos == Find(q, deli, o)
  <2>1. /\ w \in Seq(Byte) /\ w # <<>> /\ o \in Nat \ {0}
        /\ \A j \in 1 .. Len(w) : w[j] # deli
        /\ b = o - 1 + Len(w) /\ b <= Len(q)
        /\ \A j \in 1 .. Len(w) : q[o - 1 + j] = w[j]
    BY <1>5
  <2>2. i # n => q[b + 1] = deli /\ b + 1 <= Len(q) /\ from[b + 2] = Rest(i + 1)
    <3>1. SUFFICES ASSUME i # n
                   PROVE  q[b + 1] = deli /\ b + 1 <= Len(q) /\ from[b + 2] = Rest(i + 1)
      OBVIOUS
    <3> DEFINE h == i + 1
    <3>2. h \in D /\ h # 1 /\ h - 1 = i /\ h \in X
      BY <1>1, <1>6, <3>1
    <3> HIDE DEF h, b
    <3>3. begin(h) = b + 2
      BY <3>2 DEF b
    <3> DEFINE e == items[h]
    <3>4. /\ e \in Seq(Byte) /\ e # <<>> /\ begin(h) \in Nat \ {0}
          /\ Len(upto[h]) = begin(h) - 1 + Len(e) /\ Len(upto[h]) <= Len(q)
          /\ q[begin(h) - 1] = deli
      BY <1>5, <3>2
    <3>5. b \in Nat /\ Len(q) \in Nat
      BY <1>3 DEF b
    <3> HIDE DEF e, begin
    <3>6. q[b + 1] = deli /\ b + 1 <= Len(q)
      BY <3>3, <3>4, <3>5
    <3>7. from[b + 2] = Rest(h)
      BY <3>2, <3>3
    <3>8. QED
      BY <3>6, <3>7 DEF h
  <2>3. i = n => b = Len(q)
    BY <1>2
  <2>4. Rest(i) = IF i = n THEN <<w>> ELSE <<w>> \o Rest(i + 1)
    BY Rests
  <2> HIDE DEF w, o, b, Rest
  <2>5. Len(w) \in Nat \ {0} /\ Len(q) \in Nat /\ b \in Nat /\ o \in 1 .. Len(q) /\ o \in 1 .. Len(q) + 1
    BY <1>3, <2>1
  <2>6. \/ pos = 0 /\ \A j \in o .. Len(q) : q[j] # deli
        \/ /\ pos \in o .. Len(q) /\ q[pos] = deli
           /\ \A j \in o .. pos - 1 : q[j] # deli
    BY <1>3, <2>5, FindFirst
  <2>7. from[o] = IF pos = 0 THEN <<SubSeq(q, o, Len(q))>>
                  ELSE (IF pos # o THEN <<SubSeq(q, o, pos - 1)>> ELSE <<>>) \o from[pos + 1]
    BY <1>4, <2>5, Zenon DEF IsSplitting
  <2>8. \A j \in o .. b : q[j] # deli
    <3>1. ASSUME NEW j \in o .. b
          PROVE  q[j] # deli
      <4>1. j - o + 1 \in 1 .. Len(w) /\ o - 1 + (j - o + 1) = j
        BY <2>1, <2>5
      <4>2. QED
        BY <2>1, <4>1
    <3>2. QED
      BY <3>1
  <2>9. SubSeq(q, o, b) = w
    <3>1. /\ SubSeq(q, o, b) \in Seq(Byte)
          /\ Len(SubSeq(q, o, b)) = Len(w)
          /\ \A j \in 1 .. Len(w) : SubSeq(q, o, b)[j] = q[o + j - 1]
      <4>1. o \in Nat /\ o >= 1 /\ b <= Len(q) /\ o <= b /\ b - o + 1 = Len(w)
        BY <2>1, <2>5
      <4> DEFINE sub == SubSeq(q, o, b)
      <4>2. b \in Nat
        BY <2>5
      <4>3. /\ sub \in Seq(Byte)
            /\ Len(sub) = IF o <= b THEN b - o + 1 ELSE 0
            /\ \A j \in 1 .. Len(sub) : sub[j] = q[o + j - 1]
        BY <1>3, <4>1, <4>2, Part
      <4> HIDE DEF sub
      <4>4. Len(sub) = Len(w)
        BY <4>1, <4>3
      <4>5. sub \in Seq(Byte) /\ Len(sub) = Len(w) /\ \A j \in 1 .. Len(w) : sub[j] = q[o + j - 1]
        BY <4>3, <4>4
      <4>6. QED
        BY <4>5 DEF sub
    <3>2. \A j \in 1 .. Len(w) : q[o + j - 1] = w[j]
      <4>1. \A j \in 1 .. Len(w) : o + j - 1 = o - 1 + j
        BY <2>5
      <4>2. QED
        BY <2>1, <4>1
    <3>3. QED
      BY <2>1, <3>1, <3>2, SameSequence
  <2> HIDE DEF pos
  <2>10. CASE i = n
    <3>1. pos = 0
      BY <2>3, <2>5, <2>6, <2>8, <2>10
    <3>2. QED
      BY <2>3, <2>4, <2>7, <2>9, <2>10, <3>1 DEF o
  <2>11. CASE i # n
    <3>1. pos = b + 1
      <4>1. b + 1 \in o .. Len(q) /\ q[b + 1] = deli
        BY <2>1, <2>2, <2>5, <2>11
      <4>2. pos \in o .. Len(q) /\ q[pos] = deli /\ \A j \in o .. pos - 1 : q[j] # deli
        BY <2>6, <4>1
      <4>3. ~(pos <= b)
        BY <2>5, <2>8, <4>2
      <4>4. ~(b + 1 <= pos - 1)
        BY <2>5, <4>1, <4>2
      <4>5. QED
        BY <2>5, <4>2, <4>3, <4>4
    <3>2. pos # 0 /\ pos # o /\ pos - 1 = b /\ pos + 1 = b + 2
      BY <2>1, <2>5, <3>1
    <3>3. from[o] = <<w>> \o Rest(i + 1)
      BY <2>2, <2>7, <2>9, <2>11, <3>2
    <3>4. QED
      BY <2>4, <2>11, <3>3 DEF o
  <2>12. QED
    BY <2>10, <2>11
<1>7. ASSUME NEW i \in D, \A h \in D : size[h] < size[i] => h \in X
      PROVE  i \in X
  <2>1. i # n => i + 1 \in D /\ size[i + 1] < size[i]
    BY <1>1
  <2>2. QED
    BY <1>6, <1>7, <2>1
<1>8. \A i \in D : i \in X
  <2>1. size \in [D -> Nat]
    BY <1>1
  <2> HIDE DEF X, D, size
  <2>2. QED
    BY <1>7, <2>1, SizesBySteps
<1>9. Split(q, deli) = items
  <2>1. CASE n = 0
    <3>1. items = <<>> /\ Len(q) = 0
      BY <1>2, <1>3, <2>1
    <3>2. from[Len(q) + 1] = <<>>
      BY <1>4 DEF IsSplitting
    <3>3. QED
      BY <1>4, <3>1, <3>2
  <2>2. CASE n # 0
    <3>1. 1 \in D
      BY <1>1, <2>2
    <3>2. from[begin(1)] = Rest(1)
      BY <1>8, <3>1
    <3>3. begin(1) = 1 /\ Rest(1) = items
      BY <1>1
    <3>4. QED
      BY <1>4, <3>2, <3>3
  <2>3. QED
    BY <2>1, <2>2
<1>10. QED
  BY <1>3, <1>9 DEF q, ss

Params == Seq(Seq(Byte) \X Seq(Byte))

Parsed == [refused : BOOLEAN, params : Params]

(* Parsing one parameter keeps the type of what was parsed.                *)
LEMMA ParsedOne ==
  ASSUME NEW got \in Parsed, NEW str \in Seq(Byte)
  PROVE  ParseParam(got, str) \in Parsed
<1> DEFINE pos == Find(str, Equal, 1)
           key == UrlDecode(SubSeq(str, 1, pos - 1), TRUE)
           val == UrlDecode(SubSeq(str, pos + 1, Len(str)), TRUE)
<1>1. Refused \in Parsed
  BY DEF Refused, Parsed, Params
<1>2. CASE got.refused \/ pos = 0
  BY <1>1, <1>2 DEF ParseParam
<1>3. CASE ~(got.refused \/ pos = 0)
  <2>1. pos \in 1 .. Len(str)
    <3>1. 1 \in 1 .. Len(str) + 1
      OBVIOUS
    <3>2. QED
      BY <1>3, <3>1, FindFirst
  <2> HIDE DEF pos
  <2>2. SubSeq(str, 1, pos - 1) \in Seq(Byte) /\ SubSeq(str, pos + 1, Len(str)) \in Seq(Byte)
    BY <2>1
  <2>3. \A t \in Seq(Byte) : UrlDecode(t, TRUE) \in Seq(Byte)
    <3>1. ASSUME NEW t \in Seq(Byte)
          PROVE  UrlDecode(t, TRUE) \in Seq(Byte)
      <4>1. PICK from : IsDecoding(from, t, TRUE) /\ UrlDecode(t, TRUE) = from[1]
        BY Decoding
      <4>2. 1 \in 1 .. Len(t) + 1
        OBVIOUS
      <4>3. QED
        BY <4>1, <4>2 DEF IsDecoding
    <3>2. QED
      BY <3>1
  <2>4. key \in Seq(Byte) /\ val \in Seq(Byte)
    BY <2>2, <2>3
  <2> HIDE DEF key, val
  <2>5. got.params \in Params
    BY DEF Parsed
  <2>6. SetParam(got.params, key, val) \in Params
    <3>1. <<key, val>> \in Seq(Byte) \X Seq(Byte)
      BY <2>4
    <3>2. Append(got.params, <<key, val>>) \in Params
      <4> DEFINE T == Seq(Byte) \X Seq(Byte)
                 e == <<key, val>>
      <4>1. e \in T /\ got.params \in Seq(T)
        BY <2>5, <3>1 DEF Params
      <4> HIDE DEF T, e
      <4>2. Append(got.params, e) \in Seq(T)
        BY <4>1
      <4>3. QED
        BY <4>2 DEF T, e, Params
    <3>3. QED
      BY <2>5, <3>2 DEF SetParam
  <2>7. ParseParam(got, str) = [got EXCEPT !.params = SetParam(got.params, key, val)]
    BY <1>3, Zenon DEF ParseParam, key, val, pos
  <2>8. QED
    BY <2>6, <2>7 DEF Parsed
<1>4. QED
  BY <1>2, <1>3

(* What has been found after the first i of the parts of a query.           *)
IsParsing(got, v) ==
    /\ got \in [0 .. Len(v) -> Parsed]
    /\ got[0] = [refused |-> FALSE, params |-> <<>>]
    /\ \A i \in 1 .. Len(v) : got[i] = ParseParam(got[i - 1], v[i])

(* ParseQuery parses one part of the query after another.                  *)
LEMMA Parsing ==
  ASSUME NEW query \in Seq(Byte)
  PROVE  \E got : /\ IsParsing(got, Split(query, And))
                  /\ ParseQuery(query) = got[Len(Split(query, And))]
<1> DEFINE v == Split(query, And)
           m == Len(v)
           D == 0 .. m
           none == [refused |-> FALSE, params |-> <<>>]
           step == [i \in 1 .. m |-> [g \in Parsed |-> ParseParam(g, v[i])]]
<1>1. m \in Nat /\ \A i \in 1 .. m : v[i] \in Seq(Byte)
  <2>1. v \in Seq(Seq(Byte))
    BY SplitInOrder
  <2> HIDE DEF v
  <2>2. QED
    BY <2>1
<1>2. \A i \in D : i # 0 => i \in 1 .. m /\ i - 1 \in D
  BY <1>1
<1>3. none \in Parsed
  BY DEF Parsed, Params
<1> HIDE DEF v, m, none
<1>4. Steps(step, m, Parsed)
  <2>1. ASSUME NEW i \in 1 .. m
        PROVE  step[i] \in [Parsed -> Parsed]
    <3>1. \A g \in Parsed : ParseParam(g, v[i]) \in Parsed
      BY <1>1, ParsedOne
    <3>2. QED
      BY <3>1
  <2>2. QED
    BY <2>1, Zenon DEF Steps
<1>5. PICK f : Follows(f, m, Parsed, none, step)
  <2> HIDE DEF step
  <2>1. QED
    BY <1>1, <1>3, <1>4, StepByStep
<1>6. f = [i \in D |-> IF i = 0 THEN none ELSE ParseParam(f[i - 1], v[i])]
  <2>1. ASSUME NEW i \in D, i # 0
        PROVE  f[i] = ParseParam(f[i - 1], v[i])
    <3>1. i \in 1 .. m /\ f[i - 1] \in Parsed
      BY <1>2, <1>5, <2>1 DEF Follows
    <3>2. QED
      BY <1>5, <3>1 DEF Follows
  <2>2. f \in [D -> Parsed] /\ f[0] = none
    BY <1>5 DEF Follows
  <2>3. QED
    BY <2>1, <2>2
<1> DEFINE got[i \in D] == IF i = 0 THEN none ELSE ParseParam(got[i - 1], v[i])
<1>7. got = [i \in D |-> IF i = 0 THEN none ELSE ParseParam(got[i - 1], v[i])]
  BY <1>6
<1>8. ParseQuery(query) = got[m]
  BY Zenon DEF ParseQuery, v, m, none
<1> HIDE DEF got
<1>9. \A i \in D : got[i] \in Parsed
  <2> DEFINE S == {i \in Nat : i \in D => got[i] \in Parsed}
  <2>1. 0 \in S
    BY <1>3, <1>7
  <2>2. ASSUME NEW i \in Nat, i \in S
        PROVE  i + 1 \in S
    <3>1. SUFFICES ASSUME i + 1 \in D
                   PROVE  got[i + 1] \in Parsed
      OBVIOUS
    <3>2. i \in D /\ i + 1 # 0 /\ (i + 1) - 1 = i /\ i + 1 \in 1 .. m
      BY <1>1, <3>1
    <3>3. got[i + 1] = ParseParam(got[i], v[i + 1])
      BY <1>7, <3>1, <3>2
    <3>4. QED
      BY <1>1, <2>2, <3>2, <3>3, ParsedOne
  <2>3. \A i \in Nat : i \in S
    <3> HIDE DEF S
    <3>1. QED
      BY <2>1, <2>2, NumbersBySteps
  <2>4. QED
    BY <2>3
<1>10. got \in [D -> Parsed] /\ got[0] = none
  BY <1>1, <1>7, <1>9
<1>11. ASSUME NEW i \in 1 .. m
       PROVE  got[i] = ParseParam(got[i - 1], v[i])
  <2>1. i \in D /\ i # 0
    BY <1>1
  <2>2. QED
    BY <1>7, <2>1
<1>12. IsParsing(got, v)
  BY <1>10, <1>11 DEF IsParsing, m, none
<1>13. QED
  BY <1>8, <1>12 DEF v, m

(* One part of a query, made of a name and a value.                         *)
Item(p) == UrlEncode(p[1], TRUE) \o <<Equal>> \o UrlEncode(p[2], TRUE)

SevenBitParam(p) == SevenBit(p[1]) /\ SevenBit(p[2])

(* An encoded parameter has no separator in it and is read back.           *)
LEMMA ItemIsParsed ==
  ASSUME NEW p \in Seq(Byte) \X Seq(Byte), SevenBitParam(p)
  PROVE  /\ Item(p) \in Seq(Byte) /\ Item(p) # <<>>
         /\ \A j \in 1 .. Len(Item(p)) : Item(p)[j] # And
         /\ \A got \in Parsed : ~got.refused =>
               ParseParam(got, Item(p)) = [got EXCEPT !.params = SetParam(@, p[1], p[2])]
<1> DEFINE k == UrlEncode(p[1], TRUE)
           e == UrlEncode(p[2], TRUE)
           S == Byte \ Separators
           str == Item(p)
           a == Len(k)
           pos == Find(str, Equal, 1)
<1>1. p[1] \in Seq(Byte) /\ p[2] \in Seq(Byte) /\ SevenBit(p[1]) /\ SevenBit(p[2])
  BY DEF SevenBitParam
<1>2. k \in Seq(S) /\ e \in Seq(S)
  BY <1>1, EncodedIsPlain
<1>3. UrlDecode(k, TRUE) = p[1] /\ UrlDecode(e, TRUE) = p[2]
  BY <1>1, DecodesWhatWasEncoded
<1>4. str = k \o <<Equal>> \o e
  BY DEF Item
<1>5. /\ Equal \in Byte /\ Equal # And
      /\ \A c \in S : c \in Byte /\ c # Equal /\ c # And
  BY DEF Separators, Equal, And, Byte
<1> HIDE DEF k, e, S, str
<1>6. a \in Nat /\ Len(e) \in Nat /\ \A j \in 1 .. a : k[j] \in S
  BY <1>2
<1>7. \A j \in 1 .. Len(e) : e[j] \in S
  BY <1>2
<1>8. k \in Seq(Byte) /\ e \in Seq(Byte)
  BY <1>2, <1>5
<1>9. /\ str \in Seq(Byte)
      /\ Len(str) = a + 1 + Len(e)
      /\ \A j \in 1 .. a : str[j] = k[j]
      /\ str[a + 1] = Equal
      /\ \A j \in 1 .. Len(e) : str[a + 1 + j] = e[j]
  <2> DEFINE b == k \o <<Equal>>
  <2>1. /\ b \in Seq(Byte) /\ Len(b) = a + 1 /\ b[a + 1] = Equal
        /\ \A j \in 1 .. a : b[j] = k[j]
    BY <1>5, <1>8
  <2>2. str = b \o e
    BY <1>4
  <2> HIDE DEF b
  <2>3. /\ b \o e \in Seq(Byte) /\ Len(b \o e) = Len(b) + Len(e)
        /\ \A j \in 1 .. Len(b) : (b \o e)[j] = b[j]
        /\ \A j \in 1 .. Len(e) : (b \o e)[Len(b) + j] = e[j]
    <3>1. b \in Seq(Byte) /\ e \in Seq(Byte)
      BY <1>8, <2>1
    <3>2. QED
      BY <3>1
  <2>4. \A j \in 1 .. a : j \in 1 .. Len(b)
    BY <1>6, <2>1
  <2>5. a + 1 \in 1 .. Len(b)
    BY <1>6, <2>1
  <2>6. QED
    BY <2>1, <2>2, <2>3, <2>4, <2>5
<1>10. \A j \in 1 .. Len(str) : str[j] # And
  <2>1. ASSUME NEW j \in 1 .. Len(str)
        PROVE  str[j] # And
    <3>1. CASE j \in 1 .. a
      <4>1. str[j] = k[j] /\ k[j] \in S
        BY <1>6, <1>9, <3>1
      <4>2. QED
        BY <1>5, <4>1
    <3>2. CASE j = a + 1
      BY <1>5, <1>9, <3>2
    <3>3. CASE ~(j \in 1 .. a) /\ j # a + 1
      <4> DEFINE h == j - (a + 1)
      <4>1. h \in 1 .. Len(e) /\ a + 1 + h = j
        BY <1>6, <1>9, <3>3
      <4> HIDE DEF h
      <4>2. str[j] = e[h] /\ e[h] \in S
        BY <1>7, <1>9, <4>1
      <4>3. QED
        BY <1>5, <4>2
    <3>4. QED
      BY <3>1, <3>2, <3>3
  <2>2. QED
    BY <2>1
<1>11. pos = a + 1
  <2>1. \A j \in 1 .. a : str[j] # Equal
    BY <1>5, <1>6, <1>9
  <2>2. a + 1 \in 1 .. Len(str) /\ 1 \in 1 .. Len(str) + 1
    BY <1>6, <1>9
  <2>3. \/ pos = 0 /\ \A i \in 1 .. Len(str) : str[i] # Equal
        \/ /\ pos \in 1 .. Len(str) /\ str[pos] = Equal
           /\ \A i \in 1 .. pos - 1 : str[i] # Equal
    BY <1>9, <2>2, FindFirst
  <2> HIDE DEF pos
  <2>4. pos \in 1 .. Len(str) /\ str[pos] = Equal /\ \A i \in 1 .. pos - 1 : str[i] # Equal
    BY <1>9, <2>2, <2>3
  <2>5. ~(pos <= a)
    BY <1>6, <2>1, <2>4
  <2>6. ~(a + 1 <= pos - 1)
    BY <1>6, <1>9, <2>4
  <2>7. QED
    BY <1>6, <2>4, <2>5, <2>6
<1>12. SubSeq(str, 1, a) = k
  <2> DEFINE sub == SubSeq(str, 1, a)
  <2>1. a <= Len(str)
    BY <1>6, <1>9
  <2>2. /\ sub \in Seq(Byte) /\ Len(sub) = IF 1 <= a THEN a - 1 + 1 ELSE 0
        /\ \A j \in 1 .. Len(sub) : sub[j] = str[1 + j - 1]
    BY <1>6, <1>9, <2>1, Part
  <2> HIDE DEF sub
  <2>3. Len(sub) = a /\ \A j \in 1 .. a : 1 + j - 1 = j
    BY <1>6, <2>2
  <2>4. \A j \in 1 .. Len(sub) : sub[j] = k[j]
    BY <1>9, <2>2, <2>3
  <2>5. sub = k
    BY <1>8, <2>2, <2>3, <2>4, SameSequence
  <2>6. QED
    BY <2>5 DEF sub
<1>13. SubSeq(str, a + 2, Len(str)) = e
  <2> DEFINE sub == SubSeq(str, a + 2, Len(str))
  <2>1. a + 2 \in Nat /\ a + 2 >= 1 /\ Len(str) \in Nat
    BY <1>6, <1>9
  <2>2. /\ sub \in Seq(Byte)
        /\ Len(sub) = IF a + 2 <= Len(str) THEN Len(str) - (a + 2) + 1 ELSE 0
        /\ \A j \in 1 .. Len(sub) : sub[j] = str[(a + 2) + j - 1]
    BY <1>9, <2>1, Part
  <2> HIDE DEF sub
  <2>3. Len(sub) = Len(e)
    BY <1>6, <1>9, <2>2
  <2>4. \A j \in 1 .. Len(e) : (a + 2) + j - 1 = a + 1 + j
    BY <1>6
  <2>5. \A j \in 1 .. Len(sub) : sub[j] = e[j]
    BY <1>9, <2>2, <2>3, <2>4
  <2>6. sub = e
    BY <1>8, <2>2, <2>3, <2>5, SameSequence
  <2>7. QED
    BY <2>6 DEF sub
<1>14. ASSUME NEW got \in Parsed, ~got.refused
       PROVE  ParseParam(got, str) = [got EXCEPT !.params = SetParam(@, p[1], p[2])]
  <2>1. pos # 0 /\ pos - 1 = a /\ pos + 1 = a + 2
    BY <1>6, <1>11
  <2>2. ParseParam(got, str) =
          [got EXCEPT !.params = SetParam(@, UrlDecode(SubSeq(str, 1, pos - 1), TRUE),
                                             UrlDecode(SubSeq(str, pos + 1, Len(str)), TRUE))]
    BY <1>14, <2>1, Zenon DEF ParseParam
  <2> HIDE DEF pos
  <2>3. UrlDecode(SubSeq(str, 1, pos - 1), TRUE) = p[1]
    BY <1>3, <1>12, <2>1, Zenon
  <2>4. UrlDecode(SubSeq(str, pos + 1, Len(str)), TRUE) = p[2]
    BY <1>3, <1>13, <2>1, Zenon
  <2>5. QED
    BY <2>2, <2>3, <2>4, Zenon
<1>15. str # <<>>
  BY <1>6, <1>9
<1>16. QED
  BY <1>9, <1>10, <1>14, <1>15, Zenon DEF str

FirstNamed(ps, i) == \A j \in 1 .. i - 1 : ps[j][1] # ps[i][1]

(* The first values of the names among the first k parameters.              *)
FirstsUpTo(ps, k) == {ps[i] : i \in {j \in 1 .. k : FirstNamed(ps, j)}}

(* A name that has been given has a first value.                            *)
LEMMA SomeFirst ==
  ASSUME NEW ps, NEW k \in Nat, NEW i \in 1 .. k
  PROVE  \E j \in 1 .. k : FirstNamed(ps, j) /\ ps[j][1] = ps[i][1]
<1> DEFINE T == {j \in 1 .. k : ps[j][1] = ps[i][1]}
<1>1. T \in SUBSET Nat /\ i \in T
  OBVIOUS
<1>2. PICK j \in T : \A h \in T : j <= h
  BY <1>1, LeastNumber
<1>3. ASSUME NEW h \in 1 .. j - 1
      PROVE  ps[h][1] # ps[j][1]
  <2>1. h \in 1 .. k /\ ~(j <= h)
    OBVIOUS
  <2>2. h \notin T
    BY <1>2, <2>1
  <2>3. QED
    BY <2>1, <2>2
<1>4. QED
  BY <1>3 DEF FirstNamed

(* An appended element joins the set.                                      *)
LEMMA AppendedSet ==
  ASSUME NEW S, NEW s \in Seq(S), NEW x \in S
  PROVE  ToSet(Append(s, x)) = ToSet(s) \cup {x}
<1>1. /\ DOMAIN s = 1 .. Len(s) /\ Len(s) \in Nat
      /\ DOMAIN Append(s, x) = 1 .. Len(s) + 1
      /\ Append(s, x)[Len(s) + 1] = x
      /\ \A i \in 1 .. Len(s) : Append(s, x)[i] = s[i]
  OBVIOUS
<1>2. \A i \in 1 .. Len(s) + 1 : i \in 1 .. Len(s) \/ i = Len(s) + 1
  BY <1>1
<1>3. \A i \in 1 .. Len(s) : i \in 1 .. Len(s) + 1
  BY <1>1
<1>4. Len(s) + 1 \in 1 .. Len(s) + 1
  BY <1>1
<1> DEFINE n == Len(s)
           t == Append(s, x)
<1> HIDE DEF n, t
<1>5. ToSet(t) = ToSet(s) \cup {x}
  BY <1>1, <1>2, <1>3, <1>4 DEF ToSet, n, t
<1>6. QED
  BY <1>5 DEF t

(* A query of encoded parameters gives them back, the first of each name.  *)
LEMMA ParametersComeBack ==
  ASSUME NEW ps \in Params, \A i \in 1 .. Len(ps) : SevenBitParam(ps[i])
  PROVE  LET items == [i \in DOMAIN ps |-> Item(ps[i])]
             got == ParseQuery(FlattenSeq(Between(items, And)))
         IN  ~got.refused /\ ToSet(got.params) = FirstsUpTo(ps, Len(ps))
<1> DEFINE n == Len(ps)
           items == [i \in DOMAIN ps |-> Item(ps[i])]
           q == FlattenSeq(Between(items, And))
<1>1. /\ n \in Nat /\ DOMAIN ps = 1 .. n
      /\ \A i \in 1 .. n : ps[i] \in Seq(Byte) \X Seq(Byte)
  <2> DEFINE T == Seq(Byte) \X Seq(Byte)
  <2>1. ps \in Seq(T)
    BY DEF Params
  <2> HIDE DEF T
  <2>2. n \in Nat /\ DOMAIN ps = 1 .. n /\ \A i \in 1 .. n : ps[i] \in T
    BY <2>1
  <2>3. QED
    BY <2>2 DEF T
<1>2. ASSUME NEW i \in 1 .. n
      PROVE  /\ Item(ps[i]) \in Seq(Byte) /\ Item(ps[i]) # <<>>
             /\ \A j \in 1 .. Len(Item(ps[i])) : Item(ps[i])[j] # And
             /\ \A got \in Parsed : ~got.refused =>
                   ParseParam(got, Item(ps[i])) = [got EXCEPT !.params = SetParam(@, ps[i][1], ps[i][2])]
  <2> DEFINE p == ps[i]
  <2>1. p \in Seq(Byte) \X Seq(Byte) /\ SevenBitParam(p)
    BY <1>1
  <2> HIDE DEF p
  <2>2. /\ Item(p) \in Seq(Byte) /\ Item(p) # <<>>
        /\ \A j \in 1 .. Len(Item(p)) : Item(p)[j] # And
        /\ \A got \in Parsed : ~got.refused =>
              ParseParam(got, Item(p)) = [got EXCEPT !.params = SetParam(@, p[1], p[2])]
    BY <2>1, ItemIsParsed
  <2>3. QED
    BY <2>2 DEF p
<1>3. items \in Seq(Seq(Byte)) /\ Len(items) = n /\ \A i \in 1 .. n : items[i] = Item(ps[i])
  BY <1>1, <1>2
<1> HIDE DEF items, q
<1>4. q \in Seq(Byte) /\ Split(q, And) = items
  <2>1. \A i \in 1 .. Len(items) : items[i] # <<>> /\ \A j \in 1 .. Len(items[i]) : items[i][j] # And
    BY <1>2, <1>3
  <2>2. And \in Byte
    BY DEF And, Byte
  <2>3. QED
    BY <1>3, <2>1, <2>2, SplitsBetween DEF q
<1>5. PICK got : IsParsing(got, items) /\ ParseQuery(q) = got[n]
  BY <1>3, <1>4, Parsing
<1>6. /\ got \in [0 .. n -> Parsed]
      /\ got[0] = [refused |-> FALSE, params |-> <<>>]
      /\ \A i \in 1 .. n : got[i] = ParseParam(got[i - 1], Item(ps[i]))
  BY <1>3, <1>5 DEF IsParsing
<1> DEFINE Good(i) == ~got[i].refused /\ ToSet(got[i].params) = FirstsUpTo(ps, i)
           S == {i \in Nat : i <= n => Good(i)}
<1>7. 0 \in S
  <2>1. FirstsUpTo(ps, 0) = {} /\ ToSet(<<>>) = {}
    BY DEF FirstsUpTo, ToSet
  <2>2. got[0].refused = FALSE /\ got[0].params = <<>>
    BY <1>6
  <2>3. QED
    BY <2>1, <2>2
<1>8. ASSUME NEW h \in Nat, h \in S
      PROVE  h + 1 \in S
  <2> DEFINE i == h + 1
             g == got[h]
             p == ps[i]
  <2>1. SUFFICES ASSUME i <= n
                 PROVE  Good(i)
    OBVIOUS
  <2>2. i \in 1 .. n /\ i - 1 = h /\ h \in 0 .. n /\ h <= n /\ i \in Nat /\ 1 .. i = (1 .. h) \cup {i}
    BY <1>1, <2>1
  <2>3. g \in Parsed /\ ~g.refused /\ ToSet(g.params) = FirstsUpTo(ps, h)
    BY <1>6, <1>8, <2>2
  <2>4. got[i] = [g EXCEPT !.params = SetParam(@, p[1], p[2])]
    BY <1>2, <1>6, <2>2, <2>3
  <2> HIDE DEF i
  <2>5. p = <<p[1], p[2]>> /\ p \in Seq(Byte) \X Seq(Byte)
    <3>1. p \in Seq(Byte) \X Seq(Byte)
      BY <1>1, <2>2
    <3> HIDE DEF p
    <3>2. QED
      BY <3>1
  <2>6. g.params \in Params
    BY <2>3 DEF Parsed
  <2> HIDE DEF g
  <2>7. got[i].refused = g.refused /\ got[i].params = SetParam(g.params, p[1], p[2])
    BY <2>3, <2>4 DEF Parsed
  <2>8. (\E j \in DOMAIN g.params : g.params[j][1] = p[1]) <=> ~FirstNamed(ps, i)
    <3>1. ASSUME NEW j \in DOMAIN g.params, g.params[j][1] = p[1]
          PROVE  ~FirstNamed(ps, i)
      <4>1. g.params[j] \in FirstsUpTo(ps, h)
        BY <2>3 DEF ToSet
      <4>2. PICK m \in 1 .. h : g.params[j] = ps[m]
        BY <4>1 DEF FirstsUpTo
      <4>3. m \in 1 .. i - 1 /\ ps[m][1] = ps[i][1]
        BY <2>2, <3>1, <4>2
      <4>4. QED
        BY <4>3 DEF FirstNamed
    <3>2. ASSUME ~FirstNamed(ps, i)
          PROVE  \E j \in DOMAIN g.params : g.params[j][1] = p[1]
      <4>1. PICK m \in 1 .. h : ps[m][1] = p[1]
        BY <2>2, <3>2 DEF FirstNamed
      <4>2. PICK f \in 1 .. h : FirstNamed(ps, f) /\ ps[f][1] = ps[m][1]
        BY SomeFirst
      <4>3. ps[f] \in ToSet(g.params)
        BY <2>3, <4>2 DEF FirstsUpTo
      <4>4. PICK j \in DOMAIN g.params : g.params[j] = ps[f]
        BY <4>3 DEF ToSet
      <4>5. QED
        BY <4>1, <4>2, <4>4
    <3>3. QED
      BY <3>1, <3>2
  <2>9. CASE FirstNamed(ps, i)
    <3>1. got[i].params = Append(g.params, p)
      BY <2>5, <2>7, <2>8, <2>9, Zenon DEF SetParam
    <3>2. ToSet(Append(g.params, p)) = ToSet(g.params) \cup {p}
      <4> DEFINE T == Seq(Byte) \X Seq(Byte)
      <4>1. p \in T /\ g.params \in Seq(T)
        BY <2>5, <2>6 DEF Params
      <4> HIDE DEF T, p
      <4>2. QED
        BY <4>1, AppendedSet
    <3>3. FirstsUpTo(ps, i) = FirstsUpTo(ps, h) \cup {p}
      BY <2>2, <2>9 DEF FirstsUpTo
    <3>4. QED
      BY <2>3, <2>7, <3>1, <3>2, <3>3
  <2>10. CASE ~FirstNamed(ps, i)
    <3>1. got[i].params = g.params
      BY <2>7, <2>8, <2>10, Zenon DEF SetParam
    <3>2. FirstsUpTo(ps, i) = FirstsUpTo(ps, h)
      BY <2>2, <2>10 DEF FirstsUpTo
    <3>3. QED
      BY <2>3, <2>7, <3>1, <3>2
  <2>11. QED
    BY <2>9, <2>10
<1>9. \A i \in Nat : i \in S
  <2> HIDE DEF S
  <2>1. QED
    BY <1>7, <1>8, NumbersBySteps
<1>10. Good(n)
  BY <1>1, <1>9
<1>11. QED
  BY <1>5, <1>10 DEF q, items
-----------------------------------------------------------------------------
(* What is typed, or put together, is made of bytes.                        *)
UtilTypeOK == text \in Seq(Byte) /\ params \in Params

(* The text under test stays a text of bytes.                              *)
LEMMA TypesKept == UtilSpec => []UtilTypeOK
<1>1. UtilInit => UtilTypeOK
  BY DEF UtilInit, UtilTypeOK, Params
<1>2. UtilTypeOK /\ [UtilNext]_UtilVars => UtilTypeOK'
  <2> SUFFICES ASSUME UtilTypeOK, [UtilNext]_UtilVars
               PROVE  UtilTypeOK'
    OBVIOUS
  <2>1. ASSUME NEW c \in Alphabet, text' = Append(text, c), UNCHANGED params
        PROVE  UtilTypeOK'
    <3>1. c \in Byte
      BY AlphabetAssumption
    <3>2. QED
      BY <2>1, <3>1 DEF UtilTypeOK
  <2>2. ASSUME NEW key \in Words, NEW val \in Words, params' = Append(params, <<key, val>>),
               UNCHANGED text
        PROVE  UtilTypeOK'
    <3> DEFINE T == Seq(Byte) \X Seq(Byte)
               e == <<key, val>>
    <3>1. e \in T /\ params \in Seq(T)
      BY AlphabetAssumption DEF UtilTypeOK, Params
    <3>2. params' = Append(params, e)
      BY <2>2
    <3> HIDE DEF T, e
    <3>3. params' \in Seq(T)
      BY <3>1, <3>2
    <3>4. QED
      BY <2>2, <3>3 DEF T, UtilTypeOK, Params
  <2>3. CASE UNCHANGED UtilVars
    BY <2>3 DEF UtilVars, UtilTypeOK
  <2>4. QED
    BY <2>1, <2>2, <2>3, Zenon DEF UtilNext, Type, AddParam
<1>3. QED
  BY <1>1, <1>2, PTL DEF UtilSpec

(* Whatever seven-bit bytes it has, a text comes back from encoding and     *)
(* decoding, and its code has no separator in it (http.hpp:207-274).        *)
THEOREM EncodingCorrect == UtilSpec => []EncodingIsSound
<1>1. UtilTypeOK => EncodingIsSound
  <2> SUFFICES ASSUME UtilTypeOK, NEW plus \in BOOLEAN, SevenBit(text)
               PROVE  /\ UrlDecode(UrlEncode(text, plus), plus) = text
                      /\ ToSet(UrlEncode(text, plus)) \cap {10, 13, Space, And, Slash, Equal, 63} = {}
    BY DEF EncodingIsSound
  <2>1. text \in Seq(Byte)
    BY DEF UtilTypeOK
  <2>2. UrlDecode(UrlEncode(text, plus), plus) = text
    BY <2>1, DecodesWhatWasEncoded
  <2> DEFINE e == UrlEncode(text, plus)
             S == Byte \ Separators
  <2>3. e \in Seq(S)
    BY <2>1, EncodedIsPlain
  <2> HIDE DEF e, S
  <2>4. ToSet(e) \subseteq S
    BY <2>3 DEF ToSet
  <2>5. QED
    BY <2>2, <2>4 DEF e, S, Separators
<1>2. QED
  BY <1>1, TypesKept, PTL

(* Split gives the non-empty pieces between delimiters, all of them, in     *)
(* their order, whatever the text (http.hpp:151-168).                       *)
THEOREM SplitCorrect == UtilSpec => []SplitsInRuns
<1>1. UtilTypeOK => SplitsInRuns
  BY SplitGivesTheRuns DEF UtilTypeOK, SplitsInRuns
<1>2. QED
  BY <1>1, TypesKept, PTL

(* ValidPath accepts every path that stays inside, and of the paths without *)
(* a part "." no other, however long they are (http.hpp:322-343).           *)
THEOREM ValidCorrect == UtilSpec => []ValidIsInside
<1>1. UtilTypeOK => ValidIsInside
  <2> SUFFICES ASSUME UtilTypeOK  PROVE ValidIsInside
    OBVIOUS
  <2> DEFINE Names(i) == EndedBy(i, text, Slash)
             Up(i)    == ParentsBy(i, text, Slash)
             Stays(i) == {r \in Names(i) : SubSeq(text, r[1], r[2]) = <<Dot>>}
             inside   == \A i \in DOMAIN text :
                 2 * Cardinality(Up(i)) + Cardinality(Stays(i)) <= Cardinality(Names(i))
  <2>1. ValidPath(text) <=>
            \A i \in DOMAIN text : 2 * Cardinality(Up(i)) <= Cardinality(Names(i))
    BY ValidCounts DEF UtilTypeOK
  <2>2. ASSUME NEW i \in DOMAIN text
        PROVE  /\ Cardinality(Names(i)) \in Nat
               /\ Cardinality(Up(i)) \in Nat
               /\ Cardinality(Stays(i)) \in Nat
    <3>1. IsFiniteSet(Runs(text, Slash))
      <4>1. Len(text) \in Nat
        BY DEF UtilTypeOK
      <4>2. IsFiniteSet(1 .. Len(text))
        BY <4>1, FS_Interval
      <4>3. IsFiniteSet((1 .. Len(text)) \X (1 .. Len(text)))
        BY ONLY <4>2, FS_Product
      <4>4. QED
        BY <4>3, FS_Subset DEF Runs
    <3>2. /\ Names(i) \subseteq Runs(text, Slash)
          /\ Up(i) \subseteq Runs(text, Slash)
          /\ Stays(i) \subseteq Runs(text, Slash)
      BY DEF EndedBy, ParentsBy
    <3>3. QED
      BY <3>1, <3>2, FS_Subset, FS_CardinalityType
  <2>3. inside => ValidPath(text)
    <3> SUFFICES ASSUME inside, NEW i \in DOMAIN text
                 PROVE  2 * Cardinality(Up(i)) <= Cardinality(Names(i))
      BY <2>1
    <3> HIDE DEF Names, Up, Stays
    <3> QED
      BY <2>2
  <2>4. ASSUME ValidPath(text),
               \A r \in Runs(text, Slash) : SubSeq(text, r[1], r[2]) # <<Dot>>
        PROVE  inside
    <3> SUFFICES ASSUME NEW i \in DOMAIN text
                 PROVE  2 * Cardinality(Up(i)) + Cardinality(Stays(i))
                            <= Cardinality(Names(i))
      OBVIOUS
    <3>1. Stays(i) = {}
      BY <2>4 DEF EndedBy
    <3>2. Cardinality(Stays(i)) = 0
      BY <3>1, FS_EmptySet
    <3> HIDE DEF Names, Up, Stays
    <3>3. QED
      BY <2>1, <2>2, <2>4, <3>2
  <2>5. QED
    BY <2>3, <2>4 DEF ValidIsInside, EndedBy, ParentsBy
<1>2. QED
  BY <1>1, TypesKept, PTL

(* A query of any number of encoded names and values is parsed into these,  *)
(* the first value of each name (http.hpp:565-578).                         *)
THEOREM QueryCorrect == UtilSpec => []QueryComesBack
<1>1. UtilTypeOK => QueryComesBack
  <2> SUFFICES ASSUME UtilTypeOK
               PROVE  QueryComesBack
    OBVIOUS
  <2> DEFINE n == Len(params)
             items == [i \in DOMAIN params |-> Item(params[i])]
             pre(i) == IF i = 1 THEN <<>> ELSE <<And>>
  <2>1. /\ params \in Params /\ n \in Nat /\ DOMAIN params = 1 .. n /\ DOMAIN items = 1 .. n
        /\ \A i \in 1 .. n : params[i][1] \in Seq(Byte) /\ params[i][2] \in Seq(Byte)
    <3>1. params \in Seq(Seq(Byte) \X Seq(Byte))
      BY DEF UtilTypeOK, Params
    <3> DEFINE T == Seq(Byte) \X Seq(Byte)
    <3>2. \A e \in T : e[1] \in Seq(Byte) /\ e[2] \in Seq(Byte)
      OBVIOUS
    <3> HIDE DEF T
    <3>3. params \in Seq(T)
      BY <3>1 DEF T
    <3>4. n \in Nat /\ DOMAIN params = 1 .. n /\ \A i \in 1 .. n : params[i] \in T
      BY <3>3
    <3>5. QED
      BY <3>1, <3>2, <3>4 DEF Params
  <2>2. SUFFICES ASSUME \A i \in DOMAIN params : SevenBit(params[i][1]) /\ SevenBit(params[i][2])
                 PROVE  LET got == ParseQuery(Query)
                            First(i) == \A j \in 1 .. i - 1 : params[j][1] # params[i][1]
                        IN  /\ ~got.refused
                            /\ ToSet(got.params) = {params[i] : i \in {j \in DOMAIN params : First(j)}}
    BY DEF QueryComesBack
  <2>3. Query = FlattenSeq(Between(items, And))
    <3>1. ASSUME NEW i \in 1 .. n
          PROVE  pre(i) \o UrlEncode(params[i][1], TRUE) \o <<Equal>> \o UrlEncode(params[i][2], TRUE)
                   = pre(i) \o items[i]
      <4> DEFINE k == UrlEncode(params[i][1], TRUE)
                 e == UrlEncode(params[i][2], TRUE)
      <4>1. k \in Seq(Byte \ Separators) /\ e \in Seq(Byte \ Separators)
        BY <2>1, <2>2, EncodedIsPlain
      <4>2. items[i] = k \o <<Equal>> \o e
        BY <2>1 DEF Item
      <4> HIDE DEF k, e, items
      <4>3. k \in Seq(Byte) /\ e \in Seq(Byte)
        BY <4>1
      <4>4. <<And>> \in Seq(Byte) /\ <<Equal>> \in Seq(Byte)
        BY DEF And, Equal, Byte
      <4> DEFINE ke == k \o <<Equal>>
      <4>5. ke \in Seq(Byte) /\ ke \o e \in Seq(Byte)
        BY <4>3, <4>4
      <4>6. \A a \in Seq(Byte) : a \o k \o <<Equal>> \o e = a \o (k \o <<Equal>> \o e)
        <5>1. ASSUME NEW a \in Seq(Byte)
              PROVE  a \o k \o <<Equal>> \o e = a \o (k \o <<Equal>> \o e)
          <6>1. a \o k \o <<Equal>> = a \o ke
            BY <4>3, <4>4, Grouping
          <6>2. a \o ke \o e = a \o (ke \o e)
            <7>1. a \in Seq(Byte) /\ ke \in Seq(Byte) /\ e \in Seq(Byte)
              BY <4>3, <4>5
            <7> HIDE DEF ke
            <7>2. QED
              BY <7>1, Grouping
          <6>3. QED
            BY <6>1, <6>2, Zenon DEF ke
        <5>2. QED
          BY <5>1
      <4>7. pre(i) \in Seq(Byte)
        BY <4>4
      <4> HIDE DEF pre
      <4>8. pre(i) \o k \o <<Equal>> \o e = pre(i) \o items[i]
        BY <4>2, <4>6, <4>7, Zenon
      <4>9. QED
        BY <4>8 DEF k, e
    <3>2. Between(items, And) = [i \in 1 .. n |-> pre(i) \o items[i]]
      BY <2>1, Zenon DEF Between
    <3>3. [i \in DOMAIN params |-> pre(i) \o UrlEncode(params[i][1], TRUE) \o <<Equal>>
                                   \o UrlEncode(params[i][2], TRUE)]
            = [i \in 1 .. n |-> pre(i) \o items[i]]
      <4> HIDE DEF pre, items
      <4>1. QED
        BY <2>1, <3>1
    <3>4. QED
      BY <3>2, <3>3, Zenon DEF Query
  <2>4. \A i \in 1 .. n : SevenBitParam(params[i])
    BY <2>1, <2>2 DEF SevenBitParam
  <2>5. LET got == ParseQuery(Query)
        IN  ~got.refused /\ ToSet(got.params) = FirstsUpTo(params, n)
    BY <2>1, <2>3, <2>4, ParametersComeBack
  <2>6. QED
    BY <2>1, <2>5 DEF FirstsUpTo, FirstNamed
<1>2. QED
  BY <1>1, TypesKept, PTL

-----------------------------------------------------------------------------
(***************************************************************************)
(* 2. HttpServer.                                                          *)
(***************************************************************************)

(* The part of a stream that is not read yet begins with a line, or has no   *)
(* newline (Buffer::GetLineAndPop).                                          *)
NoNewline(s, a, b) == \A q \in a .. b : s[q] # "nl"

(* A line of the rest of a stream, and what comes after it.                *)
LEMMA LineAt ==
  ASSUME NEW s \in Seq(Symbol), NEW n \in 0 .. Len(s), NEW c \in 0 .. n
  PROVE  LET u == SubSeq(s, c + 1, n) IN
         /\ u \in Seq(Symbol) /\ Len(u) = n - c
         /\ \/ NoNewline(s, c + 1, n) /\ Line(u) = <<>>
            \/ \E p \in c + 1 .. n :
                 /\ s[p] = "nl" /\ NoNewline(s, c + 1, p - 1)
                 /\ Line(u) \in Seq(Symbol) /\ Len(Line(u)) = p - c /\ Line(u)[1] = s[c + 1]
                 /\ SubSeq(u, Len(Line(u)) + 1, Len(u)) = SubSeq(s, p + 1, n)
<1> DEFINE u == SubSeq(s, c + 1, n)
           k == n - c
<1>1. k \in Nat /\ n \in Nat /\ c \in Nat /\ n <= Len(s)
  OBVIOUS
<1>2. u \in Seq(Symbol) /\ Len(u) = k /\ \A j \in 1 .. k : u[j] = s[c + j]
  <2>1. c + 1 \in Nat /\ c + 1 >= 1
    BY <1>1
  <2>2. u \in Seq(Symbol) /\ Len(u) = (IF c + 1 <= n THEN n - (c + 1) + 1 ELSE 0)
        /\ \A j \in 1 .. Len(u) : u[j] = s[(c + 1) + j - 1]
    BY <1>1, <2>1, Part
  <2> HIDE DEF u
  <2>3. Len(u) = k
    BY <1>1, <2>2
  <2>4. ASSUME NEW j \in 1 .. k
        PROVE  u[j] = s[c + j]
    <3>1. (c + 1) + j - 1 = c + j
      BY <1>1
    <3>2. QED
      BY <2>2, <2>3, <3>1
  <2>5. QED
    BY <2>2, <2>3, <2>4
<1> DEFINE I == {i \in 1 .. Len(u) : u[i] = "nl"}
<1>3. Line(u) = SubSeq(u, 1, IF I # {} THEN Min(I) ELSE 0)
  BY DEF Line, SelectInSeq
<1> HIDE DEF u
<1>4. CASE I = {}
  <2>1. Line(u) = <<>>
    BY <1>2, <1>3, <1>4
  <2>2. ASSUME NEW q \in c + 1 .. n
        PROVE  s[q] # "nl"
    <3> DEFINE j == q - c
    <3>1. j \in 1 .. k /\ c + j = q
      BY <1>1
    <3> HIDE DEF j
    <3>2. u[j] # "nl"
      BY <1>2, <1>4, <3>1
    <3>3. QED
      BY <1>2, <3>1, <3>2
  <2>3. QED
    BY <1>2, <2>1, <2>2 DEF NoNewline, u
<1>5. CASE I # {}
  <2>1. I \in SUBSET Nat
    BY <1>2
  <2>2. PICK x \in I : \A y \in I : x <= y
    BY <1>5, <2>1, LeastNumber
  <2>3. Min(I) = x
    <3>1. \A y, z \in Nat : y <= z /\ z <= y => y = z
      OBVIOUS
    <3>2. Min(I) \in I /\ \A y \in I : Min(I) <= y
      BY <2>2, Zenon DEF Min
    <3>3. QED
      BY <2>1, <2>2, <3>1, <3>2
  <2>4. x \in 1 .. k /\ u[x] = "nl" /\ Line(u) = SubSeq(u, 1, x)
    BY <1>2, <1>3, <1>5, <2>2, <2>3
  <2> DEFINE p == c + x
  <2>5. p \in c + 1 .. n /\ s[p] = "nl" /\ p - c = x /\ p <= n /\ p \in Nat
    BY <1>1, <1>2, <2>4
  <2>6. NoNewline(s, c + 1, p - 1)
    <3>1. ASSUME NEW q \in c + 1 .. p - 1, s[q] = "nl"
          PROVE  FALSE
      <4> DEFINE j == q - c
      <4>1. j \in 1 .. k /\ c + j = q /\ j < x
        BY <1>1, <2>4
      <4> HIDE DEF j
      <4>2. j \in I
        BY <1>2, <3>1, <4>1
      <4>3. QED
        BY <2>2, <2>4, <4>1, <4>2
    <3>2. QED
      BY <3>1 DEF NoNewline
  <2>7. Line(u) \in Seq(Symbol) /\ Len(Line(u)) = x /\ Line(u)[1] = s[c + 1]
    BY <1>2, <2>4
  <2>8. SubSeq(u, x + 1, k) = SubSeq(s, p + 1, n)
    <3> DEFINE v == SubSeq(u, x + 1, k)
               w == SubSeq(s, p + 1, n)
    <3>1. /\ v \in Seq(Symbol) /\ Len(v) = (IF x + 1 <= k THEN k - (x + 1) + 1 ELSE 0)
          /\ \A j \in 1 .. Len(v) : v[j] = u[(x + 1) + j - 1]
      BY <1>1, <1>2, <2>4, Part
    <3>2. /\ w \in Seq(Symbol) /\ Len(w) = (IF p + 1 <= n THEN n - (p + 1) + 1 ELSE 0)
          /\ \A j \in 1 .. Len(w) : w[j] = s[(p + 1) + j - 1]
      BY <1>1, <2>5, Part
    <3> HIDE DEF v, w
    <3>3. Len(v) = k - x /\ Len(w) = k - x
      BY <1>1, <2>4, <3>1, <3>2
    <3>4. ASSUME NEW j \in 1 .. Len(v)
          PROVE  v[j] = w[j]
      <4>1. x + j \in 1 .. k /\ (x + 1) + j - 1 = x + j /\ (p + 1) + j - 1 = c + (x + j)
        BY <1>1, <2>4, <3>3
      <4>2. v[j] = u[x + j] /\ w[j] = s[c + (x + j)]
        BY <3>1, <3>2, <3>3, <4>1
      <4>3. QED
        BY <1>2, <4>1, <4>2
    <3>5. QED
      BY <3>1, <3>2, <3>3, <3>4, SameSequence DEF v, w
  <2> HIDE DEF p
  <2>9. Len(Line(u)) = p - c /\ SubSeq(u, Len(Line(u)) + 1, Len(u)) = SubSeq(s, p + 1, n)
    BY <1>2, <2>5, <2>7, <2>8
  <2>10. QED
    BY <1>2, <2>5, <2>6, <2>7, <2>9 DEF u
<1>6. QED
  BY <1>4, <1>5
(* The same, by the position of the first symbol that is not read.           *)
LEMMA LineFrom ==
  ASSUME NEW s \in Seq(Symbol), NEW n \in 0 .. Len(s), NEW q \in 1 .. n + 1
  PROVE  LET u == SubSeq(s, q, n) IN
         /\ u \in Seq(Symbol) /\ Len(u) = n + 1 - q
         /\ \/ NoNewline(s, q, n) /\ Line(u) = <<>>
            \/ \E p \in q .. n :
                 /\ s[p] = "nl" /\ NoNewline(s, q, p - 1)
                 /\ Line(u) \in Seq(Symbol) /\ Len(Line(u)) = p + 1 - q /\ Line(u)[1] = s[q]
                 /\ SubSeq(u, Len(Line(u)) + 1, Len(u)) = SubSeq(s, p + 1, n)
<1> DEFINE c == q - 1
<1>1. c \in 0 .. n /\ c + 1 = q /\ \A x \in Int : x - c = x + 1 - q
  OBVIOUS
<1>2. n \in Int
  OBVIOUS
<1> HIDE DEF c
<1>3. LET u == SubSeq(s, q, n) IN
         /\ u \in Seq(Symbol) /\ Len(u) = n - c
         /\ \/ NoNewline(s, q, n) /\ Line(u) = <<>>
            \/ \E p \in q .. n :
                 /\ s[p] = "nl" /\ NoNewline(s, q, p - 1)
                 /\ Line(u) \in Seq(Symbol) /\ Len(Line(u)) = p - c /\ Line(u)[1] = s[q]
                 /\ SubSeq(u, Len(Line(u)) + 1, Len(u)) = SubSeq(s, p + 1, n)
  BY <1>1, LineAt
<1> DEFINE u == SubSeq(s, q, n)
<1> HIDE DEF u
<1>4. /\ u \in Seq(Symbol) /\ Len(u) = n - c
         /\ \/ NoNewline(s, q, n) /\ Line(u) = <<>>
            \/ \E p \in q .. n :
                 /\ s[p] = "nl" /\ NoNewline(s, q, p - 1)
                 /\ Line(u) \in Seq(Symbol) /\ Len(Line(u)) = p - c /\ Line(u)[1] = s[q]
                 /\ SubSeq(u, Len(Line(u)) + 1, Len(u)) = SubSeq(s, p + 1, n)
  BY <1>3 DEF u
<1>5. Len(u) = n + 1 - q
  BY <1>1, <1>2, <1>4
<1>6. ASSUME NEW p \in q .. n
      PROVE  p - c = p + 1 - q
  BY <1>1
<1>7. \/ NoNewline(s, q, n) /\ Line(u) = <<>>
      \/ \E p \in q .. n :
                 /\ s[p] = "nl" /\ NoNewline(s, q, p - 1)
                 /\ Line(u) \in Seq(Symbol) /\ Len(Line(u)) = p + 1 - q /\ Line(u)[1] = s[q]
                 /\ SubSeq(u, Len(Line(u)) + 1, Len(u)) = SubSeq(s, p + 1, n)
  <2>1. CASE NoNewline(s, q, n) /\ Line(u) = <<>>
    BY <2>1
  <2>2. ASSUME NEW p \in q .. n,
                 /\ s[p] = "nl" /\ NoNewline(s, q, p - 1)
                 /\ Line(u) \in Seq(Symbol) /\ Len(Line(u)) = p - c /\ Line(u)[1] = s[q]
                 /\ SubSeq(u, Len(Line(u)) + 1, Len(u)) = SubSeq(s, p + 1, n)
        PROVE  /\ s[p] = "nl" /\ NoNewline(s, q, p - 1)
               /\ Line(u) \in Seq(Symbol) /\ Len(Line(u)) = p + 1 - q /\ Line(u)[1] = s[q]
               /\ SubSeq(u, Len(Line(u)) + 1, Len(u)) = SubSeq(s, p + 1, n)
    BY <1>6, <2>2
  <2>3. QED
    BY <1>4, <2>1, <2>2
<1>8. QED
  BY <1>4, <1>5, <1>7 DEF u

(* Records like http, from their fields.                                     *)
Rec(unread, recv_statu, resp_statu, req, answers, status) ==
    [unread |-> unread, recv_statu |-> recv_statu, resp_statu |-> resp_statu,
     req |-> req, answers |-> answers, status |-> status]

(* The fields of a context, written as a record.                           *)
LEMMA RecFields ==
  ASSUME NEW u, NEW v, NEW p, NEW r, NEW a, NEW t
  PROVE  /\ Rec(u, v, p, r, a, t).unread = u
         /\ Rec(u, v, p, r, a, t).recv_statu = v
         /\ Rec(u, v, p, r, a, t).resp_statu = p
         /\ Rec(u, v, p, r, a, t).req = r
         /\ Rec(u, v, p, r, a, t).answers = a
         /\ Rec(u, v, p, r, a, t).status = t
BY DEF Rec

(* When a record of that form is a context.                                *)
LEMMA RecType ==
  ASSUME NEW u \in Seq(Symbol), NEW v \in {"line", "header", "body", "over", "error"},
         NEW p \in {0, 200, 400, 414}, NEW r \in Request, NEW a \in Seq(Answer),
         NEW t \in {"connected", "disconnecting", "disconnected"}
  PROVE  Rec(u, v, p, r, a, t) \in Http
<1> HIDE DEF Request, Answer
<1>1. QED
  BY DEF Rec, Http

(* What a record http is made of.                                            *)
LEMMA Fields ==
  ASSUME NEW h \in Http
  PROVE  /\ h = Rec(h.unread, h.recv_statu, h.resp_statu, h.req, h.answers, h.status)
         /\ h.unread \in Seq(Symbol)
         /\ h.recv_statu \in {"line", "header", "body", "over", "error"}
         /\ h.resp_statu \in {0, 200, 400, 414}
         /\ h.req \in Request
         /\ h.answers \in Seq(Answer)
         /\ h.status \in {"connected", "disconnecting", "disconnected"}
BY DEF Http, Rec

(* The record after a change of one field.                                   *)
LEMMA Edits ==
  ASSUME NEW h \in Http, NEW x
  PROVE  /\ [h EXCEPT !.unread = x] = Rec(x, h.recv_statu, h.resp_statu, h.req, h.answers, h.status)
         /\ [h EXCEPT !.recv_statu = x] = Rec(h.unread, x, h.resp_statu, h.req, h.answers, h.status)
         /\ [h EXCEPT !.resp_statu = x] = Rec(h.unread, h.recv_statu, x, h.req, h.answers, h.status)
         /\ [h EXCEPT !.req = x] = Rec(h.unread, h.recv_statu, h.resp_statu, x, h.answers, h.status)
         /\ [h EXCEPT !.answers = x] = Rec(h.unread, h.recv_statu, h.resp_statu, h.req, x, h.status)
         /\ [h EXCEPT !.status = x] = Rec(h.unread, h.recv_statu, h.resp_statu, h.req, h.answers, x)
<1> DEFINE u == h.unread
           v == h.recv_statu
           p == h.resp_statu
           r == h.req
           a == h.answers
           t == h.status
<1>1. h = [unread |-> u, recv_statu |-> v, resp_statu |-> p, req |-> r, answers |-> a, status |-> t]
  BY DEF Http
<1> HIDE DEF u, v, p, r, a, t
<1>2. /\ [h EXCEPT !.unread = x] = Rec(x, v, p, r, a, t)
      /\ [h EXCEPT !.recv_statu = x] = Rec(u, x, p, r, a, t)
      /\ [h EXCEPT !.resp_statu = x] = Rec(u, v, x, r, a, t)
      /\ [h EXCEPT !.req = x] = Rec(u, v, p, x, a, t)
      /\ [h EXCEPT !.answers = x] = Rec(u, v, p, r, x, t)
      /\ [h EXCEPT !.status = x] = Rec(u, v, p, r, a, x)
  BY <1>1 DEF Rec
<1>3. QED
  BY <1>2 DEF u, v, p, r, a, t

(* Buffer::MoveReadOffset or a write moves unread only.                    *)
LEMMA EditUnread ==
  ASSUME NEW h \in Http, NEW x
  PROVE  [h EXCEPT !.unread = x] = Rec(x, h.recv_statu, h.resp_statu, h.req, h.answers, h.status)
BY Edits, Zenon

(* An assignment to _recv_statu moves it only.                             *)
LEMMA EditRecv ==
  ASSUME NEW h \in Http, NEW x
  PROVE  [h EXCEPT !.recv_statu = x] = Rec(h.unread, x, h.resp_statu, h.req, h.answers, h.status)
BY Edits, Zenon

(* An assignment to _resp_statu moves it only.                             *)
LEMMA EditResp ==
  ASSUME NEW h \in Http, NEW x
  PROVE  [h EXCEPT !.resp_statu = x] = Rec(h.unread, h.recv_statu, x, h.req, h.answers, h.status)
BY Edits, Zenon

(* An assignment to _request moves it only.                                *)
LEMMA EditReq ==
  ASSUME NEW h \in Http, NEW x
  PROVE  [h EXCEPT !.req = x] = Rec(h.unread, h.recv_statu, h.resp_statu, x, h.answers, h.status)
BY Edits, Zenon

(* A response adds to the answers only.                                    *)
LEMMA EditAnswers ==
  ASSUME NEW h \in Http, NEW x
  PROVE  [h EXCEPT !.answers = x] = Rec(h.unread, h.recv_statu, h.resp_statu, h.req, x, h.status)
BY Edits, Zenon

(* Connection::Shutdown and Release move the status only.                  *)
LEMMA EditStatus ==
  ASSUME NEW h \in Http, NEW x
  PROVE  [h EXCEPT !.status = x] = Rec(h.unread, h.recv_statu, h.resp_statu, h.req, h.answers, x)
BY Edits, Zenon

(* An assignment to the request line moves it only.                        *)
LEMMA EditText ==
  ASSUME NEW h \in Http, NEW x
  PROVE  [h EXCEPT !.req.text = x] = Rec(h.unread, h.recv_statu, h.resp_statu, [h.req EXCEPT !.text = x], h.answers, h.status)
<1>1. [h EXCEPT !.req.text = x] = [h EXCEPT !.req = [h.req EXCEPT !.text = x]]
  OBVIOUS
<1>2. QED
  BY <1>1, EditReq, Zenon

(* An assignment to Content-Length moves it only.                          *)
LEMMA EditLength ==
  ASSUME NEW h \in Http, NEW x
  PROVE  [h EXCEPT !.req.length = x] = Rec(h.unread, h.recv_statu, h.resp_statu, [h.req EXCEPT !.length = x], h.answers, h.status)
<1>1. [h EXCEPT !.req.length = x] = [h EXCEPT !.req = [h.req EXCEPT !.length = x]]
  OBVIOUS
<1>2. QED
  BY <1>1, EditReq, Zenon

(* An assignment to Connection moves it only.                              *)
LEMMA EditConnection ==
  ASSUME NEW h \in Http, NEW x
  PROVE  [h EXCEPT !.req.connection = x] = Rec(h.unread, h.recv_statu, h.resp_statu, [h.req EXCEPT !.connection = x], h.answers, h.status)
<1>1. [h EXCEPT !.req.connection = x] = [h EXCEPT !.req = [h.req EXCEPT !.connection = x]]
  OBVIOUS
<1>2. QED
  BY <1>1, EditReq, Zenon

(* An assignment to the body moves it only.                                *)
LEMMA EditBody ==
  ASSUME NEW h \in Http, NEW x
  PROVE  [h EXCEPT !.req.body = x] = Rec(h.unread, h.recv_statu, h.resp_statu, [h.req EXCEPT !.body = x], h.answers, h.status)
<1>1. [h EXCEPT !.req.body = x] = [h EXCEPT !.req = [h.req EXCEPT !.body = x]]
  OBVIOUS
<1>2. QED
  BY <1>1, EditReq, Zenon

(* A step of the parser: the answers and the status stay.                    *)
Moved(g, h, unread, recv_statu, resp_statu, req) ==
    g = Rec(unread, recv_statu, resp_statu, req, h.answers, h.status)

(* A context that moved is a context, with the fields it moved to.         *)
LEMMA MovedFields ==
  ASSUME NEW h \in Http, NEW u \in Seq(Symbol), NEW v \in {"line", "header", "body", "over", "error"},
         NEW p \in {0, 200, 400, 414}, NEW r \in Request, NEW g, Moved(g, h, u, v, p, r)
  PROVE  /\ g \in Http
         /\ g.unread = u /\ g.recv_statu = v /\ g.resp_statu = p /\ g.req = r
         /\ g.answers = h.answers /\ g.status = h.status
<1>1. h.answers \in Seq(Answer) /\ h.status \in {"connected", "disconnecting", "disconnected"}
  BY Fields
<1>2. g = Rec(u, v, p, r, h.answers, h.status)
  BY DEF Moved
<1>3. QED
  BY <1>1, <1>2, RecFields, RecType

(* The fields of a request, and each may be set.                           *)
LEMMA RequestFields ==
  ASSUME NEW r \in Request
  PROVE  /\ r = [text |-> r.text, length |-> r.length, connection |-> r.connection, body |-> r.body]
         /\ r.text \in {""} \cup RequestText
         /\ r.length \in Nat
         /\ r.connection \in {"", "keep-alive", "close"}
         /\ r.body \in Seq(Symbol)
         /\ \A t \in RequestText : [r EXCEPT !.text = t] \in Request
         /\ \A l \in Nat : [r EXCEPT !.length = l] \in Request
         /\ \A o \in {"keep-alive", "close"} : [r EXCEPT !.connection = o] \in Request
         /\ \A b \in Seq(Symbol) : [r EXCEPT !.body = b] \in Request
BY DEF Request
-----------------------------------------------------------------------------
(* h has read the first n symbols of s, and has those from q on before it.   *)
Seen(h, s, n, q) == h \in Http /\ h.unread = SubSeq(s, q, n)

(* Too few symbols for a line, or for an error.                              *)
Late(s, n, q) == NoNewline(s, q, n) /\ n < q + 2

TooLongAt(s, n, q) == NoNewline(s, q, q + 1) /\ n >= q + 2

(* The lines that may begin at q: too few symbols for one, too many, an      *)
(* empty one, one with a text.                                               *)
LineKind(h, s, n, q, line, rest) ==
    \/ Late(s, n, q) /\ line = <<>> /\ ~TooLong(h, line)
    \/ TooLongAt(s, n, q) /\ TooLong(h, line)
    \/ /\ q <= n /\ s[q] = "nl" /\ line = <<"nl">> /\ ~TooLong(h, line)
       /\ Moved(rest, h, SubSeq(s, q + 1, n), h.recv_statu, h.resp_statu, h.req)
    \/ /\ q + 1 <= n /\ s[q] # "nl" /\ s[q + 1] = "nl"
       /\ line # <<>> /\ line # <<"nl">> /\ line[1] = s[q] /\ ~TooLong(h, line)
       /\ Moved(rest, h, SubSeq(s, q + 2, n), h.recv_statu, h.resp_statu, h.req)

(* What GetLineAndPop finds at a place of the stream: no line yet, one     *)
(* that is too long, or one.                                               *)
LEMMA LineKinds ==
  ASSUME NEW s \in Seq(Symbol), NEW n \in 0 .. Len(s), NEW q \in 1 .. n + 1,
         NEW h, Seen(h, s, n, q)
  PROVE  LET line == Line(h.unread)
             rest == Without(h, line)
         IN  /\ LineKind(h, s, n, q, line, rest)
             /\ rest \in Http
             /\ Moved(rest, h, rest.unread, h.recv_statu, h.resp_statu, h.req)
             /\ Len(rest.unread) <= Len(h.unread)
             /\ line # <<>> => Len(rest.unread) < Len(h.unread)
<1> DEFINE u == h.unread
           line == Line(u)
           rest == Without(h, line)
<1>1. h \in Http /\ u = SubSeq(s, q, n) /\ u \in Seq(Symbol)
  BY Fields DEF Seen
<1>2. /\ Len(u) = n + 1 - q
      /\ \/ NoNewline(s, q, n) /\ line = <<>>
         \/ \E p \in q .. n :
                 /\ s[p] = "nl" /\ NoNewline(s, q, p - 1)
                 /\ line \in Seq(Symbol) /\ Len(line) = p + 1 - q /\ line[1] = s[q]
                 /\ SubSeq(u, Len(line) + 1, Len(u)) = SubSeq(s, p + 1, n)
  <2>1. LET w == SubSeq(s, q, n) IN
         /\ w \in Seq(Symbol) /\ Len(w) = n + 1 - q
         /\ \/ NoNewline(s, q, n) /\ Line(w) = <<>>
            \/ \E p \in q .. n :
                 /\ s[p] = "nl" /\ NoNewline(s, q, p - 1)
                 /\ Line(w) \in Seq(Symbol) /\ Len(Line(w)) = p + 1 - q /\ Line(w)[1] = s[q]
                 /\ SubSeq(w, Len(Line(w)) + 1, Len(w)) = SubSeq(s, p + 1, n)
    BY LineFrom
  <2>2. QED
    BY <1>1, <2>1, Zenon
<1>3. Moved(rest, h, SubSeq(u, Len(line) + 1, Len(u)), h.recv_statu, h.resp_statu, h.req)
  <2> DEFINE v == SubSeq(u, Len(line) + 1, Len(u))
  <2>1. rest = [h EXCEPT !.unread = v]
    BY DEF Without
  <2> HIDE DEF v, rest
  <2>3. rest = Rec(v, h.recv_statu, h.resp_statu, h.req, h.answers, h.status)
    BY <1>1, <2>1, EditUnread, Zenon
  <2>4. QED
    BY <2>3 DEF Moved, v
<1>4. n \in Nat /\ q \in Nat /\ q >= 1 /\ q <= n + 1 /\ Len(u) \in Nat
  BY <1>1
<1>5. line \in Seq(Symbol) /\ Len(line) \in Nat
  <2>1. CASE line = <<>>
    BY <2>1
  <2>2. CASE line \in Seq(Symbol)
    <3> HIDE DEF line
    <3>1. QED
      BY <2>2
  <2>3. QED
    BY <1>2, <2>1, <2>2
<1> HIDE DEF rest, line, u
<1>6. SubSeq(u, Len(line) + 1, Len(u)) \in Seq(Symbol)
      /\ Len(SubSeq(u, Len(line) + 1, Len(u))) <= Len(u)
      /\ (Len(line) > 0 => Len(SubSeq(u, Len(line) + 1, Len(u))) < Len(u))
  <2> DEFINE m == Len(line) + 1
             k == Len(u)
             v == SubSeq(u, m, k)
  <2>1. m \in Nat /\ m >= 1 /\ k \in Nat /\ k <= Len(u)
    BY <1>4, <1>5
  <2>2. v \in Seq(Symbol) /\ Len(v) = IF m <= k THEN k - m + 1 ELSE 0
    BY <1>1, <2>1, Part
  <2>3. m = Len(line) + 1 /\ (Len(line) > 0 => Len(line) <= k)
    <3>1. CASE line = <<>>
      BY <3>1
    <3>2. CASE \E p \in q .. n : Len(line) = p + 1 - q
      BY <1>2, <1>4, <3>2
    <3>3. QED
      BY <1>2, <3>1, <3>2
  <2> HIDE DEF m, v
  <2>4. Len(v) <= k /\ (Len(line) > 0 => Len(v) < k)
    BY <1>5, <2>1, <2>2, <2>3
  <2>5. QED
    BY <2>2, <2>4 DEF v, m
<1>7. rest \in Http /\ rest.unread = SubSeq(u, Len(line) + 1, Len(u))
  <2>1. /\ h.recv_statu \in {"line", "header", "body", "over", "error"}
        /\ h.resp_statu \in {0, 200, 400, 414} /\ h.req \in Request
    BY <1>1, Fields
  <2> DEFINE v == SubSeq(u, Len(line) + 1, Len(u))
  <2>2. Moved(rest, h, v, h.recv_statu, h.resp_statu, h.req) /\ v \in Seq(Symbol)
    BY <1>3, <1>6
  <2> HIDE DEF v
  <2>3. rest \in Http /\ rest.unread = v
    BY <1>1, <2>1, <2>2, MovedFields
  <2>4. QED
    BY <2>3 DEF v
<1>8. Moved(rest, h, rest.unread, h.recv_statu, h.resp_statu, h.req)
  BY <1>3, <1>7, Zenon
<1>10. Len(rest.unread) <= Len(u) /\ (line # <<>> => Len(rest.unread) < Len(u))
  <2>1. line # <<>> => Len(line) > 0
    BY <1>5
  <2>2. QED
    BY <1>6, <1>7, <2>1
<1>11. TooLong(h, line) <=> (IF line = <<>> THEN Len(u) > 2 ELSE Len(line) > 2)
  BY DEF TooLong, MaxLength, u
<1>12. LineKind(h, s, n, q, line, rest)
  <2>1. CASE NoNewline(s, q, n) /\ line = <<>>
    <3>1. CASE n < q + 2
      <4>1. ~TooLong(h, line)
        BY <1>2, <1>4, <1>11, <2>1, <3>1
      <4>2. Late(s, n, q)
        BY <2>1, <3>1 DEF Late
      <4>3. QED
        BY <2>1, <4>1, <4>2 DEF LineKind
    <3>2. CASE n >= q + 2
      <4>1. TooLong(h, line)
        BY <1>2, <1>4, <1>11, <2>1, <3>2
      <4>2. TooLongAt(s, n, q)
        BY <1>4, <2>1, <3>2 DEF TooLongAt, NoNewline
      <4>3. QED
        BY <4>1, <4>2 DEF LineKind
    <3>3. QED
      BY <1>4, <3>1, <3>2
  <2>2. ASSUME NEW p \in q .. n,
               s[p] = "nl", NoNewline(s, q, p - 1),
               line \in Seq(Symbol), Len(line) = p + 1 - q, line[1] = s[q],
               SubSeq(u, Len(line) + 1, Len(u)) = SubSeq(s, p + 1, n)
        PROVE  LineKind(h, s, n, q, line, rest)
    <3>1. Moved(rest, h, SubSeq(s, p + 1, n), h.recv_statu, h.resp_statu, h.req) /\ p \in Nat /\ p >= q /\ p <= n
      <4>1. p \in Nat /\ p >= q /\ p <= n
        BY <1>4
      <4>2. QED
        BY <1>3, <2>2, <4>1, Zenon
    <3>2. line # <<>>
      BY <1>4, <2>2
    <3>3. CASE p = q
      <4>1. Len(line) = 1 /\ line[1] = "nl"
        BY <1>4, <2>2, <3>3
      <4>2. line = <<"nl">>
        BY <2>2, <4>1
      <4>3. ~TooLong(h, line)
        BY <1>11, <3>2, <4>1
      <4>4. QED
        BY <2>2, <3>1, <3>3, <4>2, <4>3 DEF LineKind
    <3>4. CASE p = q + 1
      <4>1. Len(line) = 2
        BY <1>4, <2>2, <3>4
      <4>2. line # <<"nl">> /\ ~TooLong(h, line)
        BY <1>11, <3>2, <4>1
      <4>3. s[q] # "nl"
        BY <1>4, <2>2, <3>4 DEF NoNewline
      <4>4. q + 1 <= n /\ s[q + 1] = "nl" /\ (q + 1) + 1 = q + 2
        BY <1>4, <2>2, <3>1, <3>4
      <4>5. Moved(rest, h, SubSeq(s, q + 2, n), h.recv_statu, h.resp_statu, h.req)
        BY <3>1, <3>4, <4>4
      <4>6. QED
        BY <2>2, <3>2, <4>2, <4>3, <4>4, <4>5 DEF LineKind
    <3>5. CASE p > q + 1
      <4>1. Len(line) > 2 /\ n >= q + 2
        <5> DEFINE l == Len(line)
        <5>1. l = p + 1 - q
          BY <2>2
        <5> HIDE DEF l
        <5>2. l > 2 /\ n >= q + 2
          BY <1>4, <3>1, <3>5, <5>1
        <5>3. QED
          BY <5>2 DEF l
      <4>2. TooLong(h, line)
        BY <1>11, <3>2, <4>1
      <4>3. NoNewline(s, q, q + 1)
        BY <1>4, <2>2, <3>1, <3>5 DEF NoNewline
      <4>4. QED
        BY <4>1, <4>2, <4>3 DEF LineKind, TooLongAt
    <3>6. QED
      BY <1>4, <3>1, <3>3, <3>4, <3>5
  <2>3. QED
    BY <1>2, <2>1, <2>2
<1>13. QED
  BY <1>7, <1>8, <1>10, <1>12 DEF line, rest, u
-----------------------------------------------------------------------------
(* One of these texts and a newline; or a line, and none of these.           *)
TextAt(s, n, q, texts) == q + 1 <= n /\ s[q] \in texts /\ s[q + 1] = "nl"

NotALine(s, n, q, texts) ==
    q <= n /\ s[q] \notin texts /\ (s[q] = "nl" \/ (q + 1 <= n /\ s[q + 1] = "nl"))

RefusedAt(g, h, s, n, q, texts) ==
    \E unread \in Seq(Symbol), statu \in {400, 414} :
        /\ Moved(g, h, unread, "error", statu, h.req)
        /\ statu = 414 => TooLongAt(s, n, q)
        /\ statu = 400 => NotALine(s, n, q, texts)
        /\ Len(unread) <= Len(h.unread)

(* What an error leaves in the context.                                    *)
LEMMA Failed ==
  ASSUME NEW h \in Http, NEW g \in Http,
         Moved(g, h, g.unread, h.recv_statu, h.resp_statu, h.req), NEW statu \in {400, 414}
  PROVE  Fail(g, statu) \in Http /\ Moved(Fail(g, statu), h, g.unread, "error", statu, h.req)
<1>1. /\ g.unread \in Seq(Symbol) /\ h.req \in Request /\ h.resp_statu \in {0, 200, 400, 414}
      /\ h.recv_statu \in {"line", "header", "body", "over", "error"}
  BY Fields
<1>2. g.req = h.req /\ g.answers = h.answers /\ g.status = h.status
  BY <1>1, MovedFields
<1> DEFINE f == [g EXCEPT !.recv_statu = "error"]
<1>3. Moved(f, g, g.unread, "error", g.resp_statu, g.req)
  <2>1. f = Rec(g.unread, "error", g.resp_statu, g.req, g.answers, g.status)
    BY EditRecv
  <2>2. QED
    BY <2>1, Zenon DEF Moved
<1>4. /\ f \in Http
      /\ f.unread = g.unread /\ f.recv_statu = "error" /\ f.resp_statu = g.resp_statu /\ f.req = g.req
      /\ f.answers = g.answers /\ f.status = g.status
  <2>1. g.req \in Request /\ g.resp_statu \in {0, 200, 400, 414}
    BY Fields
  <2> HIDE DEF f
  <2>2. QED
    BY <1>1, <1>3, <2>1, MovedFields
<1>5. Fail(g, statu) = [f EXCEPT !.resp_statu = statu]
  BY <1>3, Fields DEF Fail, Moved, Rec
<1> HIDE DEF f
<1>6. Moved(Fail(g, statu), h, g.unread, "error", statu, h.req)
  <2>1. Fail(g, statu) = Rec(f.unread, f.recv_statu, statu, f.req, f.answers, f.status)
    BY <1>4, <1>5, EditResp, Zenon
  <2>2. Fail(g, statu) = Rec(g.unread, "error", statu, h.req, h.answers, h.status)
    BY <1>2, <1>4, <2>1, Zenon
  <2>3. QED
    BY <2>2 DEF Moved
<1>7. QED
  BY <1>1, <1>6, MovedFields

(* HttpContext::RecvHttpLine waits for a line, refuses it or reads it.     *)
LEMMA RecvLine ==
  ASSUME NEW s \in Seq(Symbol), NEW n \in 0 .. Len(s), NEW q \in 1 .. n + 1,
         NEW h, Seen(h, s, n, q), h.recv_statu = "line"
  PROVE  LET g == RecvHttpLine(h)
         IN  /\ g \in Http
             /\ \/ Late(s, n, q) /\ Moved(g, h, h.unread, "line", 0, h.req)
                \/ RefusedAt(g, h, s, n, q, RequestText)
                \/ /\ TextAt(s, n, q, RequestText)
                   /\ Moved(g, h, SubSeq(s, q + 2, n), "header", h.resp_statu,
                            [h.req EXCEPT !.text = s[q]])
                   /\ Len(g.unread) < Len(h.unread)
<1> DEFINE g == RecvHttpLine(h)
           line == Line(h.unread)
           rest == Without(h, line)
           out == [rest EXCEPT !.recv_statu = "header", !.req.text = line[1]]
<1>1. /\ LineKind(h, s, n, q, line, rest)
      /\ rest \in Http
      /\ Moved(rest, h, rest.unread, h.recv_statu, h.resp_statu, h.req)
      /\ Len(rest.unread) <= Len(h.unread)
      /\ line # <<>> => Len(rest.unread) < Len(h.unread)
  BY LineKinds
<1>2. h \in Http
  BY DEF Seen
<1>3. g = IF TooLong(h, line) THEN Fail(rest, 414)
          ELSE IF line = <<>> THEN [h EXCEPT !.resp_statu = 0]
          ELSE IF line[1] \notin RequestText THEN Fail(rest, 400)
          ELSE out
  BY DEF RecvHttpLine
<1> HIDE DEF g, line, rest
<1>4. CASE Late(s, n, q) /\ line = <<>> /\ ~TooLong(h, line)
  <2>1. g = [h EXCEPT !.resp_statu = 0]
    BY <1>3, <1>4
  <2>2. Moved(g, h, h.unread, "line", 0, h.req)
    <3>1. g = Rec(h.unread, h.recv_statu, 0, h.req, h.answers, h.status)
      BY <1>2, <2>1, EditResp, Zenon
    <3>2. h.recv_statu = "line"
      OBVIOUS
    <3>3. QED
      BY <3>1, <3>2 DEF Moved
  <2>3. g \in Http
    <3>1. h.unread \in Seq(Symbol) /\ h.req \in Request
      BY <1>2, Fields
    <3>2. QED
      BY <1>2, <2>2, <3>1, MovedFields
  <2>4. QED
    BY <1>4, <2>2, <2>3 DEF g
<1>5. CASE TooLongAt(s, n, q) /\ TooLong(h, line)
  <2>1. g = Fail(rest, 414)
    BY <1>3, <1>5
  <2>2. g \in Http /\ Moved(g, h, rest.unread, "error", 414, h.req)
    BY <1>1, <1>2, <2>1, Failed
  <2>3. RefusedAt(g, h, s, n, q, RequestText)
    BY <1>1, <1>5, <2>2, Fields DEF RefusedAt
  <2>4. QED
    BY <2>2, <2>3 DEF g
<1>6. CASE ~TooLong(h, line) /\ line # <<>> /\ line[1] \notin RequestText
           /\ NotALine(s, n, q, RequestText)
  <2>1. g = Fail(rest, 400)
    BY <1>3, <1>6
  <2>2. g \in Http /\ Moved(g, h, rest.unread, "error", 400, h.req)
    BY <1>1, <1>2, <2>1, Failed
  <2>3. RefusedAt(g, h, s, n, q, RequestText)
    BY <1>1, <1>6, <2>2, Fields DEF RefusedAt
  <2>4. QED
    BY <2>2, <2>3 DEF g
<1>7. CASE ~TooLong(h, line) /\ line # <<>> /\ line[1] = s[q] /\ TextAt(s, n, q, RequestText)
           /\ Moved(rest, h, SubSeq(s, q + 2, n), h.recv_statu, h.resp_statu, h.req)
  <2>1. g = out /\ line[1] \in RequestText
    BY <1>3, <1>7 DEF TextAt
  <2> DEFINE r == [h.req EXCEPT !.text = line[1]]
             f == [rest EXCEPT !.recv_statu = "header"]
  <2>2. /\ h.req \in Request /\ h.recv_statu \in {"line", "header", "body", "over", "error"}
        /\ h.resp_statu \in {0, 200, 400, 414} /\ rest.unread \in Seq(Symbol)
    BY <1>1, <1>2, Fields
  <2>3. r \in Request
    <3> DEFINE req == h.req
               first == line[1]
    <3>1. req \in Request /\ first \in RequestText
      BY <2>1, <2>2
    <3> HIDE DEF req, first
    <3>2. [req EXCEPT !.text = first] \in Request
      BY <3>1, RequestFields
    <3>3. QED
      BY <3>2 DEF req, first
  <2>4. /\ rest.unread = SubSeq(s, q + 2, n) /\ rest.resp_statu = h.resp_statu /\ rest.req = h.req
        /\ rest.answers = h.answers /\ rest.status = h.status
    <3>1. Moved(rest, h, rest.unread, h.recv_statu, h.resp_statu, h.req)
      BY <1>1
    <3>2. /\ rest.resp_statu = h.resp_statu /\ rest.req = h.req
          /\ rest.answers = h.answers /\ rest.status = h.status
      BY <1>2, <2>2, <3>1, MovedFields
    <3> DEFINE u == SubSeq(s, q + 2, n)
    <3>3. rest = Rec(u, h.recv_statu, h.resp_statu, h.req, h.answers, h.status)
      BY <1>7 DEF Moved
    <3> HIDE DEF u
    <3>4. rest.unread = u
      BY <3>3 DEF Rec
    <3>5. QED
      BY <3>2, <3>4 DEF u
  <2>5. f = Rec(rest.unread, "header", rest.resp_statu, rest.req, rest.answers, rest.status)
    BY <1>1, EditRecv, Zenon
  <2>6. Moved(f, h, rest.unread, "header", h.resp_statu, h.req)
    BY <2>4, <2>5, Zenon DEF Moved
  <2>7. /\ f \in Http /\ f.unread = rest.unread /\ f.recv_statu = "header" /\ f.resp_statu = h.resp_statu
        /\ f.req = h.req /\ f.answers = h.answers /\ f.status = h.status
    <3> HIDE DEF f
    <3>1. QED
      BY <1>2, <2>2, <2>6, MovedFields
  <2>8. out = [f EXCEPT !.req.text = line[1]]
    BY <1>1, Fields DEF Rec
  <2> HIDE DEF out, r
  <2>9. Moved(out, h, rest.unread, "header", h.resp_statu, r)
    <3> HIDE DEF f
    <3>1. out = Rec(f.unread, f.recv_statu, f.resp_statu, [f.req EXCEPT !.text = line[1]], f.answers, f.status)
      BY <2>7, <2>8, EditText, Zenon
    <3>2. QED
      BY <2>7, <3>1, Zenon DEF Moved, r
  <2>10. out \in Http /\ out.unread = rest.unread
    BY <1>2, <2>2, <2>3, <2>9, MovedFields
  <2>11. Moved(g, h, SubSeq(s, q + 2, n), "header", h.resp_statu, [h.req EXCEPT !.text = s[q]])
    BY <1>7, <2>1, <2>4, <2>9 DEF r
  <2>12. Len(g.unread) < Len(h.unread)
    BY <1>1, <1>7, <2>1, <2>10
  <2>13. QED
    BY <1>7, <2>1, <2>10, <2>11, <2>12 DEF g
<1>8. "nl" \notin RequestText
  BY DEF RequestText
<1>9. n \in Nat /\ q \in Nat
  OBVIOUS
<1>10. QED
  <2>1. CASE q <= n /\ s[q] = "nl" /\ line = <<"nl">> /\ ~TooLong(h, line)
    <3>1. line # <<>> /\ line[1] \notin RequestText /\ NotALine(s, n, q, RequestText)
      BY <1>8, <2>1 DEF NotALine
    <3>2. QED
      BY <1>6, <2>1, <3>1
  <2>2. CASE /\ q + 1 <= n /\ s[q] # "nl" /\ s[q + 1] = "nl"
             /\ line # <<>> /\ line # <<"nl">> /\ line[1] = s[q] /\ ~TooLong(h, line)
             /\ Moved(rest, h, SubSeq(s, q + 2, n), h.recv_statu, h.resp_statu, h.req)
    <3>1. CASE s[q] \in RequestText
      BY <1>7, <2>2, <3>1 DEF TextAt
    <3>2. CASE s[q] \notin RequestText
      <4>1. q <= n
        BY <1>9, <2>2
      <4>2. NotALine(s, n, q, RequestText)
        BY <2>2, <3>2, <4>1 DEF NotALine
      <4>3. QED
        BY <1>6, <2>2, <3>2, <4>2
    <3>3. QED
      BY <3>1, <3>2
  <2>3. QED
    BY <1>1, <1>4, <1>5, <2>1, <2>2 DEF LineKind
-----------------------------------------------------------------------------
(* The request with one more header.                                         *)
WithHeader(req, header) ==
    IF header \in DOMAIN Length /\ req.length = 0
    THEN [req EXCEPT !.length = Length[header]]
    ELSE IF header \in DOMAIN Option /\ req.connection = ""
    THEN [req EXCEPT !.connection = Option[header]]
    ELSE req

(* The lengths that a header may say.                                      *)
LEMMA Lengths ==
  \A x \in DOMAIN Length : Length[x] \in Nat /\ Length[x] > 0
<1>1. SizeMax \in Nat /\ SizeMax > 2 /\ NotANumber = SizeMax + 1
  BY SizeAssumption DEF NotANumber
<1>2. DOMAIN Length = {"len1", "len2", "minus", "word"}
  BY DEF Length
<1>3. /\ Length["len1"] = 1 /\ Length["len2"] = 2
      /\ Length["minus"] = SizeMax /\ Length["word"] = NotANumber
  BY DEF Length
<1>4. QED
  BY <1>1, <1>2, <1>3

(* A header changes a request into a request.                              *)
LEMMA WithHeaderType ==
  ASSUME NEW req \in Request, NEW header
  PROVE  WithHeader(req, header) \in Request
<1>1. ASSUME header \in DOMAIN Length
      PROVE  Length[header] \in Nat
  BY <1>1, Lengths
<1>2. ASSUME header \in DOMAIN Option
      PROVE  Option[header] \in {"keep-alive", "close"}
  BY <1>2 DEF Option
<1>3. /\ \A l \in Nat : [req EXCEPT !.length = l] \in Request
      /\ \A o \in {"keep-alive", "close"} : [req EXCEPT !.connection = o] \in Request
  BY RequestFields
<1>4. QED
  BY <1>1, <1>2, <1>3, Zenon DEF WithHeader

(* HttpRequest::SetHeader changes the request and nothing else.            *)
LEMMA SetHeaderIs ==
  ASSUME NEW h \in Http, NEW header
  PROVE  LET g == SetHeader(h, header)
         IN  /\ g \in Http
             /\ g.unread = h.unread /\ g.recv_statu = h.recv_statu /\ g.resp_statu = h.resp_statu
             /\ g.req = WithHeader(h.req, header)
             /\ g.answers = h.answers /\ g.status = h.status
<1> DEFINE g == SetHeader(h, header)
           req == WithHeader(h.req, header)
<1>1. Moved(g, h, h.unread, h.recv_statu, h.resp_statu, req)
  <2>1. h = Rec(h.unread, h.recv_statu, h.resp_statu, h.req, h.answers, h.status)
    BY Fields
  <2>2. CASE header \in DOMAIN Length /\ h.req.length = 0
    <3>1. g = [h EXCEPT !.req.length = Length[header]]
      BY <2>2 DEF SetHeader
    <3>2. g = Rec(h.unread, h.recv_statu, h.resp_statu, [h.req EXCEPT !.length = Length[header]],
                  h.answers, h.status)
      BY <3>1, EditLength, Zenon
    <3>3. req = [h.req EXCEPT !.length = Length[header]]
      BY <2>2 DEF WithHeader
    <3>4. QED
      BY <3>2, <3>3, Zenon DEF Moved
  <2>3. CASE ~(header \in DOMAIN Length /\ h.req.length = 0)
             /\ header \in DOMAIN Option /\ h.req.connection = ""
    <3>1. g = [h EXCEPT !.req.connection = Option[header]]
      BY <2>3 DEF SetHeader
    <3>2. g = Rec(h.unread, h.recv_statu, h.resp_statu, [h.req EXCEPT !.connection = Option[header]],
                  h.answers, h.status)
      BY <3>1, EditConnection, Zenon
    <3>3. req = [h.req EXCEPT !.connection = Option[header]]
      BY <2>3 DEF WithHeader
    <3>4. QED
      BY <3>2, <3>3, Zenon DEF Moved
  <2>4. CASE ~(header \in DOMAIN Length /\ h.req.length = 0)
             /\ ~(header \in DOMAIN Option /\ h.req.connection = "")
    <3>1. g = h /\ req = h.req
      BY <2>4 DEF SetHeader, WithHeader
    <3> HIDE DEF g, req
    <3>2. QED
      BY <2>1, <3>1, Zenon DEF Moved
  <2>5. QED
    BY <2>2, <2>3, <2>4
<1>2. req \in Request
  BY Fields, WithHeaderType
<1>3. /\ h.unread \in Seq(Symbol) /\ h.recv_statu \in {"line", "header", "body", "over", "error"}
      /\ h.resp_statu \in {0, 200, 400, 414}
  BY Fields
<1> HIDE DEF g, req
<1>4. /\ g \in Http
      /\ g.unread = h.unread /\ g.recv_statu = h.recv_statu /\ g.resp_statu = h.resp_statu
      /\ g.req = req
      /\ g.answers = h.answers /\ g.status = h.status
  BY <1>1, <1>2, <1>3, MovedFields
<1>5. QED
  BY <1>4, Zenon DEF g, req

(* A round of RecvHttpHead, without the next one.                            *)
HeadRound(g, next) ==
    LET line == Line(g.unread)
        rest == Without(g, line)
    IN  IF g.recv_statu # "header" THEN g
        ELSE IF TooLong(g, line) THEN Fail(rest, 414)
        ELSE IF line = <<>> THEN g
        ELSE IF line = <<"nl">> THEN [rest EXCEPT !.recv_statu = "body"]
        ELSE IF line[1] \notin HeaderText THEN Fail(rest, 400)
        ELSE next

Following(g) == SetHeader(Without(g, Line(g.unread)), Line(g.unread)[1])

(* A round of the loop over headers depends on the rounds that follow only *)
(* if it reads a line.                                                     *)
LEMMA Rounds ==
  ASSUME NEW g \in Http, NEW next
  PROVE  /\ next \in Http => HeadRound(g, next) \in Http
         /\ \/ /\ Following(g) \in Http /\ Len(Following(g).unread) < Len(g.unread)
               /\ HeadRound(g, next) = next
            \/ \A other : HeadRound(g, next) = HeadRound(g, other)
<1> DEFINE s == g.unread
           line == Line(s)
           rest == Without(g, line)
<1>1. s \in Seq(Symbol) /\ Len(s) \in 0 .. Len(s) /\ 1 \in 1 .. Len(s) + 1
  <2>1. s \in Seq(Symbol)
    BY Fields
  <2> HIDE DEF s
  <2>2. QED
    BY <2>1
<1>2. Seen(g, s, Len(s), 1)
  <2>1. \A t \in Seq(Symbol) : SubSeq(t, 1, Len(t)) = t
    OBVIOUS
  <2>2. QED
    BY <1>1, <2>1, Zenon DEF Seen
<1>3. /\ rest \in Http
      /\ Moved(rest, g, rest.unread, g.recv_statu, g.resp_statu, g.req)
      /\ Len(rest.unread) <= Len(g.unread)
      /\ line # <<>> => Len(rest.unread) < Len(g.unread)
  BY <1>1, <1>2, LineKinds
<1>4. Fail(rest, 414) \in Http /\ Fail(rest, 400) \in Http
  BY <1>3, Failed
<1>5. [rest EXCEPT !.recv_statu = "body"] \in Http
  <2>1. [rest EXCEPT !.recv_statu = "body"]
          = Rec(rest.unread, "body", rest.resp_statu, rest.req, rest.answers, rest.status)
    BY <1>3, EditRecv
  <2>2. /\ rest.unread \in Seq(Symbol) /\ rest.resp_statu \in {0, 200, 400, 414}
        /\ rest.req \in Request /\ rest.answers \in Seq(Answer)
        /\ rest.status \in {"connected", "disconnecting", "disconnected"}
    BY <1>3, Fields
  <2> HIDE DEF rest
  <2>3. QED
    BY <2>1, <2>2, RecType
<1>6. Following(g) \in Http /\ Following(g).unread = rest.unread
  <2> HIDE DEF rest, line
  <2> DEFINE first == line[1]
  <2> HIDE DEF first
  <2>1. SetHeader(rest, first) \in Http /\ SetHeader(rest, first).unread = rest.unread
    BY <1>3, SetHeaderIs
  <2>2. QED
    BY <2>1, Zenon DEF Following, rest, line, first
<1>7. next \in Http => HeadRound(g, next) \in Http
  BY <1>4, <1>5 DEF HeadRound
<1>8. CASE line # <<>> /\ g.recv_statu = "header" /\ ~TooLong(g, line) /\ line # <<"nl">> /\ line[1] \in HeaderText
  <2>1. HeadRound(g, next) = next
    BY <1>8 DEF HeadRound
  <2> HIDE DEF rest, line, s
  <2>2. Len(Following(g).unread) < Len(g.unread)
    BY <1>3, <1>6, <1>8 DEF s
  <2>3. QED
    BY <1>6, <1>7, <2>1, <2>2
<1>9. CASE ~(line # <<>> /\ g.recv_statu = "header" /\ ~TooLong(g, line) /\ line # <<"nl">> /\ line[1] \in HeaderText)
  <2>1. ASSUME NEW other
        PROVE  HeadRound(g, next) = HeadRound(g, other)
    BY <1>9, Zenon DEF HeadRound
  <2>2. QED
    BY <1>7, <2>1
<1>10. QED
  BY <1>8, <1>9

(* The rounds of RecvHttpHead, to the last.                                  *)
LEMMA HeadRounds ==
  /\ \A g \in Http : RecvHttpHead(g) \in Http
  /\ \A g \in Http : RecvHttpHead(g) = HeadRound(g, RecvHttpHead(Following(g)))
<1> DEFINE D == Http
           size == [g \in D |-> Len(g.unread)]
           body == [f \in [D -> D] |-> [g \in D |-> HeadRound(g, f[Following(g)])]]
<1>1. size \in [D -> Nat]
  <2>1. ASSUME NEW g \in D
        PROVE  Len(g.unread) \in Nat
    <3> DEFINE u == g.unread
    <3>1. u \in Seq(Symbol)
      BY Fields
    <3> HIDE DEF u
    <3>2. Len(u) \in Nat
      BY <3>1
    <3>3. QED
      BY <3>2 DEF u
  <2>2. QED
    BY <2>1
<1>2. D # {}
  <2>1. Fresh \in D
    BY DEF Fresh, Http, NoRequest, Request
  <2>2. QED
    BY <2>1
<1> HIDE DEF D
<1>3. ASSUME NEW f \in [D -> D], NEW g \in D
      PROVE  HeadRound(g, f[Following(g)]) \in D
  <2> DEFINE next == f[Following(g)]
  <2>1. /\ next \in Http => HeadRound(g, next) \in Http
        /\ \/ /\ Following(g) \in Http /\ HeadRound(g, next) = next
           \/ \A other : HeadRound(g, next) = HeadRound(g, other)
    BY Rounds DEF D
  <2>2. CASE Following(g) \in Http
    BY <2>1, <2>2 DEF D
  <2>3. CASE \A other : HeadRound(g, next) = HeadRound(g, other)
    <3> HIDE DEF next
    <3>1. HeadRound(g, next) = HeadRound(g, g)
      BY <2>3
    <3>2. HeadRound(g, g) \in Http
      BY Rounds DEF D
    <3>3. QED
      BY <3>1, <3>2 DEF D, next
  <2>4. QED
    BY <2>1, <2>2, <2>3
<1>4. ASSUME NEW e \in [D -> D], NEW f \in [D -> D], NEW g \in D,
             \A h \in D : size[h] < size[g] => e[h] = f[h]
      PROVE  HeadRound(g, e[Following(g)]) = HeadRound(g, f[Following(g)])
  <2> DEFINE next == e[Following(g)]
             other == f[Following(g)]
  <2>1. \/ Following(g) \in Http /\ Len(Following(g).unread) < Len(g.unread)
        \/ \A o : HeadRound(g, next) = HeadRound(g, o)
    BY Rounds DEF D
  <2>2. CASE Following(g) \in Http /\ Len(Following(g).unread) < Len(g.unread)
    <3>1. Following(g) \in D /\ size[Following(g)] < size[g]
      BY <2>2 DEF D
    <3>2. next = other
      BY <1>4, <3>1
    <3>3. QED
      BY <3>2
  <2>3. CASE \A o : HeadRound(g, next) = HeadRound(g, o)
    BY <2>3
  <2>4. QED
    BY <2>1, <2>2, <2>3
<1>5. Descends(D, D, size, body)
  <2>1. body \in [[D -> D] -> [D -> D]]
    BY <1>3
  <2>2. \A e, f \in [D -> D] : \A g \in D :
          (\A h \in D : size[h] < size[g] => e[h] = f[h]) => body[e][g] = body[f][g]
    <3> HIDE DEF size
    <3>1. QED
      BY <1>4
  <2>3. QED
    BY <1>1, <1>2, <2>1, <2>2 DEF Descends
<1>6. PICK f : Solves(f, D, D, body)
  <2> HIDE DEF size, body
  <2>1. QED
    BY <1>5, Recursion
<1>7. f = [g \in D |-> HeadRound(g, f[Following(g)])]
  BY <1>6 DEF Solves
<1> DEFINE after[g \in D] == HeadRound(g, after[Following(g)])
<1>8. after = [g \in D |-> HeadRound(g, after[Following(g)])]
  BY <1>7
<1>9. ASSUME NEW h
      PROVE  RecvHttpHead(h) = after[h]
  BY Zenon DEF RecvHttpHead, HeadRound, Following, D
<1> HIDE DEF after
<1>10. after \in [D -> D]
  <2> DEFINE X == {g \in D : after[g] \in D}
  <2>1. ASSUME NEW g \in D, \A h \in D : size[h] < size[g] => h \in X
        PROVE  g \in X
    <3> DEFINE next == after[Following(g)]
    <3>1. after[g] = HeadRound(g, next)
      BY <1>8
    <3>2. /\ next \in Http => HeadRound(g, next) \in Http
          /\ \/ Following(g) \in Http /\ Len(Following(g).unread) < Len(g.unread)
             \/ \A other : HeadRound(g, next) = HeadRound(g, other)
      BY Rounds DEF D
    <3>3. CASE Following(g) \in Http /\ Len(Following(g).unread) < Len(g.unread)
      <4>1. Following(g) \in D /\ size[Following(g)] < size[g]
        BY <3>3 DEF D
      <4>2. next \in D
        BY <2>1, <4>1
      <4>3. QED
        BY <3>1, <3>2, <4>2 DEF D
    <3>4. CASE \A other : HeadRound(g, next) = HeadRound(g, other)
      <4> HIDE DEF next
      <4>1. HeadRound(g, next) = HeadRound(g, g)
        BY <3>4
      <4>2. HeadRound(g, g) \in Http
        BY Rounds DEF D
      <4>3. QED
        BY <3>1, <4>1, <4>2 DEF D
    <3>5. QED
      BY <3>2, <3>3, <3>4
  <2>2. \A g \in D : g \in X
    <3> HIDE DEF X, size
    <3>1. QED
      BY <1>1, <2>1, SizesBySteps
  <2>3. QED
    BY <1>8, <2>2
<1>11. ASSUME NEW g \in Http
       PROVE  /\ RecvHttpHead(g) \in Http
              /\ RecvHttpHead(g) = HeadRound(g, RecvHttpHead(Following(g)))
  <2>1. g \in D
    BY DEF D
  <2>2. after[g] = HeadRound(g, after[Following(g)]) /\ after[g] \in D
    BY <1>8, <1>10, <2>1
  <2>3. QED
    BY <1>9, <2>2, Zenon DEF D
<1>12. QED
  BY <1>11
-----------------------------------------------------------------------------
(* The lines of a head, one after the other.                                 *)
LEMMA FirstLine ==
  ASSUME NEW s, NEW n \in Nat, NEW i \in Nat
  PROVE  /\ WellFormed(s, i, i)
         /\ TextAt(s, n, i, RequestText) => WellFormed(s, i, i + 2)
<1>1. WellFormed(s, i, i)
  BY DEF WellFormed
<1>2. ASSUME TextAt(s, n, i, RequestText)
      PROVE  WellFormed(s, i, i + 2)
  <2>1. s[i] \in RequestText /\ s[i + 1] = "nl"
    BY <1>2 DEF TextAt
  <2>2. ((i + 2) - i) % 2 = 0
    OBVIOUS
  <2>3. ASSUME NEW p \in i .. (i + 2) - 1
        PROVE  s[p] \in IF (p - i) % 2 = 1 THEN {"nl"} ELSE IF p = i THEN RequestText ELSE HeaderText
    <3>1. CASE p = i
      <4>1. (p - i) % 2 = 0
        BY <3>1
      <4>2. QED
        BY <2>1, <3>1, <4>1
    <3>2. CASE p = i + 1
      <4>1. (p - i) % 2 = 1
        BY <3>2
      <4>2. QED
        BY <2>1, <3>2, <4>1
    <3>3. QED
      BY <3>1, <3>2
  <2>4. QED
    BY <2>2, <2>3 DEF WellFormed
<1>3. QED
  BY <1>1, <1>2

(* After a well-formed header comes the next line.                         *)
LEMMA NextLine ==
  ASSUME NEW s, NEW n \in Nat, NEW i \in Nat, NEW q \in Nat, q > i, WellFormed(s, i, q),
         TextAt(s, n, q, HeaderText)
  PROVE  WellFormed(s, i, q + 2) /\ q >= i + 2
<1>1. s[q] \in HeaderText /\ s[q + 1] = "nl"
  BY DEF TextAt
<1>2. /\ (q - i) % 2 = 0
      /\ \A p \in i .. q - 1 : s[p] \in IF (p - i) % 2 = 1 THEN {"nl"}
                                        ELSE IF p = i THEN RequestText ELSE HeaderText
  BY DEF WellFormed
<1>3. ((q + 2) - i) % 2 = 0 /\ q >= i + 2 /\ ((q + 1) - i) % 2 = 1
  BY <1>2
<1>4. ASSUME NEW p \in i .. (q + 2) - 1
      PROVE  s[p] \in IF (p - i) % 2 = 1 THEN {"nl"} ELSE IF p = i THEN RequestText ELSE HeaderText
  <2>1. CASE p \in i .. q - 1
    BY <1>2, <2>1
  <2>2. CASE p = q
    <3>1. (p - i) % 2 # 1 /\ p # i
      BY <1>2, <2>2
    <3>2. QED
      BY <1>1, <2>2, <3>1
  <2>3. CASE p = q + 1
    <3>1. (p - i) % 2 = 1
      BY <1>3, <2>3
    <3>2. QED
      BY <1>1, <2>3, <3>1
  <2>4. QED
    BY <2>1, <2>2, <2>3
<1>5. QED
  BY <1>3, <1>4 DEF WellFormed

(* A head ends where no right line follows.                                  *)
LEMMA HeadEndIs ==
  ASSUME NEW s, NEW n \in Nat, NEW i \in Nat, NEW q \in i .. n + 1, WellFormed(s, i, q),
         ~TextAt(s, n, q, IF q = i THEN RequestText ELSE HeaderText)
  PROVE  HeadEnd(s, n, i) = q
<1>1. (q - i) % 2 = 0
  BY DEF WellFormed
<1>2. ASSUME NEW m \in q + 1 .. n + 1, WellFormed(s, i, m)
      PROVE  FALSE
  <2>1. (m - i) % 2 = 0
    BY <1>2 DEF WellFormed
  <2>2. m >= q + 2
    BY <1>1, <2>1
  <2>3. q \in i .. m - 1 /\ q + 1 \in i .. m - 1 /\ q + 1 <= n
    BY <2>2
  <2>4. (q - i) % 2 # 1 /\ ((q + 1) - i) % 2 = 1
    BY <1>1
  <2>5. s[q + 1] = "nl" /\ s[q] \in (IF q = i THEN RequestText ELSE HeaderText)
    BY <1>2, <2>3, <2>4 DEF WellFormed
  <2>6. QED
    BY <2>3, <2>5 DEF TextAt
<1>3. ASSUME NEW j \in i .. n + 1, WellFormed(s, i, j), \A m \in j + 1 .. n + 1 : ~WellFormed(s, i, m)
      PROVE  j = q
  <2>1. ~(j > q)
    BY <1>2, <1>3
  <2>2. ~(q > j)
    BY <1>3
  <2>3. QED
    BY <2>1, <2>2
<1>4. \E j \in i .. n + 1 : WellFormed(s, i, j) /\ \A m \in j + 1 .. n + 1 : ~WellFormed(s, i, m)
  BY <1>2
<1>5. QED
  BY <1>3, <1>4 DEF HeadEnd

(* FirstOf takes the least of the places.                                  *)
LEMMA FirstIs ==
  ASSUME NEW s, NEW P \in SUBSET Nat, NEW x \in P, \A y \in P : x <= y
  PROVE  FirstOf(s, P) = s[x]
<1>1. \A y \in P : (\A z \in P : y <= z) => y = x
  <2>1. \A y, z \in Nat : y <= z /\ z <= y => y = z
    OBVIOUS
  <2>2. QED
    BY <2>1
<1>2. QED
  BY <1>1 DEF FirstOf

(* One more line, one more place.                                            *)
LEMMA FoundMore ==
  ASSUME NEW s, NEW i \in Nat, NEW q \in Nat, q >= i, NEW texts, s[q + 1] \notin texts
  PROVE  /\ Found(s, i, q, texts) \in SUBSET Nat
         /\ s[q] \notin texts => Found(s, i, q + 2, texts) = Found(s, i, q, texts)
         /\ s[q] \in texts => /\ Found(s, i, q + 2, texts) # {}
                              /\ FirstOf(s, Found(s, i, q + 2, texts))
                                   = IF Found(s, i, q, texts) = {} THEN s[q]
                                     ELSE FirstOf(s, Found(s, i, q, texts))
<1> DEFINE P == Found(s, i, q, texts)
           Q == Found(s, i, q + 2, texts)
<1>1. P \in SUBSET Nat /\ Q \in SUBSET Nat /\ \A p \in P : p < q
  BY DEF Found
<1>2. Q = P \cup {p \in {q} : s[p] \in texts}
  <2>1. \A p \in i .. (q + 2) - 1 : p \in i .. q - 1 \/ p = q \/ p = q + 1
    OBVIOUS
  <2>2. q \in i .. (q + 2) - 1 /\ \A p \in i .. q - 1 : p \in i .. (q + 2) - 1
    OBVIOUS
  <2>3. QED
    BY <2>1, <2>2, Zenon DEF Found
<1> HIDE DEF P, Q
<1>3. ASSUME s[q] \notin texts
      PROVE  Q = P
  BY <1>2, <1>3
<1>4. ASSUME s[q] \in texts
      PROVE  Q # {} /\ FirstOf(s, Q) = IF P = {} THEN s[q] ELSE FirstOf(s, P)
  <2>1. Q = P \cup {q}
    BY <1>2, <1>4
  <2>2. CASE P = {}
    <3>1. FirstOf(s, Q) = s[q]
      BY <1>1, <2>1, <2>2, FirstIs
    <3>2. QED
      BY <2>1, <2>2, <3>1
  <2>3. CASE P # {}
    <3>1. PICK x \in P : \A y \in P : x <= y
      BY <1>1, <2>3, LeastNumber
    <3>2. x \in Q /\ \A y \in Q : x <= y
      BY <1>1, <2>1, <3>1
    <3>3. FirstOf(s, P) = s[x] /\ FirstOf(s, Q) = s[x]
      BY <1>1, <3>1, <3>2, FirstIs
    <3>4. QED
      BY <2>1, <2>3, <3>3
  <2>4. QED
    BY <2>2, <2>3
<1>5. QED
  BY <1>1, <1>3, <1>4 DEF P, Q

(* The request of a head, line by line.                                      *)
LEMMA RequestStart ==
  ASSUME NEW s, NEW n \in Nat, NEW i \in Nat
  PROVE  /\ RequestOf(s, i, i) = NoRequest
         /\ TextAt(s, n, i, RequestText) => RequestOf(s, i, i + 2) = [NoRequest EXCEPT !.text = s[i]]
<1>1. \A texts : Found(s, i, i, texts) = {}
  BY DEF Found
<1>2. RequestOf(s, i, i) = NoRequest
  BY <1>1 DEF RequestOf, NoRequest
<1>3. ASSUME TextAt(s, n, i, RequestText)
      PROVE  RequestOf(s, i, i + 2) = [NoRequest EXCEPT !.text = s[i]]
  <2>1. s[i] \in RequestText /\ s[i + 1] = "nl" /\ i # i + 2
    BY <1>3 DEF TextAt
  <2>2. /\ s[i] \notin DOMAIN Length /\ s[i + 1] \notin DOMAIN Length
        /\ s[i] \notin DOMAIN Option /\ s[i + 1] \notin DOMAIN Option
    BY <2>1 DEF RequestText, Length, Option
  <2>3. Found(s, i, i + 2, DOMAIN Length) = {} /\ Found(s, i, i + 2, DOMAIN Option) = {}
    BY <1>1, <2>2, FoundMore
  <2>4. RequestOf(s, i, i + 2) = [text |-> s[i], length |-> 0, connection |-> "", body |-> <<>>]
    BY <2>1, <2>3, Zenon DEF RequestOf
  <2> DEFINE b == <<>>
             x == s[i]
             e == ""
  <2>5. /\ RequestOf(s, i, i + 2) = [text |-> x, length |-> 0, connection |-> e, body |-> b]
        /\ NoRequest = [text |-> e, length |-> 0, connection |-> e, body |-> b]
    BY <2>4 DEF NoRequest
  <2> HIDE DEF b, x, e
  <2>6. RequestOf(s, i, i + 2) = [NoRequest EXCEPT !.text = x]
    BY <2>5
  <2>7. QED
    BY <2>6 DEF x
<1>4. QED
  BY <1>2, <1>3

(* A Connection header says keep-alive or close.                           *)
LEMMA Options == \A x \in DOMAIN Option : Option[x] \in {"keep-alive", "close"}
<1>1. DOMAIN Option = {"keep", "close"}
  BY DEF Option
<1>2. Option["keep"] = "keep-alive" /\ Option["close"] = "close"
  BY DEF Option
<1>3. QED
  BY <1>1, <1>2

(* What the lines of a request say is a request without a body yet.        *)
LEMMA RequestType ==
  ASSUME NEW s, NEW i \in Nat, NEW q \in Nat, i = q \/ s[i] \in RequestText
  PROVE  RequestOf(s, i, q) \in Request /\ RequestOf(s, i, q).body = <<>>
<1> DEFINE sizes == Found(s, i, q, DOMAIN Length)
           options == Found(s, i, q, DOMAIN Option)
<1>1. ASSUME NEW texts, Found(s, i, q, texts) # {}
      PROVE  FirstOf(s, Found(s, i, q, texts)) \in texts
  <2>1. Found(s, i, q, texts) \in SUBSET Nat
    BY DEF Found
  <2>2. PICK x \in Found(s, i, q, texts) : \A y \in Found(s, i, q, texts) : x <= y
    BY <1>1, <2>1, LeastNumber
  <2>3. FirstOf(s, Found(s, i, q, texts)) = s[x]
    BY <2>1, <2>2, FirstIs
  <2>4. s[x] \in texts
    BY <2>2 DEF Found
  <2>5. QED
    BY <2>3, <2>4
<1> DEFINE l == IF sizes = {} THEN 0 ELSE Length[FirstOf(s, sizes)]
           o == IF options = {} THEN "" ELSE Option[FirstOf(s, options)]
           t == IF i = q THEN "" ELSE s[i]
<1>2. l \in Nat
  <2>1. sizes # {} => FirstOf(s, sizes) \in DOMAIN Length
    BY <1>1
  <2> HIDE DEF sizes
  <2>2. QED
    BY <2>1, Lengths
<1>3. o \in {"", "keep-alive", "close"}
  <2>1. \A x \in DOMAIN Option : Option[x] \in {"", "keep-alive", "close"}
    BY Options
  <2>2. options # {} => FirstOf(s, options) \in DOMAIN Option
    BY <1>1
  <2> HIDE DEF options
  <2>3. QED
    BY <2>1, <2>2
<1>4. t \in {""} \cup RequestText
  OBVIOUS
<1>5. RequestOf(s, i, q) = [text |-> t, length |-> l, connection |-> o, body |-> <<>>]
  BY DEF RequestOf
<1> HIDE DEF l, o, t
<1> DEFINE b == <<>>
<1>6. b \in Seq(Symbol) /\ RequestOf(s, i, q) = [text |-> t, length |-> l, connection |-> o, body |-> b]
  BY <1>5
<1> HIDE DEF b
<1>7. RequestOf(s, i, q) \in Request /\ RequestOf(s, i, q).body = b
  <2> DEFINE B == Seq(Symbol)
             T == {""} \cup RequestText
             C == {"", "keep-alive", "close"}
             r == RequestOf(s, i, q)
  <2>1. b \in B /\ t \in T /\ o \in C /\ Request = [text : T, length : Nat, connection : C, body : B]
    BY <1>3, <1>4, <1>6 DEF Request
  <2>2. r = [text |-> t, length |-> l, connection |-> o, body |-> b]
    BY <1>6
  <2> HIDE DEF B, T, C, r
  <2>3. r \in Request /\ r.body = b
    BY <1>2, <2>1, <2>2
  <2>4. QED
    BY <2>3 DEF r
<1>8. QED
  BY <1>7 DEF b

(* One more header line is one more header set.                            *)
LEMMA RequestMore ==
  ASSUME NEW s, NEW n \in Nat, NEW i \in Nat, NEW q \in Nat, q > i, TextAt(s, n, q, HeaderText)
  PROVE  RequestOf(s, i, q + 2) = WithHeader(RequestOf(s, i, q), s[q])
<1> DEFINE sizes == Found(s, i, q, DOMAIN Length)
           options == Found(s, i, q, DOMAIN Option)
           sizes2 == Found(s, i, q + 2, DOMAIN Length)
           options2 == Found(s, i, q + 2, DOMAIN Option)
           l == IF sizes = {} THEN 0 ELSE Length[FirstOf(s, sizes)]
           o == IF options = {} THEN "" ELSE Option[FirstOf(s, options)]
           l2 == IF sizes2 = {} THEN 0 ELSE Length[FirstOf(s, sizes2)]
           o2 == IF options2 = {} THEN "" ELSE Option[FirstOf(s, options2)]
           h == s[q]
<1>1. h \in HeaderText /\ s[q + 1] = "nl" /\ i # q /\ i # q + 2 /\ q >= i
  BY DEF TextAt
<1>2. s[q + 1] \notin DOMAIN Length /\ s[q + 1] \notin DOMAIN Option
  BY <1>1 DEF Length, Option
<1>3. RequestOf(s, i, q) = [text |-> s[i], length |-> l, connection |-> o, body |-> <<>>]
  BY <1>1, Zenon DEF RequestOf
<1>4. RequestOf(s, i, q + 2) = [text |-> s[i], length |-> l2, connection |-> o2, body |-> <<>>]
  BY <1>1, Zenon DEF RequestOf
<1>5. /\ h \notin DOMAIN Length => sizes2 = sizes
      /\ h \in DOMAIN Length => /\ sizes2 # {}
                                /\ FirstOf(s, sizes2) = IF sizes = {} THEN h ELSE FirstOf(s, sizes)
  BY <1>1, <1>2, FoundMore
<1>6. /\ h \notin DOMAIN Option => options2 = options
      /\ h \in DOMAIN Option => /\ options2 # {}
                                /\ FirstOf(s, options2) = IF options = {} THEN h ELSE FirstOf(s, options)
  BY <1>1, <1>2, FoundMore
<1>7. ASSUME sizes # {} PROVE FirstOf(s, sizes) \in DOMAIN Length
  <2>1. sizes \in SUBSET Nat
    BY DEF Found
  <2>2. PICK x \in sizes : \A y \in sizes : x <= y
    BY <1>7, <2>1, LeastNumber
  <2>3. FirstOf(s, sizes) = s[x]
    BY <2>1, <2>2, FirstIs
  <2>4. QED
    BY <2>2, <2>3 DEF Found
<1>8. ASSUME options # {} PROVE FirstOf(s, options) \in DOMAIN Option
  <2>1. options \in SUBSET Nat
    BY DEF Found
  <2>2. PICK x \in options : \A y \in options : x <= y
    BY <1>8, <2>1, LeastNumber
  <2>3. FirstOf(s, options) = s[x]
    BY <2>1, <2>2, FirstIs
  <2>4. QED
    BY <2>2, <2>3 DEF Found
<1> HIDE DEF sizes, options, sizes2, options2, h
<1>9. /\ l = 0 <=> sizes = {}
      /\ h \in DOMAIN Length /\ l = 0 => l2 = Length[h]
      /\ ~(h \in DOMAIN Length /\ l = 0) => l2 = l
  BY <1>5, <1>7, Lengths
<1>10. /\ o = "" <=> options = {}
       /\ h \in DOMAIN Option /\ o = "" => o2 = Option[h]
       /\ ~(h \in DOMAIN Option /\ o = "") => o2 = o
  <2>1. \A x \in DOMAIN Option : Option[x] # ""
    BY Options
  <2>2. options # {} => Option[FirstOf(s, options)] # ""
    BY <1>8, <2>1
  <2> HIDE DEF Option
  <2>3. QED
    BY <1>6, <2>2
<1>11. ~(h \in DOMAIN Length /\ h \in DOMAIN Option)
  BY DEF Length, Option
<1> HIDE DEF l, o, l2, o2
<1> DEFINE a == [text |-> s[i], length |-> l, connection |-> o, body |-> <<>>]
           b == [text |-> s[i], length |-> l2, connection |-> o2, body |-> <<>>]
<1>12. b = WithHeader(a, h)
  <2>1. CASE h \in DOMAIN Length /\ l = 0
    <3>1. WithHeader(a, h) = [a EXCEPT !.length = Length[h]]
      BY <2>1 DEF WithHeader
    <3>2. l2 = Length[h] /\ o2 = o
      BY <1>9, <1>10, <1>11, <2>1
    <3>3. QED
      BY <3>1, <3>2
  <2>2. CASE ~(h \in DOMAIN Length /\ l = 0) /\ h \in DOMAIN Option /\ o = ""
    <3>1. WithHeader(a, h) = [a EXCEPT !.connection = Option[h]]
      BY <2>2 DEF WithHeader
    <3>2. l2 = l /\ o2 = Option[h]
      BY <1>9, <1>10, <2>2
    <3>3. QED
      BY <3>1, <3>2
  <2>3. CASE ~(h \in DOMAIN Length /\ l = 0) /\ ~(h \in DOMAIN Option /\ o = "")
    <3>1. WithHeader(a, h) = a
      BY <2>3 DEF WithHeader
    <3>2. l2 = l /\ o2 = o
      BY <1>9, <1>10, <2>3
    <3>3. QED
      BY <3>1, <3>2
  <2>4. QED
    BY <2>1, <2>2, <2>3
<1>13. QED
  BY <1>3, <1>4, <1>12 DEF h
-----------------------------------------------------------------------------
(* The lines of the head that begins at i are right up to q, and no more.    *)
HeadFrom(s, n, i, q) == q \in i .. n + 1 /\ WellFormed(s, i, q)

BadAt(s, n, i, q) ==
    /\ q <= n
    /\ \/ q = i /\ s[q] \notin RequestText /\ (s[q] = "nl" \/ (q + 1 <= n /\ s[q + 1] = "nl"))
       \/ q > i /\ s[q] \notin HeaderText /\ s[q] # "nl" /\ q + 1 <= n /\ s[q + 1] = "nl"

(* The head is an error from q on.                                           *)
Errs(g, h, s, n, i, q) ==
    \E unread \in Seq(Symbol), statu \in {400, 414} :
        /\ Moved(g, h, unread, "error", statu, RequestOf(s, i, q))
        /\ statu = 414 => TooLongAt(s, n, q)
        /\ statu = 400 => BadAt(s, n, i, q)

(* A context in the middle of the head that begins at i.                     *)
InHead(h, s, n, i, q) ==
    /\ Seen(h, s, n, q)
    /\ h.recv_statu = "header"
    /\ HeadFrom(s, n, i, q) /\ q > i
    /\ s[i] \in RequestText
    /\ h.req = RequestOf(s, i, q)

(* What RecvHttpHead makes of it.                                            *)
HeadIsAt(g, h, s, n, i, q) ==
    /\ HeadFrom(s, n, i, q) /\ q > i
    /\ \/ Errs(g, h, s, n, i, q)
       \/ /\ Late(s, n, q)
          /\ Moved(g, h, SubSeq(s, q, n), "header", h.resp_statu, RequestOf(s, i, q))
       \/ /\ q <= n /\ s[q] = "nl"
          /\ Moved(g, h, SubSeq(s, q + 1, n), "body", h.resp_statu, RequestOf(s, i, q))

(* HttpContext::RecvHttpHead reads the headers up to the empty line, the   *)
(* end of the input or a line it refuses.                                  *)
LEMMA HeadRead ==
  ASSUME NEW s \in Seq(Symbol), NEW n \in 0 .. Len(s), NEW i \in 1 .. n + 1,
         NEW h, NEW q, InHead(h, s, n, i, q)
  PROVE  \E p \in q .. n + 1 : HeadIsAt(RecvHttpHead(h), h, s, n, i, p)
<1> DEFINE Result(g) == \A r \in 1 .. n + 1 : InHead(g, s, n, i, r) =>
                           \E p \in r .. n + 1 : HeadIsAt(RecvHttpHead(g), g, s, n, i, p)
           D == Http
           size == [g \in D |-> Len(g.unread)]
           X == {g \in D : Result(g)}
<1>1. n \in Nat /\ i \in Nat /\ i >= 1
  OBVIOUS
<1>2. size \in [D -> Nat]
  <2>1. ASSUME NEW g \in D
        PROVE  Len(g.unread) \in Nat
    <3> DEFINE u == g.unread
    <3>1. u \in Seq(Symbol)
      BY Fields
    <3> HIDE DEF u
    <3>2. Len(u) \in Nat
      BY <3>1
    <3>3. QED
      BY <3>2 DEF u
  <2>2. QED
    BY <2>1
<1>3. ASSUME NEW g \in D, \A f \in D : size[f] < size[g] => f \in X
      PROVE  g \in X
  <2> SUFFICES ASSUME NEW r \in 1 .. n + 1, InHead(g, s, n, i, r)
               PROVE  \E p \in r .. n + 1 : HeadIsAt(RecvHttpHead(g), g, s, n, i, p)
    OBVIOUS
  <2> DEFINE line == Line(g.unread)
             rest == Without(g, line)
             out == RecvHttpHead(g)
  <2>1. /\ g \in Http /\ Seen(g, s, n, r) /\ g.recv_statu = "header" /\ HeadFrom(s, n, i, r) /\ r > i
        /\ s[i] \in RequestText /\ g.req = RequestOf(s, i, r) /\ g.unread = SubSeq(s, r, n)
        /\ WellFormed(s, i, r) /\ r \in Nat /\ r <= n + 1
    BY <1>1 DEF InHead, HeadFrom, Seen
  <2>2. /\ LineKind(g, s, n, r, line, rest)
        /\ rest \in Http
        /\ Moved(rest, g, rest.unread, g.recv_statu, g.resp_statu, g.req)
    BY <2>1, LineKinds
  <2>3. out = IF TooLong(g, line) THEN Fail(rest, 414)
              ELSE IF line = <<>> THEN g
              ELSE IF line = <<"nl">> THEN [rest EXCEPT !.recv_statu = "body"]
              ELSE IF line[1] \notin HeaderText THEN Fail(rest, 400)
              ELSE RecvHttpHead(Following(g))
    BY <2>1, HeadRounds DEF HeadRound
  <2>4. rest.unread \in Seq(Symbol)
    BY <2>2, Fields
  <2> HIDE DEF out, line, rest
  <2>5. SUFFICES ASSUME \A p \in r .. n + 1 : ~HeadIsAt(out, g, s, n, i, p)
                 PROVE  FALSE
    BY <2>1 DEF out
  <2>6. r \in r .. n + 1
    BY <2>1
  <2>7. ~(Late(s, n, r) /\ line = <<>> /\ ~TooLong(g, line))
    <3> SUFFICES ASSUME Late(s, n, r), line = <<>>, ~TooLong(g, line)
                 PROVE  FALSE
      OBVIOUS
    <3>1. out = g
      BY <2>3
    <3>2. g = Rec(SubSeq(s, r, n), "header", g.resp_statu, RequestOf(s, i, r), g.answers, g.status)
      <4>1. g = Rec(g.unread, g.recv_statu, g.resp_statu, g.req, g.answers, g.status)
        BY <2>1, Fields
      <4>2. QED
        BY <2>1, <4>1
    <3>3. Moved(out, g, SubSeq(s, r, n), "header", g.resp_statu, RequestOf(s, i, r))
      BY <3>1, <3>2, Zenon DEF Moved
    <3>4. QED
      BY <2>1, <2>5, <2>6, <3>3, Zenon DEF HeadIsAt
  <2>8. ~(TooLongAt(s, n, r) /\ TooLong(g, line))
    <3> SUFFICES ASSUME TooLongAt(s, n, r), TooLong(g, line)
                 PROVE  FALSE
      OBVIOUS
    <3>1. out = Fail(rest, 414)
      BY <2>3
    <3>2. Moved(out, g, rest.unread, "error", 414, RequestOf(s, i, r))
      BY <2>1, <2>2, <3>1, Failed
    <3>3. Errs(out, g, s, n, i, r)
      BY <2>4, <3>2 DEF Errs
    <3>4. QED
      BY <2>1, <2>5, <2>6, <3>3, Zenon DEF HeadIsAt
  <2>9. ~(/\ r <= n /\ s[r] = "nl" /\ line = <<"nl">> /\ ~TooLong(g, line)
          /\ Moved(rest, g, SubSeq(s, r + 1, n), g.recv_statu, g.resp_statu, g.req))
    <3> SUFFICES ASSUME r <= n, s[r] = "nl", line = <<"nl">>, ~TooLong(g, line),
                        Moved(rest, g, SubSeq(s, r + 1, n), g.recv_statu, g.resp_statu, g.req)
                 PROVE  FALSE
      OBVIOUS
    <3> DEFINE u == SubSeq(s, r + 1, n)
    <3>1. out = [rest EXCEPT !.recv_statu = "body"]
      <4>1. line # <<>>
        OBVIOUS
      <4>2. QED
        BY <2>3, <4>1
    <3>2. out = Rec(rest.unread, "body", rest.resp_statu, rest.req, rest.answers, rest.status)
      BY <2>2, <3>1, EditRecv
    <3>3. rest = Rec(u, g.recv_statu, g.resp_statu, g.req, g.answers, g.status)
      BY DEF Moved
    <3> HIDE DEF u
    <3>4. /\ rest.unread = u /\ rest.resp_statu = g.resp_statu /\ rest.req = g.req
          /\ rest.answers = g.answers /\ rest.status = g.status
      BY <3>3 DEF Rec
    <3>5. Moved(out, g, u, "body", g.resp_statu, RequestOf(s, i, r))
      BY <2>1, <3>2, <3>4, Zenon DEF Moved
    <3>6. QED
      BY <2>1, <2>5, <2>6, <3>5, Zenon DEF HeadIsAt, u
  <2>10. ~(/\ r + 1 <= n /\ s[r] # "nl" /\ s[r + 1] = "nl"
           /\ line # <<>> /\ line # <<"nl">> /\ line[1] = s[r] /\ ~TooLong(g, line)
           /\ Moved(rest, g, SubSeq(s, r + 2, n), g.recv_statu, g.resp_statu, g.req))
    <3> SUFFICES ASSUME r + 1 <= n, s[r] # "nl", s[r + 1] = "nl", line # <<>>, line # <<"nl">>,
                        line[1] = s[r], ~TooLong(g, line),
                        Moved(rest, g, SubSeq(s, r + 2, n), g.recv_statu, g.resp_statu, g.req)
                 PROVE  FALSE
      OBVIOUS
    <3>1. CASE s[r] \notin HeaderText
      <4>1. out = Fail(rest, 400)
        BY <2>3, <3>1
      <4>2. Moved(out, g, rest.unread, "error", 400, RequestOf(s, i, r))
        BY <2>1, <2>2, <4>1, Failed
      <4>3. BadAt(s, n, i, r)
        BY <2>1, <3>1 DEF BadAt
      <4>4. Errs(out, g, s, n, i, r)
        BY <2>4, <4>2, <4>3 DEF Errs
      <4>5. QED
        BY <2>1, <2>5, <2>6, <4>4, Zenon DEF HeadIsAt
    <3>2. CASE s[r] \in HeaderText
      <4> DEFINE f == Following(g)
                 u == SubSeq(s, r + 2, n)
      <4>1. out = RecvHttpHead(f)
        BY <2>3, <3>2
      <4>2. rest = Rec(u, g.recv_statu, g.resp_statu, g.req, g.answers, g.status)
        BY DEF Moved
      <4>3. f = SetHeader(rest, s[r])
        BY DEF Following, line, rest
      <4> HIDE DEF u, f
      <4>4. /\ rest.unread = u /\ rest.recv_statu = g.recv_statu /\ rest.resp_statu = g.resp_statu
            /\ rest.req = g.req /\ rest.answers = g.answers /\ rest.status = g.status
        BY <4>2 DEF Rec
      <4>5. /\ f \in Http
            /\ f.unread = rest.unread /\ f.recv_statu = rest.recv_statu /\ f.resp_statu = rest.resp_statu
            /\ f.req = WithHeader(rest.req, s[r])
            /\ f.answers = rest.answers /\ f.status = rest.status
        BY <2>2, <4>3, SetHeaderIs
      <4>6. TextAt(s, n, r, HeaderText)
        BY <3>2 DEF TextAt
      <4>7. WellFormed(s, i, r + 2) /\ RequestOf(s, i, r + 2) = WithHeader(RequestOf(s, i, r), s[r])
        BY <1>1, <2>1, <4>6, NextLine, RequestMore
      <4>8. r + 2 \in i .. n + 1 /\ r + 2 \in 1 .. n + 1 /\ r + 2 > i
        BY <1>1, <2>1
      <4>9. InHead(f, s, n, i, r + 2)
        BY <2>1, <4>4, <4>5, <4>7, <4>8, Zenon DEF InHead, HeadFrom, Seen, u
      <4>10. f \in X
        <5>1. Len(f.unread) < Len(g.unread)
          <6>1. Len(rest.unread) < Len(g.unread)
            BY <2>1, LineKinds DEF rest, line
          <6>2. QED
            BY <4>5, <6>1
        <5>2. size[f] < size[g]
          BY <4>5, <5>1
        <5>3. QED
          BY <1>3, <4>5, <5>2
      <4>11. PICK p \in r + 2 .. n + 1 : HeadIsAt(RecvHttpHead(f), f, s, n, i, p)
        BY <4>8, <4>9, <4>10
      <4>12. f.resp_statu = g.resp_statu /\ f.answers = g.answers /\ f.status = g.status
        BY <4>4, <4>5
      <4>13. HeadIsAt(out, g, s, n, i, p)
        <5>1. \A u1, v1, p1, r1 : Moved(out, f, u1, v1, p1, r1) <=> Moved(out, g, u1, v1, p1, r1)
          BY <4>12 DEF Moved
        <5>2. Errs(out, f, s, n, i, p) => Errs(out, g, s, n, i, p)
          <6> SUFFICES ASSUME Errs(out, f, s, n, i, p)
                       PROVE  Errs(out, g, s, n, i, p)
            OBVIOUS
          <6>1. PICK unread \in Seq(Symbol), statu \in {400, 414} :
                   /\ Moved(out, f, unread, "error", statu, RequestOf(s, i, p))
                   /\ statu = 414 => TooLongAt(s, n, p)
                   /\ statu = 400 => BadAt(s, n, i, p)
            BY DEF Errs
          <6>2. Moved(out, g, unread, "error", statu, RequestOf(s, i, p))
            BY <5>1, <6>1
          <6>3. QED
            BY <6>1, <6>2 DEF Errs
        <5>3. HeadIsAt(out, f, s, n, i, p)
          BY <4>1, <4>11
        <5>4. QED
          BY <4>12, <5>1, <5>2, <5>3, Zenon DEF HeadIsAt
      <4>14. p \in r .. n + 1
        BY <2>1
      <4>15. QED
        BY <2>5, <4>13, <4>14
    <3>3. QED
      BY <3>1, <3>2
  <2>11. QED
    BY <2>2, <2>7, <2>8, <2>9, <2>10, Zenon DEF LineKind
<1>4. \A g \in D : g \in X
  <2> HIDE DEF X, D, size
  <2>1. QED
    BY <1>2, <1>3, SizesBySteps
<1>5. h \in D /\ q \in 1 .. n + 1
  BY <1>1 DEF InHead, Seen, HeadFrom
<1>6. QED
  BY <1>4, <1>5
-----------------------------------------------------------------------------
(* Parts of parts of a sequence.                                             *)
LEMMA Span ==
  ASSUME NEW S, NEW s \in Seq(S), NEW n \in 0 .. Len(s), NEW a \in 1 .. n + 1
  PROVE  /\ SubSeq(s, a, n) \in Seq(S)
         /\ Len(SubSeq(s, a, n)) = n + 1 - a
         /\ \A j \in 1 .. n + 1 - a : SubSeq(s, a, n)[j] = s[a + j - 1]
<1> DEFINE u == SubSeq(s, a, n)
<1>1. n \in Nat /\ a \in Nat /\ a >= 1 /\ n <= Len(s) /\ a <= n + 1
  OBVIOUS
<1>2. u \in Seq(S) /\ Len(u) = (IF a <= n THEN n - a + 1 ELSE 0) /\ \A j \in 1 .. Len(u) : u[j] = s[a + j - 1]
  BY <1>1, Part
<1> HIDE DEF u
<1>3. Len(u) = n + 1 - a
  BY <1>1, <1>2
<1>4. QED
  BY <1>2, <1>3 DEF u

(* A part of a part of a sequence, and two parts that are next to each     *)
(* other.                                                                  *)
LEMMA Pieces ==
  ASSUME NEW S, NEW s \in Seq(S), NEW n \in 0 .. Len(s), NEW a \in 1 .. n + 1, NEW b \in a - 1 .. n
  PROVE  /\ SubSeq(SubSeq(s, a, n), 1, b + 1 - a) = SubSeq(s, a, b)
         /\ SubSeq(SubSeq(s, a, n), b + 2 - a, Len(SubSeq(s, a, n))) = SubSeq(s, b + 1, n)
         /\ SubSeq(s, a, b) \o SubSeq(s, b + 1, n) = SubSeq(s, a, n)
<1> DEFINE u == SubSeq(s, a, n)
           k == b + 1 - a
           l == n + 1 - a
           m == b + 2 - a
           c == b + 1
           v == SubSeq(u, 1, k)
           w == SubSeq(s, a, b)
           x == SubSeq(u, m, l)
           y == SubSeq(s, c, n)
<1>1. /\ n \in Nat /\ a \in Nat /\ a >= 1 /\ b \in Nat /\ n <= Len(s) /\ b <= n /\ a <= n + 1 /\ a <= b + 1
      /\ k \in Nat /\ k <= l /\ l \in Nat /\ b <= Len(s)
  OBVIOUS
<1>2. /\ a \in 1 .. b + 1 /\ b \in 0 .. Len(s) /\ c \in 1 .. n + 1 /\ k \in 0 .. l /\ 1 \in 1 .. k + 1
      /\ m \in 1 .. l + 1
  OBVIOUS
<1>3. k + 1 - 1 = k /\ l + 1 - m = n - b /\ n + 1 - c = n - b
  OBVIOUS
<1>4. u \in Seq(S) /\ Len(u) = l /\ \A j \in 1 .. l : u[j] = s[a + j - 1]
  BY Span
<1>5. w \in Seq(S) /\ Len(w) = k /\ \A j \in 1 .. k : w[j] = s[a + j - 1]
  BY <1>2, Span
<1>6. y \in Seq(S) /\ Len(y) = n - b /\ \A j \in 1 .. n - b : y[j] = s[c + j - 1]
  <2> HIDE DEF c
  <2>1. y \in Seq(S) /\ Len(y) = n + 1 - c /\ \A j \in 1 .. n + 1 - c : y[j] = s[c + j - 1]
    BY <1>2, Span
  <2>2. QED
    BY <1>3, <2>1
<1> HIDE DEF u
<1>7. v \in Seq(S) /\ Len(v) = k /\ \A j \in 1 .. k : v[j] = u[j]
  <2> HIDE DEF k
  <2>1. k \in 0 .. Len(u)
    BY <1>2, <1>4
  <2>2. v \in Seq(S) /\ Len(v) = k + 1 - 1 /\ \A j \in 1 .. k + 1 - 1 : v[j] = u[1 + j - 1]
    BY <1>2, <1>4, <2>1, Span
  <2> HIDE DEF v
  <2>3. \A j \in 1 .. k : 1 + j - 1 = j
    OBVIOUS
  <2>4. QED
    BY <1>3, <2>2, <2>3
<1>8. x \in Seq(S) /\ Len(x) = n - b /\ \A j \in 1 .. n - b : x[j] = u[m + j - 1]
  <2> HIDE DEF l, m
  <2>1. l \in 0 .. Len(u)
    BY <1>1, <1>4
  <2>2. x \in Seq(S) /\ Len(x) = l + 1 - m /\ \A j \in 1 .. l + 1 - m : x[j] = u[m + j - 1]
    BY <1>2, <1>4, <2>1, Span
  <2> HIDE DEF x
  <2>3. QED
    BY <1>3, <2>2
<1> HIDE DEF v, w, x, y
<1>9. v = w
  <2>1. \A j \in 1 .. k : j \in 1 .. l
    BY <1>1
  <2>2. \A j \in 1 .. Len(v) : v[j] = w[j]
    BY <1>4, <1>5, <1>7, <2>1
  <2>3. QED
    BY <1>5, <1>7, <2>2, SameSequence
<1>10. x = y
  <2>1. ASSUME NEW j \in 1 .. n - b
        PROVE  x[j] = y[j]
    <3> DEFINE p == m + j - 1
    <3>1. p \in 1 .. l /\ a + p - 1 = c + j - 1
      BY <1>1
    <3> HIDE DEF p
    <3>2. u[p] = s[a + p - 1]
      BY <1>4, <3>1
    <3>3. QED
      BY <1>6, <1>8, <3>1, <3>2 DEF p
  <2>2. QED
    BY <1>6, <1>8, <2>1, SameSequence
<1> DEFINE z == w \o y
<1>11. z = u
  <2>1. /\ z \in Seq(S) /\ Len(z) = Len(w) + Len(y)
        /\ \A j \in 1 .. Len(w) : z[j] = w[j]
        /\ \A j \in 1 .. Len(y) : z[Len(w) + j] = y[j]
    <3> HIDE DEF k, c, l, m
    <3>1. w \in Seq(S) /\ y \in Seq(S)
      BY <1>5, <1>6
    <3>2. QED
      BY <3>1, Concatenation
  <2> HIDE DEF z
  <2>2. z \in Seq(S) /\ Len(z) = l
      /\ (\A j \in 1 .. k : z[j] = w[j]) /\ (\A j \in 1 .. n - b : z[k + j] = y[j])
    <3>1. Len(z) = l
      BY <1>1, <1>5, <1>6, <2>1
    <3> HIDE DEF k, c, l, m
    <3>2. QED
      BY <1>5, <1>6, <2>1, <3>1
  <2>3. ASSUME NEW j \in 1 .. l
        PROVE  z[j] = u[j]
    <3>1. CASE j <= k
      <4>1. j \in 1 .. k
        BY <3>1
      <4> HIDE DEF k, l
      <4>2. QED
        BY <1>4, <1>5, <2>2, <4>1
    <3>2. CASE j > k
      <4> DEFINE i == j - k
      <4>1. i \in 1 .. n - b /\ k + i = j /\ c + i - 1 = a + j - 1
        BY <1>1, <3>2
      <4> HIDE DEF i, k, c
      <4>2. z[j] = y[i] /\ y[i] = s[c + i - 1]
        BY <1>6, <2>2, <4>1
      <4>3. QED
        BY <1>4, <4>1, <4>2
    <3>3. QED
      BY <1>1, <3>1, <3>2
  <2>4. QED
    BY <1>4, <2>2, <2>3, SameSequence
<1>12. QED
  BY <1>4, <1>9, <1>10, <1>11 DEF u, v, w, x, y, z
(* A context in the middle of the body of the request that begins at i.      *)
InBody(h, s, n, i, q) ==
    /\ h \in Http
    /\ h.recv_statu = "body"
    /\ HeadFrom(s, n, i, q) /\ q > i /\ q <= n /\ s[q] = "nl"
    /\ s[i] \in RequestText
    /\ \E c \in q .. n : /\ h.unread = SubSeq(s, c + 1, n)
                         /\ c <= q + RequestOf(s, i, q).length
                         /\ h.req = [RequestOf(s, i, q) EXCEPT !.body = SubSeq(s, q + 1, c)]

(* What RecvBody makes of it: p is where the body has been read to.          *)
BodyIsAt(g, h, s, n, i, q, p, statu) ==
    Moved(g, h, SubSeq(s, p + 1, n), statu, h.resp_statu,
          [RequestOf(s, i, q) EXCEPT !.body = SubSeq(s, q + 1, p)])

(* HttpContext::RecvHttpBody reads up to Content-Length symbols, in as     *)
(* many pieces as they come.                                               *)
LEMMA BodyRead ==
  ASSUME NEW s \in Seq(Symbol), NEW n \in 0 .. Len(s), NEW i \in 1 .. n + 1,
         NEW h, NEW q, InBody(h, s, n, i, q)
  PROVE  LET last == q + RequestOf(s, i, q).length
         IN  /\ n < last => BodyIsAt(RecvBody(h), h, s, n, i, q, n, "body")
             /\ n >= last => BodyIsAt(RecvBody(h), h, s, n, i, q, last, "over")
<1> DEFINE r == RequestOf(s, i, q)
           last == q + r.length
           u == h.unread
           b == h.req.body
<1>1. /\ h \in Http /\ h.recv_statu = "body" /\ q \in i .. n + 1 /\ q > i /\ q <= n
      /\ s[i] \in RequestText /\ n \in Nat /\ i \in Nat /\ i >= 1
  BY DEF InBody, HeadFrom
<1>2. PICK c \in q .. n : /\ h.unread = SubSeq(s, c + 1, n)
                          /\ c <= q + RequestOf(s, i, q).length
                          /\ h.req = [RequestOf(s, i, q) EXCEPT !.body = SubSeq(s, q + 1, c)]
  BY DEF InBody
<1>3. r \in Request /\ q \in Nat /\ r.length \in Nat
  <2>1. q \in Nat
    BY <1>1
  <2>2. r \in Request
    BY <1>1, <2>1, RequestType
  <2> HIDE DEF r
  <2>3. QED
    BY <2>1, <2>2, RequestFields
<1> HIDE DEF r
<1>4. /\ c \in Nat /\ c >= q /\ c <= n /\ c <= last /\ last \in Nat /\ last - q = r.length
  BY <1>1, <1>2, <1>3 DEF r
<1>5. u = SubSeq(s, c + 1, n) /\ h.req = [r EXCEPT !.body = SubSeq(s, q + 1, c)]
  BY <1>2 DEF r
<1> HIDE DEF last
<1>6. /\ n \in Nat /\ i \in Nat /\ q \in Nat /\ c \in Nat /\ last \in Nat /\ n <= Len(s)
       /\ i >= 1 /\ q > i /\ q <= c /\ c <= n /\ c <= last
  BY <1>1, <1>3, <1>4
<1>7. PICK p \in Nat : /\ n < last => p = n
                       /\ n >= last => p = last
  <2>1. CASE n < last
    BY <1>6, <2>1
  <2>2. CASE ~(n < last)
    BY <1>6, <2>2
  <2>3. QED
    BY <2>1, <2>2
<1> DEFINE k == p - c
           reallen == h.req.length - Len(h.req.body)
           piece == SubSeq(h.unread, 1, IF Len(h.unread) < reallen THEN Len(h.unread) ELSE reallen)
           rest == Without(h, piece)
           more == [rest EXCEPT !.req.body = @ \o piece]
           a == c + 1
           e == q + 1
<1>8. /\ c <= p /\ p <= n /\ k \in Nat /\ k <= n - c /\ (k = last - c <=> n >= last)
       /\ (IF n - c < last - c THEN n - c ELSE last - c) = k
  BY <1>6, <1>7
<1>9. /\ a \in 1 .. n + 1 /\ p \in a - 1 .. n /\ p + 1 - a = k /\ p + 2 - a = k + 1 /\ p \in 0 .. Len(s)
       /\ e \in 1 .. p + 1 /\ e \in 1 .. c + 1 /\ c \in e - 1 .. p /\ a \in 1 .. p + 1 /\ c \in 0 .. Len(s)
       /\ c + 1 - e = c - q /\ n + 1 - a = n - c /\ p + 1 \in 1 .. n + 1
  BY <1>6, <1>8
<1>10. a = c + 1 /\ e = q + 1
  OBVIOUS
<1> HIDE DEF a, e
<1>11. b = SubSeq(s, q + 1, c) /\ h.req.length = r.length
  <2> DEFINE x == SubSeq(s, q + 1, c)
             hr == h.req
  <2>1. hr = [r EXCEPT !.body = x]
    BY <1>5
  <2> HIDE DEF x, hr
  <2>2. hr.body = x /\ hr.length = r.length
    BY <1>3, <2>1 DEF Request
  <2>3. QED
    BY <2>2 DEF x, hr
<1>12. Len(b) = c - q /\ Len(u) = n - c /\ u \in Seq(Symbol) /\ b \in Seq(Symbol)
  <2>1. SubSeq(s, e, c) \in Seq(Symbol) /\ Len(SubSeq(s, e, c)) = c + 1 - e
    BY <1>9, Span
  <2>2. SubSeq(s, a, n) \in Seq(Symbol) /\ Len(SubSeq(s, a, n)) = n + 1 - a
    BY <1>9, Span
  <2>3. b = SubSeq(s, e, c) /\ u = SubSeq(s, a, n)
    BY <1>11, <1>5, <1>10, Zenon
  <2>4. QED
    BY <1>9, <2>1, <2>2, <2>3, Zenon
<1>13. reallen = last - c /\ (IF Len(h.unread) < reallen THEN Len(h.unread) ELSE reallen) = k
  <2>1. reallen = (last - q) - (c - q) /\ Len(h.unread) = n - c
    BY <1>4, <1>11, <1>12
  <2>2. (last - q) - (c - q) = last - c
    BY <1>6
  <2> HIDE DEF reallen
  <2>3. reallen = last - c /\ Len(h.unread) = n - c
    BY <2>1, <2>2
  <2>4. QED
    BY <1>8, <2>3
<1> HIDE DEF k
<1>14. piece = SubSeq(u, 1, k)
  BY <1>13
<1>15. /\ SubSeq(u, k + 1, Len(u)) = SubSeq(s, p + 1, n)
      /\ b \o piece = SubSeq(s, q + 1, p)
      /\ piece \in Seq(Symbol) /\ Len(piece) = k
  <2>1. /\ SubSeq(SubSeq(s, a, n), 1, p + 1 - a) = SubSeq(s, a, p)
        /\ SubSeq(SubSeq(s, a, n), p + 2 - a, Len(SubSeq(s, a, n))) = SubSeq(s, p + 1, n)
    BY <1>9, Pieces
  <2>2. u = SubSeq(s, a, n)
    BY <1>5, <1>10
  <2>3. piece = SubSeq(s, a, p) /\ SubSeq(u, k + 1, Len(u)) = SubSeq(s, p + 1, n)
    BY <1>14, <1>9, <2>1, <2>2, Zenon
  <2>4. SubSeq(s, e, c) \o SubSeq(s, c + 1, p) = SubSeq(s, e, p)
    BY <1>9, Pieces
  <2>5. b \o piece = SubSeq(s, q + 1, p)
    BY <1>11, <1>10, <2>3, <2>4, Zenon
  <2>6. SubSeq(s, a, p) \in Seq(Symbol) /\ Len(SubSeq(s, a, p)) = p + 1 - a
    BY <1>9, Span
  <2>7. QED
    BY <1>9, <2>3, <2>5, <2>6, Zenon
<1>16. RecvBody(h) = IF Len(piece) = reallen THEN [more EXCEPT !.recv_statu = "over"] ELSE more
  BY <1>1 DEF RecvBody
<1> DEFINE v == SubSeq(s, p + 1, n)
           d == SubSeq(s, q + 1, p)
<1>17. v \in Seq(Symbol) /\ d \in Seq(Symbol)
  <2>1. SubSeq(s, p + 1, n) \in Seq(Symbol) /\ SubSeq(s, e, p) \in Seq(Symbol)
    BY <1>9, Span
  <2>2. QED
    BY <1>10, <2>1, Zenon
<1>18. rest = Rec(v, "body", h.resp_statu, h.req, h.answers, h.status) /\ rest \in Http /\ rest.req = h.req
  <2>1. rest = [h EXCEPT !.unread = v]
    <3>1. rest = [h EXCEPT !.unread = SubSeq(u, Len(piece) + 1, Len(u))]
      BY DEF Without
    <3> HIDE DEF rest, piece, u
    <3>2. QED
      BY <1>15, <3>1
  <2> HIDE DEF rest, v
  <2>2. rest = Rec(v, h.recv_statu, h.resp_statu, h.req, h.answers, h.status)
    BY <1>1, <2>1, EditUnread
  <2>3. rest = Rec(v, "body", h.resp_statu, h.req, h.answers, h.status)
    BY <1>1, <2>2
  <2>4. rest \in Http
    <3>1. h.resp_statu \in {0, 200, 400, 414} /\ h.req \in Request /\ h.answers \in Seq(Answer)
          /\ h.status \in {"connected", "disconnecting", "disconnected"} /\ v \in Seq(Symbol)
      BY <1>1, <1>17, Fields DEF v
    <3>2. QED
      BY <2>3, <3>1, RecType
  <2>5. rest.req = h.req
    BY <2>3 DEF Rec
  <2>6. QED
    BY <2>3, <2>4, <2>5
<1>19. more = Rec(v, "body", h.resp_statu, [r EXCEPT !.body = d], h.answers, h.status) /\ more \in Http
  <2>1. more = [rest EXCEPT !.req.body = d]
    <3>1. rest.req.body \o piece = d
      BY <1>15, <1>18
    <3> HIDE DEF rest, piece, d
    <3>2. QED
      BY <3>1
  <2> HIDE DEF more, rest, v, d
  <2>2. more = Rec(rest.unread, rest.recv_statu, rest.resp_statu, [rest.req EXCEPT !.body = d],
                   rest.answers, rest.status)
    BY <1>18, <2>1, EditBody
  <2>3. [rest.req EXCEPT !.body = d] = [r EXCEPT !.body = d]
    <3>1. rest.req = [r EXCEPT !.body = SubSeq(s, q + 1, c)]
      BY <1>18, <1>5
    <3>2. QED
      BY <1>3, <3>1 DEF Request
  <2>4. /\ rest.unread = v /\ rest.recv_statu = "body" /\ rest.resp_statu = h.resp_statu
        /\ rest.answers = h.answers /\ rest.status = h.status
    BY <1>18 DEF Rec
  <2>5. more = Rec(v, "body", h.resp_statu, [r EXCEPT !.body = d], h.answers, h.status)
    BY <2>2, <2>3, <2>4, Zenon
  <2>6. [r EXCEPT !.body = d] \in Request
    BY <1>3, <1>17, RequestFields
  <2>7. more \in Http
    <3>1. h.resp_statu \in {0, 200, 400, 414} /\ h.answers \in Seq(Answer)
          /\ h.status \in {"connected", "disconnecting", "disconnected"} /\ v \in Seq(Symbol)
      BY <1>1, <1>17, Fields DEF v
    <3> DEFINE rb == [r EXCEPT !.body = d]
    <3>2. rb \in Request /\ more = Rec(v, "body", h.resp_statu, rb, h.answers, h.status)
      BY <2>5, <2>6
    <3> HIDE DEF rb
    <3>3. QED
      BY <3>1, <3>2, RecType
  <2>8. QED
    BY <2>5, <2>7
<1> HIDE DEF more, rest, piece, reallen
<1>20. CASE n < last
  <2>1. RecvBody(h) = more /\ p = n
    <3>1. ~(n >= last) /\ p = n
      BY <1>20, <1>6, <1>7
    <3>2. Len(piece) # reallen
      BY <1>13, <1>15, <1>8, <3>1
    <3>3. QED
      BY <1>16, <3>1, <3>2
  <2>2. BodyIsAt(RecvBody(h), h, s, n, i, q, n, "body")
    BY <1>19, <2>1, Zenon DEF BodyIsAt, Moved, v, d, r
  <2>3. ~(n >= last)
    BY <1>20, <1>6
  <2>4. QED
    BY <2>2, <2>3 DEF r, last
<1>21. CASE n >= last
  <2>1. RecvBody(h) = [more EXCEPT !.recv_statu = "over"] /\ p = last
    <3>1. Len(piece) = reallen
      BY <1>13, <1>15, <1>21, <1>8
    <3>2. QED
      BY <1>16, <1>21, <1>7, <3>1
  <2>2. RecvBody(h) = Rec(more.unread, "over", more.resp_statu, more.req, more.answers, more.status)
    <3>1. more \in Http
      BY <1>19
    <3>2. [more EXCEPT !.recv_statu = "over"]
            = Rec(more.unread, "over", more.resp_statu, more.req, more.answers, more.status)
      BY <3>1, EditRecv
    <3>3. QED
      BY <2>1, <3>2
  <2> DEFINE rb == [r EXCEPT !.body = d]
  <2>3. more = Rec(v, "body", h.resp_statu, rb, h.answers, h.status)
    BY <1>19
  <2> HIDE DEF rb, v
  <2>4. more.unread = v /\ more.resp_statu = h.resp_statu /\ more.req = rb
        /\ more.answers = h.answers /\ more.status = h.status
    BY <2>3 DEF Rec
  <2>5. BodyIsAt(RecvBody(h), h, s, n, i, q, last, "over")
    <3>1. RecvBody(h) = Rec(v, "over", h.resp_statu, rb, h.answers, h.status)
      BY <2>2, <2>4, Zenon
    <3>2. v = SubSeq(s, last + 1, n) /\ rb = [r EXCEPT !.body = SubSeq(s, q + 1, last)]
      BY <2>1 DEF v, rb
    <3>3. QED
      BY <3>1, <3>2 DEF BodyIsAt, Moved, r
  <2>6. ~(n < last)
    BY <1>21, <1>6
  <2>7. QED
    BY <2>5, <2>6 DEF r, last
<1>22. QED
  BY <1>20, <1>21, <1>6
-----------------------------------------------------------------------------
(* Between two callbacks: the context has what was read of the request that  *)
(* begins at i, and the input what follows it.                               *)
Open(h, s, n, i) ==
    /\ h \in Http /\ i \in 1 .. n + 1 /\ h.resp_statu \in {0, 200}
    /\ \/ h.recv_statu = "line" /\ Seen(h, s, n, i) /\ h.req = NoRequest
       \/ \E q \in i .. n + 1 : InHead(h, s, n, i, q)
       \/ \E q \in i .. n + 1 : InBody(h, s, n, i, q) /\ Len(h.req.body) < h.req.length

(* The first n symbols say nothing yet of the request that begins at i.      *)
Waits(s, n, i, q) ==
    \/ Late(s, n, q)
    \/ q > i /\ q <= n /\ s[q] = "nl" /\ n < q + RequestOf(s, i, q).length

(* They have all of it: the last is the last of its body.                    *)
Whole(g, h, s, n, i, q, last) ==
    /\ q > i /\ q <= n /\ s[q] = "nl" /\ s[i] \in RequestText
    /\ last = q + RequestOf(s, i, q).length /\ last <= n
    /\ BodyIsAt(g, h, s, n, i, q, last, "over")

(* What RecvHttpReq makes of a context; the head is right up to q.           *)
RequestIsAt(g, h, s, n, i, q) ==
    /\ HeadFrom(s, n, i, q)
    /\ \/ Errs(g, h, s, n, i, q)
       \/ Open(g, s, n, i) /\ Waits(s, n, i, q) /\ g.answers = h.answers /\ g.status = h.status
       \/ \E last \in Nat : Whole(g, h, s, n, i, q, last)

(* A request is read from what matters of a context.                       *)
LEMMA Alike ==
  ASSUME NEW b, NEW h, b.answers = h.answers, b.status = h.status, b.resp_statu = h.resp_statu,
         NEW g, NEW s, NEW n, NEW i, NEW q, RequestIsAt(g, b, s, n, i, q)
  PROVE  RequestIsAt(g, h, s, n, i, q)
<1>1. \A u, v, p, r : Moved(g, b, u, v, p, r) => Moved(g, h, u, v, p, r)
  BY DEF Moved
<1>2. Errs(g, b, s, n, i, q) => Errs(g, h, s, n, i, q)
  <2> SUFFICES ASSUME Errs(g, b, s, n, i, q)
               PROVE  Errs(g, h, s, n, i, q)
    OBVIOUS
  <2>1. PICK unread \in Seq(Symbol), statu \in {400, 414} :
           /\ Moved(g, b, unread, "error", statu, RequestOf(s, i, q))
           /\ statu = 414 => TooLongAt(s, n, q)
           /\ statu = 400 => BadAt(s, n, i, q)
    BY DEF Errs
  <2>2. Moved(g, h, unread, "error", statu, RequestOf(s, i, q))
    BY <1>1, <2>1
  <2>3. QED
    BY <2>1, <2>2 DEF Errs
<1>3. ASSUME NEW last, Whole(g, b, s, n, i, q, last)
      PROVE  Whole(g, h, s, n, i, q, last)
  BY <1>1, <1>3 DEF Whole, BodyIsAt
<1>4. QED
  BY <1>2, <1>3 DEF RequestIsAt

(* HttpContext::RecvHttpReq of a context that waits for more of a body.    *)
LEMMA RequestReadFromBody ==
  ASSUME NEW s \in Seq(Symbol), NEW n \in 0 .. Len(s), NEW i \in 1 .. n + 1,
         NEW h, h.resp_statu \in {0, 200}, NEW q, InBody(h, s, n, i, q)
  PROVE  RequestIsAt(RecvBody(h), h, s, n, i, q)
<1> DEFINE r == RequestOf(s, i, q)
           last == q + r.length
           g == RecvBody(h)
<1>1. /\ h \in Http /\ HeadFrom(s, n, i, q) /\ q > i /\ q <= n /\ s[q] = "nl"
      /\ s[i] \in RequestText /\ q \in i .. n + 1 /\ q \in Nat /\ n \in Nat /\ i \in Nat
  BY DEF InBody, HeadFrom
<1>2. /\ n < last => BodyIsAt(g, h, s, n, i, q, n, "body")
      /\ n >= last => BodyIsAt(g, h, s, n, i, q, last, "over")
  BY BodyRead
<1>3. r \in Request
  BY <1>1, RequestType
<1>4. r.length \in Nat /\ last \in Nat
  <2> HIDE DEF r
  <2>1. r.length \in Nat
    BY <1>3, RequestFields
  <2>2. QED
    BY <1>1, <2>1
<1> HIDE DEF g, r
<1>5. CASE n >= last
  <2>1. Whole(g, h, s, n, i, q, last)
    BY <1>1, <1>2, <1>4, <1>5, Zenon DEF Whole, r
  <2>2. QED
    BY <1>1, <1>4, <2>1 DEF RequestIsAt, g
<1>6. CASE n < last
  <2> DEFINE u == SubSeq(s, n + 1, n)
             d == SubSeq(s, q + 1, n)
             rb == [r EXCEPT !.body = d]
             e == q + 1
             f == n + 1
  <2>1. e \in 1 .. n + 1 /\ n + 1 - e = n - q /\ n \in 0 .. Len(s) /\ f \in 1 .. n + 1
    BY <1>1
  <2>2. d \in Seq(Symbol) /\ Len(d) = n - q /\ u \in Seq(Symbol)
    <3> HIDE DEF e, f
    <3>1. SubSeq(s, e, n) \in Seq(Symbol) /\ Len(SubSeq(s, e, n)) = n + 1 - e
      BY <2>1, Span
    <3>2. SubSeq(s, f, n) \in Seq(Symbol)
      BY <2>1, Span
    <3>3. QED
      BY <2>1, <3>1, <3>2 DEF e, f
  <2>3. Moved(g, h, u, "body", h.resp_statu, rb)
    BY <1>2, <1>6 DEF BodyIsAt, r
  <2> HIDE DEF u, d
  <2>4. rb \in Request /\ rb.body = d /\ rb.length = r.length
    <3>1. rb \in Request
      BY <1>3, <2>2 DEF Request
    <3>2. QED
      BY <1>3, <3>1 DEF Request
  <2> HIDE DEF rb
  <2>5. /\ g \in Http /\ g.unread = u /\ g.recv_statu = "body" /\ g.resp_statu = h.resp_statu /\ g.req = rb
        /\ g.answers = h.answers /\ g.status = h.status
    <3>1. h.resp_statu \in {0, 200, 400, 414}
      OBVIOUS
    <3>2. QED
      BY <1>1, <2>2, <2>3, <2>4, <3>1, MovedFields
  <2>6. InBody(g, s, n, i, q)
    <3>1. n \in q .. n /\ n <= q + r.length
      BY <1>1, <1>4, <1>6
    <3>2. QED
      BY <1>1, <2>5, <3>1 DEF InBody, u, rb, d, r
  <2>7. Len(g.req.body) < g.req.length
    <3>1. n - q < r.length
      BY <1>1, <1>4, <1>6
    <3>2. QED
      BY <2>2, <2>4, <2>5, <3>1
  <2>8. Open(g, s, n, i)
    BY <1>1, <2>5, <2>6, <2>7 DEF Open
  <2>9. Waits(s, n, i, q)
    BY <1>1, <1>6 DEF Waits, r
  <2>10. QED
    BY <1>1, <2>5, <2>8, <2>9 DEF RequestIsAt, g
<1>7. QED
  BY <1>1, <1>4, <1>5, <1>6

(* A refused request leaves the context in the state of an error.          *)
LEMMA ErrsStays ==
  ASSUME NEW h \in Http, NEW s, NEW n, NEW i \in Nat, NEW q \in Nat, NEW g,
         i = q \/ s[i] \in RequestText, Errs(g, h, s, n, i, q)
  PROVE  g \in Http /\ g.recv_statu = "error" /\ g.resp_statu \in {400, 414}
<1>1. PICK unread \in Seq(Symbol), statu \in {400, 414} :
         Moved(g, h, unread, "error", statu, RequestOf(s, i, q))
  BY DEF Errs
<1>2. RequestOf(s, i, q) \in Request
  BY RequestType
<1>3. QED
  BY <1>1, <1>2, MovedFields

(* HttpContext::RecvHttpReq of a context that waits for a header line.     *)
LEMMA RequestReadFromHead ==
  ASSUME NEW s \in Seq(Symbol), NEW n \in 0 .. Len(s), NEW i \in 1 .. n + 1,
         NEW h, h.resp_statu \in {0, 200}, NEW q, InHead(h, s, n, i, q)
  PROVE  \E p \in q .. n + 1 : RequestIsAt(RecvBody(RecvHttpHead(h)), h, s, n, i, p)
<1> DEFINE g == RecvHttpHead(h)
<1>1. PICK p \in q .. n + 1 : HeadIsAt(g, h, s, n, i, p)
  BY HeadRead
<1>2. /\ h \in Http /\ s[i] \in RequestText /\ HeadFrom(s, n, i, p) /\ p > i /\ p \in i .. n + 1
      /\ n \in Nat /\ i \in Nat /\ p \in Nat /\ WellFormed(s, i, p)
  <2>1. h \in Http /\ s[i] \in RequestText
    BY DEF InHead, Seen
  <2>2. HeadFrom(s, n, i, p) /\ p > i
    BY <1>1 DEF HeadIsAt
  <2>3. QED
    BY <2>1, <2>2 DEF HeadFrom
<1> DEFINE r == RequestOf(s, i, p)
<1>3. r \in Request /\ r.body = <<>>
  BY <1>2, RequestType
<1>4. ASSUME g.recv_statu # "body"
      PROVE  RecvBody(g) = g
  BY <1>4 DEF RecvBody
<1>5. h.resp_statu \in {0, 200, 400, 414}
  OBVIOUS
<1> HIDE DEF g, r
<1>6. CASE Errs(g, h, s, n, i, p)
  <2>1. g.recv_statu = "error"
    BY <1>2, <1>6, ErrsStays
  <2>2. RecvBody(g) = g
    BY <1>4, <2>1
  <2>3. QED
    BY <1>2, <1>6, <2>2, <1>1 DEF RequestIsAt, g
<1>7. CASE Late(s, n, p) /\ Moved(g, h, SubSeq(s, p, n), "header", h.resp_statu, RequestOf(s, i, p))
  <2> DEFINE u == SubSeq(s, p, n)
  <2>1. u \in Seq(Symbol)
    <3>1. p \in 1 .. n + 1
      BY <1>2
    <3>2. QED
      BY <3>1, Span
  <2> HIDE DEF u
  <2>2. Moved(g, h, u, "header", h.resp_statu, r)
    BY <1>7 DEF u, r
  <2>3. /\ g \in Http /\ g.unread = u /\ g.recv_statu = "header" /\ g.resp_statu = h.resp_statu /\ g.req = r
        /\ g.answers = h.answers /\ g.status = h.status
    BY <1>2, <1>3, <1>5, <2>1, <2>2, MovedFields
  <2>4. InHead(g, s, n, i, p)
    BY <1>2, <2>3 DEF InHead, Seen, u, r
  <2>5. Open(g, s, n, i)
    BY <1>2, <2>3, <2>4 DEF Open
  <2>6. RecvBody(g) = g
    BY <1>4, <2>3
  <2>7. RequestIsAt(g, h, s, n, i, p)
    BY <1>2, <1>7, <2>3, <2>5 DEF RequestIsAt, Waits
  <2>8. QED
    BY <1>1, <2>6, <2>7 DEF g
<1>8. CASE /\ p <= n /\ s[p] = "nl"
           /\ Moved(g, h, SubSeq(s, p + 1, n), "body", h.resp_statu, RequestOf(s, i, p))
  <2> DEFINE u == SubSeq(s, p + 1, n)
  <2>1. u \in Seq(Symbol)
    <3> DEFINE e == p + 1
    <3>1. e \in 1 .. n + 1
      BY <1>2, <1>8
    <3> HIDE DEF e
    <3>2. SubSeq(s, e, n) \in Seq(Symbol)
      BY <3>1, Span
    <3>3. QED
      BY <3>2 DEF e
  <2> HIDE DEF u
  <2>2. Moved(g, h, u, "body", h.resp_statu, r)
    BY <1>8 DEF u, r
  <2>3. /\ g \in Http /\ g.unread = u /\ g.recv_statu = "body" /\ g.resp_statu = h.resp_statu /\ g.req = r
        /\ g.answers = h.answers /\ g.status = h.status
    BY <1>2, <1>3, <1>5, <2>1, <2>2, MovedFields
  <2>4. r = [r EXCEPT !.body = SubSeq(s, p + 1, p)]
    <3>1. SubSeq(s, p + 1, p) = <<>>
      BY <1>2
    <3> DEFINE d == <<>>
    <3>2. SubSeq(s, p + 1, p) = d /\ r.body = d
      BY <1>3, <3>1
    <3> HIDE DEF d
    <3>3. r = [r EXCEPT !.body = d]
      BY <1>3, <3>2 DEF Request
    <3>4. QED
      BY <3>2, <3>3
  <2>5. InBody(g, s, n, i, p)
    <3>1. p \in p .. n /\ p <= p + r.length
      <4>1. r.length \in Nat
        BY <1>3, RequestFields
      <4>2. QED
        BY <1>2, <1>8, <4>1
    <3>2. g.req = [RequestOf(s, i, p) EXCEPT !.body = SubSeq(s, p + 1, p)] /\ g.unread = SubSeq(s, p + 1, n)
      BY <2>3, <2>4 DEF r, u
    <3>3. QED
      BY <1>2, <1>8, <2>3, <3>1, <3>2 DEF InBody, r
  <2>6. RequestIsAt(RecvBody(g), g, s, n, i, p)
    BY <2>3, <2>5, RequestReadFromBody
  <2>7. RequestIsAt(RecvBody(g), h, s, n, i, p)
    BY <2>3, <2>6, Alike
  <2>8. QED
    BY <1>1, <2>7 DEF g
<1>9. QED
  BY <1>1, <1>6, <1>7, <1>8 DEF HeadIsAt, g

(* Not in a head.                                                            *)
LEMMA OtherwiseNothing ==
  ASSUME NEW g \in Http
  PROVE  /\ g.recv_statu # "line" => RecvHttpLine(g) = g
         /\ g.recv_statu # "header" => RecvHttpHead(g) = g
         /\ g.recv_statu # "body" => RecvBody(g) = g
<1>1. g.recv_statu # "header" => RecvHttpHead(g) = g
  <2>1. RecvHttpHead(g) = HeadRound(g, RecvHttpHead(Following(g)))
    BY HeadRounds
  <2>2. QED
    BY <2>1 DEF HeadRound
<1>2. QED
  BY <1>1 DEF RecvHttpLine, RecvBody

(* HttpContext::RecvHttpReq goes on with the request that an open context  *)
(* holds a part of.                                                        *)
LEMMA RequestRead ==
  ASSUME NEW s \in Seq(Symbol), NEW n \in 0 .. Len(s), NEW i, NEW h, Open(h, s, n, i)
  PROVE  \E q \in i .. n + 1 : RequestIsAt(RecvHttpReq(h), h, s, n, i, q)
<1>1. /\ h \in Http /\ i \in 1 .. n + 1 /\ h.resp_statu \in {0, 200} /\ h.resp_statu \in {0, 200, 400, 414}
      /\ n \in Nat /\ i \in Nat /\ i \in i .. n + 1
  BY DEF Open
<1>2. CASE \E q \in i .. n + 1 : InHead(h, s, n, i, q)
  <2>1. PICK q \in i .. n + 1 : InHead(h, s, n, i, q)
    BY <1>2
  <2>2. h.recv_statu = "header"
    BY <2>1 DEF InHead
  <2>3. RecvHttpReq(h) = RecvBody(RecvHttpHead(h))
    BY <1>1, <2>2, OtherwiseNothing DEF RecvHttpReq
  <2>4. PICK p \in q .. n + 1 : RequestIsAt(RecvBody(RecvHttpHead(h)), h, s, n, i, p)
    BY <1>1, <2>1, RequestReadFromHead
  <2>5. p \in i .. n + 1
    BY <1>1
  <2>6. QED
    BY <2>3, <2>4, <2>5
<1>3. CASE \E q \in i .. n + 1 : InBody(h, s, n, i, q)
  <2>1. PICK q \in i .. n + 1 : InBody(h, s, n, i, q)
    BY <1>3
  <2>2. h.recv_statu = "body"
    BY <2>1 DEF InBody
  <2>3. RecvHttpReq(h) = RecvBody(h)
    BY <1>1, <2>2, OtherwiseNothing DEF RecvHttpReq
  <2>4. RequestIsAt(RecvBody(h), h, s, n, i, q)
    BY <1>1, <2>1, RequestReadFromBody
  <2>5. QED
    BY <2>1, <2>3, <2>4
<1>4. CASE h.recv_statu = "line" /\ Seen(h, s, n, i) /\ h.req = NoRequest
  <2> DEFINE g == RecvHttpLine(h)
             out == RecvBody(RecvHttpHead(g))
  <2>1. /\ g \in Http
        /\ \/ Late(s, n, i) /\ Moved(g, h, h.unread, "line", 0, h.req)
           \/ RefusedAt(g, h, s, n, i, RequestText)
           \/ /\ TextAt(s, n, i, RequestText)
              /\ Moved(g, h, SubSeq(s, i + 2, n), "header", h.resp_statu, [h.req EXCEPT !.text = s[i]])
    BY <1>1, <1>4, RecvLine
  <2>2. RecvHttpReq(h) = out
    BY DEF RecvHttpReq
  <2>3. /\ HeadFrom(s, n, i, i) /\ RequestOf(s, i, i) = NoRequest
        /\ h.unread \in Seq(Symbol) /\ h.req \in Request
    <3>1. WellFormed(s, i, i) /\ RequestOf(s, i, i) = NoRequest
      BY <1>1, FirstLine, RequestStart
    <3>2. h.unread \in Seq(Symbol) /\ h.req \in Request
      BY <1>1, Fields
    <3>3. QED
      BY <1>1, <3>1, <3>2 DEF HeadFrom
  <2> HIDE DEF g
  <2>4. CASE Late(s, n, i) /\ Moved(g, h, h.unread, "line", 0, h.req)
    <3>1. /\ g \in Http /\ g.unread = h.unread /\ g.recv_statu = "line" /\ g.resp_statu = 0 /\ g.req = h.req
          /\ g.answers = h.answers /\ g.status = h.status
      BY <1>1, <2>3, <2>4, MovedFields
    <3>2. out = g
      BY <3>1, OtherwiseNothing
    <3>3. Open(g, s, n, i)
      BY <1>1, <1>4, <3>1 DEF Open, Seen
    <3>4. RequestIsAt(g, h, s, n, i, i)
      BY <2>3, <2>4, <3>1, <3>3 DEF RequestIsAt, Waits
    <3>5. QED
      BY <1>1, <2>2, <3>2, <3>4
  <2>5. CASE RefusedAt(g, h, s, n, i, RequestText)
    <3>1. PICK unread \in Seq(Symbol), statu \in {400, 414} :
             /\ Moved(g, h, unread, "error", statu, h.req)
             /\ statu = 414 => TooLongAt(s, n, i)
             /\ statu = 400 => NotALine(s, n, i, RequestText)
      BY <2>5 DEF RefusedAt
    <3>2. statu = 400 => BadAt(s, n, i, i)
      BY <3>1 DEF BadAt, NotALine
    <3>3. Errs(g, h, s, n, i, i)
      BY <1>4, <2>3, <3>1, <3>2 DEF Errs
    <3>4. g.recv_statu = "error"
      BY <1>1, <3>3, ErrsStays
    <3>5. out = g
      BY <2>1, <3>4, OtherwiseNothing
    <3>6. RequestIsAt(g, h, s, n, i, i)
      BY <2>3, <3>3 DEF RequestIsAt
    <3>7. QED
      BY <1>1, <2>2, <3>5, <3>6
  <2>6. CASE /\ TextAt(s, n, i, RequestText)
             /\ Moved(g, h, SubSeq(s, i + 2, n), "header", h.resp_statu, [h.req EXCEPT !.text = s[i]])
    <3> DEFINE u == SubSeq(s, i + 2, n)
               r == [h.req EXCEPT !.text = s[i]]
               q == i + 2
    <3>1. /\ WellFormed(s, i, q) /\ RequestOf(s, i, q) = [NoRequest EXCEPT !.text = s[i]]
          /\ s[i] \in RequestText /\ i + 1 <= n
      BY <1>1, <2>6, FirstLine, RequestStart DEF TextAt
    <3>2. q \in i .. n + 1 /\ q > i /\ q \in 1 .. n + 1 /\ q \in Nat
      BY <1>1, <3>1
    <3>3. u \in Seq(Symbol)
      <4> HIDE DEF q
      <4>1. SubSeq(s, q, n) \in Seq(Symbol)
        BY <3>2, Span
      <4>2. QED
        BY <4>1 DEF q
    <3>4. r = RequestOf(s, i, q)
      BY <1>4, <3>1, Zenon
    <3>5. r \in Request
      BY <1>1, <3>1, <3>2, <3>4, RequestType
    <3> HIDE DEF u, r
    <3>6. /\ g \in Http /\ g.unread = u /\ g.recv_statu = "header" /\ g.resp_statu = h.resp_statu /\ g.req = r
          /\ g.answers = h.answers /\ g.status = h.status
      <4>1. Moved(g, h, u, "header", h.resp_statu, r)
        BY <2>6 DEF u, r
      <4>2. QED
        BY <1>1, <3>3, <3>5, <4>1, MovedFields
    <3>7. InHead(g, s, n, i, q)
      BY <3>1, <3>2, <3>4, <3>6, Zenon DEF InHead, Seen, HeadFrom, u
    <3> HIDE DEF q
    <3>8. PICK p \in q .. n + 1 : RequestIsAt(out, g, s, n, i, p)
      BY <1>1, <3>6, <3>7, RequestReadFromHead
    <3>9. RequestIsAt(out, h, s, n, i, p)
      BY <3>6, <3>8, Alike
    <3>10. p \in i .. n + 1
      BY <1>1, <3>2
    <3>11. QED
      BY <2>2, <3>9, <3>10
  <2>7. QED
    BY <2>1, <2>4, <2>5, <2>6
<1>5. QED
  BY <1>2, <1>3, <1>4 DEF Open
-----------------------------------------------------------------------------
(* No step of the parser makes the input longer.                             *)
LEMMA UnreadLength ==
  ASSUME NEW g \in Http
  PROVE  Len(g.unread) \in Nat
<1> DEFINE u == g.unread
<1>1. u \in Seq(Symbol)
  BY Fields
<1> HIDE DEF u
<1>2. Len(u) \in Nat
  BY <1>1
<1>3. QED
  BY <1>2 DEF u

(* RecvHttpLine puts no input back, and takes some if it succeeds.         *)
LEMMA LineShortens ==
  ASSUME NEW g \in Http
  PROVE  /\ RecvHttpLine(g) \in Http
         /\ Len(RecvHttpLine(g).unread) <= Len(g.unread)
         /\ g.recv_statu = "line" => /\ RecvHttpLine(g).recv_statu # "over"
                                     /\ RecvHttpLine(g).recv_statu = "header" =>
                                           Len(RecvHttpLine(g).unread) < Len(g.unread)
                                     /\ RecvHttpLine(g).recv_statu # "body"
<1> DEFINE s == g.unread
           n == Len(s)
           out == RecvHttpLine(g)
<1>1. CASE g.recv_statu # "line"
  <2>1. out = g
    BY <1>1, OtherwiseNothing
  <2>2. QED
    BY <1>1, <2>1, UnreadLength
<1>2. CASE g.recv_statu = "line"
  <2>1. s \in Seq(Symbol) /\ g.req \in Request /\ g.resp_statu \in {0, 200, 400, 414}
    BY Fields
  <2>2. n \in 0 .. Len(s) /\ 1 \in 1 .. n + 1 /\ n \in Nat
    <3> HIDE DEF s
    <3>1. QED
      BY <2>1
  <2>3. Seen(g, s, n, 1)
    <3>1. \A t \in Seq(Symbol) : SubSeq(t, 1, Len(t)) = t
      OBVIOUS
    <3>2. QED
      BY <2>1, <3>1, Zenon DEF Seen
  <2> HIDE DEF out
  <2>4. /\ out \in Http
        /\ \/ Late(s, n, 1) /\ Moved(out, g, g.unread, "line", 0, g.req)
           \/ RefusedAt(out, g, s, n, 1, RequestText)
           \/ /\ TextAt(s, n, 1, RequestText)
              /\ Moved(out, g, SubSeq(s, 1 + 2, n), "header", g.resp_statu, [g.req EXCEPT !.text = s[1]])
              /\ Len(out.unread) < Len(g.unread)
    <3> HIDE DEF s, n
    <3>1. QED
      BY <1>2, <2>1, <2>2, <2>3, RecvLine DEF out
  <2>5. CASE Moved(out, g, g.unread, "line", 0, g.req)
    <3>1. out.unread = g.unread /\ out.recv_statu = "line"
      BY <2>1, <2>5, MovedFields
    <3>2. QED
      BY <2>4, <3>1, UnreadLength DEF out
  <2>6. CASE RefusedAt(out, g, s, n, 1, RequestText)
    <3>1. PICK unread \in Seq(Symbol), statu \in {400, 414} :
             Moved(out, g, unread, "error", statu, g.req) /\ Len(unread) <= Len(g.unread)
      BY <2>6 DEF RefusedAt
    <3>2. out.unread = unread /\ out.recv_statu = "error"
      BY <2>1, <3>1, MovedFields
    <3>3. QED
      BY <2>4, <3>1, <3>2 DEF out
  <2>7. CASE /\ TextAt(s, n, 1, RequestText)
             /\ Moved(out, g, SubSeq(s, 1 + 2, n), "header", g.resp_statu, [g.req EXCEPT !.text = s[1]])
             /\ Len(out.unread) < Len(g.unread)
    <3>1. out.recv_statu = "header"
      <4> DEFINE a == SubSeq(s, 1 + 2, n)
                 b == [g.req EXCEPT !.text = s[1]]
      <4>1. Moved(out, g, a, "header", g.resp_statu, b)
        BY <2>7
      <4> HIDE DEF a, b
      <4>2. QED
        BY <4>1 DEF Moved, Rec
    <3>2. Len(out.unread) <= Len(g.unread)
      BY <2>4, <2>7, UnreadLength
    <3>3. QED
      BY <2>4, <2>7, <3>1, <3>2 DEF out
  <2>8. QED
    BY <2>4, <2>5, <2>6, <2>7
<1>3. QED
  BY <1>1, <1>2

(* RecvHttpHead puts no input back.                                        *)
LEMMA HeadShortens ==
  ASSUME NEW g \in Http
  PROVE  RecvHttpHead(g) \in Http /\ Len(RecvHttpHead(g).unread) <= Len(g.unread)
<1> DEFINE D == Http
           size == [f \in D |-> Len(f.unread)]
           X == {f \in D : Len(RecvHttpHead(f).unread) <= Len(f.unread)}
<1>1. size \in [D -> Nat]
  BY UnreadLength
<1>2. ASSUME NEW x \in D, \A y \in D : size[y] < size[x] => y \in X
      PROVE  x \in X
  <2> DEFINE out == RecvHttpHead(x)
             next == RecvHttpHead(Following(x))
             line == Line(x.unread)
             rest == Without(x, line)
  <2>1. out = HeadRound(x, next) /\ x \in Http
    BY HeadRounds
  <2>2. \/ Following(x) \in Http /\ Len(Following(x).unread) < Len(x.unread) /\ HeadRound(x, next) = next
        \/ \A other : HeadRound(x, next) = HeadRound(x, other)
    BY <2>1, Rounds
  <2>3. CASE Following(x) \in Http /\ Len(Following(x).unread) < Len(x.unread) /\ HeadRound(x, next) = next
    <3>1. size[Following(x)] < size[x]
      BY <2>3
    <3>2. Len(next.unread) <= Len(Following(x).unread)
      BY <1>2, <2>3, <3>1
    <3>3. Len(next.unread) \in Nat /\ Len(Following(x).unread) \in Nat /\ Len(x.unread) \in Nat
      <4>1. next \in Http
        BY <2>3, HeadRounds
      <4>2. QED
        BY <2>1, <2>3, <4>1, UnreadLength
    <3>4. Len(out.unread) <= Len(x.unread)
      BY <2>1, <2>3, <3>2, <3>3
    <3>5. QED
      BY <3>4
  <2>4. CASE \A other : HeadRound(x, next) = HeadRound(x, other)
    <3>1. out = HeadRound(x, x)
      BY <2>1, <2>4
    <3>2. /\ rest \in Http
          /\ Moved(rest, x, rest.unread, x.recv_statu, x.resp_statu, x.req)
          /\ Len(rest.unread) <= Len(x.unread)
      <4> DEFINE s == x.unread
      <4>1. s \in Seq(Symbol)
        BY <2>1, Fields
      <4>2. Len(s) \in 0 .. Len(s) /\ 1 \in 1 .. Len(s) + 1 /\ SubSeq(s, 1, Len(s)) = s
        <5> HIDE DEF s
        <5>1. QED
          BY <4>1
      <4>3. Seen(x, s, Len(s), 1)
        BY <2>1, <4>2, Zenon DEF Seen
      <4>4. QED
        BY <4>1, <4>2, <4>3, LineKinds
    <3>3. /\ Fail(rest, 414).unread = rest.unread /\ Fail(rest, 400).unread = rest.unread
      <4>1. ASSUME NEW st \in {400, 414}
            PROVE  Fail(rest, st).unread = rest.unread
        <5>1. Moved(Fail(rest, st), x, rest.unread, "error", st, x.req)
          BY <2>1, <3>2, Failed
        <5>2. rest.unread \in Seq(Symbol) /\ x.req \in Request
          BY <2>1, <3>2, Fields
        <5> HIDE DEF rest
        <5>3. QED
          BY <2>1, <5>1, <5>2, MovedFields
      <4>2. QED
        BY <4>1
    <3>4. [rest EXCEPT !.recv_statu = "body"].unread = rest.unread
      <4> HIDE DEF rest
      <4>1. [rest EXCEPT !.recv_statu = "body"]
              = Rec(rest.unread, "body", rest.resp_statu, rest.req, rest.answers, rest.status)
        BY <3>2, EditRecv
      <4>2. QED
        BY <4>1 DEF Rec
    <3> DEFINE e == <<"nl">>
               f == [rest EXCEPT !.recv_statu = "body"]
               long == TooLong(x, line)
               first == line[1]
    <3>e. HeadRound(x, x) = IF x.recv_statu # "header" THEN x
                            ELSE IF long THEN Fail(rest, 414)
                            ELSE IF line = <<>> THEN x
                            ELSE IF line = e THEN f
                            ELSE IF first \notin HeaderText THEN Fail(rest, 400)
                            ELSE x
      BY DEF HeadRound
    <3> HIDE DEF rest, line, out, next, e, f, long, first
    <3>5. \/ out = x
          \/ out = Fail(rest, 414) \/ out = Fail(rest, 400)
          \/ out = [rest EXCEPT !.recv_statu = "body"]
      BY <3>1, <3>e DEF f
    <3>6. out.unread = x.unread \/ out.unread = rest.unread
      BY <3>3, <3>4, <3>5, Zenon
    <3>7. Len(out.unread) <= Len(x.unread)
      BY <2>1, <3>2, <3>6, UnreadLength
    <3>8. QED
      BY <3>7 DEF out
  <2>5. QED
    BY <2>2, <2>3, <2>4
<1>3. \A x \in D : x \in X
  <2> HIDE DEF X, D, size
  <2>1. QED
    BY <1>1, <1>2, SizesBySteps
<1>4. QED
  BY <1>3, HeadRounds

(* RecvHttpBody puts no input back.                                        *)
LEMMA BodyShortens ==
  ASSUME NEW h \in Http
  PROVE  RecvBody(h) \in Http /\ Len(RecvBody(h).unread) <= Len(h.unread)
<1> DEFINE u == h.unread
           reallen == h.req.length - Len(h.req.body)
           k == IF Len(h.unread) < reallen THEN Len(h.unread) ELSE reallen
           piece == SubSeq(h.unread, 1, k)
           m == Len(piece) + 1
           v == SubSeq(u, m, Len(u))
           rest == Without(h, piece)
           more == [rest EXCEPT !.req.body = @ \o piece]
<1>1. u \in Seq(Symbol) /\ Len(u) \in Nat
  BY Fields, UnreadLength
<1>2. reallen \in Int
  <2> DEFINE b == h.req.body
             l == h.req.length
  <2>1. b \in Seq(Symbol) /\ l \in Nat
    BY Fields, RequestFields
  <2> HIDE DEF b, l
  <2>2. l - Len(b) \in Int
    BY <2>1
  <2>3. QED
    BY <2>2 DEF b, l
<1>3. k \in Int /\ k <= Len(u)
  <2> HIDE DEF reallen
  <2>1. QED
    BY <1>1, <1>2
<1> HIDE DEF u, k
<1>4. piece \in Seq(Symbol) /\ Len(piece) \in Nat
  <2>1. piece = SubSeq(u, 1, k)
    BY DEF u
  <2> HIDE DEF piece
  <2>2. CASE k < 1
    <3>1. piece = <<>>
      BY <1>1, <1>3, <2>1, <2>2
    <3>2. QED
      BY <3>1
  <2>3. CASE k >= 1
    <3>1. k \in 0 .. Len(u) /\ 1 \in 1 .. k + 1
      BY <1>1, <1>3, <2>3
    <3>2. piece \in Seq(Symbol) /\ Len(piece) = k + 1 - 1
      BY <1>1, <2>1, <3>1, Span
    <3>3. QED
      BY <3>2
  <2>4. QED
    BY <1>3, <2>2, <2>3
<1> HIDE DEF piece
<1>5. v \in Seq(Symbol) /\ Len(v) <= Len(u)
  <2>1. m \in Nat /\ m >= 1
    BY <1>4
  <2> DEFINE l == Len(u)
  <2>2. l \in Nat /\ l <= Len(u)
    BY <1>1
  <2> HIDE DEF m, l
  <2>3. SubSeq(u, m, l) \in Seq(Symbol) /\ Len(SubSeq(u, m, l)) = IF m <= l THEN l - m + 1 ELSE 0
    BY <1>1, <2>1, <2>2, Part
  <2>4. Len(SubSeq(u, m, l)) <= l
    BY <2>1, <2>2, <2>3
  <2>5. QED
    BY <2>3, <2>4 DEF l
<1>6. rest = Rec(v, h.recv_statu, h.resp_statu, h.req, h.answers, h.status)
  <2>1. rest = [h EXCEPT !.unread = v]
    BY DEF Without, u
  <2> HIDE DEF rest, v
  <2>2. QED
    BY <2>1, EditUnread
<1>7. /\ h.recv_statu \in {"line", "header", "body", "over", "error"}
      /\ h.resp_statu \in {0, 200, 400, 414} /\ h.req \in Request /\ h.answers \in Seq(Answer)
      /\ h.status \in {"connected", "disconnecting", "disconnected"}
  BY Fields
<1> HIDE DEF v, rest
<1>8. rest \in Http /\ rest.unread = v /\ rest.req = h.req
  <2>1. rest \in Http
    BY <1>5, <1>6, <1>7, RecType
  <2>2. QED
    BY <1>6, <2>1 DEF Rec
<1> DEFINE d == rest.req.body \o piece
           r == [rest.req EXCEPT !.body = d]
<1>9. d \in Seq(Symbol)
  <2> DEFINE b == rest.req.body
  <2>1. b \in Seq(Symbol)
    BY <1>7, <1>8, RequestFields
  <2> HIDE DEF b
  <2>2. b \o piece \in Seq(Symbol)
    BY <1>4, <2>1
  <2>3. QED
    BY <2>2 DEF b
<1>10. r \in Request
  <2> DEFINE rq == rest.req
  <2> HIDE DEF d
  <2>1. rq \in Request
    BY <1>7, <1>8
  <2> HIDE DEF rq
  <2>2. [rq EXCEPT !.body = d] \in Request
    BY <1>9, <2>1, RequestFields
  <2>3. QED
    BY <2>2 DEF rq
<1>11. more = [rest EXCEPT !.req.body = d]
  OBVIOUS
<1>12. more \in Http /\ more.unread = v
  <2> HIDE DEF d, more
  <2>1. more = Rec(rest.unread, rest.recv_statu, rest.resp_statu, r, rest.answers, rest.status)
    BY <1>8, <1>11, EditBody
  <2> HIDE DEF r
  <2>2. /\ rest.recv_statu \in {"line", "header", "body", "over", "error"} /\ rest.unread \in Seq(Symbol)
        /\ rest.resp_statu \in {0, 200, 400, 414} /\ rest.answers \in Seq(Answer)
        /\ rest.status \in {"connected", "disconnecting", "disconnected"}
    BY <1>8, Fields
  <2>3. more \in Http
    BY <1>10, <2>1, <2>2, RecType
  <2>4. more.unread = rest.unread
    BY <2>1 DEF Rec
  <2>5. QED
    BY <1>8, <2>3, <2>4
<1>13. RecvBody(h) = IF h.recv_statu # "body" THEN h
                     ELSE IF Len(piece) = reallen THEN [more EXCEPT !.recv_statu = "over"]
                     ELSE more
  BY DEF RecvBody, piece, rest, k
<1> HIDE DEF more, reallen
<1> DEFINE o == [more EXCEPT !.recv_statu = "over"]
<1>14. o \in Http /\ o.unread = v
  <2>1. o = Rec(more.unread, "over", more.resp_statu, more.req, more.answers, more.status)
    BY <1>12, EditRecv
  <2>2. /\ more.unread \in Seq(Symbol) /\ more.req \in Request
        /\ more.resp_statu \in {0, 200, 400, 414} /\ more.answers \in Seq(Answer)
        /\ more.status \in {"connected", "disconnecting", "disconnected"}
    BY <1>12, Fields
  <2> HIDE DEF o
  <2>3. o \in Http
    BY <2>1, <2>2, RecType
  <2>4. o.unread = more.unread
    BY <2>1 DEF Rec
  <2>5. QED
    BY <1>12, <2>3, <2>4
<1> HIDE DEF o
<1>15. RecvBody(h) = h \/ RecvBody(h) = o \/ RecvBody(h) = more
  BY <1>13 DEF o
<1>16. QED
  BY <1>1, <1>5, <1>12, <1>14, <1>15 DEF u
-----------------------------------------------------------------------------
(* What a request is answered with.                                          *)
Told(req, statu) ==
    WriteResponse(req, IF statu >= 400 THEN ErrorHandler(statu) ELSE Router(req, statu))

(* HttpContext::Reset leaves a request.                                    *)
LEMMA NoRequestType == NoRequest \in Request
BY DEF NoRequest, Request

(* HttpServer::WriteResponse of a request is an answer.                    *)
LEMMA ToldType ==
  ASSUME NEW req \in Request, NEW statu \in {0, 200, 400, 414}
  PROVE  Told(req, statu) \in Answer
<1> DEFINE res == IF statu >= 400 THEN ErrorHandler(statu) ELSE Router(req, statu)
<1>1. NoRequest \in Request
  BY NoRequestType
<1>2. res.status \in {0, 200, 400, 404, 414} /\ res.echo \in Request
  <2> HIDE DEF Request, NoRequest
  <2>1. CASE statu >= 400
    BY <1>1, <2>1 DEF ErrorHandler
  <2>2. CASE ~(statu >= 400) /\ req.text = "miss"
    BY <1>1, <2>2 DEF Router
  <2>3. CASE ~(statu >= 400) /\ req.text # "miss"
    BY <2>3 DEF Router
  <2>4. QED
    BY <2>1, <2>2, <2>3
<1> HIDE DEF res
<1>3. Told(req, statu) = [status |-> res.status, echo |-> res.echo, close |-> req.connection # "keep-alive"]
  BY Zenon DEF Told, WriteResponse, res
<1> DEFINE c == req.connection # "keep-alive"
<1>4. c \in BOOLEAN
  OBVIOUS
<1> HIDE DEF c, Request
<1>5. [status |-> res.status, echo |-> res.echo, close |-> c] \in Answer
  BY <1>2, <1>4 DEF Answer
<1>6. QED
  BY <1>3, <1>5 DEF c

(* A response is added to the answers and the context is empty again.      *)
LEMMA Responded ==
  ASSUME NEW got \in Http
  PROVE  LET a == Told(got.req, got.resp_statu)
             out == Reset(Respond(got))
         IN  /\ a \in Answer /\ Append(got.answers, a) \in Seq(Answer)
             /\ out \in Http
             /\ out = Rec(got.unread, "line", 200, NoRequest, Append(got.answers, a), got.status)
             /\ Last(out.answers) = a
<1> DEFINE a == Told(got.req, got.resp_statu)
           l == got.answers
           b == Append(l, a)
           mid == Respond(got)
           out == Reset(mid)
<1>1. /\ got = Rec(got.unread, got.recv_statu, got.resp_statu, got.req, got.answers, got.status)
      /\ got.unread \in Seq(Symbol) /\ got.recv_statu \in {"line", "header", "body", "over", "error"}
      /\ got.resp_statu \in {0, 200, 400, 414} /\ got.req \in Request
      /\ l \in Seq(Answer) /\ got.status \in {"connected", "disconnecting", "disconnected"}
  BY Fields
<1>2. a \in Answer
  BY <1>1, ToldType
<1> HIDE DEF a
<1>3. b \in Seq(Answer) /\ b[Len(b)] = a
  <2> HIDE DEF l
  <2> DEFINE T == Answer
  <2>1. a \in T /\ l \in Seq(T)
    BY <1>1, <1>2
  <2> HIDE DEF T
  <2>2. Append(l, a) \in Seq(T) /\ Append(l, a)[Len(Append(l, a))] = a
    BY <2>1
  <2>3. QED
    BY <2>2 DEF T
<1>4. mid = [got EXCEPT !.answers = b]
  BY DEF Respond, a, Told
<1> HIDE DEF b, l, mid
<1>5. mid = Rec(got.unread, got.recv_statu, got.resp_statu, got.req, b, got.status)
  BY <1>4, EditAnswers
<1>6. mid \in Http
  BY <1>1, <1>3, <1>5, RecType
<1>7. mid.unread = got.unread /\ mid.answers = b /\ mid.status = got.status
  BY <1>5 DEF Rec
<1> DEFINE c == [mid EXCEPT !.recv_statu = "line"]
           d == [c EXCEPT !.resp_statu = 200]
           e == [d EXCEPT !.req = NoRequest]
<1>8. out = e
  BY DEF Reset
<1>9. NoRequest \in Request
  BY NoRequestType
<1> HIDE DEF out, c, d, e
<1>10. c = Rec(mid.unread, "line", mid.resp_statu, mid.req, mid.answers, mid.status) /\ c \in Http
  <2>1. c = Rec(mid.unread, "line", mid.resp_statu, mid.req, mid.answers, mid.status)
    BY <1>6, EditRecv DEF c
  <2>2. /\ mid.unread \in Seq(Symbol) /\ mid.resp_statu \in {0, 200, 400, 414}
        /\ mid.req \in Request /\ mid.answers \in Seq(Answer)
        /\ mid.status \in {"connected", "disconnecting", "disconnected"}
    BY <1>6, Fields
  <2>3. QED
    BY <2>1, <2>2, RecType
<1>11. c.unread = got.unread /\ c.recv_statu = "line" /\ c.answers = b /\ c.status = got.status
  BY <1>7, <1>10 DEF Rec
<1>12. d = Rec(c.unread, c.recv_statu, 200, c.req, c.answers, c.status) /\ d \in Http
  <2>1. d = Rec(c.unread, c.recv_statu, 200, c.req, c.answers, c.status)
    BY <1>10, EditResp DEF d
  <2>2. /\ c.unread \in Seq(Symbol) /\ c.recv_statu \in {"line", "header", "body", "over", "error"}
        /\ c.req \in Request /\ c.answers \in Seq(Answer)
        /\ c.status \in {"connected", "disconnecting", "disconnected"}
    BY <1>10, Fields
  <2>3. QED
    BY <2>1, <2>2, RecType
<1>13. d.unread = got.unread /\ d.recv_statu = "line" /\ d.resp_statu = 200 /\ d.answers = b /\ d.status = got.status
  BY <1>11, <1>12 DEF Rec
<1>14. e = Rec(d.unread, d.recv_statu, d.resp_statu, NoRequest, d.answers, d.status)
  BY <1>12, EditReq DEF e
<1> HIDE DEF NoRequest
<1>15. e = Rec(got.unread, "line", 200, NoRequest, b, got.status)
  BY <1>13, <1>14
<1>16. e \in Http
  BY <1>1, <1>3, <1>9, <1>15, RecType
<1>17. e.answers = b
  BY <1>15 DEF Rec
<1>18. Last(out.answers) = a
  BY <1>3, <1>8, <1>17 DEF Last
<1>19. QED
  BY <1>2, <1>3, <1>8, <1>15, <1>16, <1>18 DEF a, b, l, mid, out
-----------------------------------------------------------------------------
(* A round of OnMessage, without the next one.                               *)
Answered(g) ==
    LET out == Reset(Respond(RecvHttpReq(g)))
    IN  [out EXCEPT !.status = IF Last(out.answers).close THEN "disconnecting" ELSE @]

Rejected(g) ==
    [Reset(Respond(RecvHttpReq(g))) EXCEPT !.unread = <<>>, !.status = "disconnecting"]

MessageRound(g, next) ==
    LET got == RecvHttpReq(g)
    IN  IF g.unread = <<>> THEN g
        ELSE IF got.resp_statu >= 400 THEN Rejected(g)
        ELSE IF got.recv_statu # "over" THEN got
        ELSE next

(* What a round makes of a context.                                          *)
LEMMA AnsweredIs ==
  ASSUME NEW g \in Http, NEW got, got = RecvHttpReq(g), got \in Http
  PROVE  LET a == Told(got.req, got.resp_statu)
             all == Append(got.answers, a)
         IN  /\ a \in Answer /\ all \in Seq(Answer)
             /\ Answered(g) \in Http
             /\ Answered(g) = Rec(got.unread, "line", 200, NoRequest, all,
                                  IF a.close THEN "disconnecting" ELSE got.status)
             /\ Rejected(g) \in Http
             /\ Rejected(g) = Rec(<<>>, "line", 200, NoRequest, all, "disconnecting")
<1> DEFINE a == Told(got.req, got.resp_statu)
           all == Append(got.answers, a)
           out == Reset(Respond(got))
           none == <<>>
           t == IF a.close THEN "disconnecting" ELSE got.status
           out2 == [out EXCEPT !.unread = none]
<1>1. /\ a \in Answer /\ all \in Seq(Answer)
      /\ out \in Http
      /\ out = Rec(got.unread, "line", 200, NoRequest, all, got.status)
      /\ Last(out.answers) = a
  BY Responded
<1>2. none \in Seq(Symbol)
  OBVIOUS
<1>3. /\ got.unread \in Seq(Symbol) /\ got.status \in {"connected", "disconnecting", "disconnected"}
  BY Fields
<1>4. Answered(g) = [out EXCEPT !.status = IF a.close THEN "disconnecting" ELSE @]
  BY <1>1, Zenon DEF Answered
<1>5. Rejected(g) = [out2 EXCEPT !.status = "disconnecting"]
  <2> HIDE DEF none, out
  <2>1. [out EXCEPT !.unread = none, !.status = "disconnecting"] = [out2 EXCEPT !.status = "disconnecting"]
    OBVIOUS
  <2>2. Rejected(g) = [out EXCEPT !.unread = none, !.status = "disconnecting"]
    BY Zenon DEF Rejected, out, none
  <2>3. QED
    BY <2>1, <2>2
<1> HIDE DEF a, all, out, none
<1>6. out.status = got.status /\ out.unread = got.unread /\ out.recv_statu = "line" /\ out.resp_statu = 200
      /\ out.req = NoRequest /\ out.answers = all
  BY <1>1, RecFields
<1>7. Answered(g) = [out EXCEPT !.status = t]
  BY <1>4, <1>6
<1>8. t \in {"connected", "disconnecting", "disconnected"}
  BY <1>3
<1> HIDE DEF t
<1>9. Answered(g) = Rec(got.unread, "line", 200, NoRequest, all, t)
  <2>0. out \in Http
    BY <1>1
  <2>1. Answered(g) = Rec(out.unread, out.recv_statu, out.resp_statu, out.req, out.answers, t)
    BY <2>0, <1>7, EditStatus
  <2>2. QED
    BY <1>6, <2>1
<1>10. Answered(g) \in Http
  BY <1>1, <1>3, <1>8, <1>9, NoRequestType, RecType
<1>11. out2 = Rec(none, "line", 200, NoRequest, all, got.status)
  <2>1. out2 = Rec(none, out.recv_statu, out.resp_statu, out.req, out.answers, out.status)
    BY <1>1, EditUnread
  <2>2. QED
    BY <1>6, <2>1
<1>12. out2 \in Http
  BY <1>1, <1>2, <1>3, <1>11, NoRequestType, RecType
<1> HIDE DEF out2
<1>13. Rejected(g) = Rec(none, "line", 200, NoRequest, all, "disconnecting")
  <2>1. Rejected(g) = Rec(out2.unread, out2.recv_statu, out2.resp_statu, out2.req, out2.answers, "disconnecting")
    BY <1>5, <1>12, EditStatus
  <2>2. out2.unread = none /\ out2.recv_statu = "line" /\ out2.resp_statu = 200
        /\ out2.req = NoRequest /\ out2.answers = all
    BY <1>11, RecFields
  <2>3. QED
    BY <2>1, <2>2
<1>14. Rejected(g) \in Http
  BY <1>1, <1>2, <1>13, NoRequestType, RecType
<1>15. QED
  BY <1>1, <1>9, <1>10, <1>13, <1>14 DEF a, all, none, t

(* A round that leaves no error and is followed by another has read a line.  *)
Before(g) == 2 * Len(g.unread) + (IF g.recv_statu = "line" THEN 0 ELSE 1)

(* A request that is read completely took some of the input: the loop of   *)
(* OnMessage ends.                                                         *)
LEMMA ReqShortens ==
  ASSUME NEW g \in Http
  PROVE  LET got == RecvHttpReq(g)
         IN  /\ got \in Http
             /\ Len(got.unread) <= Len(g.unread)
             /\ got.recv_statu = "over" => 2 * Len(got.unread) < Before(g)
<1> DEFINE got == RecvHttpReq(g)
           a == RecvHttpLine(g)
           b == RecvHttpHead(a)
<1>1. /\ a \in Http
      /\ Len(a.unread) <= Len(g.unread)
      /\ g.recv_statu = "line" => /\ a.recv_statu # "over"
                                  /\ a.recv_statu = "header" => Len(a.unread) < Len(g.unread)
                                  /\ a.recv_statu # "body"
  BY LineShortens
<1> HIDE DEF a
<1>2. b \in Http /\ Len(b.unread) <= Len(a.unread)
  BY <1>1, HeadShortens
<1>3. a.recv_statu # "header" => b = a
  BY <1>1, OtherwiseNothing
<1> HIDE DEF b
<1>4. got = RecvBody(b)
  BY Zenon DEF RecvHttpReq, a, b
<1>5. RecvBody(b) \in Http /\ Len(RecvBody(b).unread) <= Len(b.unread)
  BY <1>2, BodyShortens
<1>6. b.recv_statu # "body" => got = b
  BY <1>2, <1>4, OtherwiseNothing
<1> HIDE DEF got
<1>7. got \in Http /\ Len(got.unread) <= Len(b.unread)
  BY <1>4, <1>5
<1> DEFINE l == Len(g.unread)
           la == Len(a.unread)
           lb == Len(b.unread)
           lg == Len(got.unread)
<1>8. l \in Nat /\ la \in Nat /\ lb \in Nat /\ lg \in Nat
  BY <1>1, <1>2, <1>7, UnreadLength
<1>9. lg <= lb /\ lb <= la /\ la <= l
  BY <1>1, <1>2, <1>7
<1> HIDE DEF l, la, lb, lg
<1>10. lg <= l
  BY <1>8, <1>9
<1>11. ASSUME got.recv_statu = "over", g.recv_statu = "line"
       PROVE  lg < l
  <2>1. CASE a.recv_statu = "header"
    <3>1. la < l
      BY <1>1, <1>11, <2>1 DEF la, l
    <3>2. QED
      BY <1>8, <1>9, <3>1
  <2>2. CASE a.recv_statu # "header"
    <3>1. b = a /\ a.recv_statu # "body" /\ a.recv_statu # "over"
      BY <1>1, <1>3, <1>11, <2>2
    <3>2. got = b
      BY <1>6, <3>1
    <3>3. QED
      BY <1>11, <3>1, <3>2
  <2>3. QED
    BY <2>1, <2>2
<1>12. ASSUME got.recv_statu = "over"
       PROVE  2 * lg < 2 * l + (IF g.recv_statu = "line" THEN 0 ELSE 1)
  BY <1>8, <1>10, <1>11, <1>12
<1>13. QED
  BY <1>7, <1>10, <1>12 DEF Before, got, l, lg
(* A request that is answered leaves less to read.                           *)
LEMMA AnsweredShortens ==
  ASSUME NEW g \in Http
  PROVE  /\ Before(g) \in Nat
         /\ RecvHttpReq(g) \in Http
         /\ Answered(g) \in Http /\ Rejected(g) \in Http
         /\ RecvHttpReq(g).recv_statu = "over" => Before(Answered(g)) < Before(g)
<1> DEFINE got == RecvHttpReq(g)
<1>1. got \in Http /\ (got.recv_statu = "over" => 2 * Len(got.unread) < Before(g))
  BY ReqShortens
<1>2. /\ Answered(g) \in Http /\ Rejected(g) \in Http
      /\ Answered(g).unread = got.unread /\ Answered(g).recv_statu = "line"
  <2> DEFINE a == Told(got.req, got.resp_statu)
             all == Append(got.answers, a)
             t == IF a.close THEN "disconnecting" ELSE got.status
  <2>1. /\ Answered(g) \in Http
        /\ Answered(g) = Rec(got.unread, "line", 200, NoRequest, all, t)
        /\ Rejected(g) \in Http
    BY <1>1, AnsweredIs
  <2> HIDE DEF got, all, t
  <2>2. QED
    BY <2>1, RecFields
<1>3. Before(g) \in Nat
  <2> DEFINE l == Len(g.unread)
  <2>1. l \in Nat
    BY UnreadLength
  <2> HIDE DEF l
  <2>2. 2 * l + (IF g.recv_statu = "line" THEN 0 ELSE 1) \in Nat
    BY <2>1
  <2>3. QED
    BY <2>2 DEF Before, l
<1> HIDE DEF got
<1>4. Before(Answered(g)) = 2 * Len(got.unread)
  <2> DEFINE l == Len(got.unread)
  <2>1. l \in Nat
    BY <1>1, UnreadLength
  <2> HIDE DEF l
  <2>2. 2 * l + 0 = 2 * l
    BY <2>1
  <2>3. QED
    BY <1>2, <2>2 DEF Before, l
<1>5. QED
  BY <1>1, <1>2, <1>3, <1>4 DEF got

(* A round of OnMessage is the last, or another follows that has less.       *)
LEMMA RoundsOfMessage ==
  ASSUME NEW g \in Http, NEW next
  PROVE  /\ Before(g) \in Nat
         /\ next \in Http => MessageRound(g, next) \in Http
         /\ \/ /\ Answered(g) \in Http /\ Before(Answered(g)) < Before(g)
               /\ MessageRound(g, next) = next
            \/ \A other : MessageRound(g, next) = MessageRound(g, other)
<1> DEFINE got == RecvHttpReq(g)
           nobytes == g.unread = <<>>
           bad == got.resp_statu >= 400
           over == got.recv_statu = "over"
<1>1. /\ Before(g) \in Nat /\ got \in Http /\ Answered(g) \in Http /\ Rejected(g) \in Http
      /\ over => Before(Answered(g)) < Before(g)
  BY AnsweredShortens
<1>2. \A x : MessageRound(g, x) = IF nobytes THEN g
                                 ELSE IF bad THEN Rejected(g)
                                 ELSE IF ~over THEN got ELSE x
  BY Zenon DEF MessageRound
<1> HIDE DEF got, nobytes, bad, over
<1>3. CASE ~nobytes /\ ~bad /\ over
  BY <1>1, <1>2, <1>3
<1>4. CASE nobytes \/ bad \/ ~over
  <2>1. \A x : MessageRound(g, x) = IF nobytes THEN g ELSE IF bad THEN Rejected(g) ELSE got
    BY <1>2, <1>4
  <2>2. MessageRound(g, next) \in Http
    BY <1>1, <2>1
  <2>3. \A other : MessageRound(g, next) = MessageRound(g, other)
    BY <2>1
  <2>4. QED
    BY <1>1, <2>2, <2>3
<1>5. QED
  BY <1>3, <1>4

(* The rounds of OnMessage, to the last.                                     *)
LEMMA MessageRounds ==
  /\ \A g \in Http : OnMessage(g) \in Http
  /\ \A g \in Http : OnMessage(g) = MessageRound(g, OnMessage(Answered(g)))
<1> DEFINE D == Http
           size == [g \in D |-> Before(g)]
           body == [f \in [D -> D] |-> [g \in D |-> MessageRound(g, f[Answered(g)])]]
<1>1. size \in [D -> Nat]
  BY RoundsOfMessage
<1>2. D # {}
  <2>1. Fresh \in D
    BY DEF Fresh, Http, NoRequest, Request
  <2>2. QED
    BY <2>1
<1> HIDE DEF D
<1>3. ASSUME NEW f \in [D -> D], NEW g \in D
      PROVE  MessageRound(g, f[Answered(g)]) \in D
  <2> DEFINE next == f[Answered(g)]
  <2>1. /\ next \in Http => MessageRound(g, next) \in Http
        /\ \/ Answered(g) \in Http
           \/ \A other : MessageRound(g, next) = MessageRound(g, other)
    BY RoundsOfMessage DEF D
  <2>2. CASE Answered(g) \in Http
    BY <2>1, <2>2 DEF D
  <2>3. CASE \A other : MessageRound(g, next) = MessageRound(g, other)
    <3> HIDE DEF next
    <3>1. MessageRound(g, next) = MessageRound(g, g)
      BY <2>3
    <3>2. MessageRound(g, g) \in Http
      BY RoundsOfMessage DEF D
    <3>3. QED
      BY <3>1, <3>2 DEF D, next
  <2>4. QED
    BY <2>1, <2>2, <2>3
<1>4. ASSUME NEW e \in [D -> D], NEW f \in [D -> D], NEW g \in D,
             \A h \in D : size[h] < size[g] => e[h] = f[h]
      PROVE  MessageRound(g, e[Answered(g)]) = MessageRound(g, f[Answered(g)])
  <2> DEFINE next == e[Answered(g)]
             other == f[Answered(g)]
  <2>1. \/ Answered(g) \in Http /\ Before(Answered(g)) < Before(g)
        \/ \A o : MessageRound(g, next) = MessageRound(g, o)
    BY RoundsOfMessage DEF D
  <2>2. CASE Answered(g) \in Http /\ Before(Answered(g)) < Before(g)
    <3>1. Answered(g) \in D /\ size[Answered(g)] < size[g]
      BY <2>2 DEF D
    <3>2. next = other
      BY <1>4, <3>1
    <3>3. QED
      BY <3>2
  <2>3. CASE \A o : MessageRound(g, next) = MessageRound(g, o)
    BY <2>3
  <2>4. QED
    BY <2>1, <2>2, <2>3
<1>5. Descends(D, D, size, body)
  <2>1. body \in [[D -> D] -> [D -> D]]
    BY <1>3
  <2>2. \A e, f \in [D -> D] : \A g \in D :
          (\A h \in D : size[h] < size[g] => e[h] = f[h]) => body[e][g] = body[f][g]
    <3> HIDE DEF size
    <3>1. QED
      BY <1>4
  <2>3. QED
    BY <1>1, <1>2, <2>1, <2>2 DEF Descends
<1>6. PICK f : Solves(f, D, D, body)
  <2> HIDE DEF size, body
  <2>1. QED
    BY <1>5, Recursion
<1>7. f = [g \in D |-> MessageRound(g, f[Answered(g)])]
  BY <1>6 DEF Solves
<1> DEFINE after[g \in D] == MessageRound(g, after[Answered(g)])
<1>8. after = [g \in D |-> MessageRound(g, after[Answered(g)])]
  BY <1>7
<1>9. ASSUME NEW h
      PROVE  OnMessage(h) = after[h]
  BY Zenon DEF OnMessage, MessageRound, Answered, Rejected, D
<1> HIDE DEF after
<1>10. after \in [D -> D]
  <2> DEFINE X == {g \in D : after[g] \in D}
  <2>1. ASSUME NEW g \in D, \A h \in D : size[h] < size[g] => h \in X
        PROVE  g \in X
    <3> DEFINE next == after[Answered(g)]
    <3>1. after[g] = MessageRound(g, next)
      BY <1>8
    <3>2. /\ next \in Http => MessageRound(g, next) \in Http
          /\ \/ Answered(g) \in Http /\ Before(Answered(g)) < Before(g)
             \/ \A other : MessageRound(g, next) = MessageRound(g, other)
      BY RoundsOfMessage DEF D
    <3>3. CASE Answered(g) \in Http /\ Before(Answered(g)) < Before(g)
      <4>1. Answered(g) \in D /\ size[Answered(g)] < size[g]
        BY <3>3 DEF D
      <4>2. next \in D
        BY <2>1, <4>1
      <4>3. QED
        BY <3>1, <3>2, <4>2 DEF D
    <3>4. CASE \A other : MessageRound(g, next) = MessageRound(g, other)
      <4> HIDE DEF next
      <4>1. MessageRound(g, next) = MessageRound(g, g)
        BY <3>4
      <4>2. MessageRound(g, g) \in Http
        BY RoundsOfMessage DEF D
      <4>3. QED
        BY <3>1, <4>1, <4>2 DEF D
    <3>5. QED
      BY <3>2, <3>3, <3>4
  <2>2. \A g \in D : g \in X
    <3> HIDE DEF X, size
    <3>1. QED
      BY <1>1, <2>1, SizesBySteps
  <2>3. QED
    BY <1>8, <2>2
<1>11. ASSUME NEW g \in Http
       PROVE  /\ OnMessage(g) \in Http
              /\ OnMessage(g) = MessageRound(g, OnMessage(Answered(g)))
  <2>1. g \in D
    BY DEF D
  <2>2. after[g] = MessageRound(g, after[Answered(g)]) /\ after[g] \in D
    BY <1>8, <1>10, <2>1
  <2>3. QED
    BY <1>9, <2>2, Zenon DEF D
<1>12. QED
  BY <1>11
-----------------------------------------------------------------------------
(* The answers from position i on, those after the first request from f.     *)
AnswersAt(s, n, i, j, f) ==
    LET ends    == {p \in j .. n : s[p] = "nl"}
        request == RequestOf(s, i, j)
        next    == j + request.length + 1
        whole   == [request EXCEPT !.body = SubSeq(s, j + 1, next - 1)]
        soon    == \E p \in ends : p < j + MaxLength
    IN  IF j > i /\ j \in ends
        THEN IF next > n + 1 THEN <<>>
             ELSE <<WriteResponse(whole, Router(whole, 200))>> \o f[next]
        ELSE IF ~soon /\ n >= j + MaxLength THEN <<WriteResponse(request, ErrorHandler(414))>>
        ELSE IF ends = {} THEN <<>>
        ELSE <<WriteResponse(request, ErrorHandler(400))>>

IsAnswers(f, s, n) ==
    /\ f \in [1 .. n + 1 -> Seq(Answer)]
    /\ \A i \in 1 .. n + 1 : f[i] = AnswersAt(s, n, i, HeadEnd(s, n, i), f)

(* The right lines end somewhere.                                            *)
LEMMA HeadEndFound ==
  ASSUME NEW s, NEW n \in Nat, NEW i \in 1 .. n + 1
  PROVE  HeadFrom(s, n, i, HeadEnd(s, n, i))
<1> DEFINE T == {x \in 0 .. n + 1 : \E q \in i .. n + 1 : x = n + 1 - q /\ WellFormed(s, i, q)}
<1>1. WellFormed(s, i, i)
  BY FirstLine
<1>2. n + 1 - i \in T
  BY <1>1
<1>3. T \in SUBSET Nat
  OBVIOUS
<1>4. PICK x \in T : \A y \in T : x <= y
  <2> HIDE DEF T
  <2>1. QED
    BY <1>2, <1>3, LeastNumber
<1>5. PICK q \in i .. n + 1 : x = n + 1 - q /\ WellFormed(s, i, q)
  BY <1>4
<1>6. ASSUME NEW m \in q + 1 .. n + 1, WellFormed(s, i, m)
      PROVE  FALSE
  <2>1. m \in i .. n + 1 /\ n + 1 - m \in 0 .. n + 1 /\ n + 1 - m < x
    BY <1>5
  <2>2. n + 1 - m \in T
    BY <1>6, <2>1
  <2>3. x <= n + 1 - m /\ x \in Nat
    BY <1>3, <1>4, <2>2
  <2>4. QED
    BY <2>1, <2>3
<1>7. \E j \in i .. n + 1 : WellFormed(s, i, j) /\ \A m \in j + 1 .. n + 1 : ~WellFormed(s, i, m)
  BY <1>5, <1>6
<1>8. HeadEnd(s, n, i) \in i .. n + 1 /\ WellFormed(s, i, HeadEnd(s, n, i))
  BY <1>7, Zenon DEF HeadEnd
<1>9. QED
  BY <1>8 DEF HeadFrom

(* The first line of a head that has one is that of a request.               *)
LEMMA HeadStarts ==
  ASSUME NEW s, NEW n \in Nat, NEW i \in 1 .. n + 1, NEW j, HeadFrom(s, n, i, j)
  PROVE  /\ j \in i .. n + 1 /\ i \in Nat /\ j \in Nat
         /\ i = j \/ s[i] \in RequestText
         /\ RequestOf(s, i, j) \in Request /\ RequestOf(s, i, j).length \in Nat
<1>1. j \in i .. n + 1 /\ i \in Nat /\ j \in Nat /\ WellFormed(s, i, j)
  BY DEF HeadFrom
<1>2. i = j \/ s[i] \in RequestText
  <2>1. ASSUME i # j
        PROVE  s[i] \in RequestText
    <3>1. i \in i .. j - 1 /\ (i - i) % 2 # 1
      <4>1. i - i = 0 /\ 0 % 2 # 1
        BY <1>1
      <4>2. QED
        BY <1>1, <2>1, <4>1
    <3>2. QED
      BY <1>1, <3>1 DEF WellFormed
  <2>2. QED
    BY <2>1
<1>3. RequestOf(s, i, j) \in Request
  BY <1>1, <1>2, RequestType
<1>4. RequestOf(s, i, j).length \in Nat
  BY <1>3, RequestFields
<1>5. QED
  BY <1>1, <1>2, <1>3, <1>4

(* What AnswersAt takes of f, and what it gives.                             *)
LEMMA AnswersAtIs ==
  ASSUME NEW s \in Seq(Symbol), NEW n \in 0 .. Len(s), NEW i \in 1 .. n + 1, NEW j, HeadFrom(s, n, i, j)
  PROVE  LET next == j + RequestOf(s, i, j).length + 1
         IN  \/ /\ next \in 1 .. n + 1 /\ next > i
                /\ \E a \in Answer : \A f : AnswersAt(s, n, i, j, f) = <<a>> \o f[next]
             \/ \E b \in Seq(Answer) : \A f : AnswersAt(s, n, i, j, f) = b
<1> DEFINE request == RequestOf(s, i, j)
           next == j + request.length + 1
           body == SubSeq(s, j + 1, next - 1)
           whole == [request EXCEPT !.body = body]
           ends == {p \in j .. n : s[p] = "nl"}
           soon == \E p \in ends : p < j + MaxLength
           none == <<>>
           a == WriteResponse(whole, Router(whole, 200))
           b == WriteResponse(request, ErrorHandler(414))
           c == WriteResponse(request, ErrorHandler(400))
<1>1. /\ j \in i .. n + 1 /\ i \in Nat /\ j \in Nat /\ n \in Nat
      /\ request \in Request /\ request.length \in Nat
  BY HeadStarts
<1> HIDE DEF request
<1>2. b \in Answer /\ c \in Answer
  <2>1. b = Told(request, 414) /\ c = Told(request, 400)
    BY DEF Told
  <2>2. Told(request, 414) \in Answer /\ Told(request, 400) \in Answer
    BY <1>1, ToldType
  <2>3. QED
    BY <2>1, <2>2
<1>3. ASSUME next <= n + 1
      PROVE  a \in Answer
  <2>1. body \in Seq(Symbol)
    <3> DEFINE x == j + 1
               y == next - 1
    <3>1. x \in Nat /\ y \in Nat /\ x >= 1 /\ y <= Len(s)
      BY <1>1, <1>3
    <3> HIDE DEF x, y
    <3>2. SubSeq(s, x, y) \in Seq(Symbol)
      BY <3>1, Part
    <3>3. QED
      BY <3>2 DEF x, y
  <2> HIDE DEF body
  <2>2. whole \in Request
    BY <1>1, <2>1, RequestFields
  <2> HIDE DEF whole
  <2>3. Told(whole, 200) \in Answer
    BY <2>2, ToldType
  <2>4. a = Told(whole, 200)
    BY DEF Told
  <2>5. QED
    BY <2>3, <2>4
<1>4. /\ none \in Seq(Answer) /\ <<b>> \in Seq(Answer) /\ <<c>> \in Seq(Answer)
  <2> HIDE DEF b, c
  <2> DEFINE T == Answer
  <2>1. b \in T /\ c \in T
    BY <1>2
  <2> HIDE DEF T
  <2>2. <<>> \in Seq(T) /\ <<b>> \in Seq(T) /\ <<c>> \in Seq(T)
    BY <2>1
  <2>3. QED
    BY <2>2 DEF T
<1> DEFINE more == j > i /\ j \in ends
           late == next > n + 1
           long == ~soon /\ n >= j + MaxLength
           out == ends = {}
<1>5. \A f : AnswersAt(s, n, i, j, f) =
               IF more THEN IF late THEN none ELSE <<a>> \o f[next]
               ELSE IF long THEN <<b>> ELSE IF out THEN none ELSE <<c>>
  BY Zenon DEF AnswersAt, request
<1>6. more /\ ~late => next \in 1 .. n + 1 /\ next > i
  BY <1>1
<1>7. ~late => next <= n + 1
  BY <1>1
<1> HIDE DEF a, b, c, none, long, out, next
<1>8. CASE more /\ ~late
  <2>1. \A f : AnswersAt(s, n, i, j, f) = <<a>> \o f[next]
    BY <1>5, <1>8
  <2>2. QED
    BY <1>3, <1>6, <1>7, <1>8, <2>1 DEF next, request
<1> HIDE DEF more, late
<1>9. CASE ~(more /\ ~late)
  <2>1. \/ \A f : AnswersAt(s, n, i, j, f) = none
        \/ \A f : AnswersAt(s, n, i, j, f) = <<b>>
        \/ \A f : AnswersAt(s, n, i, j, f) = <<c>>
    BY <1>5, <1>9
  <2>2. \E d \in Seq(Answer) : \A f : AnswersAt(s, n, i, j, f) = d
    BY <1>4, <2>1
  <2>3. QED
    BY <2>2
<1>10. QED
  BY <1>8, <1>9
(* The recursion of Answers.                                                 *)
LEMMA AnswersAreFound ==
  ASSUME NEW s \in Seq(Symbol), NEW n \in 0 .. Len(s)
  PROVE  \E f : IsAnswers(f, s, n) /\ Answers(s, n) = f[1]
<1> DEFINE D == 1 .. n + 1
           T == Seq(Answer)
           size == [i \in D |-> n + 1 - i]
           step(i, f) == AnswersAt(s, n, i, HeadEnd(s, n, i), f)
           body == [f \in [D -> T] |-> [i \in D |-> step(i, f)]]
<1>1. size \in [D -> Nat]
  OBVIOUS
<1>2. T # {} /\ 1 \in D
  <2> DEFINE none == <<>>
  <2>1. none \in T
    OBVIOUS
  <2> HIDE DEF none, T
  <2>2. QED
    BY <2>1
<1>3. ASSUME NEW i \in D
      PROVE  LET j == HeadEnd(s, n, i)
                 next == j + RequestOf(s, i, j).length + 1
             IN  \/ /\ next \in D /\ size[next] < size[i]
                    /\ \E a \in Answer : \A f : step(i, f) = <<a>> \o f[next]
                 \/ \E b \in T : \A f : step(i, f) = b
  <2> DEFINE j == HeadEnd(s, n, i)
             next == j + RequestOf(s, i, j).length + 1
  <2>1. HeadFrom(s, n, i, j)
    BY HeadEndFound
  <2> HIDE DEF j
  <2>2. \/ /\ next \in 1 .. n + 1 /\ next > i
           /\ \E a \in Answer : \A f : AnswersAt(s, n, i, j, f) = <<a>> \o f[next]
        \/ \E b \in Seq(Answer) : \A f : AnswersAt(s, n, i, j, f) = b
    BY <2>1, AnswersAtIs
  <2> HIDE DEF next
  <2>3. ASSUME next \in 1 .. n + 1, next > i
        PROVE  next \in D /\ size[next] < size[i]
    BY <2>3
  <2>4. QED
    BY <2>2, <2>3 DEF next, j
<1> HIDE DEF T, size, step
<1>4. ASSUME NEW a \in Answer, NEW t \in T
      PROVE  <<a>> \o t \in T
  <2> DEFINE S == Answer
  <2> HIDE DEF S
  <2>1. a \in S /\ t \in Seq(S)
    BY DEF S, T
  <2>2. <<a>> \in Seq(S)
    BY <2>1
  <2> DEFINE e == <<a>>
  <2> HIDE DEF e
  <2>3. e \o t \in Seq(S)
    BY <2>1, <2>2 DEF e
  <2>4. QED
    BY <2>3 DEF e, S, T
<1> HIDE DEF D
<1>5. ASSUME NEW f \in [D -> T], NEW i \in D
      PROVE  step(i, f) \in T
  <2> DEFINE j == HeadEnd(s, n, i)
             next == j + RequestOf(s, i, j).length + 1
  <2>1. \/ /\ next \in D
           /\ \E a \in Answer : \A g : step(i, g) = <<a>> \o g[next]
        \/ \E b \in T : \A g : step(i, g) = b
    BY <1>3
  <2> HIDE DEF next
  <2>2. CASE next \in D /\ \E a \in Answer : \A g : step(i, g) = <<a>> \o g[next]
    <3>1. PICK a \in Answer : \A g : step(i, g) = <<a>> \o g[next]
      BY <2>2
    <3> DEFINE t == f[next]
    <3>2. t \in T
      BY <2>2
    <3> HIDE DEF t
    <3>3. <<a>> \o t \in T
      BY <1>4, <3>2
    <3>4. step(i, f) = <<a>> \o t
      BY <3>1 DEF t
    <3>5. QED
      BY <3>3, <3>4
  <2>3. CASE \E b \in T : \A g : step(i, g) = b
    BY <2>3
  <2>4. QED
    BY <2>1, <2>2, <2>3
<1>6. ASSUME NEW e \in [D -> T], NEW f \in [D -> T], NEW i \in D,
             \A k \in D : size[k] < size[i] => e[k] = f[k]
      PROVE  step(i, e) = step(i, f)
  <2> DEFINE j == HeadEnd(s, n, i)
             next == j + RequestOf(s, i, j).length + 1
  <2>1. \/ /\ next \in D /\ size[next] < size[i]
           /\ \E a \in Answer : \A g : step(i, g) = <<a>> \o g[next]
        \/ \E b \in T : \A g : step(i, g) = b
    BY <1>3
  <2> HIDE DEF next
  <2>2. CASE /\ next \in D /\ size[next] < size[i]
             /\ \E a \in Answer : \A g : step(i, g) = <<a>> \o g[next]
    <3>1. PICK a \in Answer : \A g : step(i, g) = <<a>> \o g[next]
      BY <2>2
    <3>2. e[next] = f[next]
      BY <1>6, <2>2
    <3>3. step(i, e) = <<a>> \o e[next] /\ step(i, f) = <<a>> \o f[next]
      BY <3>1
    <3>4. QED
      BY <3>2, <3>3
  <2>3. CASE \E b \in T : \A g : step(i, g) = b
    BY <2>3
  <2>4. QED
    BY <2>1, <2>2, <2>3
<1>7. Descends(D, T, size, body)
  <2>1. body \in [[D -> T] -> [D -> T]]
    BY <1>5
  <2>2. \A e, f \in [D -> T] : \A i \in D :
          (\A k \in D : size[k] < size[i] => e[k] = f[k]) => body[e][i] = body[f][i]
    BY <1>6
  <2>3. QED
    BY <1>1, <1>2, <2>1, <2>2 DEF Descends
<1>8. PICK f : Solves(f, D, T, body)
  <2> HIDE DEF body
  <2>1. QED
    BY <1>7, Recursion
<1>9. f \in [D -> T] /\ f = [i \in D |-> AnswersAt(s, n, i, HeadEnd(s, n, i), f)]
  BY <1>8 DEF Solves, step
<1> DEFINE from[i \in D] == AnswersAt(s, n, i, HeadEnd(s, n, i), from)
<1>10. from = [i \in D |-> AnswersAt(s, n, i, HeadEnd(s, n, i), from)] /\ from \in [D -> T]
  <2> DEFINE Eq(g) == g = [i \in D |-> AnswersAt(s, n, i, HeadEnd(s, n, i), g)]
  <2>1. from = [i \in D |-> AnswersAt(s, n, i, HeadEnd(s, n, i), from)]
    BY <1>9
  <2> DEFINE X == {i \in D : from[i] = f[i]}
  <2>2. ASSUME NEW i \in D, \A k \in D : size[k] < size[i] => k \in X
        PROVE  i \in X
    <3> DEFINE j == HeadEnd(s, n, i)
               next == j + RequestOf(s, i, j).length + 1
    <3>1. \/ /\ next \in D /\ size[next] < size[i]
             /\ \E a \in Answer : \A g : step(i, g) = <<a>> \o g[next]
          \/ \E b \in T : \A g : step(i, g) = b
      BY <1>3
    <3>2. from[i] = step(i, from) /\ f[i] = step(i, f)
      BY <1>9, <2>1 DEF step
    <3> HIDE DEF next, from
    <3>3. CASE /\ next \in D /\ size[next] < size[i]
               /\ \E a \in Answer : \A g : step(i, g) = <<a>> \o g[next]
      <4>1. PICK a \in Answer : \A g : step(i, g) = <<a>> \o g[next]
        BY <3>3
      <4>2. from[next] = f[next]
        BY <2>2, <3>3
      <4>3. step(i, from) = <<a>> \o from[next] /\ step(i, f) = <<a>> \o f[next]
        BY <4>1
      <4>4. QED
        BY <3>2, <4>2, <4>3
    <3>4. CASE \E b \in T : \A g : step(i, g) = b
      BY <3>2, <3>4
    <3>5. QED
      BY <3>1, <3>3, <3>4
  <2>3. \A i \in D : i \in X
    <3> HIDE DEF X, from
    <3>1. QED
      BY <1>1, <2>2, SizesBySteps
  <2>4. \A i \in D : from[i] \in T
    BY <1>9, <2>3
  <2> HIDE DEF X
  <2>5. from \in [D -> T]
    BY <2>1, <2>4
  <2>6. QED
    BY <2>1, <2>5
<1>11. Answers(s, n) = from[1]
  BY Zenon DEF Answers, AnswersAt, D
<1> HIDE DEF from
<1>12. IsAnswers(from, s, n)
  <2>1. \A i \in D : from[i] = AnswersAt(s, n, i, HeadEnd(s, n, i), from)
    BY <1>10
  <2>2. QED
    BY <1>10, <2>1 DEF IsAnswers, D, T
<1>13. QED
  BY <1>11, <1>12
(* The answers from each position on, to the first n symbols.                *)
From(s, n) == CHOOSE f : IsAnswers(f, s, n) /\ Answers(s, n) = f[1]

(* Answers is computed from the end of the stream, one place at a time.    *)
LEMMA FromIs ==
  ASSUME NEW s \in Seq(Symbol), NEW n \in 0 .. Len(s)
  PROVE  /\ From(s, n) \in [1 .. n + 1 -> Seq(Answer)]
         /\ Answers(s, n) = From(s, n)[1]
         /\ \A i \in 1 .. n + 1, q \in Nat :
               HeadEnd(s, n, i) = q => From(s, n)[i] = AnswersAt(s, n, i, q, From(s, n))
<1>1. \E f : IsAnswers(f, s, n) /\ Answers(s, n) = f[1]
  BY AnswersAreFound
<1>2. IsAnswers(From(s, n), s, n) /\ Answers(s, n) = From(s, n)[1]
  BY <1>1, Zenon DEF From
<1>3. QED
  BY <1>2 DEF IsAnswers

(* What follows from the lines of a head that are right up to q, the first n *)
(* symbols having arrived, for the answers to these and more.                *)
AnswersFollow(s, n, m, i, q) ==
    LET f == From(s, m)
        request == RequestOf(s, i, q)
        last == q + request.length
    IN  /\ TooLongAt(s, n, q) => f[i] = <<Told(request, 414)>>
        /\ BadAt(s, n, i, q) => f[i] = <<Told(request, 400)>>
        /\ Waits(s, n, i, q) /\ m = n => f[i] = <<>>
        /\ q > i /\ q <= n /\ s[q] = "nl" /\ last <= n =>
              /\ last + 1 \in 1 .. m + 1
              /\ f[i] = <<Told([request EXCEPT !.body = SubSeq(s, q + 1, last)], 200)>> \o f[last + 1]

(* The answers from a place are the answer to the request there, and the   *)
(* answers from its end.                                                   *)
LEMMA AnswersStep ==
  ASSUME NEW s \in Seq(Symbol), NEW n \in 0 .. Len(s), NEW m \in n .. Len(s),
         NEW i \in 1 .. n + 1, NEW q, HeadFrom(s, n, i, q)
  PROVE  AnswersFollow(s, n, m, i, q)
<1> DEFINE f == From(s, m)
           request == RequestOf(s, i, q)
           last == q + request.length
           next == q + request.length + 1
           ends == {p \in q .. m : s[p] = "nl"}
           soon == \E p \in ends : p < q + MaxLength
           whole == [request EXCEPT !.body = SubSeq(s, q + 1, next - 1)]
           texts == IF q = i THEN RequestText ELSE HeaderText
           a == Told(whole, 200)
           b == Told(request, 414)
           c == Told(request, 400)
<1>1. /\ q \in i .. n + 1 /\ i \in Nat /\ q \in Nat /\ n \in Nat /\ m \in Nat /\ n <= m
      /\ request \in Request /\ request.length \in Nat
      /\ m \in 0 .. Len(s) /\ i \in 1 .. m + 1 /\ q \in i .. m + 1
  <2>1. q \in i .. n + 1 /\ i \in Nat /\ q \in Nat /\ request \in Request /\ request.length \in Nat
    BY HeadStarts
  <2>2. QED
    BY <2>1
<1>2. WellFormed(s, i, q)
  BY DEF HeadFrom
<1>3. ASSUME ~TextAt(s, m, q, texts)
      PROVE  f[i] = AnswersAt(s, m, i, q, f)
  <2>1. HeadEnd(s, m, i) = q
    BY <1>1, <1>2, <1>3, HeadEndIs
  <2>2. QED
    BY <1>1, <2>1, FromIs
<1>4. "nl" \notin RequestText /\ "nl" \notin HeaderText
  BY DEF RequestText, HeaderText, Length, Option
<1> HIDE DEF request, f
<1> DEFINE r == f[next]
<1>5. AnswersAt(s, m, i, q, f) =
         IF q > i /\ q \in ends
         THEN IF next > m + 1 THEN <<>> ELSE <<a>> \o r
         ELSE IF ~soon /\ m >= q + MaxLength THEN <<b>>
         ELSE IF ends = {} THEN <<>> ELSE <<c>>
  <2>1. a = WriteResponse(whole, Router(whole, 200))
    BY DEF Told
  <2>2. b = WriteResponse(request, ErrorHandler(414)) /\ c = WriteResponse(request, ErrorHandler(400))
    BY DEF Told
  <2> HIDE DEF a, b, c
  <2>3. QED
    BY <2>1, <2>2, Zenon DEF AnswersAt, request
<1> DEFINE none == <<>>
           one == <<a>> \o r
           two == <<b>>
           three == <<c>>
<1> HIDE DEF whole, none, one, two, three
<1>6. ASSUME TooLongAt(s, n, q)
      PROVE  f[i] = two
  <2>1. s[q] # "nl" /\ s[q + 1] # "nl" /\ n >= q + 2
    BY <1>1, <1>6 DEF TooLongAt, NoNewline
  <2>2. ~TextAt(s, m, q, texts)
    BY <2>1 DEF TextAt
  <2>3. q \notin ends /\ m >= q + MaxLength
    BY <1>1, <2>1 DEF MaxLength
  <2>4. ~soon
    BY <1>1, <2>1 DEF MaxLength
  <2>5. QED
    BY <1>3, <1>5, <2>2, <2>3, <2>4 DEF two
<1>7. ASSUME BadAt(s, n, i, q)
      PROVE  f[i] = three
  <2>1. /\ q <= n /\ s[q] \notin texts /\ (s[q] = "nl" \/ (q + 1 <= n /\ s[q + 1] = "nl"))
        /\ q > i => s[q] # "nl"
    BY <1>1, <1>7 DEF BadAt
  <2>2. ~TextAt(s, m, q, texts)
    BY <2>1 DEF TextAt
  <2> HIDE DEF texts
  <2>3. \E p \in ends : p < q + MaxLength
    <3>1. CASE s[q] = "nl"
      <4>1. q \in ends /\ q < q + MaxLength
        BY <1>1, <2>1, <3>1 DEF MaxLength
      <4>2. QED
        BY <4>1
    <3>2. CASE q + 1 <= n /\ s[q + 1] = "nl"
      <4>1. q + 1 \in ends /\ q + 1 < q + MaxLength
        BY <1>1, <3>2 DEF MaxLength
      <4>2. QED
        BY <4>1
    <3>3. QED
      BY <2>1, <3>1, <3>2
  <2>4. ends # {} /\ soon
    BY <2>3
  <2>5. ~(q > i /\ q \in ends)
    BY <2>1
  <2> HIDE DEF ends, soon
  <2>6. QED
    BY <1>3, <1>5, <2>2, <2>4, <2>5 DEF three
<1>8. ASSUME Waits(s, n, i, q), m = n
      PROVE  f[i] = none
  <2>1. CASE Late(s, n, q)
    <3>1. \A p \in q .. m : s[p] # "nl"
      BY <1>8, <2>1 DEF Late, NoNewline
    <3>2. n < q + 2
      BY <2>1 DEF Late
    <3>3. ~TextAt(s, m, q, texts)
      <4>1. ASSUME q + 1 <= m
            PROVE  s[q + 1] # "nl"
        BY <1>1, <3>1, <4>1
      <4>2. QED
        BY <4>1 DEF TextAt
    <3>4. ends = {}
      BY <3>1
    <3>5. ~(m >= q + MaxLength)
      BY <1>1, <1>8, <3>2 DEF MaxLength
    <3> HIDE DEF soon
    <3>6. QED
      BY <1>3, <1>5, <3>3, <3>4, <3>5 DEF none
  <2>2. CASE q > i /\ q <= n /\ s[q] = "nl" /\ n < q + RequestOf(s, i, q).length
    <3>1. ~TextAt(s, m, q, texts)
      BY <1>4, <2>2 DEF TextAt
    <3>2. q > i /\ q \in ends
      BY <1>1, <2>2
    <3>3. next > m + 1
      BY <1>1, <1>8, <2>2 DEF request
    <3> HIDE DEF ends, soon, next
    <3>4. QED
      BY <1>3, <1>5, <3>1, <3>2, <3>3 DEF none
  <2>3. QED
    BY <1>8, <2>1, <2>2 DEF Waits
<1>9. ASSUME q > i, q <= n, s[q] = "nl", last <= n
      PROVE  last + 1 \in 1 .. m + 1 /\ f[i] = one
  <2>1. ~TextAt(s, m, q, texts)
    BY <1>4, <1>9 DEF TextAt
  <2>2. q \in ends
    BY <1>1, <1>9
  <2>3. last + 1 \in 1 .. m + 1 /\ next = last + 1 /\ ~(next > m + 1)
    BY <1>1, <1>9
  <2> HIDE DEF ends, soon, next, last
  <2>4. QED
    BY <1>3, <1>5, <1>9, <2>1, <2>2, <2>3 DEF one
<1>10. next = last + 1 /\ next - 1 = last
  BY <1>1
<1>11. one = <<Told([request EXCEPT !.body = SubSeq(s, q + 1, last)], 200)>> \o f[last + 1]
  <2> HIDE DEF next, last
  <2>1. QED
    BY <1>10 DEF one, whole
<1> HIDE DEF next, last, a, b, c
<1>12. QED
  BY <1>6, <1>7, <1>8, <1>9, <1>11 DEF AnswersFollow, two, three, none, f, request, b, c, last
-----------------------------------------------------------------------------
(* The answers as they are compared.                                         *)
Given(answers) == [k \in DOMAIN answers |-> StatusRead(answers[k])]

(* An answer, its status taken as the client reads it.                     *)
LEMMA StatusReadType ==
  ASSUME NEW a \in Answer
  PROVE  StatusRead(a) \in Answer
<1> HIDE DEF Request
<1>1. QED
  BY DEF StatusRead, Answer

(* A status that was never set is 200 for the client, an error is told as  *)
(* it is.                                                                  *)
LEMMA ToldRead ==
  ASSUME NEW req \in Request
  PROVE  /\ \A statu \in {0, 200} : StatusRead(Told(req, statu)) = Told(req, 200)
         /\ \A statu \in {400, 414} : /\ StatusRead(Told(req, statu)) = Told(req, statu)
                                      /\ Told(req, statu).status = statu
<1> DEFINE c == req.connection # "keep-alive"
           miss == req.text = "miss"
           none == NoRequest
<1>1. ASSUME NEW statu \in {0, 200}
      PROVE  Told(req, statu) = [status |-> IF miss THEN 404 ELSE statu,
                                 echo |-> IF miss THEN none ELSE req, close |-> c]
  BY <1>1, SMT DEF Told, WriteResponse, Router
<1>2. ASSUME NEW statu \in {400, 414}
      PROVE  Told(req, statu) = [status |-> statu, echo |-> none, close |-> c]
  BY <1>2, SMT DEF Told, WriteResponse, ErrorHandler
<1> HIDE DEF c, miss, none
<1>3. ASSUME NEW statu \in {0, 200}
      PROVE  StatusRead(Told(req, statu)) = Told(req, 200)
  <2>1. Told(req, 200) = [status |-> IF miss THEN 404 ELSE 200,
                          echo |-> IF miss THEN none ELSE req, close |-> c]
    BY <1>1
  <2>2. Told(req, statu) = [status |-> IF miss THEN 404 ELSE statu,
                            echo |-> IF miss THEN none ELSE req, close |-> c]
    BY <1>1
  <2>3. QED
    BY <2>1, <2>2 DEF StatusRead
<1>4. ASSUME NEW statu \in {400, 414}
      PROVE  /\ StatusRead(Told(req, statu)) = Told(req, statu)
             /\ Told(req, statu).status = statu
  <2>1. Told(req, statu) = [status |-> statu, echo |-> none, close |-> c]
    BY <1>2
  <2>2. QED
    BY <2>1 DEF StatusRead
<1>5. QED
  BY <1>3, <1>4

(* The answers as the client reads them are answers.                       *)
LEMMA GivenType ==
  ASSUME NEW answers \in Seq(Answer)
  PROVE  Given(answers) \in Seq(Answer) /\ Len(Given(answers)) = Len(answers)
<1> DEFINE T == Answer
           read(a) == StatusRead(a)
<1>1. \A a \in T : read(a) \in T
  BY StatusReadType
<1>2. answers \in Seq(T)
  OBVIOUS
<1>3. Given(answers) = [k \in DOMAIN answers |-> read(answers[k])]
  BY DEF Given
<1> HIDE DEF T, read
<1>4. [k \in DOMAIN answers |-> read(answers[k])] \in Seq(T) /\ Len([k \in DOMAIN answers |-> read(answers[k])]) = Len(answers)
  BY <1>1, <1>2
<1>5. QED
  BY <1>3, <1>4 DEF T

(* One more answer is one more that the client reads.                      *)
LEMMA GivenMore ==
  ASSUME NEW answers \in Seq(Answer), NEW a \in Answer
  PROVE  Given(Append(answers, a)) = Given(answers) \o <<StatusRead(a)>>
<1> DEFINE T == Answer
           b == StatusRead(a)
           e == <<b>>
           more == Append(answers, a)
           x == Given(answers)
           y == Given(more)
<1>1. b \in T /\ a \in T /\ answers \in Seq(T)
  BY StatusReadType
<1>2. x \in Seq(T) /\ Len(x) = Len(answers)
  BY GivenType
<1>3. more \in Seq(T) /\ Len(more) = Len(answers) + 1
  <2> HIDE DEF T, b
  <2>1. QED
    BY <1>1
<1>4. y \in Seq(T) /\ Len(y) = Len(more)
  <2> HIDE DEF more
  <2>1. QED
    BY <1>3, GivenType
<1>5. /\ \A k \in 1 .. Len(answers) : more[k] = answers[k]
      /\ more[Len(answers) + 1] = a
      /\ DOMAIN more = 1 .. Len(answers) + 1 /\ DOMAIN answers = 1 .. Len(answers)
  <2> HIDE DEF T, b
  <2>1. QED
    BY <1>1
<1> HIDE DEF more
<1>6. /\ \A k \in DOMAIN more : y[k] = StatusRead(more[k])
      /\ \A k \in DOMAIN answers : x[k] = StatusRead(answers[k])
  BY DEF Given
<1> DEFINE l == Len(answers)
<1>7. l \in Nat
  OBVIOUS
<1> HIDE DEF x, y, l
<1>8. /\ \A k \in 1 .. l : y[k] = x[k]
      /\ y[l + 1] = b
  BY <1>5, <1>6, <1>7 DEF l
<1> HIDE DEF T, b
<1>9. e \in Seq(T) /\ Len(e) = 1 /\ e[1] = b
  BY <1>1
<1> HIDE DEF e
<1>10. /\ x \o e \in Seq(T) /\ Len(x \o e) = l + 1
       /\ \A k \in 1 .. l : (x \o e)[k] = x[k]
       /\ (x \o e)[l + 1] = b
  <2>1. /\ x \o e \in Seq(T) /\ Len(x \o e) = Len(x) + Len(e)
        /\ \A k \in 1 .. Len(x) : (x \o e)[k] = x[k]
        /\ \A k \in 1 .. Len(e) : (x \o e)[Len(x) + k] = e[k]
    <3>1. x \in Seq(T) /\ e \in Seq(T)
      BY <1>2, <1>9
    <3>2. QED
      BY <3>1
  <2>2. Len(x) = l
    BY <1>2 DEF l
  <2> DEFINE w == x \o e
  <2> HIDE DEF w
  <2>3. 1 \in 1 .. Len(e)
    BY <1>9
  <2>4. QED
    BY <1>9, <2>1, <2>2, <2>3 DEF w
<1> DEFINE z == x \o e
<1> HIDE DEF z
<1>11. y = z
  <2>1. Len(y) = l + 1
    BY <1>3, <1>4 DEF l
  <2>2. \A k \in 1 .. l + 1 : y[k] = z[k]
    BY <1>7, <1>8, <1>10 DEF z
  <2>3. QED
    BY <1>4, <1>10, <2>1, <2>2, SameSequence DEF z
<1>12. QED
  BY <1>11 DEF x, y, z, e, b, more
-----------------------------------------------------------------------------
(* Of a body there is as much in the context as was read.                    *)
BodyHas(h, s, n, i, q) ==
    /\ h.req.length = RequestOf(s, i, q).length
    /\ Len(h.req.body) + Len(h.unread) = n - q
    /\ Len(h.req.body) \in Nat /\ Len(h.unread) \in Nat

(* A body that is not complete has fewer symbols than its Content-Length.  *)
LEMMA BodyLength ==
  ASSUME NEW s \in Seq(Symbol), NEW n \in 0 .. Len(s), NEW i \in 1 .. n + 1, NEW h, NEW q,
         InBody(h, s, n, i, q)
  PROVE  BodyHas(h, s, n, i, q)
<1> DEFINE r == RequestOf(s, i, q)
<1>1. /\ HeadFrom(s, n, i, q) /\ q \in i .. n + 1 /\ q \in Nat /\ n \in Nat /\ q <= n
  BY DEF InBody, HeadFrom
<1>2. r \in Request
  BY <1>1, HeadStarts
<1>3. PICK c \in q .. n : /\ h.unread = SubSeq(s, c + 1, n)
                          /\ h.req = [r EXCEPT !.body = SubSeq(s, q + 1, c)]
  BY DEF InBody
<1> DEFINE a == q + 1
           b == c + 1
           u == SubSeq(s, b, n)
           d == SubSeq(s, a, c)
<1>4. /\ a \in 1 .. c + 1 /\ b \in 1 .. n + 1 /\ c \in 0 .. Len(s) /\ n \in 0 .. Len(s)
      /\ c + 1 - a = c - q /\ n + 1 - b = n - c /\ c \in Nat
  BY <1>1
<1>5. d \in Seq(Symbol) /\ Len(d) = c - q
  <2> HIDE DEF a, b
  <2>1. SubSeq(s, a, c) \in Seq(Symbol) /\ Len(SubSeq(s, a, c)) = c + 1 - a
    BY <1>4, Span
  <2>2. QED
    BY <1>4, <2>1
<1>6. Len(u) = n - c
  <2> HIDE DEF a, b
  <2>1. Len(SubSeq(s, b, n)) = n + 1 - b
    BY <1>4, Span
  <2>2. QED
    BY <1>4, <2>1
<1> HIDE DEF r, u, d
<1>7. h.req.length = r.length /\ h.req.body = d
  <2>1. [r EXCEPT !.body = d].length = r.length /\ [r EXCEPT !.body = d].body = d
    BY <1>2 DEF Request
  <2>2. h.req = [r EXCEPT !.body = d]
    BY <1>3 DEF d
  <2>3. QED
    BY <2>1, <2>2
<1>8. h.unread = u
  BY <1>3 DEF u
<1>9. (c - q) + (n - c) = n - q /\ c - q \in Nat /\ n - c \in Nat
  BY <1>1, <1>4
<1>10. QED
  BY <1>5, <1>6, <1>7, <1>8, <1>9 DEF r, BodyHas

(* An input that was read to its end waits.                                  *)
LEMMA EmptyWaits ==
  ASSUME NEW s \in Seq(Symbol), NEW n \in 0 .. Len(s), NEW i, NEW h,
         Open(h, s, n, i), h.unread = <<>>
  PROVE  \E q \in i .. n + 1 : HeadFrom(s, n, i, q) /\ Waits(s, n, i, q)
<1>1. i \in 1 .. n + 1 /\ i \in Nat /\ n \in Nat /\ h \in Http
  BY DEF Open
<1>2. Len(h.unread) = 0
  OBVIOUS
<1>3. ASSUME NEW q \in i .. n + 1, Seen(h, s, n, q)
      PROVE  Late(s, n, q)
  <2>1. q \in 1 .. n + 1
    BY <1>1
  <2>2. Len(SubSeq(s, q, n)) = n + 1 - q
    BY <2>1, Span
  <2>3. n + 1 - q = 0
    BY <1>2, <1>3, <2>2 DEF Seen
  <2>4. q = n + 1
    BY <1>1, <2>1, <2>3
  <2>5. q .. n = {} /\ n < q + 2
    BY <1>1, <2>4
  <2>6. QED
    BY <2>5 DEF Late, NoNewline
<1>4. CASE h.recv_statu = "line" /\ Seen(h, s, n, i) /\ h.req = NoRequest
  <2>1. i \in i .. n + 1 /\ WellFormed(s, i, i)
    <3>1. WellFormed(s, i, i)
      BY <1>1, FirstLine, Zenon
    <3>2. QED
      BY <1>1, <3>1
  <2>2. QED
    BY <1>3, <1>4, <2>1 DEF Waits, HeadFrom
<1>5. CASE \E q \in i .. n + 1 : InHead(h, s, n, i, q)
  <2>1. PICK q \in i .. n + 1 : InHead(h, s, n, i, q)
    BY <1>5
  <2>2. QED
    BY <1>3, <2>1 DEF InHead, Waits
<1>6. CASE \E q \in i .. n + 1 : InBody(h, s, n, i, q) /\ Len(h.req.body) < h.req.length
  <2>1. PICK q \in i .. n + 1 : InBody(h, s, n, i, q) /\ Len(h.req.body) < h.req.length
    BY <1>6
  <2> DEFINE l == Len(h.req.body)
             k == h.req.length
  <2>2. k = RequestOf(s, i, q).length /\ l + 0 = n - q /\ l \in Nat
    <3>1. /\ h.req.length = RequestOf(s, i, q).length
          /\ Len(h.req.body) + Len(h.unread) = n - q
          /\ Len(h.req.body) \in Nat
      <4>1. i \in 1 .. n + 1 /\ InBody(h, s, n, i, q)
        BY <1>1, <2>1
      <4>2. BodyHas(h, s, n, i, q)
        BY <4>1, BodyLength
      <4>3. QED
        BY <4>2 DEF BodyHas
    <3>2. QED
      BY <1>2, <3>1, Zenon
  <2>3. HeadFrom(s, n, i, q) /\ q > i /\ q <= n /\ s[q] = "nl" /\ q \in Nat
    BY <1>1, <2>1 DEF InBody
  <2>4. k \in Nat
    BY <1>1, <2>2, <2>3, HeadStarts
  <2>5. l < k
    BY <2>1
  <2> HIDE DEF l, k
  <2>6. n < q + k
    <3>1. n \in Int /\ q \in Int /\ k \in Int /\ l \in Int /\ l + 0 = n - q /\ l < k
      BY <1>1, <2>2, <2>3, <2>4, <2>5
    <3>2. QED
      BY <3>1
  <2>7. QED
    BY <2>2, <2>3, <2>6 DEF Waits
<1>7. QED
  BY <1>4, <1>5, <1>6 DEF Open

(* What an open context has of a request, and of the input.                  *)
LEMMA OpenIsClean ==
  ASSUME NEW s \in Seq(Symbol), NEW n \in 0 .. Len(s), NEW i, NEW h, Open(h, s, n, i)
  PROVE  /\ h \in Http /\ h.recv_statu \in {"line", "header", "body"} /\ h.resp_statu \in {0, 200}
         /\ Len(h.req.body) <= h.req.length
         /\ Len(h.unread) <= n
         /\ h.recv_statu = "line" => h.req = NoRequest
<1>1. i \in 1 .. n + 1 /\ i \in Nat /\ n \in Nat /\ h \in Http /\ h.resp_statu \in {0, 200}
  BY DEF Open
<1>2. ASSUME NEW q \in i .. n + 1, Seen(h, s, n, q)
      PROVE  Len(h.unread) <= n
  <2>1. q \in 1 .. n + 1
    BY <1>1
  <2>2. Len(SubSeq(s, q, n)) = n + 1 - q
    BY <2>1, Span
  <2>3. n + 1 - q <= n
    BY <1>1, <2>1
  <2>4. QED
    BY <1>2, <2>2, <2>3 DEF Seen
<1>3. CASE h.recv_statu = "line" /\ Seen(h, s, n, i) /\ h.req = NoRequest
  <2>1. Len(NoRequest.body) <= NoRequest.length
    BY DEF NoRequest
  <2>2. Len(h.unread) <= n
    BY <1>1, <1>2, <1>3
  <2>3. QED
    BY <1>1, <1>3, <2>1, <2>2
<1>4. CASE \E q \in i .. n + 1 : InHead(h, s, n, i, q)
  <2>1. PICK q \in i .. n + 1 : InHead(h, s, n, i, q)
    BY <1>4
  <2>2. h.recv_statu = "header" /\ Seen(h, s, n, q) /\ h.req = RequestOf(s, i, q) /\ s[i] \in RequestText
    BY <2>1 DEF InHead
  <2>3. h.req.body = <<>> /\ h.req.length \in Nat
    <3>1. q \in Nat
      BY <1>1
    <3>2. RequestOf(s, i, q) \in Request /\ RequestOf(s, i, q).body = <<>>
      BY <1>1, <2>2, <3>1, RequestType
    <3>3. QED
      BY <2>2, <3>2, RequestFields
  <2>4. Len(h.req.body) <= h.req.length
    <3> DEFINE k == h.req.length
               l == Len(h.req.body)
    <3>1. l = 0 /\ k \in Nat
      BY <2>3
    <3> HIDE DEF k, l
    <3>2. l <= k
      BY <3>1
    <3>3. QED
      BY <3>2 DEF k, l
  <2>5. Len(h.unread) <= n
    BY <1>2, <2>2
  <2>6. QED
    BY <1>1, <2>2, <2>4, <2>5
<1>5. CASE \E q \in i .. n + 1 : InBody(h, s, n, i, q) /\ Len(h.req.body) < h.req.length
  <2>1. PICK q \in i .. n + 1 : InBody(h, s, n, i, q) /\ Len(h.req.body) < h.req.length
    BY <1>5
  <2> DEFINE l == Len(h.req.body)
             k == h.req.length
             u == Len(h.unread)
  <2>2. k = RequestOf(s, i, q).length /\ l + u = n - q /\ l \in Nat /\ u \in Nat
    <3>1. i \in 1 .. n + 1 /\ InBody(h, s, n, i, q)
      BY <1>1, <2>1
    <3>2. BodyHas(h, s, n, i, q)
      BY <3>1, BodyLength
    <3>3. QED
      BY <3>2 DEF BodyHas
  <2>3. HeadFrom(s, n, i, q) /\ q \in Nat /\ h.recv_statu = "body"
    BY <1>1, <2>1 DEF InBody
  <2>4. k \in Nat
    BY <1>1, <2>2, <2>3, HeadStarts
  <2>5. l < k
    BY <2>1
  <2> HIDE DEF l, k, u
  <2>6. l <= k /\ u <= n
    BY <1>1, <2>2, <2>3, <2>4, <2>5
  <2>7. QED
    BY <1>1, <2>3, <2>6 DEF l, k, u
<1>6. QED
  BY <1>3, <1>4, <1>5 DEF Open
-----------------------------------------------------------------------------
(* Answers are only added.                                                   *)
Grown(a, b) == Len(a) <= Len(b) /\ \A k \in 1 .. Len(a) : b[k] = a[k]

(* An answer added leaves those before it.                                 *)
LEMMA GrownMore ==
  ASSUME NEW a \in Seq(Answer), NEW x \in Answer
  PROVE  Grown(a, Append(a, x))
<1> DEFINE T == Answer
<1>1. a \in Seq(T) /\ x \in T
  OBVIOUS
<1> HIDE DEF T
<1>2. Len(a) <= Len(Append(a, x)) /\ \A k \in 1 .. Len(a) : Append(a, x)[k] = a[k]
  BY <1>1
<1>3. QED
  BY <1>2 DEF Grown

(* What grew and grew again has grown.                                     *)
LEMMA GrownFurther ==
  ASSUME NEW a \in Seq(Answer), NEW b \in Seq(Answer), NEW c \in Seq(Answer), Grown(a, b), Grown(b, c)
  PROVE  Grown(a, c)
<1> DEFINE la == Len(a)
           lb == Len(b)
           lc == Len(c)
<1>1. la \in Nat /\ lb \in Nat /\ lc \in Nat
  OBVIOUS
<1>2. la <= lb /\ lb <= lc
  BY DEF Grown
<1> HIDE DEF la, lb, lc
<1>3. la <= lc /\ \A k \in 1 .. la : k \in 1 .. lb
  BY <1>1, <1>2
<1>4. (\A k \in 1 .. la : b[k] = a[k]) /\ (\A k \in 1 .. lb : c[k] = b[k])
  BY DEF Grown, la, lb
<1>5. \A k \in 1 .. la : c[k] = a[k]
  BY <1>3, <1>4
<1>6. QED
  BY <1>3, <1>5 DEF Grown, la, lc

(* What was answered, and what the first m symbols add to it from i on.      *)
Owed(h, s, m, i) == Given(h.answers) \o From(s, m)[i]

(* The last answer shuts the connection down.                                *)
Shut(answers) == answers # <<>> /\ Closes(Given(answers)[Len(answers)])

(* What OnMessage makes of a context that has the beginning of the request   *)
(* at i: it has answered all that arrived, or the last answer is an error.   *)
MessageIs(r, h, s, n, i) ==
    \E j \in 1 .. n + 1 :
        /\ Open(r, s, n, j)
        /\ Grown(h.answers, r.answers)
        /\ \/ /\ From(s, n)[j] = <<>>
              /\ \A m \in n .. Len(s) : Owed(r, s, m, j) = Owed(h, s, m, i)
           \/ /\ Shut(r.answers)
              /\ \A m \in n .. Len(s) : Given(r.answers) = Owed(h, s, m, i)

(* Nothing of the request that begins at i is answered yet.                  *)
LEMMA MessageWaits ==
  ASSUME NEW s \in Seq(Symbol), NEW n \in 0 .. Len(s), NEW i, NEW g, NEW got,
         Open(got, s, n, i), got.answers = g.answers,
         NEW q, HeadFrom(s, n, i, q), Waits(s, n, i, q)
  PROVE  MessageIs(got, g, s, n, i)
<1>1. i \in 1 .. n + 1 /\ got \in Http /\ n \in n .. Len(s)
  BY DEF Open
<1>2. AnswersFollow(s, n, n, i, q)
  BY <1>1, AnswersStep
<1>3. From(s, n)[i] = <<>>
  BY <1>2 DEF AnswersFollow
<1>4. \A m \in n .. Len(s) : Owed(got, s, m, i) = Owed(g, s, m, i)
  BY DEF Owed
<1>5. got.answers \in Seq(Answer)
  BY <1>1, Fields
<1> DEFINE a == got.answers
<1>6. Grown(g.answers, got.answers)
  <2>1. Len(a) \in Nat
    BY <1>5
  <2> HIDE DEF a
  <2>2. Len(a) <= Len(a)
    BY <2>1
  <2>3. Grown(a, a)
    BY <2>2 DEF Grown
  <2>4. QED
    BY <2>3 DEF a
<1>7. QED
  BY <1>1, <1>3, <1>4, <1>6 DEF MessageIs
(* A body may be set in a request.                                         *)
LEMMA WithBody ==
  ASSUME NEW r \in Request, NEW b \in Seq(Symbol)
  PROVE  [r EXCEPT !.body = b] \in Request
BY RequestFields

(* A line that is not right is answered with an error.                       *)
LEMMA MessageError ==
  ASSUME NEW s \in Seq(Symbol), NEW n \in 0 .. Len(s), NEW i \in 1 .. n + 1, NEW g \in Http,
         NEW q, HeadFrom(s, n, i, q), Errs(RecvHttpReq(g), g, s, n, i, q)
  PROVE  RecvHttpReq(g).resp_statu >= 400 /\ MessageIs(Rejected(g), g, s, n, i)
<1> DEFINE got == RecvHttpReq(g)
           request == RequestOf(s, i, q)
           r == Rejected(g)
           old == g.answers
           none == <<>>
<1>1. /\ q \in i .. n + 1 /\ i \in Nat /\ q \in Nat /\ n \in Nat /\ request \in Request
      /\ old \in Seq(Answer)
  BY HeadStarts, Fields
<1>2. PICK unread \in Seq(Symbol), statu \in {400, 414} :
         /\ Moved(got, g, unread, "error", statu, RequestOf(s, i, q))
         /\ statu = 414 => TooLongAt(s, n, q)
         /\ statu = 400 => BadAt(s, n, i, q)
  BY DEF Errs
<1> DEFINE a == Told(request, statu)
           all == Append(old, a)
<1>3. /\ got \in Http /\ got.resp_statu = statu /\ got.req = request /\ got.answers = old
  <2> HIDE DEF got
  <2>1. QED
    BY <1>1, <1>2, MovedFields
<1> HIDE DEF request
<1>4. /\ a \in Answer /\ all \in Seq(Answer) /\ r \in Http
      /\ r = Rec(none, "line", 200, NoRequest, all, "disconnecting")
  <2> DEFINE b == Told(got.req, got.resp_statu)
             more == Append(got.answers, b)
  <2>1. /\ b \in Answer /\ more \in Seq(Answer) /\ r \in Http
        /\ r = Rec(none, "line", 200, NoRequest, more, "disconnecting")
    BY <1>3, AnsweredIs
  <2>2. b = a /\ more = all
    BY <1>3
  <2> HIDE DEF a, b, all, more, r, none
  <2>3. QED
    BY <2>1, <2>2
<1>5. StatusRead(a) = a /\ a.status = statu
  BY <1>1, ToldRead
<1> HIDE DEF r, none
<1>6. r.unread = none /\ r.recv_statu = "line" /\ r.resp_statu = 200 /\ r.req = NoRequest /\ r.answers = all
  <2> HIDE DEF all
  <2>1. QED
    BY <1>4, RecFields
<1>7. Open(r, s, n, n + 1)
  <2>1. SubSeq(s, n + 1, n) = none /\ n + 1 \in 1 .. n + 1
    BY <1>1 DEF none
  <2>2. QED
    BY <1>4, <1>6, <2>1 DEF Open, Seen
<1>8. Grown(old, all)
  <2> HIDE DEF a
  <2>1. QED
    BY <1>1, <1>4, GrownMore
<1> HIDE DEF a
<1>9. Given(all) = Given(old) \o <<a>>
  <2> DEFINE b == StatusRead(a)
  <2>1. Given(all) = Given(old) \o <<b>>
    BY <1>1, <1>4, GivenMore
  <2> HIDE DEF b, all
  <2>2. b = a
    BY <1>5 DEF b
  <2>3. QED
    BY <2>1, <2>2
<1>10. Shut(all)
  <2> DEFINE T == Answer
  <2>1. a \in T /\ old \in Seq(T)
    BY <1>1, <1>4
  <2> HIDE DEF T, old
  <2>2. all # <<>> /\ all[Len(all)] = a /\ Len(all) \in DOMAIN all
    BY <2>1
  <2> HIDE DEF all
  <2>3. Given(all)[Len(all)] = StatusRead(all[Len(all)])
    BY <2>2 DEF Given
  <2>4. Given(all)[Len(all)] = a
    BY <1>5, <2>2, <2>3
  <2>5. Closes(a)
    BY <1>5 DEF Closes
  <2>6. QED
    BY <2>2, <2>4, <2>5 DEF Shut
<1>11. ASSUME NEW m \in n .. Len(s)
       PROVE  Given(all) = Owed(g, s, m, i)
  <2>1. AnswersFollow(s, n, m, i, q)
    BY AnswersStep
  <2>2. From(s, m)[i] = <<a>>
    <3>1. CASE statu = 414
      BY <1>2, <2>1, <3>1 DEF AnswersFollow, request, a
    <3>2. CASE statu = 400
      BY <1>2, <2>1, <3>2 DEF AnswersFollow, request, a
    <3>3. QED
      BY <3>1, <3>2
  <2>3. QED
    BY <1>9, <2>2 DEF Owed
<1>12. MessageIs(r, g, s, n, i)
  <2>1. n + 1 \in 1 .. n + 1
    BY <1>1
  <2> HIDE DEF all
  <2>2. QED
    BY <1>6, <1>7, <1>8, <1>10, <1>11, <2>1 DEF MessageIs
<1>13. QED
  BY <1>3, <1>12 DEF r

(* A request that is there is answered.                                      *)
LEMMA MessageAnswer ==
  ASSUME NEW s \in Seq(Symbol), NEW n \in 0 .. Len(s), NEW i \in 1 .. n + 1, NEW g \in Http,
         g.resp_statu \in {0, 200},
         NEW q, HeadFrom(s, n, i, q), NEW last \in Nat, Whole(RecvHttpReq(g), g, s, n, i, q, last)
  PROVE  /\ RecvHttpReq(g).recv_statu = "over" /\ RecvHttpReq(g).resp_statu \in {0, 200}
         /\ last + 1 \in 1 .. n + 1
         /\ Open(Answered(g), s, n, last + 1)
         /\ Grown(g.answers, Answered(g).answers)
         /\ \A m \in n .. Len(s) : Owed(Answered(g), s, m, last + 1) = Owed(g, s, m, i)
<1> DEFINE got == RecvHttpReq(g)
           request == RequestOf(s, i, q)
           whole == [request EXCEPT !.body = SubSeq(s, q + 1, last)]
           u == SubSeq(s, last + 1, n)
           r == Answered(g)
           old == g.answers
           statu == g.resp_statu
<1>1. /\ q \in i .. n + 1 /\ i \in Nat /\ q \in Nat /\ n \in Nat /\ request \in Request
      /\ request.length \in Nat /\ old \in Seq(Answer) /\ statu \in {0, 200, 400, 414}
  BY HeadStarts, Fields
<1>2. /\ q > i /\ q <= n /\ s[q] = "nl" /\ last = q + request.length /\ last <= n
      /\ Moved(got, g, u, "over", statu, whole)
  BY DEF Whole, BodyIsAt
<1>3. last + 1 \in 1 .. n + 1 /\ last \in 0 .. Len(s) /\ q + 1 \in 1 .. last + 1
  <2> DEFINE k == request.length
  <2>1. k \in Nat /\ last = q + k
    BY <1>1, <1>2
  <2>2. n <= Len(s) /\ Len(s) \in Nat
    OBVIOUS
  <2>3. q \in Nat /\ n \in Nat /\ last <= n
    BY <1>1, <1>2
  <2> DEFINE e == Len(s)
  <2> HIDE DEF k, e
  <2>4. \A a \in Nat : a = q + k /\ a <= n
            => a + 1 \in 1 .. n + 1 /\ (n <= e /\ e \in Nat => a \in 0 .. e) /\ q + 1 \in 1 .. a + 1
    BY <2>1, <2>3
  <2>5. QED
    BY <2>1, <2>2, <2>3, <2>4 DEF e
<1>4. u \in Seq(Symbol)
  <2> DEFINE e == last + 1
  <2>1. e \in 1 .. n + 1
    BY <1>3
  <2> HIDE DEF e
  <2>2. SubSeq(s, e, n) \in Seq(Symbol)
    BY <2>1, Span
  <2>3. QED
    BY <2>2 DEF e
<1>5. whole \in Request
  <2> DEFINE e == q + 1
             d == SubSeq(s, e, last)
  <2>1. e \in 1 .. last + 1
    BY <1>3
  <2> HIDE DEF e, request
  <2>2. d \in Seq(Symbol)
    BY <1>3, <2>1, Span
  <2> HIDE DEF d
  <2>3. request \in Request
    BY <1>1
  <2>4. [request EXCEPT !.body = d] \in Request
    BY <2>2, <2>3, WithBody
  <2>5. QED
    BY <2>4 DEF d, e
<1> HIDE DEF request
<1>6. /\ got \in Http /\ got.unread = u /\ got.recv_statu = "over" /\ got.resp_statu = statu
      /\ got.req = whole /\ got.answers = old /\ got.status = g.status
  <2> HIDE DEF got, u, whole
  <2>1. QED
    BY <1>1, <1>2, <1>4, <1>5, MovedFields
<1> HIDE DEF whole, u
<1> DEFINE a == Told(whole, statu)
           all == Append(old, a)
<1>7. /\ a \in Answer /\ all \in Seq(Answer) /\ r \in Http
      /\ \E t : r = Rec(u, "line", 200, NoRequest, all, t)
  <2> DEFINE b == Told(got.req, got.resp_statu)
             more == Append(got.answers, b)
             t == IF b.close THEN "disconnecting" ELSE got.status
  <2>1. /\ b \in Answer /\ more \in Seq(Answer) /\ r \in Http
        /\ r = Rec(got.unread, "line", 200, NoRequest, more, t)
    BY <1>6, AnsweredIs
  <2>2. b = a /\ more = all
    BY <1>6
  <2> HIDE DEF a, b, all, more, r, t
  <2>3. QED
    BY <1>6, <2>1, <2>2
<1> HIDE DEF r
<1>8. r.unread = u /\ r.recv_statu = "line" /\ r.resp_statu = 200 /\ r.req = NoRequest /\ r.answers = all
  <2> HIDE DEF all
  <2>1. QED
    BY <1>7, RecFields
<1>9. Open(r, s, n, last + 1)
  BY <1>3, <1>7, <1>8 DEF Open, Seen, u
<1> DEFINE told == Told(whole, 200)
<1>10. StatusRead(a) = told /\ told \in Answer
  <2>1. StatusRead(a) = told
    BY <1>5, ToldRead
  <2>2. told \in Answer
    BY <1>5, ToldType
  <2>3. QED
    BY <2>1, <2>2
<1> HIDE DEF a, told, statu
<1>11. Grown(old, all)
  BY <1>1, <1>7, GrownMore
<1>12. Given(all) = Given(old) \o <<told>>
  <2> DEFINE b == StatusRead(a)
  <2>1. Given(all) = Given(old) \o <<b>>
    BY <1>1, <1>7, GivenMore
  <2> HIDE DEF b, all
  <2>2. b = told
    BY <1>10 DEF b
  <2>3. QED
    BY <2>1, <2>2
<1>13. ASSUME NEW m \in n .. Len(s)
       PROVE  Owed(r, s, m, last + 1) = Owed(g, s, m, i)
  <2> DEFINE f == From(s, m)
             rest == f[last + 1]
             x == Given(old)
             T == Answer
             e == <<told>>
  <2>1. AnswersFollow(s, n, m, i, q)
    BY AnswersStep
  <2>2. f[i] = e \o rest /\ last + 1 \in 1 .. m + 1
    <3>1. last = q + request.length
      BY <1>2
    <3>2. whole = [request EXCEPT !.body = SubSeq(s, q + 1, last)]
      BY DEF whole
    <3>3. last = q + RequestOf(s, i, q).length
      BY <3>1 DEF request
    <3>4. f[i] = <<Told([RequestOf(s, i, q) EXCEPT !.body = SubSeq(s, q + 1, q + RequestOf(s, i, q).length)], 200)>>
                   \o f[q + RequestOf(s, i, q).length + 1]
      BY <1>2, <2>1, <3>3 DEF AnswersFollow
    <3>5. last + 1 \in 1 .. m + 1
      BY <1>1, <1>3
    <3>6. f[i] = <<Told([request EXCEPT !.body = SubSeq(s, q + 1, last)], 200)>> \o f[last + 1]
      BY <3>3, <3>4 DEF request
    <3>7. QED
      BY <3>2, <3>5, <3>6 DEF told
  <2>3. rest \in Seq(T)
    <3>1. m \in 0 .. Len(s)
      BY <1>1
    <3>2. f \in [1 .. m + 1 -> Seq(Answer)]
      BY <3>1, FromIs
    <3>3. QED
      BY <2>2, <3>2
  <2>4. x \in Seq(T)
    BY <1>1, GivenType
  <2>5. told \in T
    BY <1>10
  <2> HIDE DEF f, rest, x, T
  <2>6. e \in Seq(T)
    BY <2>5
  <2> HIDE DEF e
  <2>7. x \o e \o rest = x \o (e \o rest)
    BY <2>3, <2>4, <2>6, Grouping
  <2>8. Given(all) = x \o e
    BY <1>12 DEF x, e
  <2>9. Owed(r, s, m, last + 1) = Given(all) \o rest
    BY <1>8 DEF Owed, f, rest
  <2>10. Owed(g, s, m, i) = x \o (e \o rest)
    BY <2>2 DEF Owed, f, x
  <2>11. QED
    BY <2>7, <2>8, <2>9, <2>10
<1>14. got.resp_statu \in {0, 200}
  BY <1>6 DEF statu
<1>15. QED
  BY <1>3, <1>6, <1>8, <1>9, <1>11, <1>13, <1>14 DEF r, got
(* OnMessage, round by round.                                                *)
LEMMA MessageFurther ==
  ASSUME NEW s \in Seq(Symbol), NEW n \in 0 .. Len(s), NEW i \in 1 .. n + 1, NEW j \in 1 .. n + 1,
         NEW g \in Http, NEW b \in Http, NEW r,
         Grown(g.answers, b.answers),
         \A m \in n .. Len(s) : Owed(b, s, m, j) = Owed(g, s, m, i),
         MessageIs(r, b, s, n, j)
  PROVE  MessageIs(r, g, s, n, i)
<1>1. PICK k \in 1 .. n + 1 :
        /\ Open(r, s, n, k)
        /\ Grown(b.answers, r.answers)
        /\ \/ /\ From(s, n)[k] = <<>>
              /\ \A m \in n .. Len(s) : Owed(r, s, m, k) = Owed(b, s, m, j)
           \/ /\ Shut(r.answers)
              /\ \A m \in n .. Len(s) : Given(r.answers) = Owed(b, s, m, j)
  BY DEF MessageIs
<1>2. Grown(g.answers, r.answers)
  <2>1. r \in Http
    BY <1>1 DEF Open
  <2>2. g.answers \in Seq(Answer) /\ b.answers \in Seq(Answer) /\ r.answers \in Seq(Answer)
    BY <2>1, Fields
  <2>3. QED
    BY <1>1, <2>2, GrownFurther
<1>3. \/ /\ From(s, n)[k] = <<>>
         /\ \A m \in n .. Len(s) : Owed(r, s, m, k) = Owed(g, s, m, i)
      \/ /\ Shut(r.answers)
         /\ \A m \in n .. Len(s) : Given(r.answers) = Owed(g, s, m, i)
  BY <1>1
<1>4. QED
  BY <1>1, <1>2, <1>3 DEF MessageIs

(* A round of OnMessage, if the rounds after it do what they should.       *)
LEMMA MessageStep ==
  ASSUME NEW s \in Seq(Symbol), NEW n \in 0 .. Len(s), NEW i, NEW g, Open(g, s, n, i), NEW next,
         \A j \in 1 .. n + 1 :
            /\ RecvHttpReq(g).recv_statu = "over" /\ Open(Answered(g), s, n, j)
            => MessageIs(next, Answered(g), s, n, j)
  PROVE  MessageIs(MessageRound(g, next), g, s, n, i)
<1> DEFINE got == RecvHttpReq(g)
<1>1. /\ g \in Http /\ i \in 1 .. n + 1 /\ g.resp_statu \in {0, 200}
  BY DEF Open
<1>2. CASE g.unread = <<>>
  <2>1. PICK q \in i .. n + 1 : HeadFrom(s, n, i, q) /\ Waits(s, n, i, q)
    BY <1>2, EmptyWaits
  <2>2. MessageRound(g, next) = g
    BY <1>2 DEF MessageRound
  <2>3. QED
    BY <2>1, <2>2, MessageWaits
<1>3. CASE g.unread # <<>>
  <2>1. PICK q \in i .. n + 1 : RequestIsAt(got, g, s, n, i, q)
    BY RequestRead
  <2>2. HeadFrom(s, n, i, q)
    BY <2>1 DEF RequestIsAt
  <2>3. CASE Errs(got, g, s, n, i, q)
    <3>1. got.resp_statu >= 400 /\ MessageIs(Rejected(g), g, s, n, i)
      BY <1>1, <2>2, <2>3, MessageError
    <3>2. MessageRound(g, next) = Rejected(g)
      BY <1>3, <3>1 DEF MessageRound
    <3>3. QED
      BY <3>1, <3>2
  <2>4. CASE Open(got, s, n, i) /\ Waits(s, n, i, q) /\ got.answers = g.answers /\ got.status = g.status
    <3>1. got.resp_statu \in {0, 200} /\ got.recv_statu # "over"
      <4>1. got.recv_statu \in {"line", "header", "body"} /\ got.resp_statu \in {0, 200}
        BY <2>4, OpenIsClean
      <4>2. QED
        BY <4>1
    <3>2. MessageRound(g, next) = got
      BY <1>3, <3>1 DEF MessageRound
    <3>3. QED
      BY <2>2, <2>4, <3>2, MessageWaits
  <2>5. CASE \E last \in Nat : Whole(got, g, s, n, i, q, last)
    <3>1. PICK last \in Nat : Whole(got, g, s, n, i, q, last)
      BY <2>5
    <3> DEFINE j == last + 1
    <3>2. /\ got.recv_statu = "over" /\ got.resp_statu \in {0, 200}
          /\ j \in 1 .. n + 1
          /\ Open(Answered(g), s, n, j)
          /\ Grown(g.answers, Answered(g).answers)
          /\ \A m \in n .. Len(s) : Owed(Answered(g), s, m, j) = Owed(g, s, m, i)
      BY <1>1, <2>2, <3>1, MessageAnswer
    <3> HIDE DEF j
    <3>3. MessageIs(next, Answered(g), s, n, j)
      BY <3>2
    <3>4. Answered(g) \in Http
      BY <3>2 DEF Open
    <3>5. MessageIs(next, g, s, n, i)
      BY <1>1, <3>2, <3>3, <3>4, MessageFurther
    <3>6. MessageRound(g, next) = next
      BY <1>3, <3>2 DEF MessageRound
    <3>7. QED
      BY <3>5, <3>6
  <2>6. QED
    BY <2>1, <2>3, <2>4, <2>5 DEF RequestIsAt
<1>4. QED
  BY <1>2, <1>3

(* HttpServer::OnMessage answers every request that is complete and keeps  *)
(* a part of the next one.                                                 *)
LEMMA MessageRead ==
  ASSUME NEW s \in Seq(Symbol), NEW n \in 0 .. Len(s), NEW i, NEW h, Open(h, s, n, i)
  PROVE  MessageIs(OnMessage(h), h, s, n, i)
<1> DEFINE D == Http
           size == [g \in D |-> Before(g)]
           X == {g \in D : \A j \in 1 .. n + 1 : Open(g, s, n, j) => MessageIs(OnMessage(g), g, s, n, j)}
<1>1. size \in [D -> Nat]
  BY AnsweredShortens
<1>2. ASSUME NEW g \in D, \A f \in D : size[f] < size[g] => f \in X
      PROVE  g \in X
  <2> SUFFICES ASSUME NEW j \in 1 .. n + 1, Open(g, s, n, j)
               PROVE  MessageIs(OnMessage(g), g, s, n, j)
    OBVIOUS
  <2> DEFINE b == Answered(g)
             next == OnMessage(b)
  <2>1. b \in D /\ (RecvHttpReq(g).recv_statu = "over" => Before(b) < Before(g))
    BY AnsweredShortens
  <2>2. RecvHttpReq(g).recv_statu = "over" => b \in X
    BY <1>2, <2>1
  <2>3. \A k \in 1 .. n + 1 :
           /\ RecvHttpReq(g).recv_statu = "over" /\ Open(b, s, n, k)
           => MessageIs(next, b, s, n, k)
    BY <2>2
  <2>4. MessageIs(MessageRound(g, next), g, s, n, j)
    BY <2>3, MessageStep
  <2>5. OnMessage(g) = MessageRound(g, next)
    BY MessageRounds
  <2>6. QED
    BY <2>4, <2>5
<1>3. \A g \in D : g \in X
  <2> HIDE DEF X, D, size
  <2>1. QED
    BY <1>1, <1>2, SizesBySteps
<1>4. h \in D /\ i \in 1 .. n + 1
  BY DEF Open
<1>5. QED
  BY <1>3, <1>4
-----------------------------------------------------------------------------
(* More input does not disturb what was read.                                *)
LEMMA PieceAndMore ==
  ASSUME NEW s \in Seq(Symbol), NEW n \in 0 .. Len(s), NEW m \in n .. Len(s), NEW q \in 1 .. n + 1
  PROVE  SubSeq(s, q, n) \o SubSeq(s, n + 1, m) = SubSeq(s, q, m)
<1> DEFINE T == Symbol
<1>1. /\ s \in Seq(T) /\ m \in 0 .. Len(s) /\ q \in 1 .. m + 1 /\ n \in q - 1 .. m
  OBVIOUS
<1> HIDE DEF T
<1>2. QED
  BY <1>1, Pieces

(* An open context stays open when more input arrives.                     *)
LEMMA OpenMore ==
  ASSUME NEW s \in Seq(Symbol), NEW n \in 0 .. Len(s), NEW m \in n .. Len(s), NEW i, NEW h,
         Open(h, s, n, i),
         NEW g \in Http, g.unread = h.unread \o SubSeq(s, n + 1, m),
         g.recv_statu = h.recv_statu, g.resp_statu = h.resp_statu, g.req = h.req
  PROVE  Open(g, s, m, i)
<1>1. /\ h \in Http /\ i \in 1 .. n + 1 /\ i \in 1 .. m + 1 /\ g.resp_statu \in {0, 200}
      /\ n \in Nat /\ m \in Nat /\ i \in Nat /\ n <= m
  BY DEF Open
<1>2. ASSUME NEW q \in i .. n + 1, Seen(h, s, n, q)
      PROVE  Seen(g, s, m, q)
  <2>1. q \in 1 .. n + 1
    BY <1>1
  <2>2. SubSeq(s, q, n) \o SubSeq(s, n + 1, m) = SubSeq(s, q, m)
    BY <2>1, PieceAndMore
  <2>3. QED
    BY <1>2, <2>2 DEF Seen
<1>3. ASSUME NEW q, HeadFrom(s, n, i, q)
      PROVE  HeadFrom(s, m, i, q) /\ q \in i .. m + 1
  BY <1>1, <1>3 DEF HeadFrom
<1>4. CASE h.recv_statu = "line" /\ Seen(h, s, n, i) /\ h.req = NoRequest
  <2>1. i \in i .. n + 1
    BY <1>1
  <2>2. Seen(g, s, m, i)
    BY <1>2, <1>4, <2>1
  <2>3. QED
    BY <1>1, <1>4, <2>2 DEF Open
<1>5. CASE \E q \in i .. n + 1 : InHead(h, s, n, i, q)
  <2>1. PICK q \in i .. n + 1 : InHead(h, s, n, i, q)
    BY <1>5
  <2>2. Seen(g, s, m, q)
    BY <1>2, <2>1 DEF InHead
  <2>3. HeadFrom(s, m, i, q) /\ q \in i .. m + 1
    BY <1>3, <2>1 DEF InHead
  <2>4. InHead(g, s, m, i, q)
    BY <2>1, <2>2, <2>3 DEF InHead
  <2>5. QED
    BY <1>1, <2>3, <2>4 DEF Open
<1>6. CASE \E q \in i .. n + 1 : InBody(h, s, n, i, q) /\ Len(h.req.body) < h.req.length
  <2>1. PICK q \in i .. n + 1 : InBody(h, s, n, i, q) /\ Len(h.req.body) < h.req.length
    BY <1>6
  <2>2. HeadFrom(s, m, i, q) /\ q \in i .. m + 1
    BY <1>3, <2>1 DEF InBody
  <2>3. PICK c \in q .. n : /\ h.unread = SubSeq(s, c + 1, n)
                            /\ c <= q + RequestOf(s, i, q).length
                            /\ h.req = [RequestOf(s, i, q) EXCEPT !.body = SubSeq(s, q + 1, c)]
    BY <2>1 DEF InBody
  <2>4. g.unread = SubSeq(s, c + 1, m)
    <3> DEFINE e == c + 1
    <3>1. e \in 1 .. n + 1
      BY <1>1
    <3> HIDE DEF e
    <3>2. SubSeq(s, e, n) \o SubSeq(s, n + 1, m) = SubSeq(s, e, m)
      BY <3>1, PieceAndMore
    <3>3. QED
      BY <2>3, <3>2 DEF e
  <2>5. q > i /\ q <= n /\ s[q] = "nl" /\ s[i] \in RequestText /\ h.recv_statu = "body" /\ c \in q .. m /\ q <= m
    <3>1. q > i /\ q <= n /\ s[q] = "nl" /\ s[i] \in RequestText /\ h.recv_statu = "body"
      BY <2>1, Zenon DEF InBody
    <3>2. c \in q .. m /\ q <= m
      BY <1>1, <3>1
    <3>3. QED
      BY <3>1, <3>2
  <2>6. InBody(g, s, m, i, q)
    BY <2>2, <2>3, <2>4, <2>5 DEF InBody
  <2>7. QED
    BY <1>1, <2>1, <2>2, <2>6 DEF Open
<1>7. QED
  BY <1>4, <1>5, <1>6 DEF Open

(* Nothing is read of the status of the connection.                          *)
LEMMA OpenAlike ==
  ASSUME NEW s, NEW n, NEW i, NEW h, Open(h, s, n, i), NEW g \in Http, g.unread = h.unread,
         g.recv_statu = h.recv_statu, g.resp_statu = h.resp_statu, g.req = h.req
  PROVE  Open(g, s, n, i)
<1>1. \A q : Seen(h, s, n, q) => Seen(g, s, n, q)
  BY DEF Seen
<1>2. \A q : InHead(h, s, n, i, q) => InHead(g, s, n, i, q)
  BY <1>1 DEF InHead
<1>3. \A q : InBody(h, s, n, i, q) => InBody(g, s, n, i, q)
  BY DEF InBody
<1>4. QED
  BY <1>1, <1>2, <1>3 DEF Open

-----------------------------------------------------------------------------
(* Two sequences of answers that are the same up to k.                       *)
Agree(x, y, k) == k \in 1 .. Len(x) /\ k \in 1 .. Len(y) /\ \A l \in 1 .. k : x[l] = y[l]

Ends(x, n) ==
    /\ \A k \in 1 .. n - 1 : ~Closes(x[k])
    /\ n = Len(x) \/ (n > 0 /\ Closes(x[n]))

(* UpToLast ends with the first answer that closes the connection.         *)
LEMMA UpToLastIs ==
  ASSUME NEW x \in Seq(Answer), NEW k \in 1 .. Len(x), Closes(x[k]), \A l \in 1 .. k - 1 : ~Closes(x[l])
  PROVE  UpToLast(x) = SubSeq(x, 1, k)
<1> DEFINE len == Len(x)
<1>1. len \in Nat
  OBVIOUS
<1> HIDE DEF len
<1>2. k \in 0 .. len /\ Ends(x, k)
  BY <1>1 DEF Ends, len
<1>3. ASSUME NEW n \in 0 .. len, Ends(x, n)
      PROVE  n = k
  <2>1. CASE n < k
    <3>1. n # len
      BY <1>1, <2>1 DEF len
    <3>2. n > 0 /\ Closes(x[n])
      BY <1>3, <3>1 DEF Ends, len
    <3>3. n \in 1 .. k - 1
      BY <1>1, <2>1, <3>2
    <3>4. QED
      BY <3>2, <3>3
  <2>2. CASE n > k
    <3>1. k \in 1 .. n - 1
      BY <1>1, <2>2
    <3>2. QED
      BY <1>3, <3>1 DEF Ends
  <2>3. QED
    BY <1>1, <2>1, <2>2
<1> DEFINE c == CHOOSE n \in 0 .. len : Ends(x, n)
<1>4. c = k
  <2>1. c \in 0 .. len /\ Ends(x, c)
    BY <1>2
  <2> HIDE DEF c
  <2>2. QED
    BY <1>3, <2>1
<1>5. UpToLast(x) = SubSeq(x, 1, c)
  BY Zenon DEF UpToLast, Ends, len
<1>6. QED
  BY <1>4, <1>5

(* Answers that agree up to one that closes are the same up to the last.   *)
LEMMA AgreeUpToLast ==
  ASSUME NEW x \in Seq(Answer), NEW y \in Seq(Answer), NEW k, Agree(x, y, k), Closes(x[k])
  PROVE  UpToLast(x) = UpToLast(y)
<1> DEFINE T == {l \in 1 .. k : Closes(x[l])}
<1>1. k \in 1 .. Len(x) /\ k \in 1 .. Len(y) /\ k \in Nat /\ \A l \in 1 .. k : x[l] = y[l]
  BY DEF Agree
<1>2. k \in T /\ T \in SUBSET Nat
  BY <1>1
<1>3. PICK f \in T : \A l \in T : f <= l
  <2> HIDE DEF T
  <2>1. QED
    BY <1>2, LeastNumber
<1>4. /\ f \in 1 .. k /\ Closes(x[f]) /\ Closes(y[f])
      /\ f \in 1 .. Len(x) /\ f \in 1 .. Len(y)
  BY <1>1, <1>3
<1>5. ASSUME NEW l \in 1 .. f - 1
      PROVE  ~Closes(x[l]) /\ ~Closes(y[l])
  <2>1. l \in 1 .. k /\ ~(f <= l)
    BY <1>1, <1>4
  <2>2. l \notin T
    BY <1>3, <2>1
  <2>3. QED
    BY <1>1, <2>1, <2>2
<1>6. UpToLast(x) = SubSeq(x, 1, f)
  BY <1>4, <1>5, UpToLastIs
<1>7. UpToLast(y) = SubSeq(y, 1, f)
  BY <1>4, <1>5, UpToLastIs
<1>8. SubSeq(x, 1, f) = SubSeq(y, 1, f)
  <2> DEFINE S == Answer
  <2>1. x \in Seq(S) /\ y \in Seq(S)
    OBVIOUS
  <2>2. f \in 1 .. Len(x) /\ f \in 1 .. Len(y) /\ \A l \in 1 .. f : x[l] = y[l]
    BY <1>1, <1>4
  <2> HIDE DEF S, T
  <2>3. QED
    BY <2>1, <2>2
<1>9. QED
  BY <1>6, <1>7, <1>8
-----------------------------------------------------------------------------
(* All that arrived is answered, but for the request that has begun at i.    *)
Exact(i) ==
    /\ From(stream, arrived)[i] = <<>>
    /\ \A m \in arrived .. Len(stream) : Owed(http, stream, m, i) = Answers(stream, m)

(* An answer that closes is the same whatever arrives, and those before it.  *)
Ended ==
    \E k \in 1 .. Len(http.answers) :
        /\ Closes(Given(http.answers)[k])
        /\ \A m \in arrived .. Len(stream) : Agree(Given(http.answers), Answers(stream, m), k)

Arrived == stream \in Seq(Symbol) /\ arrived \in 0 .. Len(stream)

(* The inductive invariant: the context has what was read of the request     *)
(* that begins at i, and those before it are answered.                       *)
IInv ==
    /\ stream \in Stream /\ Arrived /\ {unsent, releasing} \subseteq BOOLEAN
    /\ \E i \in 1 .. arrived + 1 : Open(http, stream, arrived, i) /\ (Exact(i) \/ Ended)

(* What the client should be told is a sequence of answers.                *)
LEMMA AnswersType ==
  ASSUME NEW s \in Seq(Symbol), NEW n \in 0 .. Len(s)
  PROVE  Answers(s, n) \in Seq(Answer)
<1>1. From(s, n) \in [1 .. n + 1 -> Seq(Answer)] /\ Answers(s, n) = From(s, n)[1] /\ 1 \in 1 .. n + 1
  BY FromIs
<1>2. QED
  BY <1>1

(* Nothing put before or after a sequence leaves it.                       *)
LEMMA Prepended ==
  ASSUME NEW a \in Seq(Answer)
  PROVE  <<>> \o a = a /\ a \o <<>> = a
<1> DEFINE T == Answer
<1>1. a \in Seq(T)
  OBVIOUS
<1> HIDE DEF T
<1>2. QED
  BY <1>1

(* A new connection has an empty context and no answers.                   *)
LEMMA InitIInv == Init => IInv
<1> SUFFICES ASSUME Init
             PROVE  IInv
  OBVIOUS
<1>1. /\ stream \in Stream /\ stream \in Seq(Symbol) /\ arrived = 0 /\ http = Fresh
      /\ {unsent, releasing} \subseteq BOOLEAN
  BY StreamAssumption DEF Init
<1>2. Arrived /\ arrived \in 0 .. Len(stream) /\ 1 \in 1 .. arrived + 1
  <2> DEFINE l == Len(stream)
  <2>1. l \in Nat
    BY <1>1
  <2> HIDE DEF l
  <2>2. 0 \in 0 .. l
    BY <2>1
  <2>3. QED
    BY <1>1, <2>2 DEF Arrived, l
<1> DEFINE none == <<>>
<1>3. /\ http.unread = none /\ http.recv_statu = "line" /\ http.resp_statu = 200
      /\ http.req = NoRequest /\ http.answers = none
  BY <1>1 DEF Fresh
<1>4. http \in Http
  <2>1. NoRequest \in Request
    BY NoRequestType
  <2> HIDE DEF NoRequest, Request
  <2>2. Fresh \in Http
    BY <2>1 DEF Fresh, Http
  <2>3. QED
    BY <1>1, <2>2
<1>5. Open(http, stream, arrived, 1)
  <2>1. SubSeq(stream, 1, arrived) = none
    BY <1>1
  <2>2. Seen(http, stream, arrived, 1)
    BY <1>3, <1>4, <2>1 DEF Seen
  <2>3. QED
    BY <1>2, <1>3, <1>4, <2>2 DEF Open
<1>6. Exact(1)
  <2>1. PICK q \in 1 .. arrived + 1 : HeadFrom(stream, arrived, 1, q) /\ Waits(stream, arrived, 1, q)
    BY <1>1, <1>2, <1>3, <1>5, EmptyWaits
  <2>2. AnswersFollow(stream, arrived, arrived, 1, q)
    <3>1. arrived \in arrived .. Len(stream)
      BY <1>2
    <3>2. QED
      BY <1>1, <1>2, <2>1, <3>1, AnswersStep
  <2>3. From(stream, arrived)[1] = <<>>
    BY <2>1, <2>2 DEF AnswersFollow
  <2>4. ASSUME NEW m \in arrived .. Len(stream)
        PROVE  Owed(http, stream, m, 1) = Answers(stream, m)
    <3>1. m \in 0 .. Len(stream)
      BY <1>1
    <3>2. From(stream, m)[1] = Answers(stream, m) /\ Answers(stream, m) \in Seq(Answer)
      BY <1>1, <3>1, FromIs, AnswersType
    <3>3. Given(http.answers) = <<>>
      BY <1>3 DEF Given
    <3> DEFINE a == Answers(stream, m)
    <3> HIDE DEF a
    <3>4. <<>> \o a = a
      BY <3>2, Prepended DEF a
    <3>5. QED
      BY <3>2, <3>3, <3>4 DEF Owed, a
  <2>5. QED
    BY <2>3, <2>4 DEF Exact
<1>7. QED
  BY <1>1, <1>2, <1>5, <1>6 DEF IInv

(* The message callback, with n more symbols.                                *)
LEMMA ReadIInv ==
  ASSUME IInv, NEW n \in 0 .. Len(stream) - arrived, HandleRead(n)
  PROVE  IInv'
<1> DEFINE s == stream
           m0 == arrived + n
           more == SubSeq(s, arrived + 1, m0)
           x == http.unread \o more
           h == [http EXCEPT !.unread = x]
<1>1. PICK i \in 1 .. arrived + 1 : Open(http, s, arrived, i) /\ (Exact(i) \/ Ended)
  BY DEF IInv
<1>2. /\ s \in Seq(Symbol) /\ s \in Stream /\ arrived \in 0 .. Len(s) /\ arrived \in Nat
      /\ {unsent, releasing} \subseteq BOOLEAN
  BY DEF IInv, Arrived
<1>3. m0 \in arrived .. Len(s) /\ m0 \in 0 .. Len(s)
  <2> DEFINE l == Len(s)
  <2>1. l \in Nat /\ n \in 0 .. l - arrived /\ arrived \in Nat
    BY <1>2
  <2> HIDE DEF l
  <2>2. arrived + n \in arrived .. l /\ arrived + n \in 0 .. l
    BY <2>1
  <2>3. QED
    BY <2>2 DEF l
<1>4. /\ stream' = s /\ arrived' = m0 /\ http' = OnMessage(h)
      /\ unsent' = (unsent \/ http'.answers # http.answers) /\ releasing' = releasing
  BY DEF HandleRead
<1>5. http \in Http
  BY <1>1 DEF Open
<1> HIDE DEF m0
<1>6. x \in Seq(Symbol)
  <2> DEFINE a == http.unread
             b == more
             T == Symbol
  <2>1. a \in Seq(T)
    BY <1>5, Fields
  <2>2. b \in Seq(T)
    <3> DEFINE e == arrived + 1
    <3>1. e \in Nat /\ m0 \in Nat /\ e >= 1 /\ m0 <= Len(s)
      BY <1>2, <1>3
    <3> HIDE DEF e
    <3>2. SubSeq(s, e, m0) \in Seq(Symbol)
      BY <1>2, <3>1, Part
    <3>3. QED
      BY <3>2 DEF e
  <2> HIDE DEF a, b, T
  <2>3. a \o b \in Seq(T)
    BY <2>1, <2>2
  <2>4. QED
    BY <2>3 DEF a, b, T
<1> HIDE DEF x
<1>7. /\ h \in Http /\ h.unread = x /\ h.recv_statu = http.recv_statu /\ h.resp_statu = http.resp_statu
      /\ h.req = http.req /\ h.answers = http.answers
  <2>1. h = Rec(x, http.recv_statu, http.resp_statu, http.req, http.answers, http.status)
    BY <1>5, EditUnread
  <2>2. /\ http.recv_statu \in {"line", "header", "body", "over", "error"}
        /\ http.resp_statu \in {0, 200, 400, 414} /\ http.req \in Request /\ http.answers \in Seq(Answer)
        /\ http.status \in {"connected", "disconnecting", "disconnected"}
    BY <1>5, Fields
  <2> HIDE DEF h
  <2>3. QED
    BY <1>6, <2>1, <2>2, RecType, RecFields
<1>8. Open(h, s, m0, i)
  <2>1. h.unread = http.unread \o SubSeq(s, arrived + 1, m0)
    BY <1>7 DEF x
  <2> HIDE DEF h
  <2>2. QED
    BY <1>1, <1>2, <1>3, <1>7, <2>1, OpenMore
<1> DEFINE r == OnMessage(h)
<1> HIDE DEF h
<1>9. PICK j \in 1 .. m0 + 1 :
        /\ Open(r, s, m0, j)
        /\ Grown(h.answers, r.answers)
        /\ \/ /\ From(s, m0)[j] = <<>>
              /\ \A m \in m0 .. Len(s) : Owed(r, s, m, j) = Owed(h, s, m, i)
           \/ /\ Shut(r.answers)
              /\ \A m \in m0 .. Len(s) : Given(r.answers) = Owed(h, s, m, i)
  <2>1. MessageIs(r, h, s, m0, i)
    BY <1>2, <1>3, <1>8, MessageRead
  <2> HIDE DEF r
  <2>2. QED
    BY <2>1 DEF MessageIs
<1>10. http' = r
  BY <1>4
<1> HIDE DEF r
<1>11. /\ r \in Http /\ r.answers \in Seq(Answer) /\ http.answers \in Seq(Answer)
  <2>1. r \in Http
    BY <1>9 DEF Open
  <2>2. QED
    BY <1>5, <2>1, Fields
<1> DEFINE y == Given(r.answers)
           z == Given(http.answers)
<1>12. y \in Seq(Answer) /\ Len(y) = Len(r.answers) /\ z \in Seq(Answer) /\ Len(z) = Len(http.answers)
  BY <1>11, GivenType
<1>13. \A m \in m0 .. Len(s) : m \in arrived .. Len(s) /\ m \in 0 .. Len(s)
  BY <1>2, <1>3
<1>14. CASE Exact(i)
  <2>1. ASSUME NEW m \in m0 .. Len(s)
        PROVE  Owed(h, s, m, i) = Answers(s, m)
    <3>1. Owed(http, s, m, i) = Answers(s, m)
      BY <1>13, <1>14 DEF Exact
    <3>2. Owed(h, s, m, i) = Owed(http, s, m, i)
      BY <1>7 DEF Owed
    <3>3. QED
      BY <3>1, <3>2
  <2>2. CASE /\ From(s, m0)[j] = <<>>
             /\ \A m \in m0 .. Len(s) : Owed(r, s, m, j) = Owed(h, s, m, i)
    <3>1. Exact(j)'
      BY <1>4, <1>10, <2>1, <2>2 DEF Exact
    <3>2. QED
      BY <1>2, <1>3, <1>4, <1>9, <1>10, <3>1 DEF IInv, Arrived
  <2>3. CASE /\ Shut(r.answers)
             /\ \A m \in m0 .. Len(s) : Given(r.answers) = Owed(h, s, m, i)
    <3> DEFINE k == Len(r.answers)
    <3>1. k \in 1 .. Len(r.answers) /\ Closes(y[k])
      <4>1. k \in Nat /\ k # 0
        BY <1>11, <2>3 DEF Shut
      <4>2. QED
        BY <2>3, <4>1 DEF Shut
    <3>2. ASSUME NEW m \in m0 .. Len(s)
          PROVE  Agree(y, Answers(s, m), k)
      <4>1. y = Answers(s, m)
        BY <2>1, <2>3
      <4>2. k \in 1 .. Len(y)
        BY <1>12, <3>1
      <4> HIDE DEF y, k
      <4>3. QED
        BY <4>1, <4>2 DEF Agree
    <3> HIDE DEF k
    <3>3. Ended'
      BY <1>4, <1>10, <3>1, <3>2 DEF Ended
    <3>4. QED
      BY <1>2, <1>3, <1>4, <1>9, <1>10, <3>3 DEF IInv, Arrived
  <2>4. QED
    BY <1>9, <2>2, <2>3
<1>15. CASE Ended
  <2>1. PICK k \in 1 .. Len(http.answers) :
          /\ Closes(z[k])
          /\ \A m \in arrived .. Len(s) : Agree(z, Answers(s, m), k)
    BY <1>15 DEF Ended
  <2>2. /\ Len(http.answers) <= Len(r.answers)
        /\ \A l \in 1 .. Len(http.answers) : r.answers[l] = http.answers[l]
    BY <1>7, <1>9 DEF Grown
  <2>3. Len(http.answers) \in Nat /\ Len(r.answers) \in Nat
    BY <1>11
  <2>4. k \in 1 .. Len(r.answers) /\ \A l \in 1 .. k : l \in 1 .. Len(http.answers) /\ l \in 1 .. Len(r.answers)
    BY <2>2, <2>3
  <2>5. ASSUME NEW l \in 1 .. k
        PROVE  y[l] = z[l]
    <3>1. l \in DOMAIN r.answers /\ l \in DOMAIN http.answers
      BY <1>11, <2>4
    <3>2. y[l] = StatusRead(r.answers[l]) /\ z[l] = StatusRead(http.answers[l])
      BY <3>1 DEF Given
    <3>3. QED
      BY <2>2, <2>4, <3>2
  <2>6. k \in 1 .. k
    BY <2>4
  <2> HIDE DEF y, z
  <2>7. Closes(y[k])
    BY <2>1, <2>5, <2>6
  <2>8. ASSUME NEW m \in m0 .. Len(s)
        PROVE  Agree(y, Answers(s, m), k)
    <3>1. Agree(z, Answers(s, m), k)
      BY <1>13, <2>1
    <3>2. k \in 1 .. Len(y)
      BY <1>12, <2>4
    <3>3. QED
      BY <2>5, <3>1, <3>2 DEF Agree
  <2>9. Ended'
    BY <1>4, <1>10, <2>4, <2>7, <2>8 DEF Ended, y
  <2>10. QED
    BY <1>2, <1>3, <1>4, <1>9, <1>10, <2>9 DEF IInv, Arrived
<1>16. QED
  BY <1>1, <1>14, <1>15

(* Reading, running the message callback, writing and closing keep the     *)
(* invariant.                                                              *)
LEMMA StepIInv == IInv /\ [Next]_vars => IInv'
<1> SUFFICES ASSUME IInv, [Next]_vars
             PROVE  IInv'
  OBVIOUS
<1>1. PICK i \in 1 .. arrived + 1 : Open(http, stream, arrived, i) /\ (Exact(i) \/ Ended)
  BY DEF IInv
<1>2. CASE \E n \in 0 .. Len(stream) - arrived : HandleRead(n)
  BY <1>2, ReadIInv
<1>3. CASE HandleWrite
  <2>1. /\ stream' = stream /\ arrived' = arrived /\ http' = http
        /\ unsent' = FALSE /\ releasing' = (http.status = "disconnecting")
    BY <1>3 DEF HandleWrite
  <2>2. (Exact(i) \/ Ended)'
    BY <1>1, <2>1 DEF Exact, Ended
  <2>3. Open(http, stream, arrived, i)'
    BY <1>1, <2>1
  <2>4. {unsent, releasing}' \subseteq BOOLEAN
    BY <2>1
  <2>5. QED
    BY <1>1, <2>1, <2>2, <2>3, <2>4 DEF IInv, Arrived
<1>4. CASE ReleaseInLoop
  <2> DEFINE g == [http EXCEPT !.status = "disconnected"]
  <2>1. /\ stream' = stream /\ arrived' = arrived /\ unsent' = unsent /\ releasing' = FALSE
        /\ http' = g
    BY <1>4 DEF ReleaseInLoop
  <2>2. http \in Http
    BY <1>1 DEF Open
  <2>3. /\ g \in Http /\ g.unread = http.unread /\ g.recv_statu = http.recv_statu
        /\ g.resp_statu = http.resp_statu /\ g.req = http.req /\ g.answers = http.answers
    <3>1. g = Rec(http.unread, http.recv_statu, http.resp_statu, http.req, http.answers, "disconnected")
      BY <2>2, EditStatus
    <3>2. /\ http.recv_statu \in {"line", "header", "body", "over", "error"}
          /\ http.resp_statu \in {0, 200, 400, 414} /\ http.req \in Request /\ http.answers \in Seq(Answer)
          /\ http.unread \in Seq(Symbol)
      BY <2>2, Fields
    <3> HIDE DEF g
    <3>3. QED
      BY <3>1, <3>2, RecType, RecFields
  <2> HIDE DEF g
  <2>4. Open(g, stream, arrived, i)
    BY <1>1, <2>3, OpenAlike
  <2>5. ASSUME NEW m \in arrived .. Len(stream)
        PROVE  Owed(g, stream, m, i) = Owed(http, stream, m, i)
    BY <2>3 DEF Owed
  <2>6. (Exact(i) \/ Ended)'
    <3>1. ASSUME Exact(i)
          PROVE  Exact(i)'
      BY <2>1, <2>5, <3>1 DEF Exact
    <3>2. ASSUME Ended
          PROVE  Ended'
      BY <2>1, <2>3, <3>2 DEF Ended
    <3>3. QED
      BY <1>1, <3>1, <3>2
  <2>7. {unsent, releasing}' \subseteq BOOLEAN
    BY <2>1 DEF IInv
  <2>8. QED
    BY <1>1, <2>1, <2>4, <2>6, <2>7 DEF IInv, Arrived
<1>5. CASE UNCHANGED vars
  <2>1. stream' = stream /\ arrived' = arrived /\ http' = http /\ unsent' = unsent /\ releasing' = releasing
    BY <1>5 DEF vars
  <2>2. (Exact(i) \/ Ended)'
    BY <1>1, <2>1 DEF Exact, Ended
  <2>3. Open(http, stream, arrived, i)'
    BY <1>1, <2>1
  <2>4. {unsent, releasing}' \subseteq BOOLEAN
    BY <2>1 DEF IInv
  <2>5. QED
    BY <1>1, <2>1, <2>2, <2>3, <2>4 DEF IInv, Arrived
<1>6. QED
  BY <1>2, <1>3, <1>4, <1>5 DEF Next

(* Of what is left in the context.                                           *)
LEMMA IInvClean == IInv => CleanContext
<1> SUFFICES ASSUME IInv
             PROVE  CleanContext
  OBVIOUS
<1>1. PICK i \in 1 .. arrived + 1 : Open(http, stream, arrived, i)
  BY DEF IInv
<1>2. stream \in Stream /\ stream \in Seq(Symbol) /\ arrived \in 0 .. Len(stream) /\ {unsent, releasing} \subseteq BOOLEAN
  BY DEF IInv, Arrived
<1>3. /\ http \in Http /\ http.recv_statu \in {"line", "header", "body"} /\ http.resp_statu \in {0, 200}
      /\ Len(http.req.body) <= http.req.length
      /\ Len(http.unread) <= arrived
      /\ http.recv_statu = "line" => http.req = NoRequest
  BY <1>1, <1>2, OpenIsClean
<1>4. QED
  BY <1>2, <1>3 DEF CleanContext, TypeOK

(* Of what has been answered.                                                *)
LEMMA IInvAnswers == IInv => AnswersAsInOnePiece
<1> SUFFICES ASSUME IInv
             PROVE  AnswersAsInOnePiece
  OBVIOUS
<1>1. PICK i \in 1 .. arrived + 1 : Open(http, stream, arrived, i) /\ (Exact(i) \/ Ended)
  BY DEF IInv
<1>2. stream \in Seq(Symbol) /\ arrived \in 0 .. Len(stream) /\ arrived \in arrived .. Len(stream)
  BY DEF IInv, Arrived
<1>3. http.answers \in Seq(Answer)
  <2>1. http \in Http
    BY <1>1 DEF Open
  <2>2. QED
    BY <2>1, Fields
<1> DEFINE x == Given(http.answers)
           y == Answers(stream, arrived)
<1>4. x \in Seq(Answer) /\ y \in Seq(Answer)
  BY <1>2, <1>3, GivenType, AnswersType
<1>5. UpToLast(x) = UpToLast(y)
  <2>1. CASE Exact(i)
    <3>1. Owed(http, stream, arrived, i) = y /\ From(stream, arrived)[i] = <<>>
      BY <1>2, <2>1 DEF Exact
    <3>2. Owed(http, stream, arrived, i) = x \o From(stream, arrived)[i]
      BY DEF Owed
    <3> HIDE DEF x, y
    <3>3. x \o <<>> = x
      BY <1>4, Prepended
    <3>4. x = y
      BY <3>1, <3>2, <3>3
    <3>5. QED
      BY <3>4
  <2>2. CASE Ended
    <3>1. PICK k \in 1 .. Len(http.answers) : Closes(x[k]) /\ Agree(x, y, k)
      BY <1>2, <2>2 DEF Ended
    <3> HIDE DEF x, y
    <3>2. QED
      BY <1>4, <3>1, AgreeUpToLast
  <2>3. QED
    BY <1>1, <2>1, <2>2
<1>6. QED
  BY <1>5, Zenon DEF AnswersAsInOnePiece, Given

(* Nothing of a request is left in the context when the next one begins, and *)
(* no body outgrows its length, however the stream is cut.                   *)
THEOREM ContextCorrect == Spec => []CleanContext
<1>1. Spec => []IInv
  BY InitIInv, StepIInv, PTL DEF Spec
<1>2. QED
  BY <1>1, IInvClean, PTL

(* However the stream is cut, what has been answered is what is answered to  *)
(* the same bytes in one piece, up to the answer that closes.                *)
THEOREM AnswersCorrect == Spec => []AnswersAsInOnePiece
<1>1. Spec => []IInv
  BY InitIInv, StepIInv, PTL DEF Spec
<1>2. QED
  BY <1>1, IInvAnswers, PTL

-----------------------------------------------------------------------------
(***************************************************************************)
(* 3. Any.                                                                 *)
(***************************************************************************)

(* The null pointer, addresses and values are told apart.                  *)
Distinct == A!CellAssumption /\ A!ValueAssumption

(* OneOwner is inductive with the types.                                   *)
AnyInv == Distinct /\ A!TypeOK /\ A!OneOwner

(* The address new gives is nobody's. *)
LEMMA UnusedIsNobodys ==
  ASSUME AnyInv, NEW c \in A!Unused
  PROVE  c \in Cell /\ heap[c] = Free /\ \A x \in Name : dummy[x] # c
  BY Zenon DEF AnyInv, A!OneOwner, A!Unused

(* What an object points to is allocated, and nobody else points to it.    *)
LEMMA HeldIsOwn ==
  ASSUME AnyInv, NEW x \in Name, dummy[x] \in Cell
  PROVE  /\ heap[dummy[x]] \in Value
         /\ \A y \in Name : dummy[y] = dummy[x] => y = x
<1>1. heap[dummy[x]] # Free
  <2>1. ASSUME NEW c \in Cell, heap[c] = Free
        PROVE  \A y \in Name : dummy[y] # c
    BY <2>1, Zenon DEF AnyInv, A!OneOwner
  <2> QED
    BY <2>1
<1>2. \A y \in Name : dummy[y] = dummy[x] => y = x
  <2>1. ASSUME NEW c \in Cell, heap[c] # Free
        PROVE  \E z \in Name : \A y \in Name : dummy[y] = c <=> y = z
    BY <2>1, Zenon DEF AnyInv, A!OneOwner
  <2>2. PICK z \in Name : \A y \in Name : dummy[y] = dummy[x] <=> y = z
    BY <1>1, <2>1
  <2> QED
    BY <2>2
<1> QED
  BY <1>1, <1>2 DEF AnyInv, A!TypeOK

(* Any step of Next is of one of three kinds: x, which had no placeholder  *)
(* or gives up the one it had, gets a new one; x is left without; or the   *)
(* one it has is set.                                                      *)
Renews(x, c, v) == /\ c \in A!Unused
                   /\ v \in Value
                   /\ heap' = A!Delete([heap EXCEPT ![c] = v], dummy[x])
                   /\ dummy' = [dummy EXCEPT ![x] = c]

Loses(x, p) == /\ p \in {Null, Dead}
               /\ heap' = A!Delete(heap, dummy[x])
               /\ dummy' = [dummy EXCEPT ![x] = p]

Sets(x, v) == /\ dummy[x] \in Cell
              /\ v \in Value
              /\ heap' = [heap EXCEPT ![dummy[x]] = v]
              /\ dummy' = dummy

(* A new placeholder, and the old one deleted, keep the invariant.         *)
LEMMA RenewsKeepsInv ==
  ASSUME AnyInv, NEW x \in Name, NEW c, NEW v, Renews(x, c, v)
  PROVE  AnyInv'
<1> USE DEF Distinct, A!CellAssumption, A!ValueAssumption
<1> Distinct
  BY DEF AnyInv
<1>1. c \in Cell /\ heap[c] = Free /\ \A y \in Name : dummy[y] # c
  BY UnusedIsNobodys DEF Renews
<1>2. dummy' \in [Name -> Cell \cup {Null, Dead}] /\ heap' \in [Cell -> Value \cup {Free}]
  BY <1>1 DEF AnyInv, A!TypeOK, Renews, A!Delete
<1>3. /\ \A y \in Name : dummy'[y] = IF y = x THEN c ELSE dummy[y]
      /\ \A d \in Cell : heap'[d] = IF d = dummy[x] THEN Free
                                    ELSE IF d = c THEN v ELSE heap[d]
  BY <1>1 DEF AnyInv, A!TypeOK, Renews, A!Delete
<1>4. ASSUME NEW d \in Cell
      PROVE  IF heap'[d] = Free THEN \A y \in Name : dummy'[y] # d
             ELSE \E y \in Name : \A z \in Name : dummy'[z] = d <=> z = y
  <2>1. CASE d = dummy[x]
    BY <1>1, <1>3, <2>1, HeldIsOwn
  <2>2. CASE d = c
    <3>1. heap'[d] # Free
      BY <1>1, <1>3, <2>2 DEF Renews
    <3> QED
      BY <1>1, <1>3, <2>2, <3>1
  <2>3. CASE d # dummy[x] /\ d # c
    <3>1. heap'[d] = heap[d] /\ \A y \in Name : dummy'[y] = d <=> dummy[y] = d
      BY <1>3, <2>3
    <3> QED
      BY <3>1 DEF AnyInv, A!OneOwner
  <2> QED
    BY <2>1, <2>2, <2>3
<1> QED
  BY <1>2, <1>4 DEF AnyInv, A!TypeOK, A!OneOwner

(* A placeholder deleted and the pointer changed keep the invariant.       *)
LEMMA LosesKeepsInv ==
  ASSUME AnyInv, NEW x \in Name, NEW p, Loses(x, p)
  PROVE  AnyInv'
<1> USE DEF Distinct, A!CellAssumption, A!ValueAssumption
<1> Distinct
  BY DEF AnyInv
<1>2. dummy' \in [Name -> Cell \cup {Null, Dead}] /\ heap' \in [Cell -> Value \cup {Free}]
  BY DEF AnyInv, A!TypeOK, Loses, A!Delete
<1>3. /\ \A y \in Name : dummy'[y] = IF y = x THEN p ELSE dummy[y]
      /\ \A d \in Cell : heap'[d] = IF d = dummy[x] THEN Free ELSE heap[d]
  BY DEF AnyInv, A!TypeOK, Loses, A!Delete
<1>4. ASSUME NEW d \in Cell
      PROVE  IF heap'[d] = Free THEN \A y \in Name : dummy'[y] # d
             ELSE \E y \in Name : \A z \in Name : dummy'[z] = d <=> z = y
  <2>1. CASE d = dummy[x]
    BY <1>3, <2>1, HeldIsOwn DEF Loses
  <2>2. CASE d # dummy[x]
    <3>1. heap'[d] = heap[d] /\ \A y \in Name : dummy'[y] = d <=> dummy[y] = d
      BY <1>3, <2>2 DEF Loses
    <3> QED
      BY <3>1 DEF AnyInv, A!OneOwner
  <2> QED
    BY <2>1, <2>2
<1> QED
  BY <1>2, <1>4 DEF AnyInv, A!TypeOK, A!OneOwner

(* A placeholder written in place keeps the invariant.                     *)
LEMMA SetsKeepsInv ==
  ASSUME AnyInv, NEW x \in Name, NEW v, Sets(x, v)
  PROVE  AnyInv'
<1> USE DEF Distinct, A!CellAssumption, A!ValueAssumption
<1> Distinct
  BY DEF AnyInv
<1>1. heap[dummy[x]] # Free /\ v # Free
  BY HeldIsOwn DEF Sets
<1>2. /\ dummy' = dummy /\ heap' \in [Cell -> Value \cup {Free}]
      /\ \A d \in Cell : heap'[d] = Free <=> heap[d] = Free
  BY <1>1 DEF AnyInv, A!TypeOK, Sets
<1> QED
  BY <1>2 DEF AnyInv, A!TypeOK, A!OneOwner

-----------------------------------------------------------------------------
(* delete of what is no address does nothing. *)
LEMMA DeleteNothing ==
  ASSUME NEW h, DOMAIN h = Cell, h = [c \in Cell |-> h[c]], NEW p, p \notin Cell
  PROVE  A!Delete(h, p) = h
  BY DEF A!Delete

(* An empty object loses nothing.                                          *)
LEMMA DefaultKind ==
  ASSUME AnyInv, NEW x \in Name, A!Default(x)
  PROVE  Loses(x, Null)
  BY DeleteNothing DEF AnyInv, Distinct, A!CellAssumption, A!TypeOK, A!Default, A!Lives, Loses

(* Construction from a value renews the placeholder.                       *)
LEMMA FromValueKind ==
  ASSUME AnyInv, NEW x \in Name, NEW v \in Value, A!FromValue(x, v)
  PROVE  \E c : Renews(x, c, v)
<1>1. PICK c \in A!Unused : /\ heap' = [heap EXCEPT ![c] = v]
                          /\ dummy' = [dummy EXCEPT ![x] = c]
  BY DEF A!FromValue
<1>2. A!Delete(heap', dummy[x]) = heap'
  BY <1>1, DeleteNothing DEF AnyInv, Distinct, A!CellAssumption, A!TypeOK, A!FromValue, A!Lives
<1> QED
  BY <1>1, <1>2 DEF Renews

(* A copy renews the placeholder with the value of the other, or has none. *)
LEMMA CopyKind ==
  ASSUME AnyInv, NEW x \in Name, NEW y \in Name, A!Copy(x, y)
  PROVE  \/ dummy[y] = Null /\ Loses(x, Null)
         \/ dummy[y] \in Cell /\ \E c : Renews(x, c, heap[dummy[y]])
<1>1. CASE dummy[y] = Null
  BY <1>1, DeleteNothing DEF AnyInv, Distinct, A!CellAssumption, A!TypeOK, A!Copy, A!Lives, Loses
<1>2. CASE dummy[y] # Null
  <2>1. dummy[y] \in Cell
    BY <1>2 DEF AnyInv, A!TypeOK, A!Copy, A!Lives
  <2>2. heap[dummy[y]] \in Value
    BY <2>1, HeldIsOwn
  <2>3. PICK c \in A!Unused : /\ heap' = [heap EXCEPT ![c] = heap[dummy[y]]]
                            /\ dummy' = [dummy EXCEPT ![x] = c]
    BY <1>2 DEF A!Copy
  <2>4. A!Delete(heap', dummy[x]) = heap'
    BY <2>3, DeleteNothing DEF AnyInv, Distinct, A!CellAssumption, A!TypeOK, A!Copy, A!Lives
  <2> QED
    BY <2>1, <2>2, <2>3, <2>4 DEF Renews
<1> QED
  BY <1>1, <1>2

(* An assignment renews the placeholder with the value of the other, or    *)
(* loses it.                                                               *)
LEMMA AssignKind ==
  ASSUME AnyInv, NEW x \in Name, NEW y \in Name, A!Assign(x, y)
  PROVE  \/ dummy[y] = Null /\ Loses(x, Null)
         \/ dummy[y] \in Cell /\ \E c : Renews(x, c, heap[dummy[y]])
<1>1. CASE dummy[y] = Null
  BY <1>1 DEF A!Assign, Loses
<1>2. CASE dummy[y] # Null
  <2>1. dummy[y] \in Cell
    BY <1>2 DEF AnyInv, A!TypeOK, A!Assign, A!Lives
  <2>2. heap[dummy[y]] \in Value
    BY <2>1, HeldIsOwn
  <2> QED
    BY <1>2, <2>1, <2>2 DEF A!Assign, Renews
<1> QED
  BY <1>1, <1>2

(* An assignment of a value renews the placeholder.                        *)
LEMMA StoreKind ==
  ASSUME AnyInv, NEW x \in Name, NEW v \in Value, A!Store(x, v)
  PROVE  \E c : Renews(x, c, v)
  BY DEF A!Store, Renews

(* A write through the pointer sets the placeholder.                       *)
LEMMA ModifyKind ==
  ASSUME AnyInv, NEW x \in Name, NEW v \in Value, A!Modify(x, v)
  PROVE  Sets(x, v)
  BY DEF AnyInv, A!TypeOK, A!Modify, A!Lives, Sets

(* A destructor loses the placeholder.                                     *)
LEMMA DestroyKind ==
  ASSUME AnyInv, NEW x \in Name, A!Destroy(x)
  PROVE  Loses(x, Dead)
  BY DEF A!Destroy, Loses

-----------------------------------------------------------------------------
(* Before any object exists nothing is allocated.                          *)
LEMMA InitInv == Distinct /\ A!Init => AnyInv
  BY DEF Distinct, A!CellAssumption, A!Init, AnyInv, A!TypeOK, A!OneOwner

(* Every operation is of one of three kinds, each of which keeps the       *)
(* invariant.                                                              *)
LEMMA NextInv == AnyInv /\ [A!Next]_(A!vars) => AnyInv'
<1> SUFFICES ASSUME AnyInv, [A!Next]_(A!vars)
             PROVE  AnyInv'
  OBVIOUS
<1>1. CASE UNCHANGED A!vars
  BY <1>1 DEF A!vars, AnyInv, Distinct, A!CellAssumption, A!ValueAssumption, A!TypeOK, A!OneOwner
<1>2. ASSUME NEW x \in Name, A!Default(x) \/ A!Destroy(x)
      PROVE  AnyInv'
  BY <1>2, DefaultKind, DestroyKind, LosesKeepsInv
<1>3. ASSUME NEW x \in Name, NEW v \in Value, A!FromValue(x, v) \/ A!Store(x, v)
      PROVE  AnyInv'
  BY <1>3, FromValueKind, StoreKind, RenewsKeepsInv
<1>4. ASSUME NEW x \in Name, NEW y \in Name, A!Copy(x, y) \/ A!Assign(x, y)
      PROVE  AnyInv'
  BY <1>4, CopyKind, AssignKind, RenewsKeepsInv, LosesKeepsInv
<1>5. ASSUME NEW x \in Name, NEW v \in Value, A!Modify(x, v)
      PROVE  AnyInv'
  BY <1>5, ModifyKind, SetsKeepsInv
<1> QED
  BY <1>1, <1>2, <1>3, <1>4, <1>5 DEF A!Next

(* No placeholder is shared, leaked, or used after it was deleted          *)
(* (server.hpp:189-207).                                                   *)
THEOREM OwnershipCorrect ==
  ASSUME A!CellAssumption, A!ValueAssumption
  PROVE  A!Spec => [](A!TypeOK /\ A!OneOwner)
<1> Distinct
  BY DEF Distinct
<1>1. AnyInv => A!TypeOK /\ A!OneOwner
  BY DEF AnyInv
<1> QED
  BY InitInv, NextInv, <1>1, PTL DEF A!Spec

-----------------------------------------------------------------------------
(* How the three kinds of steps change what the objects hold.              *)
LEMMA HeldType ==
  ASSUME AnyInv
  PROVE  /\ A!held = [x \in Name |-> A!held[x]]
         /\ \A x \in Name : /\ dummy[x] = Dead <=> A!held[x] = Dead
                            /\ dummy[x] = Null <=> A!held[x] = Null
                            /\ dummy[x] \in Cell <=> A!held[x] \in Value
                            /\ dummy[x] \in Cell => A!held[x] = heap[dummy[x]]
<1>1. \A x \in Name : dummy[x] \in Cell => heap[dummy[x]] \in Value
  BY HeldIsOwn
<1> QED
  BY <1>1 DEF A!held, AnyInv, Distinct, A!CellAssumption, A!ValueAssumption, A!TypeOK

(* A renewed placeholder is a new value held.                              *)
LEMMA RenewsHeld ==
  ASSUME AnyInv, NEW x \in Name, NEW c, NEW v, Renews(x, c, v)
  PROVE  A!held' = [A!held EXCEPT ![x] = v]
<1>1. c \in Cell /\ heap[c] = Free /\ \A y \in Name : dummy[y] # c
  BY UnusedIsNobodys DEF Renews
<1>2. /\ \A y \in Name : dummy'[y] = IF y = x THEN c ELSE dummy[y]
      /\ \A d \in Cell : heap'[d] = IF d = dummy[x] THEN Free
                                    ELSE IF d = c THEN v ELSE heap[d]
  BY <1>1 DEF AnyInv, A!TypeOK, Renews, A!Delete
<1>3. ASSUME NEW y \in Name
      PROVE  A!held'[y] = [A!held EXCEPT ![x] = v][y]
  <2>1. CASE y = x
    BY <1>1, <1>2, <2>1 DEF A!held
  <2>2. CASE y # x
    <3>1. dummy[y] \in Cell => dummy[y] # dummy[x]
      BY <2>2, HeldIsOwn
    <3> QED
      BY <1>1, <1>2, <2>2, <3>1 DEF A!held
  <2> QED
    BY <2>1, <2>2
<1> QED
  BY <1>3 DEF A!held

(* A deleted placeholder is no value held.                                 *)
LEMMA LosesHeld ==
  ASSUME AnyInv, NEW x \in Name, NEW p, Loses(x, p)
  PROVE  A!held' = [A!held EXCEPT ![x] = p]
<1>2. /\ \A y \in Name : dummy'[y] = IF y = x THEN p ELSE dummy[y]
      /\ \A d \in Cell : heap'[d] = IF d = dummy[x] THEN Free ELSE heap[d]
  BY DEF AnyInv, A!TypeOK, Loses, A!Delete
<1>3. ASSUME NEW y \in Name
      PROVE  A!held'[y] = [A!held EXCEPT ![x] = p][y]
  <2>1. CASE y = x
    BY <1>2, <2>1 DEF A!held, Loses, AnyInv, Distinct, A!CellAssumption
  <2>2. CASE y # x
    <3>1. dummy[y] \in Cell => dummy[y] # dummy[x]
      BY <2>2, HeldIsOwn
    <3> QED
      BY <1>2, <2>2, <3>1 DEF A!held
  <2> QED
    BY <2>1, <2>2
<1> QED
  BY <1>3 DEF A!held

(* A placeholder written in place is a new value held.                     *)
LEMMA SetsHeld ==
  ASSUME AnyInv, NEW x \in Name, NEW v, Sets(x, v)
  PROVE  A!held' = [A!held EXCEPT ![x] = v]
<1>1. \A y \in Name : dummy[y] = dummy[x] => y = x
  BY HeldIsOwn DEF Sets
<1>2. /\ dummy' = dummy
      /\ \A d \in Cell : heap'[d] = IF d = dummy[x] THEN v ELSE heap[d]
  BY DEF AnyInv, A!TypeOK, Sets
<1>3. ASSUME NEW y \in Name
      PROVE  A!held'[y] = [A!held EXCEPT ![x] = v][y]
  BY <1>1, <1>2 DEF A!held, Sets
<1> QED
  BY <1>3 DEF A!held

-----------------------------------------------------------------------------
(* Every operation of Any is one of Values.                                *)
LEMMA StepIsValues ==
  ASSUME AnyInv, [A!Next]_(A!vars)
  PROVE  [A!HoldsValues!Next]_(A!held)
<1> USE DEF A!HoldsValues!Becomes
<1>1. CASE UNCHANGED A!vars
  BY <1>1 DEF A!vars, A!held
<1>2. ASSUME NEW x \in Name, A!Default(x)
      PROVE  A!HoldsValues!Begin(x)
  <2>1. A!held[x] = Dead /\ A!held' = [A!held EXCEPT ![x] = Null]
    BY <1>2, DefaultKind, LosesHeld, HeldType DEF A!Default, A!Lives
  <2> QED
    BY <2>1 DEF A!HoldsValues!Begin
<1>3. ASSUME NEW x \in Name, NEW v \in Value, A!FromValue(x, v)
      PROVE  A!HoldsValues!Begin(x)
  <2>1. A!held[x] = Dead /\ A!held' = [A!held EXCEPT ![x] = v]
    BY <1>3, FromValueKind, RenewsHeld, HeldType DEF A!FromValue, A!Lives
  <2> QED
    BY <2>1 DEF A!HoldsValues!Begin
<1>4. ASSUME NEW x \in Name, NEW y \in Name, A!Copy(x, y)
      PROVE  A!HoldsValues!Begin(x)
  <2>1. A!held[x] = Dead /\ A!held[y] # Dead
    BY <1>4, HeldType DEF A!Copy, A!Lives
  <2>2. A!held' = [A!held EXCEPT ![x] = A!held[y]]
    BY <1>4, CopyKind, RenewsHeld, LosesHeld, HeldType
  <2> QED
    BY <2>1, <2>2 DEF A!HoldsValues!Begin
<1>5. ASSUME NEW x \in Name, NEW y \in Name, A!Assign(x, y)
      PROVE  A!HoldsValues!Assign(x, y)
  <2>1. A!held[x] # Dead /\ A!held[y] # Dead
    BY <1>5, HeldType DEF A!Assign, A!Lives
  <2>2. A!held' = [A!held EXCEPT ![x] = A!held[y]]
    BY <1>5, AssignKind, RenewsHeld, LosesHeld, HeldType
  <2> QED
    BY <2>1, <2>2 DEF A!HoldsValues!Assign
<1>6. ASSUME NEW x \in Name, NEW v \in Value, A!Store(x, v)
      PROVE  A!HoldsValues!Store(x, v)
  <2>1. A!held[x] # Dead /\ A!held' = [A!held EXCEPT ![x] = v]
    BY <1>6, StoreKind, RenewsHeld, HeldType DEF A!Store, A!Lives
  <2> QED
    BY <2>1 DEF A!HoldsValues!Store
<1>7. ASSUME NEW x \in Name, NEW v \in Value, A!Modify(x, v)
      PROVE  A!HoldsValues!Modify(x, v)
  <2>1. A!held[x] \in Value /\ A!held[x] = heap[dummy[x]]
    BY <1>7, ModifyKind, HeldType DEF Sets
  <2>2. A!held' = [A!held EXCEPT ![x] = v]
    BY <1>7, ModifyKind, SetsHeld
  <2> QED
    BY <1>7, <2>1, <2>2 DEF A!HoldsValues!Modify, A!Modify
<1>8. ASSUME NEW x \in Name, A!Destroy(x)
      PROVE  A!HoldsValues!End(x)
  <2>1. A!held[x] # Dead /\ A!held' = [A!held EXCEPT ![x] = Dead]
    BY <1>8, DestroyKind, LosesHeld, HeldType DEF A!Destroy, A!Lives
  <2> QED
    BY <2>1 DEF A!HoldsValues!End
<1>9. CASE A!Next
  <2>1. PICK x \in Name : \/ A!Default(x)
                          \/ \E v \in Value : A!FromValue(x, v) \/ A!Store(x, v) \/ A!Modify(x, v)
                          \/ \E y \in Name : A!Copy(x, y) \/ A!Assign(x, y)
                          \/ A!Destroy(x)
    BY <1>9 DEF A!Next
  <2> QED
    BY <2>1, <1>2, <1>3, <1>4, <1>5, <1>6, <1>7, <1>8 DEF A!HoldsValues!Next
<1> QED
  BY <1>1, <1>9

(* Copies are independent, assignment is by value, also to itself          *)
(* (server.hpp:191-212).                                                   *)
THEOREM ImplementsValues ==
  ASSUME A!CellAssumption, A!ValueAssumption
  PROVE  A!Spec => A!IsValue
<1> Distinct
  BY DEF Distinct
<1>1. A!Init => A!HoldsValues!Init
  BY DEF A!CellAssumption, A!Init, A!HoldsValues!Init, A!held
<1>2. AnyInv /\ [A!Next]_(A!vars) => [A!HoldsValues!Next]_(A!held)
  BY StepIsValues
<1> QED
  BY InitInv, NextInv, <1>1, <1>2, PTL DEF A!Spec, A!IsValue, A!HoldsValues!Spec
=============================================================================
