---------------------------- MODULE VsnprintfProofs ----------------------------
(***************************************************************************)
(* What printf leaves in out_buf, for every format, all its arguments and  *)
(* every size of the buffer and of a long: the locals of _vsnprintf keep   *)
(* their types and va_arg stays inside the arguments (TypeCorrect); a      *)
(* terminator is where the first pass expected it or before, and nothing   *)
(* behind it is written (StaysInBuffer); where no argument is passed over, *)
(* both passes find the same length (PassesMeasureAlike), and a            *)
(* well-formed format is printed as it says (PrintsWhatItSays).            *)
(*                                                                         *)
(* The model defines by recursion what a format is found to be, what is    *)
(* left of a number after k divisions, and how a number is written. What   *)
(* such a function is follows from Recursion, and what holds of all its    *)
(* values from Induction, which speaks of a set of numbers and not of an   *)
(* operator.                                                               *)
(***************************************************************************)
EXTENDS Vsnprintf, SequenceTheorems, FiniteSetTheorems, WellFoundedInduction, TLAPS

-----------------------------------------------------------------------------
(* Induction and recursion. *)

(* A set of numbers with zero and the successor of each of its numbers.      *)
LEMMA Induction ==
    ASSUME NEW S, 0 \in S, \A n \in Nat : n \in S => n + 1 \in S
    PROVE  Nat \subseteq S
<1> SUFFICES ASSUME Nat \ S # {}
             PROVE  FALSE
  OBVIOUS
<1>1. PICK n \in Nat \ S : \A m \in Nat \ S : <<m, n>> \notin OpToRel(<, Nat)
  BY WFMin, NatLessThanWellFounded
<1>2. \A m \in Nat \ S : ~(m < n)
  BY <1>1 DEF OpToRel
<1>3. n - 1 \in Nat /\ (n - 1) + 1 = n
  OBVIOUS
<1>4. n - 1 \in S
  BY <1>2, <1>3
<1>5. QED
  BY <1>3, <1>4

(* What a function defined from its value at a smaller argument is made of.  *)
Recursive(lo, hi, St, B, base, pred, step) ==
    /\ lo \in Int /\ hi \in Int
    /\ \A n \in lo .. hi : n \in B => base[n] \in St
    /\ \A n \in lo .. hi : n \notin B => pred[n] \in lo .. n - 1
    /\ \A n \in lo .. hi, v \in St : n \notin B => step[<<n, v>>] \in St

(* There is a function defined from its value at a smaller argument.         *)
LEMMA Recursion ==
    ASSUME NEW lo, NEW hi, NEW St, NEW B, NEW base, NEW pred, NEW step,
           Recursive(lo, hi, St, B, base, pred, step)
    PROVE  \E f \in [lo .. hi -> St] :
               f = [n \in lo .. hi |-> IF n \in B THEN base[n] ELSE step[<<n, f[pred[n]]>>]]
<1> DEFINE Rec(f, k) ==
        \A n \in lo .. lo + k - 1 : n <= hi => f[n] = IF n \in B THEN base[n] ELSE step[<<n, f[pred[n]]>>]
    Reached == {k \in Nat : lo + k - 1 <= hi => \E f \in [lo .. lo + k - 1 -> St] : Rec(f, k)}
<1>0. /\ lo \in Int /\ hi \in Int
      /\ \A n \in lo .. hi : n \in B => base[n] \in St
      /\ \A n \in lo .. hi : n \notin B => pred[n] \in lo .. n - 1
      /\ \A n \in lo .. hi, v \in St : n \notin B => step[<<n, v>>] \in St
  BY DEF Recursive
<1> USE <1>0
<1>1. 0 \in Reached
  <2>1. lo .. lo + 0 - 1 = {}
    OBVIOUS
  <2>2. [n \in {} |-> n] \in [lo .. lo + 0 - 1 -> St]
    BY <2>1
  <2>3. Rec([n \in {} |-> n], 0)
    BY <2>1
  <2>4. QED
    BY <2>2, <2>3
<1>2. ASSUME NEW k \in Nat, k \in Reached
      PROVE  k + 1 \in Reached
  <2> HIDE <1>0
  <2>0. k + 1 \in Nat /\ lo + (k + 1) - 1 = lo + k
    BY <1>0
  <2> SUFFICES ASSUME lo + k <= hi
               PROVE  \E f \in [lo .. lo + k -> St] : Rec(f, k + 1)
    <3> HIDE DEF Rec
    <3>1. QED
      BY <2>0
  <2> USE <1>0
  <2>1. PICK f \in [lo .. lo + k - 1 -> St] : Rec(f, k)
    <3>1. lo + k - 1 <= hi
      OBVIOUS
    <3> HIDE <1>0
    <3> HIDE DEF Rec
    <3>2. QED
      BY <1>2, <3>1
  <2>2. DEFINE m == lo + k
               new == IF m \in B THEN base[m] ELSE step[<<m, f[pred[m]]>>]
               g == [n \in lo .. m |-> IF n = m THEN new ELSE f[n]]
  <2>3. m \in lo .. hi
    OBVIOUS
  <2>4. new \in St
    <3>1. CASE m \in B
      BY <2>3, <3>1
    <3>2. CASE m \notin B
      <4>1. pred[m] \in lo .. lo + k - 1
        BY <2>3, <3>2
      <4>2. f[pred[m]] \in St
        BY <4>1
      <4>3. QED
        BY <2>3, <3>2, <4>2
    <3>3. QED
      BY <3>1, <3>2
  <2>5. g \in [lo .. m -> St]
    BY <2>4
  <2>6. ASSUME NEW n \in lo .. m
        PROVE  g[n] = IF n \in B THEN base[n] ELSE step[<<n, g[pred[n]]>>]
    <3>1. n \in lo .. hi
      BY <2>3
    <3>2. n \notin B => pred[n] \in lo .. n - 1 /\ g[pred[n]] = f[pred[n]]
      BY <3>1
    <3>3. CASE n = m
      BY <3>2, <3>3
    <3>4. CASE n # m
      <4>1. n \in lo .. lo + k - 1
        BY <3>4
      <4>0. g[n] = f[n]
        BY <3>4
      <4>2. f[n] = IF n \in B THEN base[n] ELSE step[<<n, f[pred[n]]>>]
        BY <2>1, <3>1, <4>1
      <4>3. QED
        BY <3>2, <4>0, <4>1, <4>2
    <3>5. QED
      BY <3>3, <3>4
  <2>7. Rec(g, k + 1)
    <3>1. lo + (k + 1) - 1 = m
      OBVIOUS
    <3>2. QED
      BY <2>6, <3>1
  <2>8. QED
    BY <2>5, <2>7
<1>3. Nat \subseteq Reached
  <2> HIDE DEF Reached
  <2>1. QED
    BY <1>1, <1>2, Induction
<1>4. CASE lo <= hi
  <2>1. lo + (hi - lo + 1) - 1 = hi
    OBVIOUS
  <2> DEFINE all == hi - lo + 1
  <2>2. all \in Reached
    <3> HIDE DEF Reached
    <3>1. all \in Nat
      BY <1>4
    <3>2. QED
      BY <1>3, <3>1
  <2>3. PICK f \in [lo .. hi -> St] : Rec(f, all)
    BY <1>4, <2>1, <2>2
  <2>4. f = [n \in lo .. hi |-> f[n]]
    BY <2>3
  <2>5. \A n \in lo .. hi : f[n] = IF n \in B THEN base[n] ELSE step[<<n, f[pred[n]]>>]
    BY <2>1, <2>3
  <2>6. f = [n \in lo .. hi |-> IF n \in B THEN base[n] ELSE step[<<n, f[pred[n]]>>]]
    BY <2>4, <2>5
  <2>7. QED
    BY <2>6
<1>5. CASE lo > hi
  <2>1. lo .. hi = {}
    BY <1>5
  <2>2. [n \in {} |-> n] \in [lo .. hi -> St]
    BY <2>1
  <2>3. QED
    BY <2>1, <2>2
<1>6. QED
  BY <1>4, <1>5

LEMMA IndexedIsSeq ==
    ASSUME NEW n \in Nat, NEW f, f = [h \in 1 .. n |-> f[h]], NEW T, \A h \in 1 .. n : f[h] \in T
    PROVE  f \in Seq(T) /\ Len(f) = n
<1>1. f \in [1 .. n -> T]
  OBVIOUS
<1>2. f \in Seq(T)
  BY <1>1
<1>3. QED
  BY <1>1, <1>2

(* Texts one behind the other, the first n of them.                          *)
Joined(texts) ==
    LET joined[n \in 0 .. Len(texts)] == IF n = 0 THEN <<>> ELSE joined[n - 1] \o texts[n]
    IN joined

LEMMA JoinedType ==
    ASSUME NEW T, NEW texts \in Seq(Seq(T))
    PROVE  /\ Joined(texts) \in [0 .. Len(texts) -> Seq(T)]
           /\ Joined(texts)[0] = <<>>
           /\ \A n \in 1 .. Len(texts) : Joined(texts)[n] = Joined(texts)[n - 1] \o texts[n]
<1> DEFINE hi == Len(texts)
           base == [n \in {0} |-> <<>>]
           pred == [n \in Int |-> n - 1]
           step == [p \in (0 .. hi) \X Seq(T) |-> IF p[1] = 0 THEN <<>> ELSE p[2] \o texts[p[1]]]
           Body(f) == [n \in 0 .. hi |-> IF n = 0 THEN <<>> ELSE f[n - 1] \o texts[n]]
<1>1. 0 \in Int /\ hi \in Int /\ hi \in Nat
  BY LenProperties
<1>2. \A n \in 0 .. hi : n \in {0} => base[n] \in Seq(T)
  OBVIOUS
<1>3. \A n \in 0 .. hi : n \notin {0} => pred[n] \in 0 .. n - 1
  OBVIOUS
<1>4. \A n \in 0 .. hi, v \in Seq(T) : n \notin {0} => step[<<n, v>>] = v \o texts[n] /\ step[<<n, v>>] \in Seq(T)
  <2> SUFFICES ASSUME NEW n \in 0 .. hi, NEW v \in Seq(T), n # 0
               PROVE  step[<<n, v>>] = v \o texts[n] /\ v \o texts[n] \in Seq(T)
    OBVIOUS
  <2>1. texts[n] \in Seq(T)
    BY <1>1
  <2>2. v \o texts[n] \in Seq(T)
    BY <2>1, ConcatProperties
  <2>3. <<n, v>> \in (0 .. hi) \X Seq(T)
    OBVIOUS
  <2>4. QED
    BY <2>2, <2>3
<1>5. PICK f \in [0 .. hi -> Seq(T)] :
          f = [n \in 0 .. hi |-> IF n \in {0} THEN base[n] ELSE step[<<n, f[pred[n]]>>]]
  <2>1. \A n \in 0 .. hi, v \in Seq(T) : n \notin {0} => step[<<n, v>>] \in Seq(T)
    BY <1>4
  <2> HIDE DEF base, pred, step, hi
  <2>2. Recursive(0, hi, Seq(T), {0}, base, pred, step)
    BY <1>1, <1>2, <1>3, <2>1 DEF Recursive
  <2>3. QED
    BY <2>2, Recursion
<1>6. ASSUME NEW n \in 0 .. hi
      PROVE  (IF n \in {0} THEN base[n] ELSE step[<<n, f[pred[n]]>>])
                 = (IF n = 0 THEN <<>> ELSE f[n - 1] \o texts[n])
  <2>1. CASE n = 0
    BY <2>1
  <2>2. CASE n # 0
    <3>1. n - 1 \in 0 .. hi /\ pred[n] = n - 1
      BY <1>1, <2>2
    <3>2. f[n - 1] \in Seq(T)
      BY <3>1
    <3>3. QED
      BY <1>4, <2>2, <3>1, <3>2
  <2>3. QED
    BY <2>1, <2>2
<1>7. f = Body(f)
  <2>1. f = [n \in 0 .. hi |-> f[n]]
    OBVIOUS
  <2>2. \A n \in 0 .. hi : f[n] = IF n = 0 THEN <<>> ELSE f[n - 1] \o texts[n]
    <3> HIDE DEF base, pred, step, hi
    <3>1. QED
      BY <1>5, <1>6
  <2>3. QED
    BY <2>1, <2>2
<1> DEFINE joined == Joined(texts)
<1>8. joined = CHOOSE g : g = Body(g)
  BY DEF Joined
<1>9. joined = Body(joined)
  <2> HIDE DEF Body, joined
  <2>1. QED
    BY <1>7, <1>8
<1> HIDE DEF joined
<1>10. joined[0] = <<>> /\ \A n \in 1 .. hi : joined[n] = joined[n - 1] \o texts[n]
  <2>1. \A n \in 0 .. hi : joined[n] = IF n = 0 THEN <<>> ELSE joined[n - 1] \o texts[n]
    BY <1>9
  <2>2. \A n \in 1 .. hi : n \in 0 .. hi /\ n # 0
    BY <1>1
  <2>3. 0 \in 0 .. hi
    BY <1>1
  <2> HIDE DEF hi
  <2>4. QED
    BY <2>1, <2>2, <2>3
<1>11. \A n \in 0 .. hi : joined[n] \in Seq(T)
  <2> DEFINE Typed == {n \in Nat : n <= hi => joined[n] \in Seq(T)}
  <2>1. 0 \in Typed
    BY <1>10, EmptySeq
  <2>2. ASSUME NEW n \in Nat, n \in Typed
        PROVE  n + 1 \in Typed
    <3> SUFFICES ASSUME n + 1 <= hi
                 PROVE  joined[n + 1] \in Seq(T)
      OBVIOUS
    <3>1. n + 1 \in 1 .. hi /\ (n + 1) - 1 = n /\ joined[n] \in Seq(T)
      BY <1>1, <2>2
    <3>2. texts[n + 1] \in Seq(T)
      BY <3>1
    <3>3. joined[n + 1] = joined[n] \o texts[n + 1]
      BY <1>10, <3>1
    <3>4. QED
      BY <3>1, <3>2, <3>3, ConcatProperties
  <2>3. Nat \subseteq Typed
    <3> HIDE DEF Typed
    <3>1. QED
      BY <2>1, <2>2, Induction
  <2>4. QED
    BY <1>1, <2>3
<1>12. joined = [n \in 0 .. hi |-> joined[n]]
  BY <1>9
<1>13. joined \in [0 .. hi -> Seq(T)]
  BY <1>11, <1>12
<1>14. QED
  BY <1>10, <1>13 DEF joined

(* FlattenSeq, which the format is made with, joins all the texts.           *)
LEMMA FlattenIsJoined ==
    ASSUME NEW T, NEW texts \in Seq(Seq(T))
    PROVE  FlattenSeq(texts) = Joined(texts)[Len(texts)]
<1> DEFINE hi == Len(texts)
           joined == Joined(texts)
           Body(f) == [n \in 1 .. hi |-> IF n = 1 THEN texts[n] ELSE f[n - 1] \o texts[n]]
           flat == CHOOSE g : g = Body(g)
           first == [n \in 1 .. hi |-> joined[n]]
<1>1. hi \in Nat /\ \A n \in 1 .. hi : texts[n] \in Seq(T)
  BY LenProperties
<1>2. /\ joined[0] = <<>>
      /\ \A n \in 0 .. hi : joined[n] \in Seq(T)
      /\ \A n \in 1 .. hi : joined[n] = joined[n - 1] \o texts[n]
  BY JoinedType
<1>3. CASE hi = 0
  <2>1. FlattenSeq(texts) = texts
    BY <1>3 DEF FlattenSeq
  <2>2. texts = <<>>
    BY <1>3, EmptySeq
  <2>3. QED
    BY <1>2, <1>3, <2>1, <2>2
<1>4. CASE hi # 0
  <2>1. FlattenSeq(texts) = flat[hi]
    BY <1>4 DEF FlattenSeq
  <2> HIDE DEF joined
  <2>2. first = Body(first)
    <3>1. \A n \in 1 .. hi : joined[n] = IF n = 1 THEN texts[n] ELSE joined[n - 1] \o texts[n]
      <4> SUFFICES ASSUME NEW n \in 1 .. hi
                   PROVE  joined[n] = IF n = 1 THEN texts[n] ELSE joined[n - 1] \o texts[n]
        OBVIOUS
      <4>1. joined[n] = joined[n - 1] \o texts[n] /\ texts[n] \in Seq(T)
        BY <1>1, <1>2
      <4>2. <<>> \o texts[n] = texts[n]
        BY <4>1, ConcatEmptySeq
      <4>3. n = 1 => n - 1 = 0
        OBVIOUS
      <4>4. QED
        BY <1>2, <4>1, <4>2, <4>3
    <3>2. \A n \in 1 .. hi : n # 1 => n - 1 \in 1 .. hi
      BY <1>1
    <3>3. \A n \in 1 .. hi : n # 1 => first[n - 1] = joined[n - 1]
      BY <3>2
    <3>4. QED
      BY <3>1, <3>3
  <2>3. flat = Body(flat)
    <3> HIDE DEF Body, first
    <3>1. QED
      BY <2>2
  <2> HIDE DEF flat
  <2>4. \A n \in 1 .. hi : flat[n] = IF n = 1 THEN texts[n] ELSE flat[n - 1] \o texts[n]
    BY <2>3
  <2>5. \A n \in 1 .. hi : flat[n] = joined[n]
    <3> DEFINE Same == {n \in Nat : n + 1 <= hi => flat[n + 1] = joined[n + 1]}
    <3>1. first[1] = joined[1] /\ 1 \in 1 .. hi
      BY <1>1, <1>4
    <3>2. joined[1] = texts[1] /\ flat[1] = texts[1]
      BY <2>2, <2>4, <3>1
    <3>3. 0 \in Same
      BY <3>2
    <3>4. ASSUME NEW n \in Nat, n \in Same
          PROVE  n + 1 \in Same
      <4> SUFFICES ASSUME n + 1 + 1 <= hi
                   PROVE  flat[n + 1 + 1] = joined[n + 1 + 1]
        OBVIOUS
      <4>1. n + 1 + 1 \in 1 .. hi /\ (n + 1 + 1) - 1 = n + 1 /\ n + 1 + 1 # 1
        BY <1>1
      <4>2. flat[n + 1] = joined[n + 1]
        BY <1>1, <3>4
      <4>3. flat[n + 1 + 1] = flat[n + 1] \o texts[n + 1 + 1]
        BY <2>4, <4>1
      <4>4. joined[n + 1 + 1] = joined[n + 1] \o texts[n + 1 + 1]
        BY <1>2, <4>1
      <4>5. QED
        BY <4>2, <4>3, <4>4
    <3>5. Nat \subseteq Same
      <4> HIDE DEF Same
      <4>1. QED
        BY <3>3, <3>4, Induction
    <3>6. ASSUME NEW n \in 1 .. hi
          PROVE  flat[n] = joined[n]
      <4>1. n - 1 \in Nat /\ (n - 1) + 1 = n /\ n <= hi
        BY <1>1
      <4>2. n - 1 \in Same
        BY <3>5, <4>1
      <4>3. QED
        BY <4>1, <4>2
    <3>7. QED
      BY <3>6
  <2>6. QED
    BY <1>1, <1>4, <2>1, <2>5 DEF joined
<1>5. QED
  BY <1>3, <1>4

(* What is there is not changed by what comes after.                         *)
LEMMA JoinedGrows ==
    ASSUME NEW T, NEW texts \in Seq(Seq(T)), NEW m \in 0 .. Len(texts), NEW n \in m .. Len(texts)
    PROVE  /\ Len(Joined(texts)[m]) \in Nat /\ Len(Joined(texts)[n]) \in Nat
           /\ Len(Joined(texts)[m]) <= Len(Joined(texts)[n])
           /\ \A i \in 1 .. Len(Joined(texts)[m]) : Joined(texts)[n][i] = Joined(texts)[m][i]
<1> DEFINE hi == Len(texts)
           joined == Joined(texts)
           Grown(k) == /\ Len(joined[m]) \in Nat /\ Len(joined[m + k]) \in Nat
                       /\ Len(joined[m]) <= Len(joined[m + k])
                       /\ \A i \in 1 .. Len(joined[m]) : joined[m + k][i] = joined[m][i]
           Grows == {k \in Nat : m + k <= hi => Grown(k)}
<1>1. hi \in Nat /\ \A k \in 1 .. hi : texts[k] \in Seq(T)
  BY LenProperties
<1>2. /\ \A k \in 0 .. hi : joined[k] \in Seq(T)
      /\ \A k \in 1 .. hi : joined[k] = joined[k - 1] \o texts[k]
  BY JoinedType
<1> HIDE DEF joined
<1>3. 0 \in Grows
  <2>1. Len(joined[m]) \in Nat /\ m + 0 = m
    BY <1>2, LenProperties
  <2>2. QED
    BY <2>1
<1>4. ASSUME NEW k \in Nat, k \in Grows
      PROVE  k + 1 \in Grows
  <2> SUFFICES ASSUME m + (k + 1) <= hi
               PROVE  Grown(k + 1)
    OBVIOUS
  <2> DEFINE a == joined[m + k]
             b == texts[m + (k + 1)]
             c == joined[m + (k + 1)]
  <2>1. Grown(k)
    BY <1>1, <1>4
  <2>2. m + (k + 1) \in 1 .. hi /\ (m + (k + 1)) - 1 = m + k /\ m + k \in 0 .. hi
    BY <1>1
  <2>3. a \in Seq(T) /\ b \in Seq(T)
    BY <1>1, <1>2, <2>2
  <2>4. c = a \o b
    BY <1>2, <2>2
  <2> HIDE DEF a, b, c
  <2>5. /\ Len(c) = Len(a) + Len(b)
        /\ \A i \in 1 .. Len(a) + Len(b) : c[i] = IF i <= Len(a) THEN a[i] ELSE b[i - Len(a)]
    BY <2>3, <2>4, ConcatProperties
  <2>6. Len(a) \in Nat /\ Len(b) \in Nat
    BY <2>3, LenProperties
  <2>7. /\ Len(joined[m]) \in Nat /\ Len(joined[m]) <= Len(a)
        /\ \A i \in 1 .. Len(joined[m]) : a[i] = joined[m][i]
    BY <2>1 DEF a
  <2>8. Len(c) \in Nat /\ Len(joined[m]) <= Len(c)
    BY <2>5, <2>6, <2>7
  <2>9. ASSUME NEW i \in 1 .. Len(joined[m])
        PROVE  c[i] = joined[m][i]
    <3>1. i \in 1 .. Len(a) + Len(b) /\ i <= Len(a)
      BY <2>6, <2>7
    <3>2. c[i] = a[i]
      BY <2>5, <3>1
    <3>3. QED
      BY <2>7, <3>2
  <2>10. QED
    BY <2>7, <2>8, <2>9 DEF c
<1>5. Nat \subseteq Grows
  <2> HIDE DEF Grows
  <2>1. QED
    BY <1>3, <1>4, Induction
<1>6. n - m \in Nat /\ m + (n - m) = n
  BY <1>1
<1>7. Grown(n - m)
  <2>1. n - m \in Grows /\ m + (n - m) <= hi
    <3> HIDE DEF Grows
    <3>1. QED
      BY <1>1, <1>5, <1>6
  <2> HIDE DEF Grown
  <2>2. QED
    BY <2>1
<1>8. QED
  BY <1>6, <1>7 DEF joined

(* Where a text stands.                                                      *)
LEMMA JoinedAt ==
    ASSUME NEW T, NEW texts \in Seq(Seq(T)), NEW n \in 1 .. Len(texts)
    PROVE  /\ Joined(texts)[n] = Joined(texts)[n - 1] \o texts[n]
           /\ Len(Joined(texts)[n - 1]) \in Nat /\ Len(texts[n]) \in Nat
           /\ Len(Joined(texts)[n]) = Len(Joined(texts)[n - 1]) + Len(texts[n])
           /\ Len(Joined(texts)[n]) <= Len(Joined(texts)[Len(texts)])
           /\ \A j \in 1 .. Len(texts[n]) :
                  Joined(texts)[Len(texts)][Len(Joined(texts)[n - 1]) + j] = texts[n][j]
<1> DEFINE hi == Len(texts)
           joined == Joined(texts)
           a == joined[n - 1]
           b == texts[n]
           c == joined[n]
<1>1. hi \in Nat /\ b \in Seq(T)
  BY LenProperties
<1>2. a \in Seq(T) /\ c = a \o b
  <2>1. n - 1 \in 0 .. hi
    BY <1>1
  <2>2. QED
    BY <2>1, JoinedType
<1>3. n \in 0 .. hi /\ hi \in n .. hi
  BY <1>1
<1>4. /\ Len(c) <= Len(joined[hi])
      /\ \A i \in 1 .. Len(c) : joined[hi][i] = c[i]
  BY <1>3, JoinedGrows
<1> HIDE DEF a, b, c
<1>5. /\ Len(c) = Len(a) + Len(b)
      /\ \A i \in 1 .. Len(a) + Len(b) : c[i] = IF i <= Len(a) THEN a[i] ELSE b[i - Len(a)]
  BY <1>1, <1>2, ConcatProperties
<1>6. Len(a) \in Nat /\ Len(b) \in Nat
  BY <1>1, <1>2, LenProperties
<1>7. ASSUME NEW j \in 1 .. Len(b)
      PROVE  joined[hi][Len(a) + j] = b[j]
  <2>1. Len(a) + j \in 1 .. Len(a) + Len(b) /\ ~(Len(a) + j <= Len(a)) /\ (Len(a) + j) - Len(a) = j
    BY <1>6
  <2>2. c[Len(a) + j] = b[j]
    BY <1>5, <2>1
  <2>3. QED
    BY <1>4, <1>5, <2>1, <2>2
<1>8. QED
  BY <1>2, <1>4, <1>5, <1>6, <1>7 DEF a, b, c

-----------------------------------------------------------------------------
(* What is found in a format. *)

(* A character: what it makes of what was found before it.                   *)
FoundNext(found, char) ==
    IF ~found.format THEN [format |-> char = Percent, list |-> found.list]
    ELSE IF char \in Conversion THEN [format |-> FALSE, list |-> Append(found.list, char)]
    ELSE found

FoundSoFar == [format : BOOLEAN, list : Seq(Conversion)]

LEMMA FoundNextType ==
    ASSUME NEW found \in FoundSoFar, NEW char
    PROVE  FoundNext(found, char) \in FoundSoFar
<1>1. (char = Percent) \in BOOLEAN
  OBVIOUS
<1>2. CASE ~found.format
  BY <1>1, <1>2 DEF FoundNext, FoundSoFar
<1>3. CASE found.format /\ char \in Conversion
  <2>1. Append(found.list, char) \in Seq(Conversion)
    BY <1>3 DEF FoundSoFar
  <2>2. QED
    BY <1>3, <2>1 DEF FoundNext, FoundSoFar
<1>4. CASE found.format /\ char \notin Conversion
  BY <1>4 DEF FoundNext
<1>5. QED
  BY <1>2, <1>3, <1>4

LEMMA FoundNextFacts ==
    ASSUME NEW found, NEW char
    PROVE  /\ ~found.format =>
                  (FoundNext(found, char).format <=> char = Percent) /\ FoundNext(found, char).list = found.list
           /\ found.format /\ char \in Conversion =>
                  FoundNext(found, char).format = FALSE /\ FoundNext(found, char).list = Append(found.list, char)
           /\ found.format /\ char \notin Conversion => FoundNext(found, char) = found
<1>1. CASE ~found.format
  BY <1>1 DEF FoundNext
<1>2. CASE found.format /\ char \in Conversion
  BY <1>2 DEF FoundNext
<1>3. CASE found.format /\ char \notin Conversion
  BY <1>3 DEF FoundNext
<1>4. QED
  BY <1>1, <1>2, <1>3

(* Found is what its definition says, from one character to the next.        *)
LEMMA FoundType ==
    ASSUME NEW chars, Len(chars) \in Nat
    PROVE  /\ Found(chars)[0] = [format |-> FALSE, list |-> <<>>]
           /\ \A n \in 1 .. Len(chars) : Found(chars)[n] = FoundNext(Found(chars)[n - 1], chars[n])
           /\ \A n \in 0 .. Len(chars) : Found(chars)[n] \in FoundSoFar
<1> DEFINE hi == Len(chars)
           start == [format |-> FALSE, list |-> <<>>]
           base == [n \in {0} |-> start]
           pred == [n \in Int |-> n - 1]
           step == [p \in (0 .. hi) \X FoundSoFar |-> FoundNext(p[2], chars[p[1]])]
           Body(f) == [n \in 0 .. hi |-> IF n = 0 THEN start ELSE FoundNext(f[n - 1], chars[n])]
<1>0. start \in FoundSoFar
  BY EmptySeq DEF FoundSoFar
<1> HIDE DEF start
<1>1. 0 \in Int /\ hi \in Int /\ hi \in Nat
  OBVIOUS
<1>2. \A n \in 0 .. hi : n \in {0} => base[n] \in FoundSoFar
  BY <1>0
<1>3. \A n \in 0 .. hi : n \notin {0} => pred[n] \in 0 .. n - 1
  OBVIOUS
<1>4. \A n \in 0 .. hi, v \in FoundSoFar : step[<<n, v>>] = FoundNext(v, chars[n]) /\ step[<<n, v>>] \in FoundSoFar
  BY FoundNextType
<1>5. PICK f \in [0 .. hi -> FoundSoFar] :
          f = [n \in 0 .. hi |-> IF n \in {0} THEN base[n] ELSE step[<<n, f[pred[n]]>>]]
  <2> HIDE DEF base, pred, step, hi
  <2>1. Recursive(0, hi, FoundSoFar, {0}, base, pred, step)
    BY <1>1, <1>2, <1>3, <1>4 DEF Recursive
  <2>2. QED
    BY <2>1, Recursion
<1>6. ASSUME NEW n \in 0 .. hi
      PROVE  (IF n \in {0} THEN base[n] ELSE step[<<n, f[pred[n]]>>])
                 = (IF n = 0 THEN start ELSE FoundNext(f[n - 1], chars[n]))
  <2>1. CASE n = 0
    BY <2>1
  <2>2. CASE n # 0
    <3>1. n - 1 \in 0 .. hi /\ pred[n] = n - 1
      BY <1>1, <2>2
    <3>2. f[n - 1] \in FoundSoFar
      BY <3>1
    <3>3. QED
      BY <1>4, <2>2, <3>1, <3>2
  <2>3. QED
    BY <2>1, <2>2
<1>7. f = Body(f)
  <2>1. f = [n \in 0 .. hi |-> f[n]]
    OBVIOUS
  <2>2. \A n \in 0 .. hi : f[n] = IF n = 0 THEN start ELSE FoundNext(f[n - 1], chars[n])
    <3> HIDE DEF base, pred, step, hi
    <3>1. QED
      BY <1>5, <1>6
  <2>3. QED
    BY <2>1, <2>2
<1> DEFINE found == Found(chars)
<1>8. found = CHOOSE g : g = Body(g)
  BY DEF Found, FoundNext, start
<1>9. found = Body(found)
  <2> HIDE DEF Body, found
  <2>1. QED
    BY <1>7, <1>8
<1> HIDE DEF found
<1>10. found[0] = start /\ \A n \in 1 .. hi : found[n] = FoundNext(found[n - 1], chars[n])
  <2>1. \A n \in 0 .. hi : found[n] = IF n = 0 THEN start ELSE FoundNext(found[n - 1], chars[n])
    BY <1>9
  <2>2. \A n \in 1 .. hi : n \in 0 .. hi /\ n # 0
    BY <1>1
  <2>3. 0 \in 0 .. hi
    BY <1>1
  <2> HIDE DEF hi
  <2>4. QED
    BY <2>1, <2>2, <2>3
<1>11. \A n \in 0 .. hi : found[n] \in FoundSoFar
  <2> DEFINE Typed == {n \in Nat : n <= hi => found[n] \in FoundSoFar}
  <2>1. 0 \in Typed
    BY <1>0, <1>10
  <2>2. ASSUME NEW n \in Nat, n \in Typed
        PROVE  n + 1 \in Typed
    <3> SUFFICES ASSUME n + 1 <= hi
                 PROVE  found[n + 1] \in FoundSoFar
      OBVIOUS
    <3>1. n + 1 \in 1 .. hi /\ (n + 1) - 1 = n /\ found[n] \in FoundSoFar
      BY <1>1, <2>2
    <3>2. found[n + 1] = FoundNext(found[n], chars[n + 1])
      BY <1>10, <3>1
    <3>3. QED
      BY <3>1, <3>2, FoundNextType
  <2>3. Nat \subseteq Typed
    <3> HIDE DEF Typed
    <3>1. QED
      BY <2>1, <2>2, Induction
  <2>4. QED
    BY <1>1, <2>3
<1>12. QED
  BY <1>10, <1>11 DEF found, start

(* Conversions found stay found.                                             *)
LEMMA FoundGrows ==
    ASSUME NEW chars, Len(chars) \in Nat, NEW m \in 0 .. Len(chars), NEW n \in m .. Len(chars)
    PROVE  /\ Len(Found(chars)[m].list) \in Nat
           /\ Len(Found(chars)[m].list) <= Len(Found(chars)[n].list)
           /\ \A i \in 1 .. Len(Found(chars)[m].list) : Found(chars)[n].list[i] = Found(chars)[m].list[i]
<1> DEFINE hi == Len(chars)
           list(k) == Found(chars)[k].list
           Grown(k) == /\ Len(list(m)) \in Nat
                       /\ Len(list(m)) <= Len(list(m + k))
                       /\ \A i \in 1 .. Len(list(m)) : list(m + k)[i] = list(m)[i]
           Grows == {k \in Nat : m + k <= hi => Grown(k)}
<1>1. \A k \in 0 .. hi : list(k) \in Seq(Conversion) /\ Len(list(k)) \in Nat
  <2> SUFFICES ASSUME NEW k \in 0 .. hi
               PROVE  list(k) \in Seq(Conversion) /\ Len(list(k)) \in Nat
    OBVIOUS
  <2>1. list(k) \in Seq(Conversion)
    BY FoundType DEF FoundSoFar
  <2>2. QED
    BY <2>1, LenProperties
<1>2. \A k \in 1 .. hi : list(k) = list(k - 1) \/ \E char \in Conversion : list(k) = Append(list(k - 1), char)
  <2> SUFFICES ASSUME NEW k \in 1 .. hi
               PROVE  list(k) = list(k - 1) \/ \E char \in Conversion : list(k) = Append(list(k - 1), char)
    OBVIOUS
  <2>1. Found(chars)[k] = FoundNext(Found(chars)[k - 1], chars[k])
    BY FoundType
  <2>2. QED
    BY <2>1 DEF FoundNext
<1> HIDE DEF list
<1>3. 0 \in Grows
  <2>1. m + 0 = m /\ Len(list(m)) \in Nat
    BY <1>1
  <2>2. QED
    BY <2>1
<1>4. ASSUME NEW k \in Nat, k \in Grows
      PROVE  k + 1 \in Grows
  <2> SUFFICES ASSUME m + (k + 1) <= hi
               PROVE  Grown(k + 1)
    OBVIOUS
  <2> DEFINE a == list(m + k)
             b == list(m + (k + 1))
  <2>1. Grown(k)
    BY <1>1, <1>4
  <2>2. m + (k + 1) \in 1 .. hi /\ (m + (k + 1)) - 1 = m + k /\ m + k \in 0 .. hi
    OBVIOUS
  <2>3. a \in Seq(Conversion) /\ Len(a) \in Nat
    BY <1>1, <2>2
  <2>4. b = a \/ \E char \in Conversion : b = Append(a, char)
    BY <1>2, <2>2
  <2> HIDE DEF a, b
  <2>5. Len(a) <= Len(b) /\ \A i \in 1 .. Len(a) : b[i] = a[i]
    BY <2>3, <2>4
  <2>6. /\ Len(list(m)) \in Nat /\ Len(list(m)) <= Len(a)
        /\ \A i \in 1 .. Len(list(m)) : a[i] = list(m)[i]
    BY <2>1 DEF a
  <2>7. /\ Len(list(m)) <= Len(b)
        /\ \A i \in 1 .. Len(list(m)) : b[i] = list(m)[i]
    <3>1. Len(b) \in Nat
      <4>1. m + (k + 1) \in 0 .. hi
        BY <2>2
      <4>2. QED
        BY <1>1, <4>1 DEF b
    <3>2. QED
      BY <2>3, <2>5, <2>6, <3>1
  <2>8. QED
    BY <2>6, <2>7 DEF b
<1>5. Nat \subseteq Grows
  <2> HIDE DEF Grows
  <2>1. QED
    BY <1>3, <1>4, Induction
<1>6. n - m \in Nat /\ m + (n - m) = n /\ n <= hi
  OBVIOUS
<1>7. n - m \in Grows
  <2> HIDE DEF Grows
  <2>1. QED
    BY <1>5, <1>6
<1>8. Grown(n - m)
  <2> HIDE DEF Grown
  <2>1. QED
    BY <1>6, <1>7
<1>9. QED
  BY <1>6, <1>8 DEF list

(* The conversion at character n is the one after those found before it.     *)
LEMMA ConversionAt ==
    ASSUME NEW chars, Len(chars) \in Nat, NEW n \in 1 .. Len(chars),
           Found(chars)[n - 1].format, chars[n] \in Conversion
    PROVE  /\ Found(chars)[n].list = Append(Found(chars)[n - 1].list, chars[n])
           /\ Len(Found(chars)[n].list) = Len(Found(chars)[n - 1].list) + 1
           /\ Len(Found(chars)[n - 1].list) + 1 \in 1 .. Len(Conversions(chars))
           /\ Conversions(chars)[Len(Found(chars)[n - 1].list) + 1] = chars[n]
<1> DEFINE a == Found(chars)[n - 1].list
           b == Found(chars)[n].list
           all == Found(chars)[Len(chars)].list
<1>1. n - 1 \in 0 .. Len(chars) /\ n \in 0 .. Len(chars) /\ Len(chars) \in n .. Len(chars)
      /\ Len(chars) \in 0 .. Len(chars)
  OBVIOUS
<1>2. a \in Seq(Conversion) /\ all \in Seq(Conversion)
  BY <1>1, FoundType DEF FoundSoFar
<1>3. Found(chars)[n] = FoundNext(Found(chars)[n - 1], chars[n])
  BY FoundType
<1>4. b = Append(a, chars[n])
  BY <1>3 DEF FoundNext
<1>5. /\ Len(b) <= Len(all)
      /\ \A i \in 1 .. Len(b) : all[i] = b[i]
  BY <1>1, FoundGrows
<1> HIDE DEF a, b, all
<1>6. Len(b) = Len(a) + 1 /\ Len(a) \in Nat /\ b[Len(a) + 1] = chars[n]
  BY <1>2, <1>4
<1>7. Len(all) \in Nat
  BY <1>2, LenProperties
<1>8. Len(a) + 1 \in 1 .. Len(all) /\ all[Len(a) + 1] = chars[n]
  BY <1>5, <1>6, <1>7
<1>9. QED
  BY <1>4, <1>6, <1>8 DEF a, b, all, Conversions

-----------------------------------------------------------------------------
(* The digits of a number. *)

(* 2 ^ n is the number of subsets of a set of n elements, which is doubled by *)
(* one more element.                                                         *)
LEMMA Power ==
    ASSUME NEW n \in Nat
    PROVE  2 ^ n \in Nat \ {0} /\ 2 ^ (n + 1) = 2 * 2 ^ n
<1> DEFINE S == 1 .. n
           T == 1 .. n + 1
           A == SUBSET S
           B == {X \union {n + 1} : X \in A}
<1>1. IsFiniteSet(S) /\ Cardinality(S) = n /\ IsFiniteSet(T) /\ Cardinality(T) = n + 1
  BY FS_Interval
<1>2. IsFiniteSet(A) /\ Cardinality(A) = 2 ^ n /\ IsFiniteSet(SUBSET T) /\ Cardinality(SUBSET T) = 2 ^ (n + 1)
  BY <1>1, FS_SUBSET
<1>3. Cardinality(A) \in Nat /\ Cardinality(A) # 0
  BY <1>2, FS_CardinalityType, FS_EmptySet
<1>4. SUBSET T = A \union B
  <2>1. ASSUME NEW X \in SUBSET T
        PROVE  X \in A \union B
    <3>1. CASE n + 1 \in X
      <4>1. X \ {n + 1} \in A /\ X = (X \ {n + 1}) \union {n + 1}
        BY <2>1, <3>1
      <4>2. QED
        BY <4>1
    <3>2. CASE n + 1 \notin X
      BY <3>2
    <3>3. QED
      BY <3>1, <3>2
  <2>2. A \union B \subseteq SUBSET T
    <3>1. S \subseteq T /\ n + 1 \in T
      OBVIOUS
    <3> HIDE DEF S, T
    <3>2. \A X \in B : X \subseteq T
      BY <3>1
    <3>3. \A X \in A : X \subseteq T
      BY <3>1
    <3> HIDE DEF A, B
    <3>4. QED
      BY <3>2, <3>3
  <2>3. SUBSET T \subseteq A \union B
    <3> HIDE DEF A, B
    <3>1. QED
      BY <2>1
  <2> HIDE DEF A, B, T
  <2>4. QED
    BY <2>2, <2>3
<1>5. A \cap B = {}
  BY n + 1 \notin S
<1>6. ExistsBijection(A, B)
  <2> DEFINE f == [X \in A |-> X \union {n + 1}]
  <2>1. f \in [A -> B]
    OBVIOUS
  <2>2. \A X, Y \in A : f[X] = f[Y] => X = Y
    <3> SUFFICES ASSUME NEW X \in A, NEW Y \in A, X \union {n + 1} = Y \union {n + 1}
                 PROVE  X = Y
      OBVIOUS
    <3>1. n + 1 \notin X /\ n + 1 \notin Y
      OBVIOUS
    <3>2. \A x : x \in X <=> x \in X \union {n + 1} /\ x # n + 1
      BY <3>1
    <3>3. \A x : x \in Y <=> x \in Y \union {n + 1} /\ x # n + 1
      BY <3>1
    <3>4. QED
      BY <3>2, <3>3
  <2>3. \A y \in B : \E X \in A : f[X] = y
    OBVIOUS
  <2> HIDE DEF f, A, B
  <2>4. f \in Bijection(A, B)
    BY <2>1, <2>2, <2>3 DEF Bijection, Injection, IsInjective, Surjection
  <2>5. QED
    BY <2>4 DEF ExistsBijection
<1>7. IsFiniteSet(B) /\ Cardinality(B) = Cardinality(A)
  BY <1>2, <1>6, FS_Bijection
<1> HIDE DEF A, B
<1>8. Cardinality(A \union B) = Cardinality(A) + Cardinality(B) - Cardinality({})
  BY <1>2, <1>5, <1>7, FS_Union
<1>9. Cardinality(SUBSET T) = 2 * Cardinality(A)
  <2>1. Cardinality({}) = 0
    BY FS_EmptySet
  <2>2. Cardinality(SUBSET T) = Cardinality(A \union B)
    BY <1>4
  <2>3. QED
    BY <1>3, <1>7, <1>8, <2>1, <2>2
<1>10. QED
  BY <1>2, <1>3, <1>9

LEMMA PowerSum ==
    ASSUME NEW m \in Nat, NEW n \in Nat
    PROVE  2 ^ (m + n) = 2 ^ m * 2 ^ n
<1> DEFINE Sums == {k \in Nat : 2 ^ (m + k) = 2 ^ m * 2 ^ k}
<1>1. 0 \in Sums
  <2>1. m + 0 = m /\ 2 ^ 0 = 1 /\ 2 ^ m \in Nat
    BY Power
  <2>2. QED
    BY <2>1
<1>2. ASSUME NEW k \in Nat, k \in Sums
      PROVE  k + 1 \in Sums
  <2> DEFINE a == 2 ^ m
             b == 2 ^ k
             c == 2 ^ (m + k)
  <2>1. a \in Nat /\ b \in Nat /\ c = a * b
    BY <1>2, Power
  <2>2. m + (k + 1) = (m + k) + 1 /\ m + k \in Nat
    OBVIOUS
  <2>3. 2 ^ (m + (k + 1)) = 2 * c /\ 2 ^ (k + 1) = 2 * b
    BY <2>2, Power
  <2> HIDE DEF a, b, c
  <2>4. 2 * c = a * (2 * b)
    BY <2>1
  <2>5. QED
    BY <2>3, <2>4 DEF a
<1>3. Nat \subseteq Sums
  <2> HIDE DEF Sums
  <2>1. QED
    BY <1>1, <1>2, Induction
<1>4. QED
  BY <1>3

LEMMA LeastType ==
    /\ 8 * BYTES - 1 \in Nat
    /\ -Least = 2 ^ (8 * BYTES - 1)
    /\ Least \in Int /\ -Least \in Nat /\ -Least > 0
    /\ Numbers \union Pointers \subseteq Int
<1>1. 8 * BYTES - 1 \in Nat
  BY VsnprintfAssumption
<1>2. 2 ^ (8 * BYTES - 1) \in Nat \ {0}
  BY <1>1, Power
<1>3. QED
  BY <1>1, <1>2, VsnprintfAssumption DEF Least

-----------------------------------------------------------------------------
(* Tenths is what its definition says, from one division to the next.        *)
LEMMA TenthsType ==
    ASSUME NEW v \in Int
    PROVE  /\ Tenths(v)[0] = v
           /\ \A k \in 1 .. 3 * BYTES : Tenths(v)[k] = Tenths(v)[k - 1] \div 10
           /\ \A k \in 0 .. 3 * BYTES : Tenths(v)[k] \in Int /\ (v \in Nat => Tenths(v)[k] \in Nat)
<1> DEFINE hi == 3 * BYTES
           base == [n \in {0} |-> v]
           pred == [n \in Int |-> n - 1]
           step == [p \in (0 .. hi) \X Int |-> p[2] \div 10]
           Body(f) == [k \in 0 .. hi |-> IF k = 0 THEN v ELSE f[k - 1] \div 10]
<1>1. 0 \in Int /\ hi \in Int /\ hi \in Nat
  BY VsnprintfAssumption
<1>2. \A n \in 0 .. hi : n \in {0} => base[n] \in Int
  OBVIOUS
<1>3. \A n \in 0 .. hi : n \notin {0} => pred[n] \in 0 .. n - 1
  OBVIOUS
<1>4. \A n \in 0 .. hi, w \in Int : step[<<n, w>>] = w \div 10 /\ step[<<n, w>>] \in Int
  OBVIOUS
<1>5. PICK f \in [0 .. hi -> Int] :
          f = [n \in 0 .. hi |-> IF n \in {0} THEN base[n] ELSE step[<<n, f[pred[n]]>>]]
  <2> HIDE DEF base, pred, step, hi
  <2>1. Recursive(0, hi, Int, {0}, base, pred, step)
    BY <1>1, <1>2, <1>3, <1>4 DEF Recursive
  <2>2. QED
    BY <2>1, Recursion
<1>6. ASSUME NEW n \in 0 .. hi
      PROVE  (IF n \in {0} THEN base[n] ELSE step[<<n, f[pred[n]]>>])
                 = (IF n = 0 THEN v ELSE f[n - 1] \div 10)
  <2>1. CASE n = 0
    BY <2>1
  <2>2. CASE n # 0
    <3>1. n - 1 \in 0 .. hi /\ pred[n] = n - 1
      BY <1>1, <2>2
    <3>2. f[n - 1] \in Int
      BY <3>1
    <3>3. QED
      BY <1>4, <2>2, <3>1, <3>2
  <2>3. QED
    BY <2>1, <2>2
<1>7. f = Body(f)
  <2>1. f = [n \in 0 .. hi |-> f[n]]
    OBVIOUS
  <2>2. \A n \in 0 .. hi : f[n] = IF n = 0 THEN v ELSE f[n - 1] \div 10
    <3> HIDE DEF base, pred, step, hi
    <3>1. QED
      BY <1>5, <1>6
  <2>3. QED
    BY <2>1, <2>2
<1> DEFINE tenths == Tenths(v)
<1>8. tenths = CHOOSE g : g = Body(g)
  BY DEF Tenths
<1>9. tenths = Body(tenths)
  <2> HIDE DEF Body, tenths
  <2>1. QED
    BY <1>7, <1>8
<1> HIDE DEF tenths
<1>10. tenths[0] = v /\ \A n \in 1 .. hi : tenths[n] = tenths[n - 1] \div 10
  <2>1. \A n \in 0 .. hi : tenths[n] = IF n = 0 THEN v ELSE tenths[n - 1] \div 10
    BY <1>9
  <2>2. \A n \in 1 .. hi : n \in 0 .. hi /\ n # 0
    BY <1>1
  <2>3. 0 \in 0 .. hi
    BY <1>1
  <2> HIDE DEF hi
  <2>4. QED
    BY <2>1, <2>2, <2>3
<1>11. \A n \in 0 .. hi : tenths[n] \in Int /\ (v \in Nat => tenths[n] \in Nat)
  <2> DEFINE Typed == {n \in Nat : n <= hi => tenths[n] \in Int /\ (v \in Nat => tenths[n] \in Nat)}
  <2>1. 0 \in Typed
    BY <1>10
  <2>2. ASSUME NEW n \in Nat, n \in Typed
        PROVE  n + 1 \in Typed
    <3> SUFFICES ASSUME n + 1 <= hi
                 PROVE  tenths[n + 1] \in Int /\ (v \in Nat => tenths[n + 1] \in Nat)
      OBVIOUS
    <3>1. n + 1 \in 1 .. hi /\ (n + 1) - 1 = n /\ tenths[n] \in Int /\ (v \in Nat => tenths[n] \in Nat)
      BY <1>1, <2>2
    <3>2. tenths[n + 1] = tenths[n] \div 10
      BY <1>10, <3>1
    <3>3. QED
      BY <3>1, <3>2
  <2>3. Nat \subseteq Typed
    <3> HIDE DEF Typed
    <3>1. QED
      BY <2>1, <2>2, Induction
  <2>4. QED
    BY <1>1, <2>3
<1>12. QED
  BY <1>10, <1>11 DEF tenths

(* A tenth divided k times is the number divided once more.                  *)
LEMMA TenthsShift ==
    ASSUME NEW v \in Nat
    PROVE  \A k \in 0 .. 3 * BYTES - 1 : Tenths(v \div 10)[k] = Tenths(v)[k + 1]
<1> DEFINE hi == 3 * BYTES
           a == Tenths(v)
           b == Tenths(v \div 10)
           Same == {k \in Nat : k + 1 <= hi => b[k] = a[k + 1]}
<1>1. v \div 10 \in Int /\ hi \in Nat /\ hi >= 1
  BY VsnprintfAssumption
<1>2. /\ a[0] = v /\ \A k \in 1 .. hi : a[k] = a[k - 1] \div 10
      /\ b[0] = v \div 10 /\ \A k \in 1 .. hi : b[k] = b[k - 1] \div 10
  BY <1>1, TenthsType
<1> HIDE DEF a, b
<1>3. 0 \in Same
  <2>1. a[1] = a[0] \div 10
    BY <1>1, <1>2
  <2>2. QED
    BY <1>2, <2>1
<1>4. ASSUME NEW k \in Nat, k \in Same
      PROVE  k + 1 \in Same
  <2> SUFFICES ASSUME (k + 1) + 1 <= hi
               PROVE  b[k + 1] = a[(k + 1) + 1]
    OBVIOUS
  <2>1. b[k] = a[k + 1] /\ k + 1 \in 1 .. hi /\ (k + 1) + 1 \in 1 .. hi
    BY <1>1, <1>4
  <2>2. ((k + 1) + 1) - 1 = k + 1 /\ (k + 1) - 1 = k
    OBVIOUS
  <2>3. b[k + 1] = b[k] \div 10
    BY <1>2, <2>1, <2>2
  <2>4. a[(k + 1) + 1] = a[k + 1] \div 10
    BY <1>2, <2>1, <2>2
  <2>5. QED
    BY <2>1, <2>3, <2>4
<1>5. Nat \subseteq Same
  <2> HIDE DEF Same
  <2>1. QED
    BY <1>3, <1>4, Induction
<1>6. QED
  BY <1>1, <1>5 DEF a, b

(* A thousand is more than a byte holds: three digits for each byte.         *)
LEMMA TenthsEnd ==
    ASSUME NEW v \in 0 .. -Least
    PROVE  Tenths(v)[3 * BYTES] = 0
<1> DEFINE a == Tenths(v)
           Small == {j \in Nat : j <= BYTES - 1 => a[3 * j] <= 2 ^ (8 * (BYTES - j) - 1)}
<1>1. v \in Nat /\ v \in Int /\ v <= 2 ^ (8 * BYTES - 1) /\ BYTES \in Nat /\ BYTES >= 1
  BY LeastType, VsnprintfAssumption
<1>2. a[0] = v /\ \A k \in 1 .. 3 * BYTES : a[k] = a[k - 1] \div 10
  BY <1>1, TenthsType
<1>3. \A k \in 0 .. 3 * BYTES : a[k] \in Nat
  BY <1>1, TenthsType
<1> HIDE DEF a
<1>4. ASSUME NEW j \in Nat, j <= BYTES - 1
      PROVE  a[3 * j] \in Nat /\ a[3 * (j + 1)] = a[3 * j] \div 1000
  <2> DEFINE k == 3 * j
  <2>1. k \in 0 .. 3 * BYTES /\ k + 1 \in 1 .. 3 * BYTES /\ k + 2 \in 1 .. 3 * BYTES /\ k + 3 \in 1 .. 3 * BYTES
    BY <1>1, <1>4
  <2>2. 3 * (j + 1) = k + 3
    OBVIOUS
  <2> HIDE DEF k
  <2>3. (k + 1) - 1 = k /\ (k + 2) - 1 = k + 1 /\ (k + 3) - 1 = k + 2
    BY <2>1
  <2>4. a[k + 1] = a[k] \div 10 /\ a[k + 2] = a[k + 1] \div 10 /\ a[k + 3] = a[k + 2] \div 10
    BY <1>2, <2>1, <2>3
  <2>5. a[k] \in Nat
    BY <1>3, <2>1
  <2>6. a[k + 3] = a[k] \div 1000
    BY <2>4, <2>5
  <2>7. QED
    BY <2>2, <2>5, <2>6 DEF k
<1>5. 0 \in Small
  BY <1>1, <1>2
<1>6. ASSUME NEW j \in Nat, j \in Small
      PROVE  j + 1 \in Small
  <2> SUFFICES ASSUME j + 1 <= BYTES - 1
               PROVE  a[3 * (j + 1)] <= 2 ^ (8 * (BYTES - (j + 1)) - 1)
    OBVIOUS
  <2> DEFINE m == 8 * (BYTES - (j + 1)) - 1
  <2>1. m \in Nat /\ 8 * (BYTES - j) - 1 = m + 8
    BY <1>1
  <2>2. 2 ^ m \in Nat /\ 2 ^ (m + 8) = 2 ^ m * 2 ^ 8
    BY <2>1, Power, PowerSum
  <2>3. 2 ^ 8 = 256
    OBVIOUS
  <2>4. a[3 * j] \in Nat /\ a[3 * (j + 1)] = a[3 * j] \div 1000 /\ a[3 * j] <= 2 ^ (m + 8)
    BY <1>1, <1>4, <1>6, <2>1
  <2> HIDE DEF m
  <2>5. a[3 * j] <= 256 * 2 ^ m
    BY <2>2, <2>3, <2>4
  <2>6. a[3 * (j + 1)] <= 2 ^ m
    BY <2>2, <2>4, <2>5
  <2>7. QED
    BY <2>6 DEF m
<1>7. Nat \subseteq Small
  <2> HIDE DEF Small
  <2>1. QED
    BY <1>5, <1>6, Induction
<1>8. BYTES - 1 \in Nat /\ (BYTES - 1) + 1 = BYTES /\ 8 * (BYTES - (BYTES - 1)) - 1 = 7
  BY <1>1
<1>9. a[3 * (BYTES - 1)] <= 2 ^ 7
  <2>1. BYTES - 1 \in Small
    <3> HIDE DEF Small
    <3>1. QED
      BY <1>7, <1>8
  <2>2. a[3 * (BYTES - 1)] <= 2 ^ (8 * (BYTES - (BYTES - 1)) - 1)
    BY <1>8, <2>1
  <2>3. QED
    BY <1>8, <2>2
<1>10. 2 ^ 7 = 128
  OBVIOUS
<1>11. a[3 * (BYTES - 1)] \in Nat /\ a[3 * BYTES] = a[3 * (BYTES - 1)] \div 1000
  BY <1>4, <1>8
<1>12. QED
  BY <1>9, <1>10, <1>11 DEF a

LEMMA DigitCountType ==
    ASSUME NEW num
    PROVE  DigitCount(num) \in 1 .. 1 + 3 * BYTES
<1> DEFINE left == {k \in 1 .. 3 * BYTES : Tenths(Abs(num))[k] # 0}
<1>1. 3 * BYTES \in Nat
  BY VsnprintfAssumption
<1>2. IsFiniteSet(1 .. 3 * BYTES) /\ Cardinality(1 .. 3 * BYTES) = 3 * BYTES
  BY <1>1, FS_Interval
<1>3. IsFiniteSet(left) /\ Cardinality(left) <= Cardinality(1 .. 3 * BYTES)
  BY <1>2, FS_Subset
<1>4. Cardinality(left) \in Nat
  BY <1>3, FS_CardinalityType
<1>5. QED
  BY <1>1, <1>2, <1>3, <1>4 DEF DigitCount

LEMMA DecimalTextType ==
    ASSUME NEW num \in Int
    PROVE  DecimalText(num) \in Seq(Nat) /\ Len(DecimalText(num)) = DigitCount(num)
<1> DEFINE D == DigitCount(num)
<1>1. Abs(num) \in Nat /\ Abs(num) \in Int
  BY DEF Abs
<1>2. \A k \in 0 .. 3 * BYTES : Tenths(Abs(num))[k] \in Nat
  BY <1>1, TenthsType
<1>3. D \in 1 .. 1 + 3 * BYTES
  BY DigitCountType
<1>4. DecimalText(num) = [h \in 1 .. D |-> DecimalText(num)[h]]
  BY DEF DecimalText
<1>5. ASSUME NEW h \in 1 .. D
      PROVE  DecimalText(num)[h] \in Nat
  <2> DEFINE digit == Tenths(Abs(num))[D - h] % 10
  <2>1. D - h \in 0 .. 3 * BYTES
    BY <1>3, VsnprintfAssumption
  <2>2. digit \in 0 .. 9
    BY <1>2, <2>1
  <2>3. DecimalText(num)[h] = IF num < 0 THEN Zero - digit ELSE Zero + digit
    BY DEF DecimalText
  <2>4. Zero = 48
    BY DEF Zero
  <2> HIDE DEF digit
  <2>5. QED
    BY <2>2, <2>3, <2>4
<1>6. D \in Nat
  BY <1>3, VsnprintfAssumption
<1> HIDE DEF D
<1>7. DecimalText(num) \in Seq(Nat) /\ Len(DecimalText(num)) = D
  BY <1>4, <1>5, <1>6, IndexedIsSeq
<1>8. QED
  BY <1>7 DEF D

(* The least number has as many digits with the sign as without.             *)
LEMMA NegatedLength ==
    ASSUME NEW num \in Int, NEW m \in Negated(num)
    PROVE  m \in Int /\ DigitCount(m) = DigitCount(num)
<1>1. m \in Int /\ Abs(m) = Abs(num)
  BY DEF Negated, Abs
<1>2. QED
  BY <1>1 DEF DigitCount

LEMMA HexTextType ==
    ASSUME NEW num \in Int
    PROVE  HexText(num) \in Seq(Nat) /\ Len(HexText(num)) = 2 * BYTES
<1>1. 2 * BYTES \in Nat
  BY VsnprintfAssumption
<1>2. HexText(num) = [h \in 1 .. 2 * BYTES |-> HexText(num)[h]]
  BY DEF HexText
<1>3. ASSUME NEW h \in 1 .. 2 * BYTES
      PROVE  HexText(num)[h] \in Nat
  <2> DEFINE p == 2 ^ (4 * (2 * BYTES - h))
             digit == (num \div p) % 16
  <2>1. 4 * (2 * BYTES - h) \in Nat
    BY <1>1
  <2>2. p \in Nat \ {0}
    BY <2>1, Power
  <2> HIDE DEF p
  <2>3. num \div p \in Int
    BY <2>2
  <2>4. digit \in 0 .. 15
    BY <2>3
  <2>5. HexText(num)[h] = IF digit < 10 THEN Zero + digit ELSE LetterA + digit - 10
    BY DEF HexText, p
  <2>6. Zero = 48 /\ LetterA = 97
    BY DEF Zero, LetterA
  <2> HIDE DEF digit
  <2>7. QED
    BY <2>4, <2>5, <2>6
<1>4. QED
  BY <1>1, <1>2, <1>3, IndexedIsSeq

(* Decimal is what its definition says.                                      *)
LEMMA DecimalUnfolds ==
    ASSUME NEW v \in 0 .. -Least
    PROVE  Decimal[v] = IF v < 10 THEN <<Zero + v>> ELSE Append(Decimal[v \div 10], Zero + (v % 10))
<1> DEFINE hi == -Least
           base == [n \in 0 .. 9 |-> <<Zero + n>>]
           pred == [n \in Int |-> n \div 10]
           step == [p \in Int \X Seq(Int) |-> Append(p[2], Zero + (p[1] % 10))]
           Body(f) == [n \in 0 .. hi |-> IF n < 10 THEN <<Zero + n>> ELSE Append(f[n \div 10], Zero + (n % 10))]
<1>1. 0 \in Int /\ hi \in Int /\ Zero \in Int
  BY LeastType DEF Zero
<1>2. \A n \in 0 .. hi : n \in 0 .. 9 => base[n] = <<Zero + n>> /\ base[n] \in Seq(Int)
  BY <1>1
<1>3. \A n \in 0 .. hi : n \notin 0 .. 9 => pred[n] \in 0 .. n - 1
  BY <1>1
<1>4. \A n \in 0 .. hi, w \in Seq(Int) :
          step[<<n, w>>] = Append(w, Zero + (n % 10)) /\ step[<<n, w>>] \in Seq(Int)
  <2> SUFFICES ASSUME NEW n \in 0 .. hi, NEW w \in Seq(Int)
               PROVE  step[<<n, w>>] = Append(w, Zero + (n % 10)) /\ step[<<n, w>>] \in Seq(Int)
    OBVIOUS
  <2>1. n \in Int /\ Zero + (n % 10) \in Int
    BY <1>1
  <2>2. step[<<n, w>>] = Append(w, Zero + (n % 10))
    BY <2>1
  <2>3. Append(w, Zero + (n % 10)) \in Seq(Int)
    BY <2>1
  <2>4. QED
    BY <2>2, <2>3
<1>5. PICK f \in [0 .. hi -> Seq(Int)] :
          f = [n \in 0 .. hi |-> IF n \in 0 .. 9 THEN base[n] ELSE step[<<n, f[pred[n]]>>]]
  <2> DEFINE St == Seq(Int)
             Small == 0 .. 9
  <2> HIDE DEF base, pred, step, hi
  <2>1. Recursive(0, hi, St, Small, base, pred, step)
    BY <1>1, <1>2, <1>3, <1>4 DEF Recursive
  <2> HIDE DEF St, Small
  <2>2. \E f \in [0 .. hi -> St] :
            f = [n \in 0 .. hi |-> IF n \in Small THEN base[n] ELSE step[<<n, f[pred[n]]>>]]
    BY <2>1, Recursion
  <2>3. QED
    BY <2>2 DEF St, Small
<1>6. ASSUME NEW n \in 0 .. hi
      PROVE  (IF n \in 0 .. 9 THEN base[n] ELSE step[<<n, f[pred[n]]>>])
                 = (IF n < 10 THEN <<Zero + n>> ELSE Append(f[n \div 10], Zero + (n % 10)))
  <2>1. CASE n < 10
    <3>1. n \in 0 .. 9
      BY <1>1, <2>1
    <3>2. QED
      BY <1>2, <2>1, <3>1
  <2>2. CASE ~(n < 10)
    <3>1. n \notin 0 .. 9 /\ pred[n] = n \div 10 /\ n \div 10 \in 0 .. hi
      BY <1>1, <2>2
    <3>2. f[n \div 10] \in Seq(Int)
      BY <3>1
    <3>3. QED
      BY <1>4, <2>2, <3>1, <3>2
  <2>3. QED
    BY <2>1, <2>2
<1>7. f = Body(f)
  <2>1. f = [n \in 0 .. hi |-> f[n]]
    OBVIOUS
  <2>2. \A n \in 0 .. hi : f[n] = IF n < 10 THEN <<Zero + n>> ELSE Append(f[n \div 10], Zero + (n % 10))
    <3> HIDE DEF base, pred, step, hi
    <3>1. QED
      BY <1>5, <1>6
  <2>3. QED
    BY <2>1, <2>2
<1>8. Decimal = CHOOSE g : g = Body(g)
  BY DEF Decimal
<1>9. Decimal = Body(Decimal)
  <2> HIDE DEF Body
  <2>1. QED
    BY <1>7, <1>8
<1>10. QED
  BY <1>9

LEMMA AbsNat ==
    ASSUME NEW v \in Nat
    PROVE  Abs(v) = v
BY DEF Abs

(* One digit.                                                                *)
LEMMA OneDigit ==
    ASSUME NEW v \in 0 .. 9
    PROVE  DecimalText(v) = <<Zero + v>>
<1> DEFINE a == Tenths(v)
<1>1. /\ a[0] = v
      /\ \A k \in 1 .. 3 * BYTES : a[k] = a[k - 1] \div 10
  BY TenthsType
<1>2. Abs(v) = v
  BY AbsNat
<1> HIDE DEF a
<1>3. \A k \in 1 .. 3 * BYTES : a[k] = 0
  <2> DEFINE Gone == {k \in Nat : k + 1 <= 3 * BYTES => a[k + 1] = 0}
  <2>1. 0 \in Gone
    <3> SUFFICES ASSUME 0 + 1 <= 3 * BYTES
                 PROVE  a[1] = 0
      OBVIOUS
    <3>1. 1 \in 1 .. 3 * BYTES
      BY VsnprintfAssumption
    <3>2. a[1] = v \div 10
      BY <1>1, <3>1
    <3>3. QED
      BY <3>2
  <2>2. ASSUME NEW k \in Nat, k \in Gone
        PROVE  k + 1 \in Gone
    <3> SUFFICES ASSUME (k + 1) + 1 <= 3 * BYTES
                 PROVE  a[(k + 1) + 1] = 0
      OBVIOUS
    <3>1. (k + 1) + 1 \in 1 .. 3 * BYTES /\ ((k + 1) + 1) - 1 = k + 1 /\ a[k + 1] = 0
      BY <2>2, VsnprintfAssumption
    <3>2. a[(k + 1) + 1] = a[k + 1] \div 10
      BY <1>1, <3>1
    <3>3. QED
      BY <3>1, <3>2
  <2>3. Nat \subseteq Gone
    <3> HIDE DEF Gone
    <3>1. QED
      BY <2>1, <2>2, Induction
  <2>4. ASSUME NEW k \in 1 .. 3 * BYTES
        PROVE  a[k] = 0
    <3>1. k - 1 \in Nat /\ (k - 1) + 1 = k /\ k <= 3 * BYTES
      BY VsnprintfAssumption
    <3>2. k - 1 \in Gone
      BY <2>3, <3>1
    <3>3. QED
      BY <3>1, <3>2
  <2>5. QED
    BY <2>4
<1>4. {k \in 1 .. 3 * BYTES : a[k] # 0} = {}
  BY <1>3
<1>5. DigitCount(v) = 1
  BY <1>2, <1>4, FS_EmptySet DEF DigitCount, a
<1>6. DecimalText(v) = [h \in 1 .. 1 |-> Zero + (a[1 - h] % 10)]
  BY <1>2, <1>5 DEF DecimalText, a
<1>7. \A h \in 1 .. 1 : Zero + (a[1 - h] % 10) = Zero + v
  BY <1>1
<1>8. [h \in 1 .. 1 |-> Zero + (a[1 - h] % 10)] = [h \in 1 .. 1 |-> Zero + v]
  BY <1>7
<1>9. QED
  BY <1>6, <1>8

(* One digit more.                                                           *)
LEMMA MoreDigits ==
    ASSUME NEW v \in 10 .. -Least
    PROVE  DecimalText(v) = Append(DecimalText(v \div 10), Zero + (v % 10))
<1> DEFINE w == v \div 10
           hi == 3 * BYTES
           a == Tenths(v)
           b == Tenths(w)
           left == {k \in 1 .. hi : b[k] # 0}
           more == {k \in 1 .. hi : a[k] # 0}
           D == DigitCount(v)
           E == DigitCount(w)
<1>1. v \in Nat /\ w \in Nat /\ w # 0 /\ w \in 0 .. -Least /\ hi \in Nat /\ hi >= 1
  BY LeastType, VsnprintfAssumption
<1>2. Abs(v) = v /\ Abs(w) = w
  BY <1>1, AbsNat
<1>3. \A k \in 0 .. hi - 1 : b[k] = a[k + 1]
  BY <1>1, TenthsShift
<1>4. a[0] = v /\ b[0] = w /\ b[hi] = 0
  BY <1>1, TenthsType, TenthsEnd
<1>5. \A k \in 0 .. hi : a[k] \in Nat /\ b[k] \in Nat
  BY <1>1, TenthsType
<1>6. D = 1 + Cardinality(more) /\ E = 1 + Cardinality(left)
  BY <1>2 DEF DigitCount
<1>7. D \in 1 .. 1 + hi /\ E \in 1 .. 1 + hi
  BY DigitCountType
<1>8. DecimalText(v) = [h \in 1 .. D |-> Zero + (a[D - h] % 10)]
      /\ DecimalText(w) = [h \in 1 .. E |-> Zero + (b[E - h] % 10)]
  BY <1>1, <1>2 DEF DecimalText
<1>9. DecimalText(v) \in Seq(Nat) /\ Len(DecimalText(v)) = D
      /\ DecimalText(w) \in Seq(Nat) /\ Len(DecimalText(w)) = E
  BY <1>1, DecimalTextType
<1> HIDE DEF a, b, w, hi, D, E
<1>10. IsFiniteSet(left) /\ 0 \notin left /\ Cardinality(left) \in Nat
  <2>1. IsFiniteSet(1 .. hi)
    BY <1>1, FS_Interval
  <2>2. left \in SUBSET (1 .. hi) /\ 0 \notin left
    BY <1>1
  <2> HIDE DEF left
  <2>3. IsFiniteSet(left)
    BY <2>1, <2>2, FS_Subset
  <2>4. QED
    BY <2>2, <2>3, FS_CardinalityType
<1>11. ExistsBijection(left \union {0}, more)
  <2> DEFINE f == [k \in left \union {0} |-> k + 1]
  <2>1. \A k \in left : k \in 0 .. hi - 1
    BY <1>1, <1>4
  <2>2. \A k \in left \union {0} : k \in 0 .. hi - 1 /\ b[k] # 0
    BY <1>1, <1>4, <2>1
  <2>3. ASSUME NEW k \in left \union {0}
        PROVE  k + 1 \in more
    <3>1. k \in 0 .. hi - 1 /\ a[k + 1] # 0
      BY <1>3, <2>2
    <3>2. k + 1 \in 1 .. hi
      BY <1>1, <3>1
    <3>3. QED
      BY <3>1, <3>2
  <2>4. f \in [left \union {0} -> more]
    BY <2>3
  <2>5. ASSUME NEW k \in left \union {0}, NEW m \in left \union {0}, f[k] = f[m]
        PROVE  k = m
    BY <2>2, <2>5
  <2>6. ASSUME NEW m \in more
        PROVE  \E k \in left \union {0} : f[k] = m
    <3>1. m - 1 \in 0 .. hi - 1 /\ (m - 1) + 1 = m /\ m \in 1 .. hi /\ a[m] # 0
      BY <1>1
    <3>2. b[m - 1] # 0
      BY <1>3, <3>1
    <3>3. m - 1 \in left \union {0}
      <4>1. m - 1 = 0 \/ m - 1 \in 1 .. hi
        BY <1>1, <3>1
      <4>2. QED
        BY <3>2, <4>1
    <3>4. f[m - 1] = m
      BY <3>1, <3>3
    <3>5. QED
      BY <3>3, <3>4
  <2> HIDE DEF f, left, more
  <2>7. f \in Bijection(left \union {0}, more)
    BY <2>4, <2>5, <2>6 DEF Bijection, Injection, IsInjective, Surjection
  <2>8. QED
    BY <2>7 DEF ExistsBijection
<1> HIDE DEF left, more
<1>12. IsFiniteSet(left \union {0}) /\ Cardinality(left \union {0}) = Cardinality(left) + 1
  BY <1>10, FS_AddElement
<1>13. Cardinality(more) = Cardinality(left) + 1
  BY <1>11, <1>12, FS_Bijection
<1>14. D = E + 1 /\ D \in Nat /\ E \in Nat
  BY <1>1, <1>6, <1>7, <1>10, <1>13
<1>15. Zero + (v % 10) \in Nat
  BY <1>1 DEF Zero
<1> DEFINE other == Append(DecimalText(w), Zero + (v % 10))
<1>16. /\ other \in Seq(Nat) /\ Len(other) = E + 1
       /\ \A h \in 1 .. E : other[h] = DecimalText(w)[h]
       /\ other[E + 1] = Zero + (v % 10)
  BY <1>9, <1>14, <1>15
<1>17. ASSUME NEW h \in 1 .. D
       PROVE  DecimalText(v)[h] = other[h]
  <2>1. CASE h = D
    <3>1. D - h = 0
      BY <1>14, <2>1
    <3>2. DecimalText(v)[h] = Zero + (v % 10)
      BY <1>4, <1>8, <3>1
    <3>3. QED
      BY <1>14, <1>16, <2>1, <3>2
  <2>2. CASE h # D
    <3>1. h \in 1 .. E /\ E - h \in 0 .. hi - 1 /\ D - h = (E - h) + 1
      BY <1>1, <1>7, <1>14, <2>2
    <3>2. a[D - h] = b[E - h]
      BY <1>3, <3>1
    <3>3. DecimalText(v)[h] = Zero + (a[D - h] % 10)
      BY <1>8
    <3>4. DecimalText(w)[h] = Zero + (b[E - h] % 10)
      BY <1>8, <3>1
    <3>5. QED
      BY <1>16, <3>1, <3>2, <3>3, <3>4
  <2>3. QED
    BY <2>1, <2>2
<1> HIDE DEF other
<1>18. DecimalText(v) = other
  BY <1>9, <1>14, <1>16, <1>17, SeqEqual
<1>19. QED
  BY <1>18 DEF other, w

(* What %d prints for a number that is not negative is how it is written.    *)
LEMMA DecimalPrinted ==
    ASSUME NEW v \in 0 .. -Least
    PROVE  DecimalText(v) = Decimal[v]
<1> DEFINE Right == {n \in Nat : \A w \in 0 .. -Least : w <= n => DecimalText(w) = Decimal[w]}
<1>1. -Least \in Nat
  BY LeastType
<1>2. \A w \in 0 .. 9 : w \in 0 .. -Least => DecimalText(w) = Decimal[w]
  BY DecimalUnfolds, OneDigit
<1>3. 0 \in Right
  BY <1>1, <1>2
<1>4. ASSUME NEW n \in Nat, n \in Right
      PROVE  n + 1 \in Right
  <2> SUFFICES ASSUME NEW w \in 0 .. -Least, w <= n + 1
               PROVE  DecimalText(w) = Decimal[w]
    OBVIOUS
  <2>1. CASE w < 10
    BY <1>1, <1>2, <2>1
  <2>2. CASE w >= 10
    <3>1. w \in 10 .. -Least /\ w \div 10 \in 0 .. -Least /\ w \div 10 <= n
      BY <1>1, <2>2
    <3>2. DecimalText(w \div 10) = Decimal[w \div 10]
      BY <1>4, <3>1
    <3>3. DecimalText(w) = Append(DecimalText(w \div 10), Zero + (w % 10))
      BY <3>1, MoreDigits
    <3>4. Decimal[w] = Append(Decimal[w \div 10], Zero + (w % 10))
      <4>1. ~(w < 10)
        BY <1>1, <2>2
      <4>2. QED
        BY <4>1, DecimalUnfolds
    <3>5. QED
      BY <3>2, <3>3, <3>4
  <2>3. QED
    BY <1>1, <2>1, <2>2
<1>5. Nat \subseteq Right
  <2> HIDE DEF Right
  <2>1. QED
    BY <1>3, <1>4, Induction
<1>6. v \in Nat /\ v \in Right
  <2>1. v \in Nat
    BY <1>1
  <2> HIDE DEF Right
  <2>2. QED
    BY <1>5, <2>1
<1>7. QED
  BY <1>1, <1>6

(* A digit of a number is one of the number reduced to its lowest digits.    *)
LEMMA DigitOfReduced ==
    ASSUME NEW v \in Int, NEW p \in Nat \ {0}, NEW q \in Nat \ {0}
    PROVE  (v \div p) % 16 = ((v % (p * (16 * q))) \div p) % 16
<1> DEFINE M == p * (16 * q)
           r == v % M
           t == v \div M
<1>1. M \in Nat /\ M > 0
  OBVIOUS
<1>2. r \in Nat /\ t \in Int /\ v = (M * t) + r
  <2> HIDE DEF M
  <2>1. QED
    BY <1>1
<1>3. v = (p * ((16 * q) * t)) + r
  <2> HIDE DEF r, t
  <2>1. QED
    BY <1>2
<1> HIDE DEF M, r, t
<1> DEFINE m == (16 * q) * t
           y == r \div p
           z == r % p
<1>4. m \in Int /\ y \in Int /\ z \in 0 .. p - 1 /\ r = (p * y) + z
  BY <1>2
<1>5. v = (p * (m + y)) + z
  <2> HIDE DEF m, y, z
  <2>1. v = (p * m) + ((p * y) + z)
    BY <1>3, <1>4 DEF m
  <2>2. p * (m + y) = (p * m) + (p * y)
    BY <1>4
  <2>3. QED
    BY <1>4, <2>1, <2>2
<1>6. v \div p = m + y
  <2> HIDE DEF m, y, z
  <2>1. QED
    BY <1>4, <1>5
<1>7. (m + y) % 16 = y % 16
  <2> DEFINE x == q * t
  <2>1. x \in Int /\ m = 16 * x
    BY <1>2
  <2> HIDE DEF m, y, z, x
  <2>2. QED
    BY <1>4, <2>1
<1>8. QED
  BY <1>6, <1>7 DEF M, r
(* What %x prints is the number as an unsigned one.                          *)
LEMMA HexPrinted ==
    ASSUME NEW num \in Int
    PROVE  HexText(num) = Hex(num)
<1>1. ASSUME NEW h \in 1 .. 2 * BYTES
      PROVE  HexText(num)[h] = Hex(num)[h]
  <2> DEFINE i == 4 * (2 * BYTES - h)
             j == 4 * (h - 1)
             p == 2 ^ i
             q == 2 ^ j
  <2>1. i \in Nat /\ j \in Nat /\ 8 * BYTES = i + (4 + j) /\ 4 + j \in Nat
    BY VsnprintfAssumption
  <2>2. p \in Nat \ {0} /\ q \in Nat \ {0}
    BY <2>1, Power
  <2>3. 2 ^ (8 * BYTES) = p * (16 * q)
    <3>1. 2 ^ (4 + j) = 2 ^ 4 * q
      BY <2>1, PowerSum
    <3>2. 2 ^ 4 = 16
      OBVIOUS
    <3>3. 2 ^ (i + (4 + j)) = p * 2 ^ (4 + j)
      BY <2>1, PowerSum
    <3>4. QED
      BY <2>1, <3>1, <3>2, <3>3
  <2> HIDE DEF p, q
  <2> DEFINE digit == (num \div p) % 16
             rest == (num % (p * (16 * q))) \div p
  <2>4. digit = rest % 16
    BY <2>2, DigitOfReduced
  <2>5. num \div p \in Int
    BY <2>2
  <2>6. digit \in 0 .. 15
    BY <2>5
  <2>7. HexText(num)[h] = IF digit < 10 THEN Zero + digit ELSE LetterA + digit - 10
    BY DEF HexText, p
  <2>8. Hex(num)[h] = (rest % 16) + (IF rest % 16 > 9 THEN LetterA - 10 ELSE Zero)
    BY <2>3 DEF Hex, p
  <2>9. Zero = 48 /\ LetterA = 97
    BY DEF Zero, LetterA
  <2> HIDE DEF digit, rest
  <2>10. QED
    BY <2>4, <2>6, <2>7, <2>8, <2>9
<1>2. HexText(num) = [h \in 1 .. 2 * BYTES |-> HexText(num)[h]]
  BY DEF HexText
<1>3. Hex(num) = [h \in 1 .. 2 * BYTES |-> Hex(num)[h]]
  BY DEF Hex
<1>4. QED
  BY <1>1, <1>2, <1>3

-----------------------------------------------------------------------------
(* Types. *)

Chars == [e \in DOMAIN items |-> items[e].chars]
Taken(n) == Len(Found(fmt)[n].list)

CallInv ==
    /\ items \in Seq(Items)
    /\ args = [a \in 1 .. Len(Conversions(fmt)) |-> args[a]]
    /\ \A a \in 1 .. Len(Conversions(fmt)) : args[a] \in Fitting(Conversions(fmt)[a])

LocalInv ==
    /\ pass \in {"count", "write", "puts", "overflow", "fault"}
    /\ s \in 1 .. Len(fmt) + 1
    /\ longarg \in BOOLEAN
    /\ pos \in Nat /\ res \in Nat
    /\ format = Found(fmt)[s - 1].format
    /\ arg \in 1 .. 1 + Taken(s - 1)
    /\ out_buf \in [Bytes -> Nat]


LEMMA FormatType ==
    ASSUME items \in Seq(Items)
    PROVE  /\ Chars \in Seq(Seq(1 .. 255)) /\ Len(Chars) = Len(items)
           /\ fmt = Joined(Chars)[Len(items)]
           /\ fmt \in Seq(1 .. 255) /\ Len(fmt) \in Nat
<1>1. Len(items) \in Nat /\ DOMAIN items = 1 .. Len(items) /\ \A e \in 1 .. Len(items) : items[e] \in Items
  BY LenProperties
<1>2. \A e \in 1 .. Len(items) : items[e].chars \in Seq(1 .. 255)
  BY <1>1, VsnprintfAssumption
<1>3. Chars = [e \in 1 .. Len(items) |-> Chars[e]] /\ \A e \in 1 .. Len(items) : Chars[e] = items[e].chars
  BY <1>1 DEF Chars
<1>4. Chars \in Seq(Seq(1 .. 255)) /\ Len(Chars) = Len(items)
  BY <1>1, <1>2, <1>3, IndexedIsSeq
<1>5. fmt = FlattenSeq(Chars)
  BY DEF fmt, Characters, Chars
<1>6. fmt = Joined(Chars)[Len(items)]
  BY <1>4, <1>5, FlattenIsJoined
<1>7. Len(items) \in 0 .. Len(Chars)
  BY <1>1, <1>4
<1>8. fmt \in Seq(1 .. 255)
  <2>1. Joined(Chars) \in [0 .. Len(Chars) -> Seq(1 .. 255)]
    BY <1>4, JoinedType
  <2>2. QED
    BY <1>6, <1>7, <2>1
<1>9. QED
  BY <1>4, <1>6, <1>8, LenProperties

LEMMA Letters ==
    /\ {c_, d_, p_, s_, x_} = Conversion
    /\ l_ \notin Conversion /\ Percent \notin Conversion /\ Percent # l_
    /\ c_ \notin {d_, p_, s_, x_} /\ d_ \notin {p_, s_, x_} /\ p_ \notin {s_, x_} /\ s_ # x_
BY DEF Conversion, c_, d_, p_, s_, x_, l_, Percent

(* Where the scan is.                                                        *)
LEMMA Scanned ==
    ASSUME CallInv, LocalInv, Scanning
    PROVE  /\ Len(fmt) \in Nat /\ s \in 1 .. Len(fmt) /\ fmt[s] \in 1 .. 255 /\ format \in BOOLEAN
           /\ Taken(s - 1) \in Nat
           /\ ~format => Found(fmt)[s].format = (fmt[s] = Percent) /\ Taken(s) = Taken(s - 1)
           /\ format /\ fmt[s] \in Conversion =>
                  /\ Found(fmt)[s].format = FALSE
                  /\ Taken(s) = Taken(s - 1) + 1 /\ Taken(s) \in 1 .. Len(Conversions(fmt))
                  /\ Conversions(fmt)[Taken(s)] = fmt[s]
           /\ format /\ fmt[s] \notin Conversion => Found(fmt)[s].format = TRUE /\ Taken(s) = Taken(s - 1)
<1>1. fmt \in Seq(1 .. 255) /\ Len(fmt) \in Nat
  BY FormatType DEF CallInv
<1>2. s \in 1 .. Len(fmt)
  BY <1>1 DEF Scanning, LocalInv
<1>3. fmt[s] \in 1 .. 255
  BY <1>1, <1>2, ElementOfSeq
<1>4. s - 1 \in 0 .. Len(fmt)
  BY <1>1, <1>2
<1>5. Found(fmt)[s - 1] \in FoundSoFar /\ Found(fmt)[s] = FoundNext(Found(fmt)[s - 1], fmt[s])
  BY <1>1, <1>2, <1>4, FoundType
<1>6. format = Found(fmt)[s - 1].format /\ format \in BOOLEAN
  BY <1>5 DEF LocalInv, FoundSoFar
<1>7. Taken(s - 1) \in Nat
  <2>1. Found(fmt)[s - 1].list \in Seq(Conversion)
    BY <1>5 DEF FoundSoFar
  <2>2. QED
    BY <2>1, LenProperties DEF Taken
<1>8. ~format => Found(fmt)[s].format = (fmt[s] = Percent) /\ Taken(s) = Taken(s - 1)
  BY <1>5, <1>6 DEF FoundNext, Taken
<1>9. format /\ fmt[s] \notin Conversion => Found(fmt)[s].format = TRUE /\ Taken(s) = Taken(s - 1)
  BY <1>5, <1>6 DEF FoundNext, Taken
<1>10. ASSUME format, fmt[s] \in Conversion
       PROVE  /\ Found(fmt)[s].format = FALSE
              /\ Taken(s) = Taken(s - 1) + 1 /\ Taken(s) \in 1 .. Len(Conversions(fmt))
              /\ Conversions(fmt)[Taken(s)] = fmt[s]
  <2>1. Found(fmt)[s].format = FALSE
    BY <1>5, <1>6, <1>10 DEF FoundNext
  <2>2. Found(fmt)[s - 1].format
    BY <1>6, <1>10
  <2>3. /\ Len(Found(fmt)[s].list) = Len(Found(fmt)[s - 1].list) + 1
        /\ Len(Found(fmt)[s - 1].list) + 1 \in 1 .. Len(Conversions(fmt))
        /\ Conversions(fmt)[Len(Found(fmt)[s - 1].list) + 1] = fmt[s]
    BY <1>1, <1>2, <1>10, <2>2, ConversionAt
  <2>4. Taken(s - 1) = Len(Found(fmt)[s - 1].list) /\ Taken(s) = Len(Found(fmt)[s].list)
    BY DEF Taken
  <2>5. Taken(s) = Taken(s - 1) + 1 /\ Taken(s) \in 1 .. Len(Conversions(fmt))
    BY <2>3, <2>4
  <2>6. Conversions(fmt)[Taken(s)] = fmt[s]
    BY <2>3, <2>4
  <2>7. QED
    BY <2>1, <2>5, <2>6
<1>11. QED
  BY <1>1, <1>2, <1>3, <1>6, <1>7, <1>8, <1>9, <1>10

LEMMA EmitType ==
    ASSUME LocalInv, NEW text \in Seq(Nat), Emit(text)
    PROVE  pos' \in Nat /\ out_buf' \in [Bytes -> Nat]
<1>1. Len(text) \in Nat /\ \A k \in 1 .. Len(text) : text[k] \in Nat
  BY LenProperties
<1>2. pos \in Nat /\ out_buf \in [Bytes -> Nat]
  BY DEF LocalInv
<1>3. pos' = pos + Len(text)
  BY DEF Emit
<1>4. ASSUME NEW b \in Bytes, b \in pos .. pos + Len(text) - 1
      PROVE  text[b - pos + 1] \in Nat
  <2>1. b - pos + 1 \in 1 .. Len(text)
    BY <1>1, <1>2, <1>4
  <2>2. QED
    BY <1>1, <2>1
<1>5. ASSUME NEW b \in Bytes
      PROVE  (IF pass = "write" /\ b \in pos .. pos + Len(text) - 1 /\ b <= res
              THEN text[b - pos + 1] ELSE out_buf[b]) \in Nat
  BY <1>2, <1>4
<1>6. out_buf' = [b \in Bytes |-> IF pass = "write" /\ b \in pos .. pos + Len(text) - 1 /\ b <= res
                                   THEN text[b - pos + 1] ELSE out_buf[b]]
  BY DEF Emit
<1>7. out_buf' \in [Bytes -> Nat]
  BY <1>5, <1>6
<1>8. QED
  BY <1>1, <1>2, <1>3, <1>7

(* A character scanned.                                                      *)
LEMMA ScanKeeps ==
    ASSUME CallInv, LocalInv, Scanning, UNCHANGED <<call, pass, res>>, s' = s + 1,
           format' = Found(fmt)[s].format, longarg' \in BOOLEAN,
           arg' \in 1 .. 1 + Taken(s),
           pos' \in Nat /\ out_buf' \in [Bytes -> Nat]
    PROVE  LocalInv'
<1>1. fmt' = fmt
  BY DEF call, fmt
<1>2. s \in 1 .. Len(fmt) /\ Len(fmt) \in Nat
  BY Scanned
<1>3. s' \in 1 .. Len(fmt) + 1 /\ s' - 1 = s
  BY <1>2
<1>4. format' = (Found(fmt)[s - 1].format)'
  BY <1>1, <1>3
<1>5. arg' \in 1 .. 1 + Taken(s - 1)'
  BY <1>1, <1>3 DEF Taken
<1>6. QED
  BY <1>1, <1>3, <1>4, <1>5 DEF LocalInv, Bytes

LEMMA TextTypes ==
    /\ \A num \in Int : HexText(num) \in Seq(Nat) /\ <<>> \o HexText(num) \in Seq(Nat) /\ <<Zero, x_>> \o HexText(num) \in Seq(Nat)
    /\ \A num \in Int : DecimalText(num) \in Seq(Nat) /\ <<Minus>> \o DecimalText(num) \in Seq(Nat)
    /\ \A text \in Strings : text \in Seq(Nat)
    /\ \A num \in Int : <<num % 256>> \in Seq(Nat)
    /\ \A char \in 1 .. 255 : <<char>> \in Seq(Nat)
    /\ <<NUL>> \in Seq(Nat)
<1>1. ASSUME NEW num \in Int
      PROVE  HexText(num) \in Seq(Nat) /\ <<>> \o HexText(num) \in Seq(Nat) /\ <<Zero, x_>> \o HexText(num) \in Seq(Nat)
  <2>1. HexText(num) \in Seq(Nat)
    BY HexTextType
  <2>2. <<Zero, x_>> \in Seq(Nat)
    BY DEF Zero, x_
  <2>3. QED
    BY <2>1, <2>2, ConcatProperties, ConcatEmptySeq
<1>2. ASSUME NEW num \in Int
      PROVE  DecimalText(num) \in Seq(Nat) /\ <<Minus>> \o DecimalText(num) \in Seq(Nat)
  <2>1. DecimalText(num) \in Seq(Nat)
    BY DecimalTextType
  <2>2. <<Minus>> \in Seq(Nat)
    BY DEF Minus
  <2>3. QED
    BY <2>1, <2>2, ConcatProperties
<1>3. ASSUME NEW text \in Strings
      PROVE  text \in Seq(Nat)
  <2>1. text \in Seq(1 .. 255)
    BY VsnprintfAssumption
  <2>2. 1 .. 255 \subseteq Nat
    OBVIOUS
  <2>3. QED
    BY <2>1, <2>2, SeqMonotonic
<1>4. ASSUME NEW num \in Int
      PROVE  <<num % 256>> \in Seq(Nat)
  <2>1. num % 256 \in Nat
    OBVIOUS
  <2>2. QED
    BY <2>1
<1>5. \A char \in 1 .. 255 : <<char>> \in Seq(Nat)
  OBVIOUS
<1>6. <<NUL>> \in Seq(Nat)
  BY DEF NUL
<1>7. QED
  BY <1>1, <1>2, <1>3, <1>4, <1>5, <1>6

(* Whatever the argument is, a conversion writes a sequence of characters.   *)
LEMMA ConversionWrites ==
    ASSUME ConvertHex \/ ConvertDecimal \/ ConvertString \/ ConvertChar
    PROVE  \E text \in Seq(Nat) : Emit(text)
<1>1. CASE ConvertHex
  <2>1. PICK num \in Numbers \union Pointers : Emit((IF fmt[s] = p_ THEN <<Zero, x_>> ELSE <<>>) \o HexText(num))
    BY <1>1 DEF ConvertHex
  <2>2. QED
    BY <2>1, LeastType, TextTypes
<1>2. CASE ConvertDecimal
  <2>1. PICK num \in Numbers \union Pointers :
            IF num < 0 THEN \E m \in Negated(num) : Emit(<<Minus>> \o DecimalText(m))
            ELSE Emit(DecimalText(num))
    BY <1>2 DEF ConvertDecimal
  <2>2. num \in Int
    BY LeastType
  <2>3. QED
    BY <2>1, <2>2, NegatedLength, TextTypes
<1>3. CASE ConvertString
  BY <1>3, TextTypes DEF ConvertString
<1>4. CASE ConvertChar
  BY <1>4, LeastType, TextTypes DEF ConvertChar
<1>5. QED
  BY <1>1, <1>2, <1>3, <1>4

LEMMA ConversionTyped ==
    ASSUME CallInv, LocalInv, ConvertHex \/ ConvertDecimal \/ ConvertString \/ ConvertChar
    PROVE  LocalInv'
<1>1. /\ Scanning /\ format /\ fmt[s] \in Conversion
      /\ UNCHANGED <<call, pass, res>> /\ s' = s + 1 /\ format' = FALSE /\ longarg' = FALSE
  BY Letters DEF ConvertHex, ConvertDecimal, ConvertString, ConvertChar, Converted
<1>2. arg' = arg + 1 \/ arg' = arg
  BY DEF ConvertHex, ConvertDecimal, ConvertString, ConvertChar, TakeNumber
<1>3. \E text \in Seq(Nat) : Emit(text)
  BY ConversionWrites
<1>4. pos' \in Nat /\ out_buf' \in [Bytes -> Nat]
  BY <1>3, EmitType
<1>5. Found(fmt)[s].format = FALSE /\ Taken(s) = Taken(s - 1) + 1 /\ Taken(s - 1) \in Nat
  BY <1>1, Scanned
<1>6. arg' \in 1 .. 1 + Taken(s)
  BY <1>2, <1>5 DEF LocalInv
<1>7. QED
  BY <1>1, <1>4, <1>5, <1>6, ScanKeeps

LEMMA OtherTyped ==
    ASSUME CallInv, LocalInv, Literal \/ FormatStarts \/ LongPrefix \/ SkipUnknown
    PROVE  LocalInv'
<1>1. Scanning /\ UNCHANGED <<call, pass, res, arg>> /\ s' = s + 1
  BY DEF Literal, FormatStarts, LongPrefix, SkipUnknown
<1>2. longarg' \in BOOLEAN
  BY DEF Literal, FormatStarts, LongPrefix, SkipUnknown, LocalInv
<1>3. pos' \in Nat /\ out_buf' \in [Bytes -> Nat]
  <2>1. CASE Literal
    <3>1. Emit(<<fmt[s]>>) /\ fmt[s] \in 1 .. 255
      BY <2>1, <1>1, Scanned DEF Literal
    <3>2. QED
      BY <3>1, TextTypes, EmitType
  <2>2. CASE FormatStarts \/ LongPrefix \/ SkipUnknown
    BY <2>2 DEF FormatStarts, LongPrefix, SkipUnknown, LocalInv
  <2>3. QED
    BY <2>1, <2>2
<1>4. format' = Found(fmt)[s].format /\ Taken(s) = Taken(s - 1) /\ Taken(s - 1) \in Nat
  <2>1. CASE Literal
    BY <1>1, <2>1, Scanned DEF Literal
  <2>2. CASE FormatStarts
    BY <1>1, <2>2, Scanned DEF FormatStarts
  <2>3. CASE LongPrefix \/ SkipUnknown
    <3>1. format /\ format' = format /\ fmt[s] \notin Conversion
      BY <2>3, Letters DEF LongPrefix, SkipUnknown
    <3>2. format' = TRUE
      BY <1>1, <3>1, Scanned
    <3>3. QED
      BY <1>1, <3>1, <3>2, Scanned
  <2>4. QED
    BY <2>1, <2>2, <2>3
<1>5. arg' \in 1 .. 1 + Taken(s)
  BY <1>1, <1>4 DEF LocalInv
<1>6. QED
  BY <1>1, <1>2, <1>3, <1>4, <1>5, ScanKeeps

LEMMA CallStarts ==
    Init => CallInv /\ LocalInv
<1> SUFFICES ASSUME Init
             PROVE  CallInv /\ LocalInv
  OBVIOUS
<1>1. items \in Seq(Items)
  <2>1. PICK len \in 0 .. MaxItems : items \in [1 .. len -> Items]
    BY DEF Init
  <2>2. len \in Nat
    BY VsnprintfAssumption
  <2>3. QED
    BY <2>1, <2>2
<1>2. fmt \in Seq(1 .. 255) /\ Len(fmt) \in Nat
  BY <1>1, FormatType
<1> DEFINE needs == Conversions(fmt)
<1>3. needs \in Seq(Conversion)
  <2>1. Len(fmt) \in 0 .. Len(fmt)
    BY <1>2
  <2>2. Found(fmt)[Len(fmt)] \in FoundSoFar
    BY <1>2, <2>1, FoundType
  <2>3. QED
    BY <2>2 DEF Conversions, FoundSoFar
<1>4. DOMAIN needs = 1 .. Len(needs)
  BY <1>3, LenProperties
<1>5. args \in [DOMAIN needs -> UNION {Fitting(needs[a]) : a \in DOMAIN needs}]
      /\ \A a \in DOMAIN needs : args[a] \in Fitting(needs[a])
  BY DEF Init
<1>6. CallInv
  <2> HIDE DEF needs
  <2>1. args = [a \in 1 .. Len(needs) |-> args[a]]
    BY <1>4, <1>5
  <2>2. QED
    BY <1>1, <1>4, <1>5, <2>1 DEF CallInv, needs
<1>7. Found(fmt)[0].format = FALSE /\ Len(Found(fmt)[0].list) = 0
  BY <1>2, FoundType
<1>8. s - 1 = 0 /\ s = 1 /\ arg = 1 /\ format = FALSE /\ longarg = FALSE /\ pos = 0 /\ res = 0 /\ pass = "count"
  BY DEF Init
<1>9. out_buf \in [Bytes -> Nat]
  <2>1. NUL \in Nat /\ Old \in Nat
    BY DEF NUL, Old
  <2>2. out_buf = [b \in Bytes |-> IF b = SIZE - 1 THEN NUL ELSE Old]
    BY DEF Init
  <2>3. QED
    BY <2>1, <2>2
<1>10. Taken(s - 1) = 0
  BY <1>7, <1>8 DEF Taken
<1>11. LocalInv
  <2>1. format = Found(fmt)[s - 1].format
    BY <1>7, <1>8
  <2>2. s \in 1 .. Len(fmt) + 1 /\ arg \in 1 .. 1 + Taken(s - 1)
    BY <1>2, <1>8, <1>10
  <2>3. QED
    BY <1>8, <1>9, <2>1, <2>2 DEF LocalInv
<1>12. QED
  BY <1>6, <1>11

(* va_arg never goes past the arguments the format asks for.                 *)
THEOREM LocalsInvariant ==
    Spec => [](CallInv /\ LocalInv)
<1>1. CallInv /\ LocalInv /\ [Next]_vars => (CallInv /\ LocalInv)'
  <2> SUFFICES ASSUME CallInv, LocalInv, [Next]_vars
               PROVE  CallInv' /\ LocalInv'
    OBVIOUS
  <2>1. UNCHANGED call
    BY DEF Next, Literal, FormatStarts, LongPrefix, ConvertHex, ConvertDecimal, ConvertString, StringFault,
           ConvertChar, Converted, SkipUnknown, Measured, Terminated, vars
  <2>2. fmt' = fmt
    BY <2>1 DEF call, fmt
  <2>3. CallInv'
    BY <2>1, <2>2 DEF CallInv, call
  <2>4. CASE Literal \/ FormatStarts \/ LongPrefix \/ SkipUnknown
    BY <2>3, <2>4, OtherTyped
  <2>5. CASE ConvertHex \/ ConvertDecimal \/ ConvertString \/ ConvertChar
    BY <2>3, <2>5, ConversionTyped
  <2>6. CASE StringFault
    BY <2>2, <2>3, <2>6 DEF StringFault, LocalInv, Taken
  <2>7. CASE Measured
    <3>1. Len(fmt) \in Nat
      BY FormatType DEF CallInv
    <3>2. Found(fmt)[0].format = FALSE /\ Len(Found(fmt)[0].list) = 0
      BY <3>1, FoundType
    <3>3. /\ s' = 1 /\ arg' = 1 /\ format' = FALSE /\ longarg' = FALSE /\ pos' = 0 /\ res' = pos
          /\ pass' \in {"overflow", "write"} /\ out_buf' = out_buf
      BY <2>7 DEF Measured
    <3>4. s' - 1 = 0 /\ s' \in 1 .. Len(fmt) + 1
      BY <3>1, <3>3
    <3>5. Taken(s - 1)' = 0 /\ format' = (Found(fmt)[s - 1].format)'
      BY <2>2, <3>2, <3>3, <3>4 DEF Taken
    <3>6. (s \in 1 .. Len(fmt) + 1)' /\ (arg \in 1 .. 1 + Taken(s - 1))'
      BY <2>2, <3>3, <3>4, <3>5
    <3>7. (pos \in Nat /\ res \in Nat /\ out_buf \in [Bytes -> Nat])'
      BY <3>3 DEF LocalInv, Bytes
    <3>8. QED
      BY <2>3, <3>3, <3>5, <3>6, <3>7 DEF LocalInv
  <2>8. CASE Terminated
    <3>1. UNCHANGED <<s, format, longarg, arg, pos, res>> /\ pass' = "puts"
      BY <2>8 DEF Terminated
    <3>2. out_buf' \in [Bytes -> Nat]
      <4>1. NUL \in Nat
        BY DEF NUL
      <4>2. QED
        BY <2>8, <4>1 DEF Terminated, LocalInv
    <3>3. QED
      BY <2>2, <2>3, <3>1, <3>2 DEF LocalInv, Taken, Bytes
  <2>9. CASE UNCHANGED vars
    BY <2>2, <2>3, <2>9 DEF vars, LocalInv, Taken, Bytes
  <2>10. QED
    BY <2>3, <2>4, <2>5, <2>6, <2>7, <2>8, <2>9 DEF Next
<1>2. QED
  BY <1>1, CallStarts, PTL DEF Spec

(* The locals of _vsnprintf keep their types, and va_arg never goes past the *)
(* arguments, in either pass.                                                *)
THEOREM TypeCorrect ==
    Spec => []TypeOK
<1>1. CallInv /\ LocalInv => TypeOK
  <2> SUFFICES ASSUME CallInv, LocalInv
               PROVE  TypeOK
    OBVIOUS
  <2>1. fmt \in Seq(1 .. 255) /\ Len(fmt) \in Nat
    BY FormatType DEF CallInv
  <2>2. s - 1 \in 0 .. Len(fmt) /\ Len(fmt) \in s - 1 .. Len(fmt) /\ Len(fmt) \in 0 .. Len(fmt)
    BY <2>1 DEF LocalInv
  <2>3. Taken(s - 1) \in Nat /\ Taken(s - 1) <= Len(Conversions(fmt))
    BY <2>1, <2>2, FoundGrows DEF Taken, Conversions
  <2>4. Found(fmt)[s - 1] \in FoundSoFar /\ Found(fmt)[Len(fmt)] \in FoundSoFar
    BY <2>1, <2>2, FoundType
  <2>5. format \in BOOLEAN
    BY <2>4 DEF LocalInv, FoundSoFar
  <2>6. Conversions(fmt) \in Seq(Conversion)
    BY <2>4 DEF Conversions, FoundSoFar
  <2>7. Len(Conversions(fmt)) \in Nat
    BY <2>6, LenProperties
  <2>8. Len(args) = Len(Conversions(fmt))
    <3> DEFINE n == Len(Conversions(fmt))
               T == {args[a] : a \in 1 .. n}
    <3>1. args = [a \in 1 .. n |-> args[a]] /\ \A a \in 1 .. n : args[a] \in T
      BY DEF CallInv
    <3> HIDE DEF n, T
    <3>2. n \in Nat
      BY <2>7 DEF n
    <3>3. QED
      BY <3>1, <3>2, IndexedIsSeq DEF n
  <2>9. arg \in 1 .. Len(args) + 1
    BY <2>3, <2>7, <2>8 DEF LocalInv
  <2>10. QED
    BY <2>5, <2>9 DEF TypeOK, LocalInv
<1>2. QED
  BY <1>1, LocalsInvariant, PTL

-----------------------------------------------------------------------------
(* The buffer. *)

(* The bytes between the terminator and the last of the buffer.              *)
UntouchedAbove(b) == \A k \in b .. SIZE - 2 : out_buf[k] = Old

BufferInv ==
    /\ pass \in {"count", "write", "puts", "overflow", "fault"}
    /\ pos \in Nat /\ res \in Nat
    /\ out_buf = [b \in Bytes |-> out_buf[b]]
    /\ pass = "count" => UntouchedAbove(0)
    /\ pass \in {"write", "puts"} => res + 1 < SIZE /\ UntouchedAbove(res + 1)
    /\ pass = "puts" => \E b \in 0 .. res : out_buf[b] = NUL

-----------------------------------------------------------------------------
(* A character or a conversion, in either pass: nothing behind n = res + 1   *)
(* is written, wherever pos is.                                              *)
LEMMA EmitKeeps ==
    ASSUME BufferInv, Scanning, NEW text, Len(text) \in Nat, Emit(text), UNCHANGED <<pass, res>>
    PROVE  BufferInv'
<1>1. pass \in {"count", "write"}
  BY DEF Scanning
<1>2. pos' \in Nat
  BY DEF Emit, BufferInv
<1>3. out_buf' = [b \in Bytes |-> out_buf'[b]]
  BY DEF Emit
<1>4. ASSUME NEW b \in Bytes, pass = "count" \/ b > res
      PROVE  out_buf'[b] = out_buf[b]
  BY <1>4 DEF Emit, BufferInv, Bytes
<1>5. pass = "count" => UntouchedAbove(0)'
  <2>1. ASSUME pass = "count", NEW k \in 0 .. SIZE - 2
        PROVE  out_buf'[k] = Old
    <3>1. k \in Bytes
      BY VsnprintfAssumption DEF Bytes
    <3>2. out_buf[k] = Old
      BY <2>1 DEF BufferInv, UntouchedAbove
    <3>3. QED
      BY <1>4, <2>1, <3>1, <3>2
  <2>2. QED
    BY <2>1 DEF UntouchedAbove
<1>6. pass = "write" => res + 1 < SIZE /\ UntouchedAbove(res + 1)'
  BY <1>4, VsnprintfAssumption DEF BufferInv, UntouchedAbove, Bytes
<1>7. QED
  BY <1>1, <1>2, <1>3, <1>5, <1>6 DEF BufferInv, UntouchedAbove

LEMMA ConversionKeeps ==
    ASSUME BufferInv, ConvertHex \/ ConvertDecimal \/ ConvertString \/ ConvertChar
    PROVE  BufferInv'
<1>1. Scanning /\ UNCHANGED <<pass, res>>
  BY DEF ConvertHex, ConvertDecimal, ConvertString, ConvertChar, Converted
<1>2. \E text : Len(text) \in Nat /\ Emit(text)
  BY ConversionWrites, LenProperties
<1>3. QED
  BY <1>1, <1>2, EmitKeeps

(* The overflow check leaves room for the terminator.                        *)
LEMMA MeasuredKeeps ==
    ASSUME BufferInv, Measured
    PROVE  BufferInv'
<1>1. pass = "count" /\ res' = pos /\ pos' = 0 /\ out_buf' = out_buf
      /\ pass' = IF pos + 1 >= SIZE THEN "overflow" ELSE "write"
  BY DEF Measured
<1>2. UntouchedAbove(res + 1)'
  <2>1. ASSUME NEW k \in pos + 1 .. SIZE - 2
        PROVE  out_buf[k] = Old
    <3>1. k \in 0 .. SIZE - 2
      BY VsnprintfAssumption DEF BufferInv
    <3>2. QED
      BY <1>1, <3>1 DEF BufferInv, UntouchedAbove
  <2>2. QED
    BY <1>1, <2>1 DEF UntouchedAbove
<1>3. QED
  BY <1>1, <1>2, VsnprintfAssumption DEF BufferInv

(* The terminator is at pos or, if that is behind, where the first pass      *)
(* expected it.                                                              *)
LEMMA TerminatedKeeps ==
    ASSUME BufferInv, Terminated
    PROVE  BufferInv'
<1>1. DEFINE end == IF pos <= res THEN pos ELSE res
<1>2. pass = "write" /\ pass' = "puts" /\ UNCHANGED <<pos, res>> /\ out_buf' = [out_buf EXCEPT ![end] = NUL]
  BY DEF Terminated
<1>3. end \in 0 .. res /\ end \in Bytes /\ res + 1 < SIZE
  BY <1>2, VsnprintfAssumption DEF BufferInv, Bytes
<1>4. out_buf'[end] = NUL /\ out_buf' = [b \in Bytes |-> out_buf'[b]]
  BY <1>2, <1>3 DEF BufferInv
<1>5. \A b \in Bytes \ {end} : out_buf'[b] = out_buf[b]
  BY <1>2, <1>3 DEF BufferInv
<1>6. UntouchedAbove(res + 1)'
  <2>1. ASSUME NEW k \in res + 1 .. SIZE - 2
        PROVE  out_buf'[k] = Old
    <3>1. k \in Bytes \ {end}
      BY <1>2, <1>3, VsnprintfAssumption DEF BufferInv, Bytes
    <3>2. out_buf[k] = Old
      BY <1>2 DEF BufferInv, UntouchedAbove
    <3>3. QED
      BY <1>5, <3>1, <3>2
  <2>2. QED
    BY <1>2, <2>1 DEF UntouchedAbove
<1>7. QED
  BY <1>2, <1>3, <1>4, <1>6 DEF BufferInv

LEMMA BufferStarts ==
    Init => BufferInv
<1> SUFFICES ASSUME Init
             PROVE  BufferInv
  OBVIOUS
<1>1. \A b \in Bytes \ {SIZE - 1} : out_buf[b] = Old
  BY DEF Init
<1>2. UntouchedAbove(0)
  BY <1>1, VsnprintfAssumption DEF UntouchedAbove, Bytes
<1>3. out_buf = [b \in Bytes |-> out_buf[b]]
  BY DEF Init
<1>4. QED
  BY <1>2, <1>3 DEF Init, BufferInv

(* BufferInv is inductive.                                                   *)
THEOREM BufferInvariant ==
    Spec => []BufferInv
<1>1. BufferInv /\ [Next]_vars => BufferInv'
  <2> SUFFICES ASSUME BufferInv, [Next]_vars
               PROVE  BufferInv'
    OBVIOUS
  <2>1. CASE Literal
    <3>1. Scanning /\ Emit(<<fmt[s]>>) /\ UNCHANGED <<pass, res>>
      BY <2>1 DEF Literal
    <3>2. Len(<<fmt[s]>>) \in Nat
      OBVIOUS
    <3>3. QED
      BY <3>1, <3>2, EmitKeeps
  <2>2. CASE FormatStarts \/ LongPrefix \/ SkipUnknown \/ UNCHANGED vars
    <3>1. UNCHANGED <<pass, pos, res, out_buf>>
      BY <2>2 DEF FormatStarts, LongPrefix, SkipUnknown, vars
    <3>2. QED
      BY <3>1 DEF BufferInv, UntouchedAbove
  <2>3. CASE ConvertHex \/ ConvertDecimal \/ ConvertString \/ ConvertChar
    BY <2>3, ConversionKeeps
  <2>4. CASE StringFault
    BY <2>4 DEF StringFault, BufferInv
  <2>5. CASE Measured
    BY <2>5, MeasuredKeeps
  <2>6. CASE Terminated
    BY <2>6, TerminatedKeeps
  <2>7. QED
    BY <2>1, <2>2, <2>3, <2>4, <2>5, <2>6 DEF Next
<1>2. QED
  BY <1>1, BufferStarts, PTL DEF Spec

(* printf writes inside out_buf and uart_puts finds the end of the text,     *)
(* whatever the format and its arguments are.                                *)
THEOREM StaysInBuffer ==
    Spec => []InsideBuffer
<1>1. BufferInv => InsideBuffer
  BY DEF BufferInv, UntouchedAbove, InsideBuffer
<1>2. QED
  BY <1>1, BufferInvariant, PTL

-----------------------------------------------------------------------------
(* The length both passes find. *)

ConversionText(conversion, a) ==
    CASE conversion = c_ -> <<a.num % 256>>
      [] conversion = d_ -> IF a.num < 0 THEN <<Minus>> \o DecimalText(-a.num) ELSE DecimalText(a.num)
      [] conversion = p_ -> <<Zero, x_>> \o HexText(a.num)
      [] conversion = s_ -> a.text
      [] conversion = x_ -> HexText(a.num)

(* The characters that may stand for it: for the least number the digits     *)
(* below '0' too.                                                            *)
Meant(conversion, a) ==
    IF conversion = d_ /\ a.num = Least THEN <<{Minus}>> \o EitherSign(DecimalText(-a.num))
    ELSE Exactly(ConversionText(conversion, a))

Matches(text, meant) == Len(text) = Len(meant) /\ \A i \in 1 .. Len(text) : text[i] \in meant[i]

(* What each character of the format makes printf write.                     *)
Shown ==
    [n \in 1 .. Len(fmt) |->
        IF Found(fmt)[n - 1].format
        THEN IF fmt[n] \in Conversion THEN Meant(fmt[n], args[Taken(n - 1) + 1]) ELSE <<>>
        ELSE IF fmt[n] = Percent THEN <<>> ELSE <<{fmt[n]}>>]

Printed == Joined(Shown)

MeasureInv ==
    Aligned =>
        /\ pass = "count" =>
               /\ pos = Len(Printed[s - 1])
               /\ (\A a \in 1 .. Taken(s - 1) : Conversions(fmt)[a] # c_) => arg = 1 + Taken(s - 1)
        /\ pass = "write" =>
               /\ pos = Len(Printed[s - 1]) /\ res = Len(Printed[Len(fmt)])
               /\ arg = 1 + Taken(s - 1)
        /\ pass = "puts" => pos = res /\ pos = Len(Printed[Len(fmt)])

(* The conversion the scan is at takes its own argument.                     *)
Owned ==
    /\ pass = "write" => pos <= res
    /\ format /\ fmt[s] \in Conversion /\ (fmt[s] # c_ \/ pass = "write") => arg = Taken(s - 1) + 1

LEMMA ExactlyType ==
    ASSUME NEW text \in Seq(Nat)
    PROVE  /\ Exactly(text) \in Seq(SUBSET Int) /\ EitherSign(text) \in Seq(SUBSET Int)
           /\ Len(Exactly(text)) = Len(text) /\ Len(EitherSign(text)) = Len(text)
           /\ \A i \in 1 .. Len(text) : /\ Exactly(text)[i] = {text[i]}
                                       /\ EitherSign(text)[i] = {text[i], 2 * Zero - text[i]}
           /\ Matches(text, Exactly(text))
<1>1. Len(text) \in Nat /\ DOMAIN text = 1 .. Len(text) /\ \A i \in 1 .. Len(text) : text[i] \in Nat
  BY LenProperties
<1>2. /\ Exactly(text) = [i \in 1 .. Len(text) |-> Exactly(text)[i]]
      /\ EitherSign(text) = [i \in 1 .. Len(text) |-> EitherSign(text)[i]]
      /\ \A i \in 1 .. Len(text) : /\ Exactly(text)[i] = {text[i]}
                                  /\ EitherSign(text)[i] = {text[i], 2 * Zero - text[i]}
  BY <1>1 DEF Exactly, EitherSign
<1>3. \A i \in 1 .. Len(text) : Exactly(text)[i] \in SUBSET Int /\ EitherSign(text)[i] \in SUBSET Int
  BY <1>1, <1>2 DEF Zero
<1>4. Exactly(text) \in Seq(SUBSET Int) /\ Len(Exactly(text)) = Len(text)
  BY <1>1, <1>2, <1>3, IndexedIsSeq
<1>5. EitherSign(text) \in Seq(SUBSET Int) /\ Len(EitherSign(text)) = Len(text)
  BY <1>1, <1>2, <1>3, IndexedIsSeq
<1>6. QED
  BY <1>2, <1>4, <1>5 DEF Matches

(* Whatever -num becomes, the digits of the least number are those of its    *)
(* amount, or as far below '0'.                                              *)
LEMMA LeastDigits ==
    ASSUME NEW num \in Int, num < 0, NEW m \in Negated(num), num = Least
    PROVE  Matches(<<Minus>> \o DecimalText(m), <<{Minus}>> \o EitherSign(DecimalText(-num)))
<1> DEFINE right == DecimalText(-num)
           text == DecimalText(m)
<1>1. m \in Int /\ -num \in Int /\ m \in {num, -num} /\ Abs(m) = Abs(-num) /\ ~(-num < 0)
  BY DEF Negated, Abs
<1>2. DigitCount(m) = DigitCount(-num)
  BY <1>1 DEF DigitCount
<1>3. /\ text \in Seq(Nat) /\ right \in Seq(Nat)
      /\ Len(text) = DigitCount(m) /\ Len(right) = DigitCount(m)
  BY <1>1, <1>2, DecimalTextType
<1>4. DigitCount(m) \in 1 .. 1 + 3 * BYTES
  BY DigitCountType
<1>5. ASSUME NEW h \in 1 .. DigitCount(m)
      PROVE  text[h] \in {right[h], 2 * Zero - right[h]}
  <2> DEFINE digit == Tenths(Abs(m))[DigitCount(m) - h] % 10
  <2>1. text[h] = IF m < 0 THEN Zero - digit ELSE Zero + digit
    BY DEF DecimalText
  <2>2. right[h] = Zero + digit
    BY <1>1, <1>2 DEF DecimalText
  <2>3. digit \in Int
    <3>1. DigitCount(m) - h \in 0 .. 3 * BYTES
      BY <1>4, VsnprintfAssumption
    <3>2. Tenths(Abs(m))[DigitCount(m) - h] \in Nat
      BY <1>1, <3>1, AbsNat, TenthsType
    <3>3. QED
      BY <3>2
  <2> HIDE DEF digit
  <2>4. QED
    BY <2>1, <2>2, <2>3 DEF Zero
<1> DEFINE means == EitherSign(right)
<1> HIDE DEF text, right
<1>6. means \in Seq(SUBSET Int) /\ Len(means) = Len(right) /\ \A h \in 1 .. Len(right) : means[h] = {right[h], 2 * Zero - right[h]}
  BY <1>3, ExactlyType
<1> HIDE DEF means
<1>7. \A h \in 1 .. Len(text) : text[h] \in means[h]
  BY <1>3, <1>5, <1>6
<1>8. Len(text) = Len(means) /\ Len(text) \in Nat
  BY <1>3, <1>6, LenProperties
<1>9. <<Minus>> \in Seq(Nat) /\ Len(<<Minus>>) = 1 /\ <<{Minus}>> \in Seq(SUBSET Int) /\ Len(<<{Minus}>>) = 1
  BY DEF Minus
<1> DEFINE whole == <<Minus>> \o text
           meant == <<{Minus}>> \o means
<1>10. Len(whole) = 1 + Len(text) /\ \A i \in 1 .. 1 + Len(text) : whole[i] = IF i <= 1 THEN <<Minus>>[i] ELSE text[i - 1]
  BY <1>3, <1>9, ConcatProperties
<1>11. Len(meant) = 1 + Len(means) /\ \A i \in 1 .. 1 + Len(means) : meant[i] = IF i <= 1 THEN <<{Minus}>>[i] ELSE means[i - 1]
  BY <1>6, <1>9, ConcatProperties
<1> HIDE DEF whole, meant
<1>12. ASSUME NEW i \in 1 .. Len(whole)
       PROVE  whole[i] \in meant[i]
  <2>1. CASE i = 1
    BY <1>8, <1>10, <1>11, <2>1
  <2>2. CASE i # 1
    <3>1. i - 1 \in 1 .. Len(text) /\ i \in 1 .. 1 + Len(text) /\ ~(i <= 1)
      BY <1>8, <1>10, <2>2
    <3>2. whole[i] = text[i - 1] /\ meant[i] = means[i - 1]
      BY <1>8, <1>10, <1>11, <3>1
    <3>3. QED
      BY <1>7, <3>1, <3>2
  <2>3. QED
    BY <2>1, <2>2
<1>13. Matches(whole, meant)
  BY <1>8, <1>10, <1>11, <1>12 DEF Matches
<1>14. QED
  BY <1>13 DEF whole, meant, means, text, right

(* An argument that fits is a number, but for %s.                            *)
LEMMA FittingNumber ==
    ASSUME NEW conversion, conversion # s_, NEW a \in Fitting(conversion)
    PROVE  a.num \in Numbers /\ a.num \in Int /\ ~IsString(a)
<1>1. PICK v \in Numbers : a = Number(v)
  BY DEF Fitting
<1>2. v \in Int
  BY LeastType
<1>3. QED
  BY <1>1, <1>2 DEF Number, IsString

LEMMA ConversionTextType ==
    ASSUME NEW conversion \in Conversion, NEW a \in Fitting(conversion)
    PROVE  ConversionText(conversion, a) \in Seq(Nat)
<1>1. CASE conversion = s_
  <2>1. PICK v \in Strings : a = String(v)
    BY <1>1 DEF Fitting
  <2>2. ConversionText(conversion, a) = v
    BY <1>1, <2>1, Letters DEF ConversionText, String
  <2>3. QED
    BY <2>2, TextTypes
<1>2. CASE conversion # s_
  <2>1. a.num \in Int /\ -a.num \in Int
    BY <1>2, FittingNumber
  <2> DEFINE num == a.num
  <2> HIDE DEF num
  <2>2. /\ <<num % 256>> \in Seq(Nat)
        /\ <<Minus>> \o DecimalText(-num) \in Seq(Nat) /\ DecimalText(num) \in Seq(Nat)
        /\ HexText(num) \in Seq(Nat) /\ <<Zero, x_>> \o HexText(num) \in Seq(Nat)
    BY <2>1, TextTypes DEF num
  <2>3. conversion \in {c_, d_, p_, x_}
    BY <1>2, Letters
  <2>4. CASE conversion = c_
    BY <2>2, <2>4, Letters DEF ConversionText, num
  <2>5. CASE conversion = d_
    <3>1. ConversionText(conversion, a) = IF num < 0 THEN <<Minus>> \o DecimalText(-num) ELSE DecimalText(num)
      BY <2>5, Letters DEF ConversionText, num
    <3>2. QED
      BY <2>2, <3>1
  <2>6. CASE conversion = p_
    BY <2>2, <2>6, Letters DEF ConversionText, num
  <2>7. CASE conversion = x_
    BY <2>2, <2>7, Letters DEF ConversionText, num
  <2>8. QED
    BY <2>3, <2>4, <2>5, <2>6, <2>7
<1>3. QED
  BY <1>1, <1>2

LEMMA MeantType ==
    ASSUME NEW conversion \in Conversion, NEW a \in Fitting(conversion)
    PROVE  Meant(conversion, a) \in Seq(SUBSET Int)
<1>1. CASE conversion = d_ /\ a.num = Least
  <2>1. a.num \in Int /\ -a.num \in Int
    BY <1>1, FittingNumber, Letters
  <2>2. DecimalText(-a.num) \in Seq(Nat)
    BY <2>1, TextTypes
  <2>3. EitherSign(DecimalText(-a.num)) \in Seq(SUBSET Int)
    BY <2>2, ExactlyType
  <2>4. <<{Minus}>> \in Seq(SUBSET Int)
    BY DEF Minus
  <2>5. <<{Minus}>> \o EitherSign(DecimalText(-a.num)) \in Seq(SUBSET Int)
    BY <2>3, <2>4, ConcatProperties
  <2>6. QED
    BY <1>1, <2>5, Letters DEF Meant
<1>2. CASE ~(conversion = d_ /\ a.num = Least)
  <2>1. Meant(conversion, a) = Exactly(ConversionText(conversion, a))
    BY <1>2 DEF Meant
  <2>2. ConversionText(conversion, a) \in Seq(Nat)
    BY ConversionTextType
  <2>3. QED
    BY <2>1, <2>2, ExactlyType
<1>3. QED
  BY <1>1, <1>2

LEMMA ShownType ==
    ASSUME CallInv
    PROVE  Shown \in Seq(Seq(SUBSET Int)) /\ Len(Shown) = Len(fmt) /\ Len(fmt) \in Nat
<1>1. fmt \in Seq(1 .. 255) /\ Len(fmt) \in Nat
  BY FormatType DEF CallInv
<1>2. ASSUME NEW n \in 1 .. Len(fmt)
      PROVE  Shown[n] \in Seq(SUBSET Int)
  <2>1. fmt[n] \in 1 .. 255
    BY <1>1, ElementOfSeq
  <2>2. CASE Found(fmt)[n - 1].format /\ fmt[n] \in Conversion
    <3> DEFINE a == Taken(n - 1) + 1
    <3>1. a \in 1 .. Len(Conversions(fmt)) /\ Conversions(fmt)[a] = fmt[n]
      BY <1>1, <2>2, ConversionAt DEF Taken
    <3>2. args[a] \in Fitting(fmt[n])
      BY <3>1 DEF CallInv
    <3>3. Shown[n] = Meant(fmt[n], args[a])
      BY <2>2 DEF Shown
    <3>4. QED
      BY <2>2, <3>2, <3>3, MeantType
  <2>3. CASE Found(fmt)[n - 1].format /\ fmt[n] \notin Conversion
    BY <2>3, EmptySeq DEF Shown
  <2>4. CASE ~Found(fmt)[n - 1].format
    <3> DEFINE char == {fmt[n]}
    <3>1. fmt[n] \in Int
      <4>1. \A k \in 1 .. 255 : k \in Int
        OBVIOUS
      <4>2. QED
        BY <2>1, <4>1, Zenon
    <3>2. char \in SUBSET Int
      BY <3>1
    <3>3. Shown[n] = IF fmt[n] = Percent THEN <<>> ELSE <<char>>
      BY <2>4 DEF Shown
    <3> HIDE DEF char
    <3>4. <<char>> \in Seq(SUBSET Int) /\ <<>> \in Seq(SUBSET Int)
      BY <3>2, EmptySeq
    <3>5. QED
      BY <3>3, <3>4
  <2>5. QED
    BY <2>2, <2>3, <2>4
<1>3. Shown = [n \in 1 .. Len(fmt) |-> Shown[n]]
  BY DEF Shown
<1>4. QED
  BY <1>1, <1>2, <1>3, IndexedIsSeq

(* What is printed grows by what the character shows.                        *)
LEMMA PrintedAt ==
    ASSUME CallInv, NEW n \in 1 .. Len(fmt)
    PROVE  /\ Shown[n] \in Seq(SUBSET Int) /\ Len(Shown[n]) \in Nat
           /\ Printed[n] = Printed[n - 1] \o Shown[n] /\ Printed[n - 1] \in Seq(SUBSET Int)
           /\ Len(Printed[n - 1]) \in Nat
           /\ Len(Printed[n]) = Len(Printed[n - 1]) + Len(Shown[n])
           /\ Len(Printed[n]) <= Len(Printed[Len(fmt)]) /\ Len(Printed[Len(fmt)]) \in Nat
           /\ \A j \in 1 .. Len(Shown[n]) : Printed[Len(fmt)][Len(Printed[n - 1]) + j] = Shown[n][j]
<1>1. Shown \in Seq(Seq(SUBSET Int)) /\ Len(Shown) = Len(fmt) /\ Len(fmt) \in Nat
  BY ShownType
<1>2. Shown[n] \in Seq(SUBSET Int)
  BY <1>1, ElementOfSeq
<1>3. n - 1 \in 0 .. Len(fmt) /\ Len(fmt) \in 0 .. Len(fmt)
  BY <1>1
<1>4. Printed[n - 1] \in Seq(SUBSET Int) /\ Printed[Len(fmt)] \in Seq(SUBSET Int)
  BY <1>1, <1>3, JoinedType DEF Printed
<1>5. /\ Printed[n] = Printed[n - 1] \o Shown[n]
      /\ Len(Printed[n]) = Len(Printed[n - 1]) + Len(Shown[n])
      /\ Len(Printed[n]) <= Len(Printed[Len(fmt)])
      /\ \A j \in 1 .. Len(Shown[n]) : Printed[Len(fmt)][Len(Printed[n - 1]) + j] = Shown[n][j]
  <2>1. n \in 1 .. Len(Shown)
    BY <1>1
  <2> DEFINE joined == Joined(Shown)
  <2>2. /\ joined[n] = joined[n - 1] \o Shown[n]
        /\ Len(joined[n]) = Len(joined[n - 1]) + Len(Shown[n])
        /\ Len(joined[n]) <= Len(joined[Len(Shown)])
    BY <1>1, <2>1, JoinedAt
  <2>3. \A j \in 1 .. Len(Shown[n]) : joined[Len(Shown)][Len(joined[n - 1]) + j] = Shown[n][j]
    BY <1>1, <2>1, JoinedAt, ZenonT(30)
  <2> HIDE DEF joined
  <2>4. QED
    BY <1>1, <2>2, <2>3 DEF Printed, joined
<1>6. QED
  BY <1>2, <1>4, <1>5, LenProperties

(* With the %c last, both passes take the argument the conversion asks for.  *)
LEMMA ArgumentFits ==
    ASSUME CallInv, LocalInv, MeasureInv, Aligned, Scanning, format, fmt[s] \in Conversion,
           fmt[s] # c_ \/ pass = "write"
    PROVE  arg = Taken(s - 1) + 1 /\ args[arg] \in Fitting(fmt[s])
<1>1. /\ Taken(s - 1) \in Nat /\ Taken(s) = Taken(s - 1) + 1
      /\ Taken(s) \in 1 .. Len(Conversions(fmt)) /\ Conversions(fmt)[Taken(s)] = fmt[s]
  BY Scanned
<1>2. arg = Taken(s - 1) + 1
  <2>1. CASE pass = "write"
    BY <1>1, <2>1 DEF MeasureInv
  <2>2. CASE pass = "count" /\ fmt[s] # c_
    <3>1. ASSUME NEW a \in 1 .. Taken(s - 1)
          PROVE  Conversions(fmt)[a] # c_
      <4>1. DOMAIN Conversions(fmt) = 1 .. Len(Conversions(fmt))
        <5>1. Len(fmt) \in Nat
          BY FormatType DEF CallInv
        <5>2. Found(fmt)[Len(fmt)] \in FoundSoFar
          BY <5>1, FoundType
        <5>3. Conversions(fmt) \in Seq(Conversion)
          BY <5>2 DEF Conversions, FoundSoFar
        <5>4. QED
          BY <5>3, LenProperties
      <4>2. a \in 1 .. Len(Conversions(fmt)) /\ a < Taken(s)
        BY <1>1
      <4>3. QED
        BY <1>1, <2>2, <4>1, <4>2 DEF Aligned
    <3>2. QED
      BY <1>1, <2>2, <3>1 DEF MeasureInv
  <2>3. QED
    BY <2>1, <2>2 DEF Scanning
<1>3. QED
  BY <1>1, <1>2 DEF CallInv

(* With that the conversion in hand takes its own argument in both passes.   *)
LEMMA AlignedOwned ==
    ASSUME CallInv, LocalInv, MeasureInv, Aligned, Scanning
    PROVE  Owned
<1>1. format /\ fmt[s] \in Conversion /\ (fmt[s] # c_ \/ pass = "write") => arg = Taken(s - 1) + 1
  BY ArgumentFits
<1>2. CASE pass = "write"
  <2>1. pos = Len(Printed[s - 1]) /\ res = Len(Printed[Len(fmt)])
    BY <1>2 DEF MeasureInv
  <2>2. s \in 1 .. Len(fmt)
    BY Scanned
  <2> DEFINE before == Len(Printed[s - 1])
             here == Len(Printed[s])
             after == Len(Printed[Len(fmt)])
             width == Len(Shown[s])
  <2>3. before \in Nat /\ width \in Nat /\ after \in Nat /\ here = before + width /\ here <= after
    BY <2>2, PrintedAt
  <2> HIDE DEF before, here, after, width
  <2>4. before <= after
    BY <2>3
  <2>5. pos <= res
    BY <2>1, <2>4 DEF before, after
  <2>6. QED
    BY <1>1, <2>5 DEF Owned
<1>3. QED
  BY <1>1, <1>2 DEF Owned

(* With its own argument a conversion writes its text; the least number may  *)
(* become another one, with digits that mirror its own.                      *)
LEMMA NumberEmits ==
    ASSUME CallInv, LocalInv, ConvertHex \/ ConvertDecimal, args[arg] \in Fitting(fmt[s])
    PROVE  \E text \in Seq(Nat) : Emit(text) /\ Matches(text, Meant(fmt[s], args[arg]))
<1> DEFINE a == args[arg]
           own == ConversionText(fmt[s], a)
<1>1. fmt[s] \in {x_, p_, d_} /\ fmt[s] # s_
  BY Letters DEF ConvertHex, ConvertDecimal
<1>2. a.num \in Int /\ ~IsString(a)
  BY <1>1, FittingNumber
<1>3. \A num : TakeNumber(num) => num = a.num
  BY <1>2 DEF TakeNumber
<1>4. ASSUME NEW text \in Seq(Nat), text = own, ~(fmt[s] = d_ /\ a.num = Least)
      PROVE  Matches(text, Meant(fmt[s], a))
  BY <1>4, ExactlyType DEF Meant
<1>5. CASE ConvertHex
  <2>1. PICK num : TakeNumber(num) /\ Emit((IF fmt[s] = p_ THEN <<Zero, x_>> ELSE <<>>) \o HexText(num))
    BY <1>5 DEF ConvertHex
  <2>2. num = a.num
    BY <1>3, <2>1
  <2> DEFINE text == (IF fmt[s] = p_ THEN <<Zero, x_>> ELSE <<>>) \o HexText(num)
  <2>3. HexText(num) \in Seq(Nat) /\ text \in Seq(Nat)
    BY <1>2, <2>2, TextTypes
  <2>4. <<>> \o HexText(num) = HexText(num)
    BY <2>3, ConcatEmptySeq
  <2>5. text = own
    <3>1. CASE fmt[s] = p_
      BY <2>2, <3>1, Letters DEF ConversionText
    <3>2. CASE fmt[s] = x_
      BY <2>2, <2>4, <3>2, Letters DEF ConversionText
    <3>3. QED
      BY <1>5, <3>1, <3>2 DEF ConvertHex
  <2>6. fmt[s] # d_
    BY <1>5, Letters DEF ConvertHex
  <2>7. Emit(text)
    BY <2>1
  <2> HIDE DEF text, own
  <2>8. QED
    BY <1>4, <2>3, <2>5, <2>6, <2>7
<1>6. CASE ConvertDecimal
  <2>1. PICK num : TakeNumber(num)
                   /\ IF num < 0 THEN \E m \in Negated(num) : Emit(<<Minus>> \o DecimalText(m))
                      ELSE Emit(DecimalText(num))
    BY <1>6 DEF ConvertDecimal
  <2>2. num = a.num /\ num \in Int
    BY <1>2, <1>3, <2>1
  <2>3. fmt[s] = d_
    BY <1>6 DEF ConvertDecimal
  <2>4. own = IF num < 0 THEN <<Minus>> \o DecimalText(-num) ELSE DecimalText(num)
    BY <2>2, <2>3, Letters DEF ConversionText
  <2> HIDE DEF own
  <2>5. CASE num < 0
    <3>1. PICK m \in Negated(num) : Emit(<<Minus>> \o DecimalText(m))
      BY <2>1, <2>5
    <3> DEFINE text == <<Minus>> \o DecimalText(m)
    <3>2. m \in Int
      BY <2>2, <3>1, NegatedLength
    <3>3. text \in Seq(Nat)
      BY <3>2, TextTypes
    <3>4. CASE num = Least
      <4>1. Matches(text, <<{Minus}>> \o EitherSign(DecimalText(-num)))
        BY <2>2, <2>5, <3>1, <3>4, LeastDigits
      <4>2. Meant(fmt[s], a) = <<{Minus}>> \o EitherSign(DecimalText(-num))
        BY <2>2, <2>3, <3>4 DEF Meant
      <4> HIDE DEF text
      <4>3. QED
        BY <3>1, <3>3, <4>1, <4>2 DEF text
    <3>5. CASE num # Least
      <4>1. m = -num
        BY <3>1, <3>5 DEF Negated
      <4>2. text = own
        BY <2>4, <2>5, <4>1
      <4>3. Emit(text)
        BY <3>1
      <4> HIDE DEF text
      <4>4. QED
        BY <1>4, <2>2, <3>3, <3>5, <4>2, <4>3
    <3>6. QED
      BY <3>4, <3>5
  <2>6. CASE ~(num < 0)
    <3>1. Emit(DecimalText(num)) /\ own = DecimalText(num)
      BY <2>1, <2>4, <2>6
    <3>2. DecimalText(num) \in Seq(Nat)
      BY <2>2, TextTypes
    <3>3. num # Least
      BY <2>2, <2>6, LeastType
    <3>4. QED
      BY <1>4, <2>2, <3>1, <3>2, <3>3
  <2>7. QED
    BY <2>5, <2>6
<1>7. QED
  BY <1>5, <1>6

(* A conversion with its own argument writes what Shown says; the first pass *)
(* something as long, of a %c.                                               *)
LEMMA ConversionEmits ==
    ASSUME CallInv, LocalInv, Owned, ConvertHex \/ ConvertDecimal \/ ConvertString \/ ConvertChar
    PROVE  /\ \E text \in Seq(Nat) :
                  /\ Emit(text)
                  /\ Len(text) = Len(Shown[s])
                  /\ pass = "write" => Matches(text, Shown[s])
           /\ fmt[s] # c_ \/ pass = "write" => arg' = arg + 1
<1>1. Scanning /\ format /\ fmt[s] \in Conversion
  BY Letters DEF ConvertHex, ConvertDecimal, ConvertString, ConvertChar
<1>2. /\ Taken(s - 1) \in Nat /\ Taken(s) = Taken(s - 1) + 1
      /\ Taken(s) \in 1 .. Len(Conversions(fmt)) /\ Conversions(fmt)[Taken(s)] = fmt[s]
      /\ s \in 1 .. Len(fmt)
  BY <1>1, Scanned
<1>3. Shown[s] = Meant(fmt[s], args[Taken(s)])
  BY <1>1, <1>2 DEF Shown, LocalInv
<1>4. args[Taken(s)] \in Fitting(fmt[s])
  BY <1>2 DEF CallInv
<1>5. fmt[s] # c_ \/ pass = "write" => arg = Taken(s)
  BY <1>1, <1>2 DEF Owned
<1>6. CASE ConvertHex \/ ConvertDecimal
  <2>1. fmt[s] # c_ /\ arg' = arg + 1
    BY <1>6, Letters DEF ConvertHex, ConvertDecimal, TakeNumber
  <2>2. arg = Taken(s)
    BY <1>5, <2>1
  <2>3. \E text \in Seq(Nat) : Emit(text) /\ Matches(text, Shown[s])
    BY <1>3, <1>4, <1>6, <2>2, NumberEmits
  <2>4. QED
    BY <2>1, <2>3 DEF Matches
<1>7. CASE ConvertString
  <2>1. fmt[s] = s_ /\ fmt[s] # c_ /\ fmt[s] # d_ /\ arg' = arg + 1
    BY <1>7, Letters DEF ConvertString
  <2>2. PICK v \in Strings : args[Taken(s)] = String(v)
    BY <1>4, <2>1 DEF Fitting
  <2>3. IsString(args[Taken(s)])
    BY <2>2 DEF IsString, String
  <2>4. PICK text \in Strings : args[Taken(s)] = String(text) /\ Emit(text)
    BY <1>5, <1>7, <2>1, <2>3 DEF ConvertString
  <2>5. Shown[s] = Exactly(text)
    BY <1>3, <2>1, <2>4, Letters DEF Meant, ConversionText, String
  <2>6. text \in Seq(Nat)
    BY TextTypes
  <2>7. Matches(text, Shown[s])
    BY <2>5, <2>6, ExactlyType
  <2>8. QED
    BY <2>1, <2>4, <2>6, <2>7 DEF Matches
<1>8. CASE ConvertChar
  <2>1. fmt[s] = c_ /\ fmt[s] # d_
    BY <1>8, Letters DEF ConvertChar
  <2>2. Shown[s] = Exactly(<<args[Taken(s)].num % 256>>)
    BY <1>3, <2>1, Letters DEF Meant, ConversionText
  <2>3. args[Taken(s)].num \in Int /\ ~IsString(args[Taken(s)])
    BY <1>4, <2>1, FittingNumber, Letters
  <2> DEFINE char == args[Taken(s)].num % 256
  <2>4. <<char>> \in Seq(Nat) /\ Len(<<char>>) = 1
    BY <2>3, TextTypes
  <2>5. Matches(<<char>>, Shown[s])
    <3>1. Shown[s] = Exactly(<<char>>)
      BY <2>2
    <3> HIDE DEF char
    <3>2. QED
      BY <2>4, <3>1, ExactlyType
  <2>6. Len(Shown[s]) = 1
    BY <2>4, <2>5 DEF Matches
  <2>7. CASE pass = "write"
    <3>1. pos <= res /\ arg = Taken(s)
      BY <1>5, <2>7 DEF Owned
    <3>2. PICK num : TakeNumber(num) /\ Emit(<<num % 256>>)
      BY <1>8, <2>7, <3>1 DEF ConvertChar
    <3>3. num = args[Taken(s)].num /\ arg' = arg + 1
      BY <2>3, <3>1, <3>2 DEF TakeNumber
    <3>4. Emit(<<char>>)
      BY <3>2, <3>3
    <3> HIDE DEF char
    <3>5. QED
      BY <2>4, <2>5, <2>6, <3>3, <3>4
  <2>8. CASE pass # "write"
    <3>1. Emit(<<NUL>>) /\ <<NUL>> \in Seq(Nat) /\ Len(<<NUL>>) = 1
      BY <1>8, <2>8, TextTypes DEF ConvertChar
    <3>2. QED
      BY <2>1, <2>6, <2>8, <3>1
  <2>9. QED
    BY <2>7, <2>8
<1>9. QED
  BY <1>6, <1>7, <1>8

Advance ==
    \/ Literal \/ FormatStarts \/ LongPrefix
    \/ ConvertHex \/ ConvertDecimal \/ ConvertString \/ ConvertChar \/ SkipUnknown

LEMMA AdvanceScans ==
    ASSUME Advance
    PROVE  Scanning /\ UNCHANGED <<call, fmt, pass, res>> /\ s' = s + 1
BY DEF Advance, Literal, FormatStarts, LongPrefix, ConvertHex, ConvertDecimal, ConvertString, ConvertChar,
       SkipUnknown, Converted, call, fmt

(* A step of the scan writes what the character shows, or in the first pass  *)
(* something as long.                                                        *)
LEMMA AdvanceEmits ==
    ASSUME CallInv, LocalInv, Owned, Advance
    PROVE  /\ Scanning /\ UNCHANGED <<call, pass, res>> /\ s' = s + 1
           /\ \E text \in Seq(Nat) :
                  /\ Emit(text)
                  /\ Len(text) = Len(Shown[s])
                  /\ pass = "write" => Matches(text, Shown[s])
           /\ \/ Taken(s) = Taken(s - 1) /\ arg' = arg
              \/ Taken(s) = Taken(s - 1) + 1 /\ arg' = arg + 1
              \/ Taken(s) = Taken(s - 1) + 1 /\ pass = "count" /\ Conversions(fmt)[Taken(s)] = c_
<1>1. Scanning /\ UNCHANGED <<call, pass, res>> /\ s' = s + 1
  BY AdvanceScans
<1>2. s \in 1 .. Len(fmt) /\ format = Found(fmt)[s - 1].format
  BY <1>1, Scanned DEF LocalInv
<1>3. CASE ConvertHex \/ ConvertDecimal \/ ConvertString \/ ConvertChar
  <2>1. format /\ fmt[s] \in Conversion
    BY <1>3, Letters DEF ConvertHex, ConvertDecimal, ConvertString, ConvertChar
  <2>2. Taken(s) = Taken(s - 1) + 1 /\ Conversions(fmt)[Taken(s)] = fmt[s]
    BY <1>1, <2>1, Scanned
  <2>3. pass = "count" \/ pass = "write"
    BY <1>1 DEF Scanning
  <2>4. fmt[s] # c_ \/ pass = "write" => arg' = arg + 1
    BY <1>3, ConversionEmits
  <2>5. \E text \in Seq(Nat) :
            /\ Emit(text)
            /\ Len(text) = Len(Shown[s])
            /\ pass = "write" => Matches(text, Shown[s])
    BY <1>3, ConversionEmits
  <2>6. QED
    BY <1>1, <2>2, <2>3, <2>4, <2>5
<1>4. CASE Literal
  <2>1. ~format /\ fmt[s] # Percent /\ Emit(<<fmt[s]>>) /\ arg' = arg
    BY <1>4 DEF Literal
  <2>2. Taken(s) = Taken(s - 1) /\ fmt[s] \in 1 .. 255
    BY <1>1, <2>1, Scanned
  <2>3. Shown[s] = <<{fmt[s]}>>
    BY <1>2, <2>1 DEF Shown
  <2>4. <<fmt[s]>> \in Seq(Nat)
    BY <2>2, TextTypes
  <2>5. Matches(<<fmt[s]>>, Shown[s])
    BY <2>3 DEF Matches
  <2>6. QED
    BY <1>1, <2>1, <2>2, <2>4, <2>5 DEF Matches
<1>5. CASE FormatStarts \/ LongPrefix \/ SkipUnknown
  <2>1. UNCHANGED <<pos, out_buf, arg>>
    BY <1>5 DEF FormatStarts, LongPrefix, SkipUnknown
  <2>2. Emit(<<>>)
    <3>1. pos + Len(<<>>) = pos /\ pos .. pos + Len(<<>>) - 1 = {}
      BY DEF LocalInv
    <3>2. out_buf = [b \in Bytes |-> out_buf[b]]
      BY DEF LocalInv
    <3>3. QED
      BY <2>1, <3>1, <3>2 DEF Emit
  <2>3. Shown[s] = <<>> /\ Taken(s) = Taken(s - 1)
    <3>1. CASE FormatStarts
      <4>1. ~format /\ fmt[s] = Percent
        BY <3>1 DEF FormatStarts
      <4>2. QED
        BY <1>1, <1>2, <4>1, Scanned DEF Shown
    <3>2. CASE LongPrefix \/ SkipUnknown
      <4>1. format /\ fmt[s] \notin Conversion
        BY <3>2, Letters DEF LongPrefix, SkipUnknown
      <4>2. QED
        BY <1>1, <1>2, <4>1, Scanned DEF Shown
    <3>3. QED
      BY <1>5, <3>1, <3>2
  <2>4. <<>> \in Seq(Nat)
    BY EmptySeq
  <2>5. Matches(<<>>, Shown[s])
    BY <2>3 DEF Matches
  <2>6. QED
    BY <1>1, <2>1, <2>2, <2>3, <2>4, <2>5
<1>6. QED
  BY <1>3, <1>4, <1>5 DEF Advance

LEMMA MeasureKept ==
    ASSUME CallInv, LocalInv, MeasureInv, Advance
    PROVE  MeasureInv'
<1>1. fmt' = fmt /\ UNCHANGED call
  BY AdvanceScans
<1>2. Aligned' = Aligned
  BY <1>1 DEF Aligned
<1> SUFFICES ASSUME Aligned
             PROVE  MeasureInv'
  BY <1>2 DEF MeasureInv
<1>3. Scanning /\ UNCHANGED <<pass, res>> /\ s' = s + 1
  BY AdvanceScans
<1> Owned
  BY <1>3, AlignedOwned
<1>4. PICK text \in Seq(Nat) : Emit(text) /\ Len(text) = Len(Shown[s])
  BY AdvanceEmits
<1>5. s \in 1 .. Len(fmt) /\ Len(fmt) \in Nat /\ s' - 1 = s /\ Taken(s - 1) \in Nat
  BY <1>3, Scanned
<1>6. Len(Printed[s]) = Len(Printed[s - 1]) + Len(Shown[s])
  BY <1>5, PrintedAt
<1>7. Printed' = Printed
  BY <1>1 DEF Printed, Shown, Taken, call
<1>8. Len(Printed[s - 1])' = Len(Printed[s]) /\ Len(Printed[Len(fmt)])' = Len(Printed[Len(fmt)])
      /\ Taken(s - 1)' = Taken(s) /\ Conversions(fmt)' = Conversions(fmt)
  BY <1>1, <1>5, <1>7 DEF Taken
<1>9. pass \in {"count", "write"}
  BY <1>3 DEF Scanning
<1>10. pos = Len(Printed[s - 1]) => pos' = Len(Printed[s])
  BY <1>4, <1>6 DEF Emit
<1>11. CASE pass = "count"
  <2>1. ASSUME \A a \in 1 .. Taken(s) : Conversions(fmt)[a] # c_
        PROVE  arg' = 1 + Taken(s)
    <3>1. \/ Taken(s) = Taken(s - 1) /\ arg' = arg
          \/ Taken(s) = Taken(s - 1) + 1 /\ arg' = arg + 1
      <4>1. Taken(s) = Taken(s - 1) + 1 => Taken(s) \in 1 .. Taken(s)
        BY <1>5
      <4>2. \/ Taken(s) = Taken(s - 1) /\ arg' = arg
            \/ Taken(s) = Taken(s - 1) + 1 /\ arg' = arg + 1
            \/ Taken(s) = Taken(s - 1) + 1 /\ Conversions(fmt)[Taken(s)] = c_
        BY AdvanceEmits
      <4>3. Taken(s) = Taken(s - 1) + 1 => Conversions(fmt)[Taken(s)] # c_
        BY <2>1, <4>1
      <4>4. QED
        BY <4>2, <4>3
    <3>2. \A a \in 1 .. Taken(s - 1) : a \in 1 .. Taken(s)
      BY <1>5, <3>1
    <3>3. arg = 1 + Taken(s - 1)
      BY <1>11, <2>1, <3>2 DEF MeasureInv
    <3>4. QED
      BY <1>5, <3>1, <3>3
  <2>2. pos' = Len(Printed[s])
    BY <1>10, <1>11 DEF MeasureInv
  <2>3. QED
    BY <1>3, <1>8, <1>11, <2>1, <2>2 DEF MeasureInv
<1>12. CASE pass = "write"
  <2>1. pos' = Len(Printed[s]) /\ res' = Len(Printed[Len(fmt)])
    BY <1>3, <1>10, <1>12 DEF MeasureInv
  <2>2. arg' = 1 + Taken(s)
    BY <1>5, <1>12, AdvanceEmits DEF MeasureInv
  <2>3. QED
    BY <1>3, <1>8, <1>12, <2>1, <2>2 DEF MeasureInv
<1>13. QED
  BY <1>9, <1>11, <1>12

LEMMA FirstPrinted ==
    ASSUME CallInv
    PROVE  Len(Printed[0]) = 0 /\ Taken(0) = 0
<1>1. Len(fmt) \in Nat
  BY FormatType DEF CallInv
<1>2. Printed[0] = <<>>
  BY ShownType, JoinedType DEF Printed
<1>3. Found(fmt)[0] = [format |-> FALSE, list |-> <<>>]
  BY <1>1, FoundType
<1>4. QED
  BY <1>2, <1>3 DEF Taken

(* With the %c last, both passes count the same characters.                  *)
THEOREM MeasureInvariant ==
    Spec => []MeasureInv
<1>1. CallInv /\ LocalInv /\ MeasureInv /\ [Next]_vars => MeasureInv'
  <2> SUFFICES ASSUME CallInv, LocalInv, MeasureInv, [Next]_vars
               PROVE  MeasureInv'
    OBVIOUS
  <2>1. CASE Advance
    BY <2>1, MeasureKept
  <2>2. CASE StringFault
    BY <2>2 DEF StringFault, MeasureInv
  <2>3. CASE Measured
    <3>1. /\ pass = "count" /\ s > Len(fmt) /\ res' = pos /\ UNCHANGED call
          /\ pass' \in {"overflow", "write"} /\ s' = 1 /\ pos' = 0 /\ arg' = 1
      BY <2>3 DEF Measured
    <3>2. fmt' = fmt
      BY <3>1 DEF call, fmt
    <3>3. Printed' = Printed /\ Aligned' = Aligned
      BY <3>1, <3>2 DEF Printed, Shown, Taken, call, Aligned
    <3>4. Len(fmt) \in Nat
      BY FormatType DEF CallInv
    <3>5. s - 1 = Len(fmt) /\ s' - 1 = 0
      BY <3>1, <3>4 DEF LocalInv
    <3>6. Taken(s - 1)' = 0 /\ Len(Printed[s - 1])' = 0
      BY <3>2, <3>3, <3>5, FirstPrinted DEF Taken
    <3>7. Aligned => pos = Len(Printed[Len(fmt)])
      BY <3>1, <3>5 DEF MeasureInv
    <3>8. QED
      BY <3>1, <3>2, <3>3, <3>6, <3>7 DEF MeasureInv
  <2>4. CASE Terminated
    <3>1. pass = "write" /\ s > Len(fmt) /\ pass' = "puts" /\ UNCHANGED <<call, pos, res>>
      BY <2>4 DEF Terminated
    <3>2. fmt' = fmt
      BY <3>1 DEF call, fmt
    <3>3. Printed' = Printed /\ Aligned' = Aligned
      BY <3>1, <3>2 DEF Printed, Shown, Taken, call, Aligned
    <3>4. Len(fmt) \in Nat
      BY FormatType DEF CallInv
    <3>5. s - 1 = Len(fmt)
      BY <3>1, <3>4 DEF LocalInv
    <3>6. QED
      BY <3>1, <3>2, <3>3, <3>5 DEF MeasureInv
  <2>5. CASE UNCHANGED vars
    <3>1. UNCHANGED <<call, pass, s, pos, arg, res>>
      BY <2>5 DEF vars
    <3>2. fmt' = fmt
      BY <3>1 DEF call, fmt
    <3>3. QED
      BY <3>1, <3>2 DEF MeasureInv, Printed, Shown, Taken, call, Aligned
  <2>6. QED
    BY <2>1, <2>2, <2>3, <2>4, <2>5 DEF Next, Advance
<1>2. Init => MeasureInv
  <2> SUFFICES ASSUME Init
               PROVE  MeasureInv
    OBVIOUS
  <2>1. s - 1 = 0 /\ pos = 0 /\ arg = 1 /\ pass = "count"
    BY DEF Init
  <2>2. Len(Printed[0]) = 0 /\ Taken(0) = 0
    BY CallStarts, FirstPrinted
  <2>3. QED
    BY <2>1, <2>2 DEF MeasureInv
<1>3. QED
  BY <1>1, <1>2, LocalsInvariant, PTL DEF Spec

(* The length the second pass writes is the one the first pass counted, for  *)
(* unknown conversions and the least number too.                             *)
THEOREM PassesMeasureAlike ==
    Spec => []PassesAgree
<1>1. MeasureInv => PassesAgree
  BY DEF MeasureInv, PassesAgree
<1>2. QED
  BY <1>1, MeasureInvariant, PTL

-----------------------------------------------------------------------------
(* What is in the buffer. *)

(* The second pass follows Printed as long as it is where uart_puts will see *)
(* it: every conversion up to there takes its own argument.                  *)
PrintInv ==
    LET all == Printed[Len(fmt)]
        shown == IF Len(all) <= res THEN Len(all) ELSE res
    IN /\ pass = "write" =>
              /\ pos <= res => pos = Len(Printed[s - 1]) /\ arg = 1 + Taken(s - 1)
              /\ pos > res => Len(all) > res
              /\ \A b \in 0 .. pos - 1 : b <= res => out_buf[b] \in all[b + 1]
       /\ pass = "puts" =>
              /\ \A b \in 0 .. shown - 1 : out_buf[b] \in all[b + 1]
              /\ out_buf[shown] = NUL

LEMMA AdvanceWrites ==
    ASSUME CallInv, LocalInv, Advance
    PROVE  \E text \in Seq(Nat) : Emit(text)
<1>1. CASE Literal
  <2>1. Scanning /\ Emit(<<fmt[s]>>)
    BY <1>1 DEF Literal
  <2>2. <<fmt[s]>> \in Seq(Nat)
    BY <2>1, Scanned, TextTypes
  <2>3. QED
    BY <2>1, <2>2
<1>2. CASE FormatStarts \/ LongPrefix \/ SkipUnknown
  <2>1. UNCHANGED <<pos, out_buf>>
    BY <1>2 DEF FormatStarts, LongPrefix, SkipUnknown
  <2>2. Emit(<<>>)
    <3>1. pos + Len(<<>>) = pos /\ pos .. pos + Len(<<>>) - 1 = {}
      BY DEF LocalInv
    <3>2. out_buf = [b \in Bytes |-> out_buf[b]]
      BY DEF LocalInv
    <3>3. QED
      BY <2>1, <3>1, <3>2 DEF Emit
  <2>3. QED
    BY <2>2, EmptySeq
<1>3. CASE ConvertHex \/ ConvertDecimal \/ ConvertString \/ ConvertChar
  BY <1>3, ConversionWrites
<1>4. QED
  BY <1>1, <1>2, <1>3 DEF Advance

(* A character adds its text behind what is in out_buf already.              *)
LEMMA PrintKept ==
    ASSUME CallInv, LocalInv, BufferInv, PrintInv, Advance
    PROVE  PrintInv'
<1>1. Scanning /\ UNCHANGED <<call, fmt, pass, res>> /\ s' = s + 1
  BY AdvanceScans
<1>2. pass = "count" => PrintInv'
  BY <1>1 DEF PrintInv
<1> SUFFICES ASSUME pass = "write"
             PROVE  PrintInv'
  BY <1>1, <1>2 DEF Scanning
<1>3. s \in 1 .. Len(fmt) /\ Len(fmt) \in Nat /\ s' - 1 = s /\ Taken(s - 1) \in Nat
  BY <1>1, Scanned
<1>4. Printed' = Printed
  BY <1>1 DEF Printed, Shown, Taken, call
<1>5. Printed[s - 1]' = Printed[s] /\ Taken(s - 1)' = Taken(s) /\ Printed[Len(fmt)]' = Printed[Len(fmt)]
  BY <1>1, <1>3, <1>4 DEF Taken
<1> DEFINE all == Printed[Len(fmt)]
           start == Len(Printed[s - 1])
           meant == Shown[s]
           end == Len(Printed[s])
<1>6. /\ start \in Nat /\ Len(meant) \in Nat /\ end = start + Len(meant)
      /\ end <= Len(all) /\ Len(all) \in Nat
      /\ \A j \in 1 .. Len(meant) : all[start + j] = meant[j]
  BY <1>3, PrintedAt
<1>7. /\ pos <= res => pos = start /\ arg = 1 + Taken(s - 1)
      /\ pos > res => Len(all) > res
      /\ \A b \in 0 .. pos - 1 : b <= res => out_buf[b] \in all[b + 1]
  BY DEF PrintInv
<1>8. pos \in Nat /\ res \in Nat /\ res + 1 < SIZE
  BY DEF LocalInv, BufferInv
<1> SUFFICES /\ pos' <= res => pos' = end /\ arg' = 1 + Taken(s)
             /\ pos' > res => Len(all) > res
             /\ \A b \in 0 .. pos' - 1 : b <= res => out_buf'[b] \in all[b + 1]
  BY <1>1, <1>5 DEF PrintInv
<1>9. \A b \in Nat : b <= res => b \in Bytes
  BY <1>8, VsnprintfAssumption DEF Bytes
<1> HIDE DEF all, start, meant, end
<1>10. CASE pos > res
  <2>1. PICK text \in Seq(Nat) : Emit(text)
    BY AdvanceWrites
  <2>2. Len(text) \in Nat /\ pos' = pos + Len(text)
    BY <2>1, LenProperties DEF Emit
  <2>3. pos' > res
    BY <1>8, <1>10, <2>2
  <2>4. ASSUME NEW b \in 0 .. pos' - 1, b <= res
        PROVE  out_buf'[b] \in all[b + 1]
    <3>1. b \in Bytes /\ b \in 0 .. pos - 1 /\ b \notin pos .. pos + Len(text) - 1
      BY <1>8, <1>9, <1>10, <2>2, <2>4
    <3>2. out_buf'[b] = out_buf[b]
      BY <2>1, <3>1 DEF Emit
    <3>3. QED
      BY <1>7, <2>4, <3>1, <3>2
  <2>5. QED
    BY <1>7, <1>8, <1>10, <2>2, <2>3, <2>4
<1>11. CASE pos <= res
  <2>1. pos = start /\ arg = 1 + Taken(s - 1)
    BY <1>7, <1>11
  <2>2. Owned
    BY <1>3, <1>11, <2>1 DEF Owned
  <2>3. PICK text \in Seq(Nat) : Emit(text) /\ Matches(text, meant)
    BY <2>2, AdvanceEmits DEF meant
  <2>4. arg' = 1 + Taken(s)
    <3>1. \/ Taken(s) = Taken(s - 1) /\ arg' = arg
          \/ Taken(s) = Taken(s - 1) + 1 /\ arg' = arg + 1
      BY <2>2, AdvanceEmits
    <3>2. QED
      BY <1>3, <2>1, <3>1
  <2>5. pos' = pos + Len(text) /\ Len(text) = Len(meant) /\ pos' = end
    BY <1>6, <2>1, <2>3 DEF Emit, Matches
  <2>6. ASSUME NEW b \in 0 .. pos' - 1, b <= res
        PROVE  out_buf'[b] \in all[b + 1]
    <3>1. b \in Bytes /\ b \in Nat /\ b <= pos + Len(text) - 1
      BY <1>6, <1>8, <1>9, <2>5, <2>6
    <3>2. out_buf'[b] = IF b \in pos .. pos + Len(text) - 1 THEN text[b - pos + 1] ELSE out_buf[b]
      BY <2>3, <2>6, <3>1 DEF Emit
    <3>3. CASE b < pos
      <4>1. b \in 0 .. pos - 1 /\ b \notin pos .. pos + Len(text) - 1
        BY <1>8, <3>1, <3>3
      <4>2. QED
        BY <1>7, <2>6, <3>2, <4>1
    <3>4. CASE ~(b < pos)
      <4> DEFINE j == b - pos + 1
      <4>1. b \in pos .. pos + Len(text) - 1 /\ j \in 1 .. Len(text) /\ start + j = b + 1
        BY <1>6, <1>8, <2>1, <2>5, <3>1, <3>4
      <4>2. out_buf'[b] = text[j]
        BY <3>2, <4>1
      <4> HIDE DEF j
      <4>3. text[j] \in meant[j]
        BY <2>3, <4>1 DEF Matches
      <4>4. all[b + 1] = meant[j]
        BY <1>6, <2>5, <4>1
      <4>5. QED
        BY <4>2, <4>3, <4>4
    <3>5. QED
      BY <3>3, <3>4
  <2>7. pos' > res => Len(all) > res
    BY <1>6, <1>8, <2>5
  <2>8. QED
    BY <2>4, <2>5, <2>6, <2>7
<1>12. QED
  BY <1>8, <1>10, <1>11

(* What is in out_buf is what the characters of the format say.              *)
THEOREM PrintInvariant ==
    Spec => []PrintInv
<1>1. CallInv /\ LocalInv /\ BufferInv /\ PrintInv /\ [Next]_vars => PrintInv'
  <2> SUFFICES ASSUME CallInv, LocalInv, BufferInv, PrintInv, [Next]_vars
               PROVE  PrintInv'
    OBVIOUS
  <2>1. CASE Advance
    BY <2>1, PrintKept
  <2>2. CASE StringFault
    BY <2>2 DEF StringFault, PrintInv
  <2>3. CASE Measured
    <3>1. /\ pass = "count" /\ s > Len(fmt) /\ UNCHANGED call /\ res' = pos
          /\ pass' \in {"overflow", "write"} /\ s' = 1 /\ pos' = 0 /\ arg' = 1
      BY <2>3 DEF Measured
    <3>2. fmt' = fmt
      BY <3>1 DEF call, fmt
    <3>3. Printed' = Printed
      BY <3>1, <3>2 DEF Printed, Shown, Taken, call
    <3>4. Len(fmt) \in Nat /\ s' - 1 = 0 /\ pos \in Nat
      BY <3>1, FormatType DEF CallInv, LocalInv
    <3>5. Taken(s - 1)' = 0 /\ Len(Printed[s - 1])' = 0
      BY <3>2, <3>3, <3>4, FirstPrinted DEF Taken
    <3>6. /\ pos' = Len(Printed[s - 1])' /\ arg' = 1 + Taken(s - 1)'
          /\ ~(pos' > res') /\ 0 .. pos' - 1 = {}
      BY <3>1, <3>4, <3>5
    <3>7. QED
      BY <3>1, <3>6 DEF PrintInv
  <2>4. CASE Terminated
    <3> DEFINE all == Printed[Len(fmt)]
               shown == IF Len(all) <= res THEN Len(all) ELSE res
               end == IF pos <= res THEN pos ELSE res
    <3>1. /\ pass = "write" /\ s > Len(fmt) /\ pass' = "puts" /\ UNCHANGED <<call, pos, res>>
          /\ out_buf' = [out_buf EXCEPT ![end] = NUL]
      BY <2>4 DEF Terminated
    <3>2. fmt' = fmt
      BY <3>1 DEF call, fmt
    <3>3. Printed' = Printed
      BY <3>1, <3>2 DEF Printed, Shown, Taken, call
    <3> SUFFICES /\ \A b \in 0 .. shown - 1 : out_buf'[b] \in all[b + 1]
                 /\ out_buf'[shown] = NUL
      BY <3>1, <3>2, <3>3 DEF PrintInv
    <3>4. s - 1 = Len(fmt)
      <4>1. Len(fmt) \in Nat
        BY FormatType DEF CallInv
      <4>2. QED
        BY <3>1, <4>1 DEF LocalInv
    <3>5. /\ pos <= res => pos = Len(all)
          /\ pos > res => Len(all) > res
          /\ \A b \in 0 .. pos - 1 : b <= res => out_buf[b] \in all[b + 1]
      BY <3>1, <3>4 DEF PrintInv
    <3>6. pos \in Nat /\ res \in Nat /\ res + 1 < SIZE /\ out_buf = [b \in Bytes |-> out_buf[b]]
      BY <3>1 DEF BufferInv
    <3>7. Len(all) \in Int
      <4>1. Len(fmt) \in 0 .. Len(Shown)
        BY ShownType
      <4>2. all \in Seq(SUBSET Int)
        BY <4>1, ShownType, JoinedType DEF Printed
      <4>3. QED
        BY <4>2, LenProperties
    <3>8. end = shown /\ end \in Nat /\ end <= res /\ end <= pos
      <4> DEFINE length == Len(all)
      <4> HIDE DEF length
      <4>1. length \in Int /\ (pos <= res => pos = length) /\ (pos > res => length > res)
        BY <3>5, <3>7 DEF length
      <4>2. end = IF length <= res THEN length ELSE res
        BY <3>6, <4>1
      <4>3. QED
        BY <3>6, <4>2 DEF length
    <3> HIDE DEF all, shown, end
    <3>9. end \in Bytes /\ \A b \in 0 .. end - 1 : b \in Bytes /\ b <= res /\ b \in 0 .. pos - 1 /\ b # end
      BY <3>6, <3>8, VsnprintfAssumption DEF Bytes
    <3>10. out_buf'[end] = NUL /\ \A b \in 0 .. end - 1 : out_buf'[b] = out_buf[b]
      BY <3>1, <3>6, <3>9
    <3>11. \A b \in 0 .. end - 1 : out_buf[b] \in all[b + 1]
      BY <3>5, <3>9
    <3>12. QED
      BY <3>8, <3>10, <3>11
  <2>5. CASE UNCHANGED vars
    <3>1. UNCHANGED <<call, pass, s, pos, arg, res, out_buf>>
      BY <2>5 DEF vars
    <3>2. fmt' = fmt
      BY <3>1 DEF call, fmt
    <3>3. QED
      BY <3>1, <3>2 DEF PrintInv, Printed, Shown, Taken, call
  <2>6. QED
    BY <2>1, <2>2, <2>3, <2>4, <2>5 DEF Next, Advance
<1>2. Init => PrintInv
  BY DEF Init, PrintInv
<1>3. QED
  BY <1>1, <1>2, LocalsInvariant, BufferInvariant, PTL DEF Spec

-----------------------------------------------------------------------------
(* The format as its items. *)

(* Where item e of the format ends.                                          *)
End(e) == Len(Joined(Chars)[e])

(* The characters of an item are those of the format from where it starts.   *)
LEMMA ItemChars ==
    ASSUME CallInv, NEW e \in 1 .. Len(items)
    PROVE  /\ items[e] \in Items /\ items[e].chars \in Seq(1 .. 255) /\ Len(items[e].chars) \in Nat
           /\ End(e - 1) \in Nat /\ End(e) = End(e - 1) + Len(items[e].chars) /\ End(e) <= Len(fmt)
           /\ \A j \in 1 .. Len(items[e].chars) : fmt[End(e - 1) + j] = items[e].chars[j]
<1>1. /\ Chars \in Seq(Seq(1 .. 255)) /\ Len(Chars) = Len(items) /\ fmt = Joined(Chars)[Len(items)]
  BY FormatType DEF CallInv
<1>2. items[e] \in Items
  BY ElementOfSeq DEF CallInv
<1>3. items[e].chars \in Seq(1 .. 255)
  BY <1>2, VsnprintfAssumption
<1>4. Chars[e] = items[e].chars
  <2>1. e \in DOMAIN items
    BY LenProperties DEF CallInv
  <2>2. QED
    BY <2>1 DEF Chars
<1>5. /\ Len(Joined(Chars)[e - 1]) \in Nat
      /\ Len(Joined(Chars)[e]) = Len(Joined(Chars)[e - 1]) + Len(Chars[e])
      /\ Len(Joined(Chars)[e]) <= Len(Joined(Chars)[Len(Chars)])
      /\ \A j \in 1 .. Len(Chars[e]) :
             Joined(Chars)[Len(Chars)][Len(Joined(Chars)[e - 1]) + j] = Chars[e][j]
  <2>1. e \in 1 .. Len(Chars)
    BY <1>1
  <2>2. QED
    BY <1>1, <2>1, JoinedAt, ZenonT(30)
<1>6. QED
  BY <1>1, <1>2, <1>3, <1>4, <1>5, LenProperties DEF End

(* Text of the format is written as it is.                                   *)
LEMMA TextItem ==
    ASSUME CallInv, NEW e \in 1 .. Len(items), items[e].kind = "text", ~Found(fmt)[End(e - 1)].format
    PROVE  /\ ~Found(fmt)[End(e)].format
           /\ Taken(End(e)) = Taken(End(e - 1))
           /\ Printed[End(e)] = Printed[End(e - 1)] \o Exactly(items[e].chars)
<1> DEFINE chars == items[e].chars
           meant == Exactly(chars)
           start == End(e - 1)
           Done(j) == /\ ~Found(fmt)[start + j].format
                      /\ Taken(start + j) = Taken(start)
                      /\ Printed[start + j] = Printed[start] \o SubSeq(meant, 1, j)
           Right == {j \in Nat : j <= Len(chars) => Done(j)}
<1>1. /\ chars \in Seq(1 .. 255) /\ Len(chars) \in Nat
      /\ start \in Nat /\ End(e) = start + Len(chars) /\ End(e) <= Len(fmt)
      /\ \A j \in 1 .. Len(chars) : fmt[start + j] = chars[j]
  BY ItemChars
<1>2. \A j \in 1 .. Len(chars) : chars[j] # Percent
  <2>1. Written(items[e])
    BY ItemChars, VsnprintfAssumption
  <2>2. QED
    BY <2>1 DEF Written, Letter
<1>3. Len(fmt) \in Nat
  BY FormatType DEF CallInv
<1>4. meant \in Seq(SUBSET Int) /\ Len(meant) = Len(chars) /\ \A j \in 1 .. Len(chars) : meant[j] = {chars[j]}
  <2>1. 1 .. 255 \subseteq Nat
    OBVIOUS
  <2> HIDE DEF chars
  <2>2. chars \in Seq(Nat)
    BY <1>1, <2>1, SeqMonotonic
  <2>3. QED
    BY <2>2, ExactlyType
<1>5. Printed[start] \in Seq(SUBSET Int)
  <2>1. start \in 0 .. Len(fmt)
    BY <1>1, <1>3
  <2>2. QED
    BY <2>1, ShownType, JoinedType DEF Printed
<1>6. ~Found(fmt)[start].format
  OBVIOUS
<1> HIDE DEF chars, start, meant
<1>7. 0 \in Right
  <2>1. SubSeq(meant, 1, 0) = <<>> /\ start + 0 = start
    BY <1>1
  <2>2. Printed[start] \o <<>> = Printed[start]
    BY <1>5, ConcatEmptySeq
  <2>3. QED
    BY <1>6, <2>1, <2>2
<1>8. ASSUME NEW j \in Nat, j \in Right
      PROVE  j + 1 \in Right
  <2> HIDE DEF Done
  <2> SUFFICES ASSUME j + 1 <= Len(chars)
               PROVE  Done(j + 1)
    OBVIOUS
  <2> DEFINE n == start + (j + 1)
  <2>1. n \in 1 .. Len(fmt) /\ n - 1 = start + j /\ j + 1 \in 1 .. Len(chars)
    BY <1>1, <1>3
  <2>2. Done(j)
    BY <1>1, <1>8
  <2> USE DEF Done
  <2>3. fmt[n] = chars[j + 1] /\ fmt[n] # Percent
    BY <1>1, <1>2, <2>1
  <2>4. Found(fmt)[n] = FoundNext(Found(fmt)[n - 1], fmt[n])
    BY <1>3, <2>1, FoundType
  <2>5. ~Found(fmt)[n].format /\ Taken(n) = Taken(start)
    <3>1. ~Found(fmt)[n - 1].format /\ Taken(n - 1) = Taken(start)
      BY <2>1, <2>2
    <3> HIDE DEF n, Done
    <3>2. ~FoundNext(Found(fmt)[n - 1], fmt[n]).format
          /\ FoundNext(Found(fmt)[n - 1], fmt[n]).list = Found(fmt)[n - 1].list
      BY <2>3, <3>1, FoundNextFacts
    <3>3. QED
      BY <2>4, <3>1, <3>2 DEF Taken
  <2>6. Shown[n] = <<meant[j + 1]>>
    <3>1. Shown[n] = <<{fmt[n]}>>
      BY <2>1, <2>2, <2>3 DEF Shown
    <3>2. meant[j + 1] = {fmt[n]}
      BY <1>4, <2>1, <2>3
    <3>3. QED
      BY <3>1, <3>2
  <2>7. Printed[n] = Printed[n - 1] \o Shown[n]
    BY <2>1, PrintedAt
  <2>8. SubSeq(meant, 1, j + 1) = SubSeq(meant, 1, j) \o <<meant[j + 1]>>
    <3>1. 1 \in 1 .. Len(meant) /\ j + 1 \in 1 .. Len(meant) /\ (j + 1) - 1 = j
      BY <1>1, <1>4, <2>1
    <3>2. SubSeq(meant, 1, j + 1) = SubSeq(meant, 1, (j + 1) - 1) \o <<meant[j + 1]>>
      BY <1>4, <3>1, SubSeqRecursiveSecond
    <3>3. QED
      BY <3>1, <3>2
  <2>9. SubSeq(meant, 1, j) \in Seq(SUBSET Int) /\ <<meant[j + 1]>> \in Seq(SUBSET Int)
    <3>1. \A i \in 1 .. j : i \in 1 .. Len(meant)
      BY <1>1, <1>4
    <3>2. \A i \in 1 .. Len(meant) : meant[i] \in SUBSET Int
      BY <1>4, ElementOfSeq
    <3>3. \A i \in 1 .. j : meant[i] \in SUBSET Int
      BY <3>1, <3>2
    <3>4. SubSeq(meant, 1, j) \in Seq(SUBSET Int)
      BY <3>3, SubSeqProperties
    <3>5. meant[j + 1] \in SUBSET Int
      BY <1>4, <2>1, <3>2
    <3>6. QED
      BY <3>4, <3>5
  <2>10. (Printed[start] \o SubSeq(meant, 1, j)) \o <<meant[j + 1]>>
             = Printed[start] \o (SubSeq(meant, 1, j) \o <<meant[j + 1]>>)
    <3> DEFINE a == Printed[start]
               b == SubSeq(meant, 1, j)
               c == <<meant[j + 1]>>
    <3>1. a \in Seq(SUBSET Int) /\ b \in Seq(SUBSET Int) /\ c \in Seq(SUBSET Int)
      BY <1>5, <2>9
    <3> HIDE DEF a, b, c
    <3>2. (a \o b) \o c = a \o (b \o c)
      BY <3>1, ConcatAssociative, SMTT(30)
    <3>3. QED
      BY <3>2 DEF a, b, c
  <2>11. Printed[n] = Printed[start] \o SubSeq(meant, 1, j + 1)
    BY <2>1, <2>2, <2>6, <2>7, <2>8, <2>10
  <2>12. QED
    BY <2>5, <2>11
<1>9. Nat \subseteq Right
  <2> HIDE DEF Right
  <2>1. QED
    BY <1>7, <1>8, Induction
<1>10. Done(Len(chars))
  <2>1. Len(chars) \in Right
    BY <1>1, <1>9
  <2> HIDE DEF Done
  <2>2. QED
    BY <1>1, <2>1
<1>11. SubSeq(meant, 1, Len(chars)) = meant
  BY <1>4, SubSeqFull
<1>12. QED
  BY <1>1, <1>10, <1>11 DEF start, meant, chars

(* Nothing is written before the letter of a conversion; there, its text.    *)
LEMMA ConversionItem ==
    ASSUME CallInv, NEW e \in 1 .. Len(items), items[e].kind \in DOMAIN Letter, ~Found(fmt)[End(e - 1)].format
    PROVE  /\ ~Found(fmt)[End(e)].format
           /\ Taken(End(e - 1)) \in Nat
           /\ Taken(End(e)) = Taken(End(e - 1)) + 1
           /\ Taken(End(e)) \in 1 .. Len(Conversions(fmt))
           /\ Conversions(fmt)[Taken(End(e))] = Letter[items[e].kind]
           /\ Letter[items[e].kind] \in Conversion
           /\ Printed[End(e)] = Printed[End(e - 1)] \o Meant(Letter[items[e].kind], args[Taken(End(e))])
<1> DEFINE chars == items[e].chars
           letter == Letter[items[e].kind]
           start == End(e - 1)
           Done(j) == /\ Found(fmt)[start + (j + 1)].format
                      /\ Taken(start + (j + 1)) = Taken(start)
                      /\ Printed[start + (j + 1)] = Printed[start]
           Right == {j \in Nat : j + 1 <= Len(chars) - 1 => Done(j)}
<1>1. /\ chars \in Seq(1 .. 255) /\ Len(chars) \in Nat
      /\ start \in Nat /\ End(e) = start + Len(chars) /\ End(e) <= Len(fmt)
      /\ \A j \in 1 .. Len(chars) : fmt[start + j] = chars[j]
  BY ItemChars
<1>2. letter \in Conversion
  BY Letters DEF Letter
<1>3. /\ Len(chars) > 1 /\ chars[1] = Percent /\ chars[Len(chars)] = letter
      /\ \A j \in 2 .. Len(chars) - 1 : chars[j] = l_
  <2>1. Written(items[e])
    BY ItemChars, VsnprintfAssumption
  <2>2. items[e].kind # "bad" /\ items[e].kind # "text"
    BY DEF Letter
  <2>3. QED
    BY <2>1, <2>2 DEF Written
<1>4. Len(fmt) \in Nat
  BY FormatType DEF CallInv
<1>5. start \in 0 .. Len(fmt)
  BY <1>1, <1>4
<1>6. Printed[start] \in Seq(SUBSET Int)
  BY <1>5, ShownType, JoinedType DEF Printed
<1>7. ~Found(fmt)[start].format
  OBVIOUS
<1> HIDE DEF chars, start, letter
<1>8. Printed[start] \o <<>> = Printed[start]
  BY <1>6, ConcatEmptySeq
<1>9. 0 \in Right
  <2> SUFFICES Done(0)
    OBVIOUS
  <2> DEFINE n == start + (0 + 1)
  <2>1. n \in 1 .. Len(fmt) /\ n - 1 = start /\ n = start + 1 /\ 1 \in 1 .. Len(chars)
    BY <1>1, <1>3, <1>4
  <2>2. fmt[n] = Percent
    BY <1>1, <1>3, <2>1
  <2>3. Found(fmt)[n] = FoundNext(Found(fmt)[n - 1], fmt[n])
    BY <1>4, <2>1, FoundType
  <2>4. Found(fmt)[n].format /\ Taken(n) = Taken(start)
    <3>1. ~Found(fmt)[n - 1].format /\ Taken(n - 1) = Taken(start)
      BY <1>7, <2>1
    <3> HIDE DEF n
    <3>2. FoundNext(Found(fmt)[n - 1], fmt[n]).format
          /\ FoundNext(Found(fmt)[n - 1], fmt[n]).list = Found(fmt)[n - 1].list
      BY <2>2, <3>1, FoundNextFacts
    <3>3. QED
      BY <2>3, <3>1, <3>2 DEF Taken
  <2>5. Shown[n] = <<>>
    BY <1>7, <2>1, <2>2 DEF Shown
  <2>6. Printed[n] = Printed[n - 1] \o Shown[n]
    BY <2>1, PrintedAt
  <2>7. Printed[n] = Printed[start]
    BY <1>8, <2>1, <2>5, <2>6
  <2>8. QED
    BY <2>4, <2>7
<1>10. ASSUME NEW j \in Nat, j \in Right
       PROVE  j + 1 \in Right
  <2> SUFFICES ASSUME (j + 1) + 1 <= Len(chars) - 1
               PROVE  Done(j + 1)
    OBVIOUS
  <2> DEFINE n == start + ((j + 1) + 1)
  <2>1. n \in 1 .. Len(fmt) /\ n - 1 = start + (j + 1) /\ (j + 1) + 1 \in 2 .. Len(chars) - 1
        /\ (j + 1) + 1 \in 1 .. Len(chars)
    BY <1>1, <1>3, <1>4
  <2>2. Done(j)
    BY <1>1, <1>10
  <2>3. fmt[n] = l_
    BY <1>1, <1>3, <2>1
  <2>4. Found(fmt)[n] = FoundNext(Found(fmt)[n - 1], fmt[n])
    BY <1>4, <2>1, FoundType
  <2>5. Found(fmt)[n].format /\ Taken(n) = Taken(start)
    BY <2>1, <2>2, <2>3, <2>4, Letters DEF FoundNext, Taken
  <2>6. Shown[n] = <<>>
    BY <2>1, <2>2, <2>3, Letters DEF Shown
  <2>7. Printed[n] = Printed[n - 1] \o Shown[n]
    BY <2>1, PrintedAt
  <2>8. Printed[n] = Printed[start]
    BY <1>8, <2>1, <2>2, <2>6, <2>7
  <2>9. QED
    BY <2>5, <2>8
<1>11. Nat \subseteq Right
  <2> HIDE DEF Right
  <2>1. QED
    BY <1>9, <1>10, Induction
<1> DEFINE n == start + Len(chars)
<1>12. /\ Found(fmt)[n - 1].format
       /\ Taken(n - 1) = Taken(start)
       /\ Printed[n - 1] = Printed[start]
  <2>1. Len(chars) - 2 \in Nat /\ (Len(chars) - 2) + 1 = Len(chars) - 1 /\ start + (Len(chars) - 1) = n - 1
    BY <1>1, <1>3
  <2>2. Len(chars) - 2 \in Right
    BY <1>11, <2>1
  <2>3. Done(Len(chars) - 2)
    <3> HIDE DEF Done
    <3>1. QED
      BY <2>1, <2>2
  <2>4. QED
    BY <2>1, <2>3
<1>13. n \in 1 .. Len(fmt) /\ Len(chars) \in 1 .. Len(chars)
  BY <1>1, <1>3, <1>4
<1>14. fmt[n] = letter
  BY <1>1, <1>3, <1>13
<1>15. /\ Found(fmt)[n] = FoundNext(Found(fmt)[n - 1], fmt[n])
       /\ Taken(start) \in Nat
  <2>1. Found(fmt)[start] \in FoundSoFar
    BY <1>4, <1>5, FoundType
  <2>2. Found(fmt)[start].list \in Seq(Conversion)
    BY <2>1 DEF FoundSoFar
  <2>3. QED
    BY <1>4, <1>13, <2>2, FoundType, LenProperties DEF Taken
<1>16. ~Found(fmt)[n].format
  BY <1>2, <1>12, <1>14, <1>15 DEF FoundNext
<1>17. /\ Taken(n) = Taken(start) + 1
       /\ Taken(start) + 1 \in 1 .. Len(Conversions(fmt))
       /\ Conversions(fmt)[Taken(start) + 1] = letter
  <2>1. fmt[n] \in Conversion
    BY <1>2, <1>14
  <2> HIDE DEF n
  <2>2. /\ Taken(n) = Taken(n - 1) + 1
        /\ Taken(n - 1) + 1 \in 1 .. Len(Conversions(fmt))
        /\ Conversions(fmt)[Taken(n - 1) + 1] = fmt[n]
    BY <1>4, <1>12, <1>13, <2>1, ConversionAt DEF Taken
  <2>3. QED
    BY <1>12, <1>14, <2>2
<1>18. Shown[n] = Meant(letter, args[Taken(start) + 1])
  BY <1>2, <1>12, <1>13, <1>14 DEF Shown
<1>19. Printed[n] = Printed[start] \o Meant(letter, args[Taken(start) + 1])
  BY <1>12, <1>13, <1>18, PrintedAt
<1>20. QED
  BY <1>1, <1>2, <1>15, <1>16, <1>17, <1>19 DEF start, letter, chars

(* The arguments the first e items take.                                     *)
Taking(e) == {i \in 1 .. e : items[i].kind \notin {"text", "bad"}}

LEMMA TakingCounted ==
    ASSUME NEW e \in Nat \ {0}
    PROVE  /\ Cardinality(Taking(e)) \in Nat /\ Cardinality(Taking(e - 1)) \in Nat
           /\ Cardinality(Taking(e)) = Cardinality(Taking(e - 1)) + (IF items[e].kind \in {"text", "bad"} THEN 0 ELSE 1)
<1>1. IsFiniteSet(Taking(e - 1)) /\ e \notin Taking(e - 1)
  <2>1. IsFiniteSet(1 .. e - 1) /\ Taking(e - 1) \in SUBSET (1 .. e - 1) /\ e \notin Taking(e - 1)
    BY FS_Interval DEF Taking
  <2>2. QED
    BY <2>1, FS_Subset
<1>2. Taking(e) = IF items[e].kind \in {"text", "bad"} THEN Taking(e - 1) ELSE Taking(e - 1) \union {e}
  <2>1. 1 .. e = (1 .. e - 1) \union {e}
    OBVIOUS
  <2>2. QED
    BY <2>1 DEF Taking
<1>3. Cardinality(Taking(e - 1)) \in Nat
  BY <1>1, FS_CardinalityType
<1>4. Cardinality(Taking(e - 1) \union {e}) = Cardinality(Taking(e - 1)) + 1
  BY <1>1, FS_AddElement
<1>5. QED
  BY <1>2, <1>3, <1>4

LEMMA NoneTaken ==
    Cardinality(Taking(0)) = 0
<1>1. Taking(0) = {}
  BY DEF Taking
<1>2. QED
  BY <1>1, FS_EmptySet

(* As many conversions are found in the first e items as are meant there.    *)
ItemScanned(e) ==
    /\ ~Found(fmt)[End(e)].format
    /\ Taken(End(e)) = Cardinality(Taking(e))

LEMMA ItemKinds ==
    ASSUME CallInv, WellFormed, NEW e \in 1 .. Len(items)
    PROVE  items[e].kind = "text" \/ items[e].kind \in DOMAIN Letter
<1>1. Written(items[e])
  BY ItemChars, VsnprintfAssumption
<1>2. items[e].kind # "bad"
  BY LenProperties DEF CallInv, WellFormed
<1>3. QED
  BY <1>1, <1>2 DEF Written

(* The argument an item is meant to take is the one its conversion takes.    *)
LEMMA ArgumentTaken ==
    ASSUME CallInv, NEW e \in 1 .. Len(items), items[e].kind \in DOMAIN Letter, ItemScanned(e - 1)
    PROVE  Argument(e) = args[Taken(End(e))] /\ Taken(End(e)) = Cardinality(Taking(e))
<1>1. e \in Nat \ {0}
  BY FormatType, LenProperties DEF CallInv
<1>2. items[e].kind \notin {"text", "bad"}
  BY DEF Letter
<1>3. /\ Cardinality(Taking(e)) = Cardinality(Taking(e - 1)) + 1
      /\ Cardinality(Taking(e - 1)) \in Nat
  BY <1>1, <1>2, TakingCounted
<1>4. Taken(End(e)) = Taken(End(e - 1)) + 1 /\ Taken(End(e - 1)) = Cardinality(Taking(e - 1))
  BY ConversionItem DEF ItemScanned
<1>5. Argument(e) = args[1 + Cardinality(Taking(e - 1))]
  BY DEF Argument, Taking
<1>6. QED
  BY <1>3, <1>4, <1>5

LEMMA ItemsScanned ==
    ASSUME CallInv, WellFormed
    PROVE  \A e \in 0 .. Len(items) : ItemScanned(e)
<1> DEFINE Right == {e \in Nat : e <= Len(items) => ItemScanned(e)}
<1>1. Len(items) \in Nat
  BY LenProperties DEF CallInv
<1>2. ItemScanned(0)
  <2>1. Joined(Chars)[0] = <<>>
    BY FormatType, JoinedType DEF CallInv
  <2>2. End(0) = 0
    BY <2>1 DEF End
  <2>3. Len(fmt) \in Nat
    BY FormatType DEF CallInv
  <2>4. Found(fmt)[0].format = FALSE /\ Len(Found(fmt)[0].list) = 0
    BY <2>3, FoundType
  <2>5. Taken(End(0)) = 0 /\ ~Found(fmt)[End(0)].format
    BY <2>2, <2>4 DEF Taken
  <2>6. QED
    BY <2>5, NoneTaken DEF ItemScanned
<1>3. 0 \in Right
  BY <1>2
<1>4. ASSUME NEW k \in Nat, k \in Right
      PROVE  k + 1 \in Right
  <2> SUFFICES ASSUME k + 1 <= Len(items)
               PROVE  ItemScanned(k + 1)
    OBVIOUS
  <2> DEFINE e == k + 1
  <2>1. e \in 1 .. Len(items) /\ e - 1 = k /\ e \in Nat \ {0}
    BY <1>1
  <2>2. ItemScanned(k)
    BY <1>1, <1>4
  <2> HIDE DEF e
  <2>3. ItemScanned(e - 1)
    BY <2>1, <2>2
  <2>4. /\ Cardinality(Taking(e)) \in Nat /\ Cardinality(Taking(e - 1)) \in Nat
        /\ Cardinality(Taking(e)) = Cardinality(Taking(e - 1)) + (IF items[e].kind \in {"text", "bad"} THEN 0 ELSE 1)
    BY <2>1, TakingCounted
  <2>5. ItemScanned(e)
    <3>1. CASE items[e].kind = "text"
      <4>1. ~Found(fmt)[End(e)].format /\ Taken(End(e)) = Taken(End(e - 1))
        BY <2>1, <2>3, <3>1, TextItem DEF ItemScanned
      <4>2. QED
        BY <2>3, <2>4, <3>1, <4>1 DEF ItemScanned
    <3>2. CASE items[e].kind \in DOMAIN Letter
      <4>1. ~Found(fmt)[End(e)].format
        BY <2>1, <2>3, <3>2, ConversionItem DEF ItemScanned
      <4>2. Taken(End(e)) = Cardinality(Taking(e))
        BY <2>1, <2>3, <3>2, ArgumentTaken
      <4>3. QED
        BY <4>1, <4>2 DEF ItemScanned
    <3>3. QED
      BY <2>1, <3>1, <3>2, ItemKinds
  <2>6. QED
    BY <2>5 DEF e
<1>5. Nat \subseteq Right
  <2> HIDE DEF Right
  <2>1. QED
    BY <1>3, <1>4, Induction
<1>6. QED
  BY <1>1, <1>5

(* A reader expects of an item with a conversion what the conversion writes. *)
LEMMA ExpectedIsWritten ==
    ASSUME CallInv, NEW e \in 1 .. Len(items), items[e].kind \in DOMAIN Letter, NEW a,
           Argument(e) = a, a \in Fitting(Letter[items[e].kind])
    PROVE  Expected(e) = Meant(Letter[items[e].kind], a)
<1> DEFINE kind == items[e].kind
           num == a.num
<1>1. CASE kind = "s"
  <2>1. Letter[kind] = s_
    BY <1>1 DEF Letter
  <2>2. QED
    BY <1>1, <2>1, Letters DEF Expected, Meant, ConversionText
<1>2. CASE kind \in {"c", "d", "p", "x"}
  <2>1. Letter[kind] \in {c_, d_, p_, x_}
    BY <1>2 DEF Letter
  <2>2. num \in Numbers /\ num \in Int
    <3>1. Letter[kind] # s_
      BY <2>1, Letters
    <3>2. QED
      BY <3>1, FittingNumber
  <2>3. CASE kind = "c"
    <3>1. Letter[kind] = c_
      BY <2>3 DEF Letter
    <3>2. QED
      BY <2>3, <3>1, Letters DEF Expected, Meant, ConversionText
  <2>4. CASE kind = "p"
    <3>1. Letter[kind] = p_ /\ HexText(num) = Hex(num)
      BY <2>2, <2>4, HexPrinted DEF Letter
    <3>2. QED
      BY <2>4, <3>1, Letters DEF Expected, Meant, ConversionText
  <2>5. CASE kind = "x"
    <3>1. Letter[kind] = x_ /\ HexText(num) = Hex(num)
      BY <2>2, <2>5, HexPrinted DEF Letter
    <3>2. QED
      BY <2>5, <3>1, Letters DEF Expected, Meant, ConversionText
  <2>6. CASE kind = "d"
    <3>1. Letter[kind] = d_
      BY <2>6 DEF Letter
    <3>2. Expected(e) = DecimalExpected(num)
      BY <2>6 DEF Expected
    <3>3. Meant(Letter[kind], a)
              = IF num = Least THEN <<{Minus}>> \o EitherSign(DecimalText(-num))
                ELSE Exactly(IF num < 0 THEN <<Minus>> \o DecimalText(-num) ELSE DecimalText(num))
      BY <3>1, Letters DEF Meant, ConversionText
    <3>4. num \in Least .. -Least - 1
      BY <2>2, VsnprintfAssumption
    <3>5. num < 0 => -num \in 0 .. -Least
      BY <2>2, <3>4, LeastType
    <3>6. num >= 0 => num \in 0 .. -Least /\ num # Least
      BY <2>2, <3>4, LeastType
    <3>7. num = Least => num < 0
      BY LeastType
    <3> HIDE DEF num
    <3>8. num < 0 => DecimalText(-num) = Decimal[-num]
      BY <3>5, DecimalPrinted
    <3>9. num >= 0 => DecimalText(num) = Decimal[num]
      BY <3>6, DecimalPrinted
    <3>10. CASE num >= 0
      <4>1. ~(num < 0) /\ num # Least
        BY <2>2, <3>6, <3>10 DEF num
      <4>2. DecimalExpected(num) = Exactly(Decimal[num])
        BY <3>10, <4>1 DEF DecimalExpected
      <4>3. QED
        BY <3>2, <3>3, <3>9, <3>10, <4>1, <4>2
    <3>11. CASE num < 0 /\ num # Least
      <4>1. ~(num >= 0)
        BY <2>2, <3>11 DEF num
      <4>2. DecimalExpected(num) = Exactly(<<Minus>> \o Decimal[-num])
        BY <3>11, <4>1 DEF DecimalExpected
      <4>3. QED
        BY <3>2, <3>3, <3>8, <3>11, <4>2
    <3>12. CASE num = Least
      <4>1. ~(num >= 0)
        BY <2>2, <3>7, <3>12 DEF num
      <4>2. DecimalExpected(num) = <<{Minus}>> \o EitherSign(Decimal[-num])
        BY <3>12, <4>1 DEF DecimalExpected
      <4>3. QED
        BY <3>2, <3>3, <3>7, <3>8, <3>12, <4>2
    <3>13. num >= 0 \/ num < 0
      BY <2>2 DEF num
    <3>14. QED
      BY <3>10, <3>11, <3>12, <3>13
  <2>7. QED
    BY <1>2, <2>3, <2>4, <2>5, <2>6
<1>3. kind \in {"c", "d", "p", "s", "x"}
  BY DEF Letter
<1>4. QED
  BY <1>1, <1>2, <1>3

Texts == [e \in DOMAIN items |-> Expected(e)]

(* An item adds what it is expected to print.                                *)
LEMMA ItemPrinted ==
    ASSUME CallInv, WellFormed, NEW e \in 1 .. Len(items)
    PROVE  /\ Expected(e) \in Seq(SUBSET Int)
           /\ Printed[End(e)] = Printed[End(e - 1)] \o Expected(e)
<1>1. ItemScanned(e - 1)
  <2>1. e - 1 \in 0 .. Len(items)
    BY LenProperties DEF CallInv
  <2>2. QED
    BY <2>1, ItemsScanned
<1>2. CASE items[e].kind = "text"
  <2>1. Expected(e) = Exactly(items[e].chars)
    BY <1>2 DEF Expected
  <2>2. items[e].chars \in Seq(1 .. 255)
    BY ItemChars
  <2>3. Exactly(items[e].chars) \in Seq(SUBSET Int)
    <3>1. 1 .. 255 \subseteq Nat
      OBVIOUS
    <3>2. items[e].chars \in Seq(Nat)
      BY <2>2, <3>1, SeqMonotonic
    <3>3. QED
      BY <3>2, ExactlyType
  <2>4. Printed[End(e)] = Printed[End(e - 1)] \o Exactly(items[e].chars)
    BY <1>1, <1>2, TextItem DEF ItemScanned
  <2>5. QED
    BY <2>1, <2>3, <2>4
<1>3. CASE items[e].kind \in DOMAIN Letter
  <2> DEFINE letter == Letter[items[e].kind]
             a == args[Taken(End(e))]
  <2>1. /\ Taken(End(e)) \in 1 .. Len(Conversions(fmt))
        /\ Conversions(fmt)[Taken(End(e))] = letter /\ letter \in Conversion
        /\ Printed[End(e)] = Printed[End(e - 1)] \o Meant(letter, a)
    BY <1>1, <1>3, ConversionItem DEF ItemScanned
  <2>2. Argument(e) = a
    BY <1>1, <1>3, ArgumentTaken
  <2>3. a \in Fitting(letter)
    BY <2>1 DEF CallInv
  <2>4. Meant(letter, a) \in Seq(SUBSET Int)
    BY <2>1, <2>3, MeantType
  <2>5. Expected(e) = Meant(letter, a)
    BY <1>3, <2>2, <2>3, ExpectedIsWritten
  <2>6. QED
    BY <2>1, <2>4, <2>5
<1>4. QED
  BY <1>2, <1>3, ItemKinds

(* The format is printed as the texts of its items, one after the other.     *)
LEMMA FormatPrinted ==
    ASSUME CallInv, WellFormed
    PROVE  Reference = Printed[Len(fmt)] /\ Reference \in Seq(SUBSET Int)
<1> DEFINE all == Len(items)
           Right == {e \in Nat : e <= all => Joined(Texts)[e] = Printed[End(e)]}
<1>1. all \in Nat /\ DOMAIN items = 1 .. all
  BY LenProperties DEF CallInv
<1>2. Texts \in Seq(Seq(SUBSET Int)) /\ Len(Texts) = all
  <2>1. Texts = [e \in 1 .. all |-> Texts[e]] /\ \A e \in 1 .. all : Texts[e] = Expected(e)
    BY <1>1 DEF Texts
  <2>2. \A e \in 1 .. all : Texts[e] \in Seq(SUBSET Int)
    BY <2>1, ItemPrinted
  <2> HIDE DEF all
  <2>3. QED
    BY <1>1, <2>1, <2>2, IndexedIsSeq
<1>3. /\ Joined(Texts)[0] = <<>>
      /\ \A e \in 1 .. all : Joined(Texts)[e] = Joined(Texts)[e - 1] \o Texts[e]
      /\ \A e \in 0 .. all : Joined(Texts)[e] \in Seq(SUBSET Int)
  BY <1>2, JoinedType
<1>4. \A e \in 1 .. all : Texts[e] = Expected(e)
  BY <1>1 DEF Texts
<1>5. 0 \in Right
  <2>1. Joined(Chars)[0] = <<>>
    BY FormatType, JoinedType DEF CallInv
  <2>2. End(0) = 0
    BY <2>1 DEF End
  <2>3. Printed[0] = <<>>
    BY ShownType, JoinedType DEF Printed
  <2>4. QED
    BY <1>3, <2>2, <2>3
<1>6. ASSUME NEW k \in Nat, k \in Right
      PROVE  k + 1 \in Right
  <2> SUFFICES ASSUME k + 1 <= all
               PROVE  Joined(Texts)[k + 1] = Printed[End(k + 1)]
    OBVIOUS
  <2>1. k + 1 \in 1 .. all /\ (k + 1) - 1 = k
    BY <1>1
  <2>2. Joined(Texts)[k] = Printed[End(k)]
    BY <1>1, <1>6
  <2>3. Joined(Texts)[k + 1] = Joined(Texts)[k] \o Expected(k + 1)
    BY <1>3, <1>4, <2>1
  <2>4. Printed[End(k + 1)] = Printed[End((k + 1) - 1)] \o Expected(k + 1)
    BY <2>1, ItemPrinted
  <2>5. QED
    BY <2>1, <2>2, <2>3, <2>4
<1>7. Nat \subseteq Right
  <2> HIDE DEF Right
  <2>1. QED
    BY <1>5, <1>6, Induction
<1>8. Joined(Texts)[all] = Printed[End(all)]
  BY <1>1, <1>7
<1>9. Reference = Joined(Texts)[all]
  <2>1. Reference = FlattenSeq(Texts)
    BY DEF Reference, Texts
  <2>2. QED
    BY <1>2, <2>1, FlattenIsJoined
<1>10. End(all) = Len(fmt)
  BY FormatType DEF End, CallInv
<1>11. Reference \in Seq(SUBSET Int)
  BY <1>1, <1>3, <1>9
<1>12. QED
  BY <1>8, <1>9, <1>10, <1>11

(* What uart_puts finds in out_buf is the text a well-formed format describes: *)
(* each conversion with its own argument, decimal numbers without leading zeros, *)
(* hex numbers with all digits of a long; cut where a conversion behind a %c was *)
(* measured with another argument, and the least number's digits may be      *)
(* mirrored at '0'.                                                          *)
THEOREM PrintsWhatItSays ==
    Spec => []PrintsReference
<1>1. CallInv /\ MeasureInv /\ PrintInv => PrintsReference
  <2> DEFINE shown == IF Len(Reference) <= res THEN Len(Reference) ELSE res
  <2> SUFFICES ASSUME CallInv, MeasureInv, PrintInv, pass = "puts", WellFormed
               PROVE  /\ Aligned => res = Len(Reference)
                      /\ \A b \in 0 .. shown - 1 : out_buf[b] \in Reference[b + 1]
                      /\ out_buf[shown] = NUL
    BY DEF PrintsReference
  <2>1. Reference = Printed[Len(fmt)]
    BY FormatPrinted
  <2>2. Aligned => res = Len(Reference)
    BY <2>1 DEF MeasureInv
  <2>3. /\ \A b \in 0 .. shown - 1 : out_buf[b] \in Reference[b + 1]
        /\ out_buf[shown] = NUL
    BY <2>1 DEF PrintInv
  <2>4. QED
    BY <2>2, <2>3
<1>2. QED
  BY <1>1, LocalsInvariant, MeasureInvariant, PrintInvariant, PTL
==============================================================================
