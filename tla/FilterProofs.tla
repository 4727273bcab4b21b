---------------------------- MODULE FilterProofs ----------------------------
(***************************************************************************)
(* Facts about sequences and their parts, by induction on the length.      *)
(***************************************************************************)
EXTENDS Filter, SequencesExt, FiniteSetTheorems, SequenceTheorems, WellFoundedInduction, TLAPS

(* Induction, for a property given as the set of the numbers that have it.  *)
LEMMA NatSetInduction ==
    ASSUME NEW T, 0 \in T, \A n \in Nat : n \in T => n + 1 \in T
    PROVE  Nat \subseteq T
<1> DEFINE less == {p \in Nat \X Nat : p[1] < p[2]}
           rest == Nat \ T
<1>1. IsWellFoundedOn(less, Nat)
  BY NatLessThanWellFounded, Zenon DEF OpToRel
<1> SUFFICES ASSUME rest # {} PROVE FALSE
  OBVIOUS
<1> HIDE DEF less
<1>2. PICK x \in rest : \A y \in rest : <<y, x>> \notin less
  BY <1>1, WFMin, Zenon
<1>3. x \in Nat /\ x # 0 /\ x - 1 \in Nat /\ x - 1 \in T
  <2>1. x \in Nat /\ x # 0 /\ x - 1 \in Nat /\ x - 1 < x
    BY SMT
  <2>2. <<x - 1, x>> \in less
    BY <2>1, SMT DEF less
  <2>3. QED
    BY <1>2, <2>1, <2>2, SMT
<1>4. (x - 1) + 1 \in T
  BY <1>3, SMT
<1>5. QED
  BY <1>3, <1>4, SMT

(* The least of some numbers.                                               *)
LeastOf(S) == CHOOSE i \in S : \A j \in S : i <= j

(* Numbers that are bounded from below have a least one.                    *)
LEMMA Least ==
    ASSUME NEW S \in SUBSET Int, S # {}, NEW low \in Int, \A i \in S : low <= i
    PROVE  LeastOf(S) \in S /\ \A j \in S : LeastOf(S) <= j
<1> DEFINE above == {n \in Nat : \A i \in S : low + n <= i}
<1>1. 0 \in above
  BY SMT
<1>2. PICK n \in Nat : n \in above /\ n + 1 \notin above
  <2>1. PICK i \in S : TRUE
    OBVIOUS
  <2>2. i - low + 1 \in Nat /\ i - low + 1 \notin above
    BY SMT
  <2> HIDE DEF above
  <2>3. ~(Nat \subseteq above)
    BY <2>2
  <2> QED
    BY <1>1, <2>3, NatSetInduction, Zenon
<1>3. PICK i \in S : ~(low + (n + 1) <= i)
  BY <1>2, SMT
<1>4. \A j \in S : i <= j
  BY <1>2, <1>3, SMT
<1> QED
  BY <1>4 DEF LeastOf

(* The same for sequences, which grow by Append.                            *)
LEMMA SeqSetInduction ==
    ASSUME NEW E, NEW T, <<>> \in T, \A s \in Seq(E), e \in E : s \in T => Append(s, e) \in T
    PROVE  Seq(E) \subseteq T
<1> DEFINE done == {n \in Nat : \A s \in Seq(E) : Len(s) = n => s \in T}
<1>1. 0 \in done
  BY EmptySeq, SMT
<1>2. ASSUME NEW n \in Nat, n \in done PROVE n + 1 \in done
  <2> SUFFICES ASSUME NEW s \in Seq(E), Len(s) = n + 1 PROVE s \in T
    OBVIOUS
  <2> DEFINE front == SubSeq(s, 1, n)
  <2>1. \A i \in 1 .. n : s[i] \in E
    BY ElementOfSeq, SMT
  <2>2. front \in Seq(E) /\ Len(front) = n /\ \A i \in 1 .. n : front[i] = s[i]
    BY <2>1, SubSeqProperties, SMT
  <2>3. s[n + 1] \in E
    BY ElementOfSeq, SMT
  <2>4. s = Append(front, s[n + 1])
    <3> HIDE DEF front
    <3>1. Append(front, s[n + 1]) \in Seq(E) /\ Len(Append(front, s[n + 1])) = Len(s)
      BY <2>2, <2>3, SMT
    <3>2. \A i \in 1 .. Len(s) : s[i] = Append(front, s[n + 1])[i]
      BY <2>2, <2>3, SMT
    <3>3. QED
      BY <3>1, <3>2, SeqEqual, Zenon
  <2>5. front \in T
    BY <1>2, <2>2, Zenon
  <2>6. QED
    BY <2>2, <2>3, <2>4, <2>5, Zenon
<1>3. Nat \subseteq done
  <2> HIDE DEF done
  <2>1. QED
    BY <1>1, <1>2, NatSetInduction, Zenon
<1>4. ASSUME NEW s \in Seq(E) PROVE s \in T
  <2>1. Len(s) \in Nat
    BY LenProperties, Zenon
  <2>2. QED
    BY <1>3, <2>1, Zenon
<1>5. QED
  BY <1>4
-----------------------------------------------------------------------------
(* One step of the recursion in Kept.                                       *)
Longer(s, S, before, i) == IF s[i] \in S THEN Append(before, s[i]) ELSE before

IsKept(F, s, S, m) ==
    F = [i \in 0 .. m |-> IF i = 0 THEN <<>> ELSE Longer(s, S, F[i-1], i)]

(* The recursion in Kept defines a function.                                *)
LEMMA KeptExists ==
    ASSUME NEW s, NEW S, NEW m \in Nat
    PROVE  \E F : IsKept(F, s, S, m)
<1> DEFINE done == {n \in Nat : \E F : IsKept(F, s, S, n)}
<1>1. 0 \in done
  <2>1. IsKept([i \in 0 .. 0 |-> <<>>], s, S, 0)
    BY SMT DEF IsKept
  <2>2. QED
    BY <2>1
<1>2. ASSUME NEW n \in Nat, n \in done PROVE n + 1 \in done
  <2>1. PICK G : IsKept(G, s, S, n)
    BY <1>2
  <2> DEFINE F == [i \in 0 .. n + 1 |-> IF i = n + 1 THEN Longer(s, S, G[n], n + 1) ELSE G[i]]
  <2>2. ASSUME NEW i \in 0 .. n + 1
        PROVE  F[i] = IF i = 0 THEN <<>> ELSE Longer(s, S, F[i-1], i)
    <3>1. CASE i = n + 1
      <4>1. F[i] = Longer(s, S, G[n], n + 1) /\ F[n] = G[n] /\ i - 1 = n /\ i # 0
        BY <3>1, SMT
      <4>2. QED
        BY <3>1, <4>1, Zenon
    <3>2. CASE i # n + 1
      <4>1. i \in 0 .. n /\ F[i] = G[i]
        BY <3>2, SMT
      <4>2. i # 0 => F[i-1] = G[i-1]
        BY <3>2, SMT
      <4>3. G[i] = IF i = 0 THEN <<>> ELSE Longer(s, S, G[i-1], i)
        BY <2>1, <4>1, Zenon DEF IsKept
      <4>4. QED
        BY <4>1, <4>2, <4>3, Zenon
    <3>3. QED
      BY <3>1, <3>2
  <2>3. IsKept(F, s, S, n + 1)
    <3>1. F = [i \in 0 .. n + 1 |-> F[i]]
      OBVIOUS
    <3> HIDE DEF F
    <3>2. QED
      BY <2>2, <3>1, Zenon DEF IsKept
  <2> HIDE DEF F
  <2>4. QED
    BY <2>3
<1>3. QED
  <2> HIDE DEF done
  <2>1. m \in done
    BY <1>1, <1>2, NatSetInduction, Zenon
  <2>2. QED
    BY <2>1 DEF done

LEMMA KeptDef ==
    ASSUME NEW s, NEW S, Len(s) \in Nat
    PROVE  /\ Kept(s, S)[0] = <<>>
           /\ \A i \in 1 .. Len(s) : Kept(s, S)[i] = Longer(s, S, Kept(s, S)[i-1], i)
<1>1. Kept(s, S) = CHOOSE F : IsKept(F, s, S, Len(s))
  BY Zenon DEF Kept, Longer, IsKept
<1>2. \E F : IsKept(F, s, S, Len(s))
  BY KeptExists, Zenon
<1>3. IsKept(Kept(s, S), s, S, Len(s))
  BY <1>1, <1>2, Zenon
<1>4. QED
  <2> DEFINE K == Kept(s, S)
  <2>1. K = [i \in 0 .. Len(s) |-> IF i = 0 THEN <<>> ELSE Longer(s, S, K[i-1], i)]
    BY <1>3, Zenon DEF IsKept
  <2> HIDE DEF K
  <2>2. K[0] = <<>> /\ \A i \in 1 .. Len(s) : K[i] = Longer(s, S, K[i-1], i)
    BY <2>1, SMT
  <2>3. QED
    BY <2>2 DEF K

(* Two sequences that begin alike keep the same there.                      *)
LEMMA KeptPrefix ==
    ASSUME NEW s, NEW t, NEW S, Len(s) \in Nat, Len(t) \in Nat, Len(s) <= Len(t),
           \A i \in 1 .. Len(s) : s[i] = t[i]
    PROVE  Kept(t, S)[Len(s)] = Keep(s, S)
<1> DEFINE done == {n \in Nat : n <= Len(s) => Kept(t, S)[n] = Kept(s, S)[n]}
<1>1. 0 \in done
  BY KeptDef, Zenon
<1>2. ASSUME NEW n \in Nat, n \in done PROVE n + 1 \in done
  <2> SUFFICES ASSUME n + 1 <= Len(s) PROVE Kept(t, S)[n + 1] = Kept(s, S)[n + 1]
    OBVIOUS
  <2>1. /\ n + 1 \in 1 .. Len(s) /\ n + 1 \in 1 .. Len(t) /\ (n + 1) - 1 = n
        /\ Kept(t, S)[n] = Kept(s, S)[n] /\ s[n + 1] = t[n + 1]
    BY <1>2, SMT
  <2>2. /\ Kept(s, S)[n + 1] = Longer(s, S, Kept(s, S)[n], n + 1)
        /\ Kept(t, S)[n + 1] = Longer(t, S, Kept(t, S)[n], n + 1)
    BY <2>1, KeptDef, Zenon
  <2>3. Longer(s, S, Kept(s, S)[n], n + 1) = Longer(t, S, Kept(t, S)[n], n + 1)
    BY <2>1 DEF Longer
  <2>4. QED
    BY <2>2, <2>3, Zenon
<1>3. Len(s) \in done
  <2> HIDE DEF done
  <2>1. QED
    BY <1>1, <1>2, NatSetInduction, Zenon
<1>4. QED
  BY <1>3, SMT DEF Keep
-----------------------------------------------------------------------------
(***************************************************************************)
(* Keep, as a recursion on the sequence.                                   *)
(***************************************************************************)
LEMMA KeepEmpty == ASSUME NEW S PROVE Keep(<<>>, S) = <<>>
<1>1. Len(<<>>) = 0
  BY EmptySeq
<1>2. QED
  BY <1>1, KeptDef DEF Keep

LEMMA KeepAppend ==
    ASSUME NEW E, NEW s \in Seq(E), NEW e \in E, NEW S
    PROVE  Keep(Append(s, e), S) = IF e \in S THEN Append(Keep(s, S), e) ELSE Keep(s, S)
<1> DEFINE t == Append(s, e)
<1>1. /\ t \in Seq(E) /\ Len(t) = Len(s) + 1 /\ Len(s) \in Nat
      /\ \A i \in 1 .. Len(s) : s[i] = t[i]
      /\ t[Len(t)] = e /\ Len(t) \in 1 .. Len(t) /\ Len(t) - 1 = Len(s) /\ Len(s) <= Len(t)
  BY SMT
<1> HIDE DEF t
<1>2. Kept(t, S)[Len(s)] = Keep(s, S)
  BY <1>1, KeptPrefix, SMT
<1>3. Keep(t, S) = Longer(t, S, Kept(t, S)[Len(s)], Len(t))
  BY <1>1, KeptDef, SMT DEF Keep
<1>4. QED
  BY <1>1, <1>2, <1>3, Zenon DEF Longer, t

(* What is kept is a sequence of elements that satisfy the condition.       *)
LEMMA KeepType ==
    ASSUME NEW E, NEW s \in Seq(E), NEW S
    PROVE  Keep(s, S) \in Seq(E \cap S)
<1> DEFINE T == {q \in Seq(E) : Keep(q, S) \in Seq(E \cap S)}
<1>1. <<>> \in T
  BY KeepEmpty, EmptySeq, Zenon
<1>2. ASSUME NEW q \in Seq(E), NEW e \in E, q \in T PROVE Append(q, e) \in T
  <2>1. Append(q, e) \in Seq(E)
    OBVIOUS
  <2>2. Keep(Append(q, e), S) = IF e \in S THEN Append(Keep(q, S), e) ELSE Keep(q, S)
    BY KeepAppend, Zenon
  <2>3. Keep(q, S) \in Seq(E \cap S)
    BY <1>2
  <2>4. e \in S => Append(Keep(q, S), e) \in Seq(E \cap S)
    BY <2>3
  <2>5. QED
    BY <2>1, <2>2, <2>3, <2>4, Zenon
<1>3. QED
  <2> HIDE DEF T
  <2>1. s \in T
    BY <1>1, <1>2, SeqSetInduction, Zenon
  <2>2. QED
    BY <2>1, Zenon DEF T

LEMMA KeepIsSeq ==
    ASSUME NEW E, NEW s \in Seq(E), NEW S
    PROVE  Keep(s, S) \in Seq(E)
<1>1. Keep(s, S) \in Seq(E \cap S)
  BY KeepType, Zenon
<1>2. E \cap S \subseteq E
  OBVIOUS
<1>3. QED
  BY <1>1, <1>2, SeqMonotonic, Zenon

(* Keeping from two queues in a row.                                        *)
LEMMA KeepConcat ==
    ASSUME NEW E, NEW s \in Seq(E), NEW t \in Seq(E), NEW S
    PROVE  Keep(s \o t, S) = Keep(s, S) \o Keep(t, S)
<1> DEFINE T == {q \in Seq(E) : Keep(s \o q, S) = Keep(s, S) \o Keep(q, S)}
<1>1. <<>> \in T
  <2>1. Keep(s, S) \in Seq(E \cap S)
    BY KeepType, Zenon
  <2>2. Keep(s, S) \o <<>> = Keep(s, S) /\ s \o <<>> = s /\ <<>> \in Seq(E)
    BY <2>1, ConcatEmptySeq, EmptySeq, Zenon
  <2>3. QED
    BY <2>2, KeepEmpty, Zenon
<1>2. ASSUME NEW q \in Seq(E), NEW e \in E, q \in T PROVE Append(q, e) \in T
  <2>1. Append(q, e) \in Seq(E) /\ s \o q \in Seq(E)
    OBVIOUS
  <2>2. s \o Append(q, e) = Append(s \o q, e)
    OBVIOUS
  <2>3. /\ Keep(Append(q, e), S) = IF e \in S THEN Append(Keep(q, S), e) ELSE Keep(q, S)
        /\ Keep(Append(s \o q, e), S) =
               IF e \in S THEN Append(Keep(s \o q, S), e) ELSE Keep(s \o q, S)
    BY <2>1, KeepAppend, Zenon
  <2>4. Keep(s \o q, S) = Keep(s, S) \o Keep(q, S)
    BY <1>2
  <2>5. Keep(s, S) \in Seq(E) /\ Keep(q, S) \in Seq(E)
    BY KeepIsSeq, Zenon
  <2>6. Append(Keep(s, S) \o Keep(q, S), e) = Keep(s, S) \o Append(Keep(q, S), e)
    <3> DEFINE u == Keep(s, S)
               v == Keep(q, S)
    <3>1. u \in Seq(E) /\ v \in Seq(E)
      BY <2>5
    <3> HIDE DEF u, v
    <3>2. u \o Append(v, e) = Append(u \o v, e)
      <4>1. u \o Append(v, e) \in Seq(E) /\ Append(u \o v, e) \in Seq(E)
        BY <3>1
      <4>2. Len(u \o Append(v, e)) = Len(Append(u \o v, e))
        BY <3>1
      <4>3. \A i \in 1 .. Len(u \o Append(v, e)) : (u \o Append(v, e))[i] = Append(u \o v, e)[i]
        BY <3>1
      <4>4. QED
        BY <4>1, <4>2, <4>3, SeqEqual, Zenon
    <3>3. QED
      BY <3>2 DEF u, v
  <2>7. QED
    BY <2>1, <2>2, <2>3, <2>4, <2>6, Zenon
<1>3. QED
  <2> HIDE DEF T
  <2>1. t \in T
    BY <1>1, <1>2, SeqSetInduction, Zenon
  <2>2. QED
    BY <2>1, Zenon DEF T

(* All is kept of what satisfies the condition ...                          *)
LEMMA KeepAll == ASSUME NEW S, NEW s \in Seq(S) PROVE Keep(s, S) = s
<1> DEFINE T == {q \in Seq(S) : Keep(q, S) = q}
<1>1. <<>> \in T
  BY KeepEmpty, EmptySeq, Zenon
<1>2. ASSUME NEW q \in Seq(S), NEW e \in S, q \in T PROVE Append(q, e) \in T
  <2>1. Append(q, e) \in Seq(S)
    OBVIOUS
  <2>2. QED
    BY <1>2, <2>1, KeepAppend, Zenon
<1>3. QED
  <2> HIDE DEF T
  <2>1. s \in T
    BY <1>1, <1>2, SeqSetInduction, Zenon
  <2>2. QED
    BY <2>1, Zenon DEF T

(* ... and nothing of what does not.                                        *)
LEMMA KeepNone ==
    ASSUME NEW E, NEW s \in Seq(E), NEW S, E \cap S = {}
    PROVE  Keep(s, S) = <<>>
<1>1. Keep(s, S) \in Seq({})
  BY KeepType, Zenon
<1>2. QED
  BY <1>1
-----------------------------------------------------------------------------
(* A queue is its first event and the rest.                                 *)
LEMMA HeadTailConcat ==
    ASSUME NEW S, NEW s \in Seq(S), s # <<>>
    PROVE  s = <<Head(s)>> \o Tail(s)
<1> DEFINE one == <<Head(s)>>
           t   == Tail(s)
           r   == one \o t
<1>1. /\ one \in Seq(S) /\ t \in Seq(S) /\ Len(one) = 1 /\ one[1] = s[1]
      /\ Len(t) = Len(s) - 1 /\ \A i \in 1 .. Len(t) : t[i] = s[i + 1]
      /\ Len(s) \in Nat
  BY HeadTailProperties, LenProperties, SMT
<1> HIDE DEF one, t
<1>2. one \in Seq(S) /\ t \in Seq(S)
  BY <1>1
<1>3. r \in Seq(S) /\ Len(r) = Len(one) + Len(t)
  BY <1>2, ConcatProperties, Zenon
<1>4. \A k \in 1 .. Len(one) + Len(t) : r[k] = IF k <= Len(one) THEN one[k] ELSE t[k - Len(one)]
  BY <1>2, ConcatProperties
<1> HIDE DEF r
<1>5. Len(r) = Len(s)
  BY <1>1, <1>3, SMT
<1>6. ASSUME NEW i \in 1 .. Len(s) PROVE r[i] = s[i]
  <2>1. i \in 1 .. Len(one) + Len(t)
    BY <1>1, SMT
  <2>2. r[i] = IF i <= Len(one) THEN one[i] ELSE t[i - Len(one)]
    BY <1>4, <2>1, Zenon
  <2>3. CASE i = 1
    BY <1>1, <2>2, <2>3, SMT
  <2>4. CASE i # 1
    <3>1. i - 1 \in 1 .. Len(t) /\ r[i] = t[i - 1]
      BY <1>1, <2>2, <2>4, SMT
    <3>2. t[i - 1] = s[(i - 1) + 1]
      BY <1>1, <3>1, Zenon
    <3>3. QED
      BY <3>1, <3>2, SMT
  <2>5. QED
    BY <2>3, <2>4
<1>7. s = r
  BY <1>3, <1>5, <1>6, SeqEqual, Zenon
<1>8. QED
  BY <1>7 DEF r, one, t

(* What is kept of one event, and of a queue by its first event.            *)
LEMMA KeepOne ==
    ASSUME NEW e, NEW S
    PROVE  Keep(<<e>>, S) = IF e \in S THEN <<e>> ELSE <<>>
<1> DEFINE one == <<e>>
<1>1. CASE e \in S
  <2>1. one \in Seq(S)
    BY <1>1
  <2>2. QED
    BY <1>1, <2>1, KeepAll, Zenon
<1>2. CASE e \notin S
  <2>1. one \in Seq({e}) /\ {e} \cap S = {}
    BY <1>2
  <2>2. QED
    BY <1>2, <2>1, KeepNone, Zenon
<1>3. QED
  BY <1>1, <1>2

LEMMA KeepFirst ==
    ASSUME NEW E, NEW s \in Seq(E), s # <<>>, NEW S
    PROVE  Keep(s, S) = IF Head(s) \in S THEN <<Head(s)>> \o Keep(Tail(s), S)
                                          ELSE Keep(Tail(s), S)
<1> DEFINE one == <<Head(s)>>
           t   == Tail(s)
<1>1. one \in Seq(E) /\ t \in Seq(E)
  BY HeadTailProperties
<1>2. s = one \o t
  BY HeadTailConcat
<1>3. Keep(one, S) = IF Head(s) \in S THEN one ELSE <<>>
  BY KeepOne, Zenon
<1> HIDE DEF one, t
<1>4. Keep(one \o t, S) = Keep(one, S) \o Keep(t, S)
  BY <1>1, KeepConcat
<1>5. Keep(t, S) \in Seq(E)
  BY <1>1, KeepIsSeq, Zenon
<1>6. <<>> \o Keep(t, S) = Keep(t, S)
  BY <1>5, ConcatEmptySeq, Zenon
<1>7. QED
  BY <1>2, <1>3, <1>4, <1>6, Zenon DEF one, t

(* Only what is in the queue matters.                                       *)
LEMMA KeepSame ==
    ASSUME NEW E, NEW s \in Seq(E), NEW S, NEW T, E \cap S = E \cap T
    PROVE  Keep(s, S) = Keep(s, T)
<1> DEFINE X == {q \in Seq(E) : Keep(q, S) = Keep(q, T)}
<1>1. <<>> \in X
  BY KeepEmpty, EmptySeq, Zenon
<1>2. ASSUME NEW q \in Seq(E), NEW e \in E, q \in X PROVE Append(q, e) \in X
  <2>1. Append(q, e) \in Seq(E)
    OBVIOUS
  <2>2. Keep(Append(q, e), S) = IF e \in S THEN Append(Keep(q, S), e) ELSE Keep(q, S)
    BY KeepAppend, Zenon
  <2>3. Keep(Append(q, e), T) = IF e \in T THEN Append(Keep(q, T), e) ELSE Keep(q, T)
    BY KeepAppend, Zenon
  <2>4. e \in S <=> e \in T
    OBVIOUS
  <2>5. Keep(q, S) = Keep(q, T)
    BY <1>2
  <2>6. QED
    BY <2>1, <2>2, <2>3, <2>4, <2>5, Zenon
<1>3. QED
  <2> HIDE DEF X
  <2>1. s \in X
    BY <1>1, <1>2, SeqSetInduction, Zenon
  <2>2. QED
    BY <2>1, Zenon DEF X

(* Keeping twice.                                                           *)
LEMMA KeepKeep ==
    ASSUME NEW E, NEW s \in Seq(E), NEW S, NEW T
    PROVE  Keep(Keep(s, S), T) = Keep(s, S \cap T)
<1> DEFINE X == {q \in Seq(E) : Keep(Keep(q, S), T) = Keep(q, S \cap T)}
<1>1. <<>> \in X
  BY KeepEmpty, EmptySeq, Zenon
<1>2. ASSUME NEW q \in Seq(E), NEW e \in E, q \in X PROVE Append(q, e) \in X
  <2>1. Append(q, e) \in Seq(E) /\ Keep(q, S) \in Seq(E)
    BY KeepIsSeq
  <2>2. Keep(Append(q, e), S) = IF e \in S THEN Append(Keep(q, S), e) ELSE Keep(q, S)
    BY KeepAppend, Zenon
  <2>3. Keep(Append(q, e), S \cap T) =
          IF e \in S \cap T THEN Append(Keep(q, S \cap T), e) ELSE Keep(q, S \cap T)
    BY KeepAppend, Zenon
  <2>4. Keep(Append(Keep(q, S), e), T) =
          IF e \in T THEN Append(Keep(Keep(q, S), T), e) ELSE Keep(Keep(q, S), T)
    BY <2>1, KeepAppend, Zenon
  <2>5. Keep(Keep(q, S), T) = Keep(q, S \cap T)
    BY <1>2
  <2>6. e \in S \cap T <=> e \in S /\ e \in T
    OBVIOUS
  <2>7. QED
    BY <2>1, <2>2, <2>3, <2>4, <2>5, <2>6, Zenon
<1>3. QED
  <2> HIDE DEF X
  <2>1. s \in X
    BY <1>1, <1>2, SeqSetInduction, Zenon
  <2>2. QED
    BY <2>1, Zenon DEF X

(* As many are kept as there are.                                           *)
LEMMA KeepCount ==
    ASSUME NEW E, NEW s \in Seq(E), NEW S
    PROVE  Cardinality({i \in 1 .. Len(s) : s[i] \in S}) = Len(Keep(s, S))
<1> DEFINE places(q) == {i \in 1 .. Len(q) : q[i] \in S}
           X == {q \in Seq(E) : Cardinality(places(q)) = Len(Keep(q, S))}
<1>1. <<>> \in X
  <2>1. places(<<>>) = {} /\ Len(<<>>) = 0
    BY EmptySeq
  <2>2. QED
    BY <2>1, KeepEmpty, EmptySeq, FS_EmptySet, Zenon
<1>2. ASSUME NEW q \in Seq(E), NEW e \in E, q \in X PROVE Append(q, e) \in X
  <2>1. /\ Append(q, e) \in Seq(E) /\ Len(Append(q, e)) = Len(q) + 1 /\ Len(q) \in Nat
        /\ \A i \in 1 .. Len(q) : Append(q, e)[i] = q[i]
        /\ Append(q, e)[Len(q) + 1] = e
    OBVIOUS
  <2>2. Keep(Append(q, e), S) = IF e \in S THEN Append(Keep(q, S), e) ELSE Keep(q, S)
    BY KeepAppend, Zenon
  <2>3. Keep(q, S) \in Seq(E)
    BY KeepIsSeq, Zenon
  <2>4. Len(Append(Keep(q, S), e)) = Len(Keep(q, S)) + 1
    BY <2>3
  <2>5. Cardinality(places(q)) = Len(Keep(q, S))
    BY <1>2
  <2>6. IsFiniteSet(places(q)) /\ Len(q) + 1 \notin places(q)
    <3>1. IsFiniteSet(1 .. Len(q))
      BY FS_Interval, <2>1
    <3>2. places(q) \subseteq 1 .. Len(q)
      OBVIOUS
    <3>3. IsFiniteSet(places(q))
      BY <3>1, <3>2, FS_Subset, Zenon
    <3>4. Len(q) + 1 \notin 1 .. Len(q)
      BY <2>1, SMT
    <3>5. QED
      BY <3>2, <3>3, <3>4, Zenon
  <2>7. CASE e \in S
    <3>1. places(Append(q, e)) = places(q) \cup {Len(q) + 1}
      BY <2>1, <2>7, SMT
    <3>2. Cardinality(places(q) \cup {Len(q) + 1}) = Cardinality(places(q)) + 1
      BY <2>6, FS_AddElement, Zenon
    <3>3. QED
      BY <2>1, <2>2, <2>4, <2>5, <2>7, <3>1, <3>2, Zenon
  <2>8. CASE e \notin S
    <3>1. places(Append(q, e)) = places(q)
      BY <2>1, <2>8, SMT
    <3>2. QED
      BY <2>1, <2>2, <2>5, <2>8, <3>1, Zenon
  <2>9. QED
    BY <2>7, <2>8
<1>3. QED
  <2> HIDE DEF X
  <2>1. s \in X
    BY <1>1, <1>2, SeqSetInduction, Zenon
  <2>2. QED
    BY <2>1, Zenon DEF X
-----------------------------------------------------------------------------
(***************************************************************************)
(* What is in a queue, and what comes before what.                         *)
(***************************************************************************)
Before(q, a, b) == \E i, j \in DOMAIN q : i < j /\ q[i] = a /\ q[j] = b

LEMMA SetIsOf == ASSUME NEW E, NEW s \in Seq(E) PROVE ToSet(s) \subseteq E
BY DEF ToSet

LEMMA SetEmpty == ToSet(<<>>) = {} /\ \A a, b : ~ Before(<<>>, a, b)
BY DEF ToSet, Before

LEMMA SetConcat ==
    ASSUME NEW E, NEW s \in Seq(E), NEW t \in Seq(E)
    PROVE  /\ ToSet(s \o t) = ToSet(s) \cup ToSet(t)
           /\ \A a, b : Before(s \o t, a, b) <=>
                 \/ Before(s, a, b) \/ Before(t, a, b)
                 \/ a \in ToSet(s) /\ b \in ToSet(t)
<1> DEFINE u == s \o t
<1>1. /\ Len(s) \in Nat /\ Len(t) \in Nat
      /\ DOMAIN s = 1 .. Len(s) /\ DOMAIN t = 1 .. Len(t) /\ DOMAIN u = 1 .. Len(s) + Len(t)
      /\ \A i \in DOMAIN s : u[i] = s[i] /\ i \in DOMAIN u
      /\ \A i \in DOMAIN t : u[Len(s) + i] = t[i] /\ Len(s) + i \in DOMAIN u
      /\ \A k \in DOMAIN u : k \in DOMAIN s \/ (k - Len(s) \in DOMAIN t /\ u[k] = t[k - Len(s)])
  BY SMT
<1> HIDE DEF u
<1>2. ToSet(u) = ToSet(s) \cup ToSet(t)
  <2>1. ASSUME NEW x \in ToSet(u) PROVE x \in ToSet(s) \cup ToSet(t)
    <3>1. PICK k \in DOMAIN u : u[k] = x
      BY <2>1 DEF ToSet
    <3>2. CASE k \in DOMAIN s
      BY <1>1, <3>1, <3>2 DEF ToSet
    <3>3. CASE k - Len(s) \in DOMAIN t /\ u[k] = t[k - Len(s)]
      BY <3>1, <3>3, Zenon DEF ToSet
    <3> QED
      BY <1>1, <3>2, <3>3
  <2>2. ToSet(s) \subseteq ToSet(u)
    BY <1>1, Zenon DEF ToSet
  <2>3. ASSUME NEW x \in ToSet(t) PROVE x \in ToSet(u)
    <3>1. PICK i \in DOMAIN t : t[i] = x
      BY <2>3 DEF ToSet
    <3>2. u[Len(s) + i] = x /\ Len(s) + i \in DOMAIN u
      BY <1>1, <3>1, Zenon
    <3> QED
      BY <3>2, Zenon DEF ToSet
  <2> QED
    BY <2>1, <2>2, <2>3
<1>3. ASSUME NEW a, NEW b, Before(u, a, b)
      PROVE  Before(s, a, b) \/ Before(t, a, b) \/ (a \in ToSet(s) /\ b \in ToSet(t))
  <2>1. PICK i \in DOMAIN u, j \in DOMAIN u : i < j /\ u[i] = a /\ u[j] = b
    BY <1>3 DEF Before
  <2>2. CASE j \in DOMAIN s
    <3>1. i \in DOMAIN s
      BY <1>1, <2>1, <2>2
    <3> QED
      BY <1>1, <2>1, <2>2, <3>1, Zenon DEF Before
  <2>3. CASE i \notin DOMAIN s
    <3>1. j \notin DOMAIN s
      BY <1>1, <2>1, <2>3
    <3>2. i - Len(s) \in DOMAIN t /\ j - Len(s) \in DOMAIN t /\ i - Len(s) < j - Len(s)
      BY <1>1, <2>1, <2>3, <3>1
    <3>3. t[i - Len(s)] = a /\ t[j - Len(s)] = b
      BY <1>1, <2>1, <2>3, <3>1, Zenon
    <3> QED
      BY <3>2, <3>3, Zenon DEF Before
  <2>4. CASE i \in DOMAIN s /\ j \notin DOMAIN s
    BY <1>1, <2>1, <2>4, Zenon DEF ToSet
  <2> QED
    BY <2>2, <2>3, <2>4
<1>4. ASSUME NEW a, NEW b
      PROVE  /\ Before(s, a, b) => Before(u, a, b)
             /\ Before(t, a, b) => Before(u, a, b)
             /\ a \in ToSet(s) /\ b \in ToSet(t) => Before(u, a, b)
  <2>1. Before(s, a, b) => Before(u, a, b)
    BY <1>1, Zenon DEF Before
  <2>2. ASSUME Before(t, a, b) PROVE Before(u, a, b)
    <3>1. PICK i \in DOMAIN t, j \in DOMAIN t : i < j /\ t[i] = a /\ t[j] = b
      BY <2>2 DEF Before
    <3>2. Len(s) + i < Len(s) + j
      BY <1>1, <3>1
    <3> QED
      BY <1>1, <3>1, <3>2, Zenon DEF Before
  <2>3. ASSUME a \in ToSet(s), b \in ToSet(t) PROVE Before(u, a, b)
    <3>1. PICK i \in DOMAIN s, j \in DOMAIN t : s[i] = a /\ t[j] = b
      BY <2>3 DEF ToSet
    <3>2. i < Len(s) + j
      BY <1>1, <3>1
    <3> QED
      BY <1>1, <3>1, <3>2, Zenon DEF Before
  <2> QED
    BY <2>1, <2>2, <2>3
<1> QED
  BY <1>2, <1>3, <1>4 DEF u

LEMMA SetOne ==
    ASSUME NEW e
    PROVE  ToSet(<<e>>) = {e} /\ \A a, b : ~ Before(<<e>>, a, b)
<1>1. ToSet(<<e>>) = {e}
  BY DEF ToSet
<1>2. ASSUME NEW a, NEW b, Before(<<e>>, a, b) PROVE FALSE
  BY <1>2 DEF Before
<1> QED
  BY <1>1, <1>2

LEMMA SetAppend ==
    ASSUME NEW E, NEW s \in Seq(E), NEW e \in E
    PROVE  /\ ToSet(Append(s, e)) = ToSet(s) \cup {e}
           /\ \A a, b : Before(Append(s, e), a, b) <=> Before(s, a, b) \/ (a \in ToSet(s) /\ b = e)
<1> DEFINE one == <<e>>
<1>1. one \in Seq(E) /\ ToSet(one) = {e} /\ \A a, b : ~ Before(one, a, b)
  BY SetOne
<1>2. Append(s, e) = s \o one
  BY AppendIsConcat
<1> HIDE DEF one
<1>3. /\ ToSet(s \o one) = ToSet(s) \cup ToSet(one)
      /\ \A a, b : Before(s \o one, a, b) <=>
                 \/ Before(s, a, b) \/ Before(one, a, b)
                 \/ a \in ToSet(s) /\ b \in ToSet(one)
  BY <1>1, SetConcat, Zenon
<1> QED
  BY <1>1, <1>2, <1>3

(* The first one comes before all others.                                   *)
LEMMA SetFirst ==
    ASSUME NEW E, NEW s \in Seq(E), s # <<>>
    PROVE  /\ ToSet(s) = {Head(s)} \cup ToSet(Tail(s))
           /\ \A a, b : Before(s, a, b) <=> Before(Tail(s), a, b) \/ (a = Head(s) /\ b \in ToSet(Tail(s)))
<1> DEFINE h == Head(s)
           one == <<h>>
           t == Tail(s)
<1>1. h \in E /\ t \in Seq(E) /\ s = one \o t
  BY HeadTailProperties, HeadTailConcat
<1> HIDE DEF h, t
<1>2. one \in Seq(E) /\ ToSet(one) = {h} /\ \A a, b : ~ Before(one, a, b)
  BY <1>1, SetOne
<1> HIDE DEF one
<1>3. /\ ToSet(one \o t) = ToSet(one) \cup ToSet(t)
      /\ \A a, b : Before(one \o t, a, b) <=>
                 \/ Before(one, a, b) \/ Before(t, a, b)
                 \/ a \in ToSet(one) /\ b \in ToSet(t)
  BY <1>1, <1>2, SetConcat, Zenon
<1>4. /\ ToSet(s) = {h} \cup ToSet(t)
      /\ \A a, b : Before(s, a, b) <=> Before(t, a, b) \/ (a = h /\ b \in ToSet(t))
  BY <1>1, <1>2, <1>3
<1> QED
  BY <1>4 DEF h, t

(* Keeping a part of a queue changes nothing in its order.                  *)
LEMMA SetKeep ==
    ASSUME NEW E, NEW s \in Seq(E), NEW S
    PROVE  /\ ToSet(Keep(s, S)) = ToSet(s) \cap S
           /\ \A a, b : Before(Keep(s, S), a, b) => Before(s, a, b)
<1> DEFINE X == {q \in Seq(E) : /\ ToSet(Keep(q, S)) = ToSet(q) \cap S
                                /\ \A a, b : Before(Keep(q, S), a, b) => Before(q, a, b)}
<1>1. <<>> \in X
  BY KeepEmpty, EmptySeq, SetEmpty, Zenon
<1>2. ASSUME NEW q \in Seq(E), NEW e \in E, q \in X PROVE Append(q, e) \in X
  <2> DEFINE k == Keep(q, S)
             ae == Append(q, e)
  <2>1. ae \in Seq(E) /\ k \in Seq(E)
    BY KeepIsSeq
  <2>2. Keep(ae, S) = IF e \in S THEN Append(k, e) ELSE k
    BY KeepAppend, Zenon
  <2>3. ToSet(k) = ToSet(q) \cap S /\ \A a, b : Before(k, a, b) => Before(q, a, b)
    BY <1>2
  <2>4. /\ ToSet(ae) = ToSet(q) \cup {e}
        /\ \A a, b : Before(ae, a, b) <=> Before(q, a, b) \/ (a \in ToSet(q) /\ b = e)
    BY SetAppend, Zenon
  <2> HIDE DEF k, ae
  <2>5. /\ ToSet(Append(k, e)) = ToSet(k) \cup {e}
        /\ \A a, b : Before(Append(k, e), a, b) <=> Before(k, a, b) \/ (a \in ToSet(k) /\ b = e)
    BY <2>1, SetAppend, Zenon
  <2>6. ToSet(Keep(ae, S)) = ToSet(ae) \cap S
    BY <2>2, <2>3, <2>4, <2>5
  <2>7. \A a, b : Before(Keep(ae, S), a, b) => Before(ae, a, b)
    <3>1. CASE e \in S
      BY <2>2, <2>3, <2>4, <2>5, <3>1
    <3>2. CASE e \notin S
      BY <2>2, <2>3, <2>4, <3>2
    <3> QED
      BY <3>1, <3>2
  <2> QED
    BY <2>1, <2>6, <2>7, Zenon DEF ae
<1>3. QED
  <2> HIDE DEF X
  <2>1. s \in X
    BY <1>1, <1>2, SeqSetInduction, Zenon
  <2>2. QED
    BY <2>1, Zenon DEF X

(* What is in a queue, and not twice, is kept once; what is not, never.     *)
LEMMA KeepOnce ==
    ASSUME NEW E, NEW s \in Seq(E), NEW e
    PROVE  /\ e \notin ToSet(s) => Len(Keep(s, {e})) = 0
           /\ e \in ToSet(s) /\ ~ Before(s, e, e) => Len(Keep(s, {e})) = 1
<1> DEFINE places == {i \in 1 .. Len(s) : s[i] \in {e}}
<1>1. Cardinality(places) = Len(Keep(s, {e})) /\ DOMAIN s = 1 .. Len(s)
  BY KeepCount, LenProperties, Zenon
<1>2. ASSUME e \notin ToSet(s) PROVE Len(Keep(s, {e})) = 0
  <2>1. places = {}
    BY <1>1, <1>2 DEF ToSet
  <2> QED
    BY <1>1, <2>1, FS_EmptySet
<1>3. ASSUME e \in ToSet(s), ~ Before(s, e, e) PROVE Len(Keep(s, {e})) = 1
  <2>1. PICK i \in 1 .. Len(s) : s[i] = e
    BY <1>1, <1>3 DEF ToSet
  <2>2. \A j \in 1 .. Len(s) : s[j] = e => j = i
    <3> SUFFICES ASSUME NEW j \in 1 .. Len(s), s[j] = e, j # i PROVE FALSE
      OBVIOUS
    <3>1. i < j \/ j < i
      BY SMT
    <3> QED
      BY <1>1, <1>3, <2>1, <3>1 DEF Before
  <2>3. places = {i}
    BY <2>1, <2>2
  <2> QED
    BY <1>1, <2>3, FS_Singleton
<1> QED
  BY <1>2, <1>3

LEMMA ConcatAppend ==
    ASSUME NEW E, NEW s \in Seq(E), NEW t \in Seq(E), NEW e \in E
    PROVE  s \o Append(t, e) = Append(s \o t, e)
<1>1. s \o Append(t, e) \in Seq(E) /\ Append(s \o t, e) \in Seq(E)
  OBVIOUS
<1>2. Len(s \o Append(t, e)) = Len(Append(s \o t, e))
  OBVIOUS
<1>3. \A i \in 1 .. Len(s \o Append(t, e)) : (s \o Append(t, e))[i] = Append(s \o t, e)[i]
  OBVIOUS
<1> QED
  BY <1>1, <1>2, <1>3, SeqEqual, Zenon
=============================================================================
