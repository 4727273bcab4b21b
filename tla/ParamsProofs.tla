---------------------------- MODULE ParamsProofs ----------------------------
(***************************************************************************)
(* Proofs about Params, for any number of sessions, arguments, alarms and  *)
(* handles and any depth of calls: every argument has one owner, its lock  *)
(* counts its readers, and nothing that is freed is used or freed again.   *)
(***************************************************************************)
EXTENDS Params, FiniteSetTheorems, SequenceTheorems, TLAPS

(***************************************************************************)
(* A ledger: how many owners and how many readers each argument has.       *)
(***************************************************************************)
Cell == [state : {"free", "live", "broken"}, locked : Int]

Good(v, owners, readers) ==
    /\ v \in Cell /\ v.state # "broken"
    /\ v.state = "free" => v.locked = 0
    /\ owners = (IF v.state = "live" /\ v.locked >= 0 THEN 1 ELSE 0)
    /\ readers = (IF v.locked < 0 THEN -v.locked ELSE v.locked)

Counts == [ValParams -> Nat]

Account(h, o, l) ==
    h \in [ValParams -> Cell] /\ \A p \in ValParams : Good(h[p], o[p], l[p])

One(a, p) == IF a = p THEN 1 ELSE 0

Plus(o, a) == [p \in ValParams |-> o[p] + One(a, p)]

LEMMA PlusFacts ==
    ASSUME NEW o \in Counts, NEW a
    PROVE  /\ Plus(o, a) \in Counts
           /\ \A p \in ValParams : Plus(o, a)[p] = o[p] + One(a, p)
           /\ a \notin ValParams => Plus(o, a) = o
<1>1. \A p \in ValParams : One(a, p) \in Nat /\ o[p] \in Nat /\ o[p] + 0 = o[p]
  BY DEF One, Counts
<1>2. \A p \in ValParams : Plus(o, a)[p] = o[p] + One(a, p)
  BY DEF Plus
<1>3. Plus(o, a) \in Counts
  BY <1>1 DEF Plus, Counts
<1>4. ASSUME a \notin ValParams PROVE Plus(o, a) = o
  <2>1. \A p \in ValParams : One(a, p) = 0
    BY <1>4 DEF One
  <2> QED
    BY <1>1, <2>1 DEF Plus, Counts
<1> QED
  BY <1>2, <1>3, <1>4

LEMMA PlusSwap ==
    ASSUME NEW o \in Counts, NEW a, NEW b
    PROVE  Plus(Plus(o, a), b) = Plus(Plus(o, b), a)
<1>1. \A p \in ValParams : o[p] \in Nat /\ One(a, p) \in Nat /\ One(b, p) \in Nat
  BY DEF Counts, One
<1>2. \A p \in ValParams : (o[p] + One(a, p)) + One(b, p) = (o[p] + One(b, p)) + One(a, p)
  BY <1>1
<1> QED
  BY <1>2 DEF Plus

(* Owners and readers, as each access to the memory changes them.           *)
LEMMA OnLive ==
    ASSUME None \notin ValParams,
           NEW h \in [ValParams -> Cell], NEW p \in ValParams, h[p].state = "live", NEW f \in Cell
    PROVE  /\ On(h, p, f) \in [ValParams -> Cell]
           /\ On(h, p, f)[p] = f
           /\ \A q \in ValParams : q # p => On(h, p, f)[q] = h[q]
<1>1. p # None
  OBVIOUS
<1>2. On(h, p, f) = [h EXCEPT ![p] = f]
  BY <1>1 DEF On
<1> QED
  BY <1>2

LEMMA NobodyGood ==
    ASSUME NEW h, NEW o \in Counts, NEW l
    PROVE  Account(h, Plus(o, None), l) /\ None \notin ValParams => Account(h, o, l)
BY PlusFacts

LEMMA AccountDestroyed ==
    ASSUME None \notin ValParams,
           NEW h, NEW o \in Counts, NEW l \in Counts, NEW p \in Maybe(ValParams),
           Account(h, Plus(o, p), l)
    PROVE  Account(Destroyed(h, p), o, l)
<1>1. CASE p = None
  <2>1. Destroyed(h, p) = h
    BY <1>1 DEF Destroyed, On
  <2> QED
    BY <1>1, <2>1, NobodyGood
<1>2. CASE p \in ValParams
  <2>1. /\ h \in [ValParams -> Cell] /\ Good(h[p], o[p] + 1, l[p])
        /\ \A q \in ValParams : q # p => Good(h[q], o[q], l[q])
    BY <1>2 DEF Account, Plus, One, Counts
  <2>2. h[p] \in Cell /\ o[p] \in Nat /\ l[p] \in Nat
    BY <1>2, <2>1 DEF Counts
  <2>3. h[p].state = "live" /\ h[p].locked \in Int /\ h[p].locked >= 0 /\ o[p] = 0 /\ l[p] = h[p].locked
    BY <2>1, <2>2 DEF Good, Cell
  <2> DEFINE n == h[p].locked
             f == IF n = 0 THEN Free ELSE IF n > 0 THEN Live(h[p], -n) ELSE Broken
  <2>4. f \in Cell /\ Good(f, o[p], l[p])
    BY <2>2, <2>3 DEF Free, Broken, Live, Cell, Good
  <2>5. Destroyed(h, p) = On(h, p, f)
    BY DEF Destroyed
  <2> HIDE DEF f
  <2>6. /\ On(h, p, f) \in [ValParams -> Cell]
        /\ On(h, p, f)[p] = f
        /\ \A q \in ValParams : q # p => On(h, p, f)[q] = h[q]
    BY <1>2, <2>1, <2>3, <2>4, OnLive
  <2> QED
    BY <1>2, <2>1, <2>4, <2>5, <2>6 DEF Account
<1> QED
  BY <1>1, <1>2 DEF Maybe

LEMMA AccountDeleted ==
    ASSUME None \notin ValParams,
           NEW h, NEW o \in Counts, NEW l \in Counts, NEW p \in Maybe(ValParams),
           p # None => l[p] = 0, Account(h, Plus(o, p), l)
    PROVE  Account(Deleted(h, p), o, l)
<1>1. CASE p = None
  <2>1. Deleted(h, p) = h
    BY <1>1 DEF Deleted, On
  <2> QED
    BY <1>1, <2>1, NobodyGood
<1>2. CASE p \in ValParams
  <2>1. /\ h \in [ValParams -> Cell] /\ Good(h[p], o[p] + 1, l[p]) /\ l[p] = 0
        /\ \A q \in ValParams : q # p => Good(h[q], o[q], l[q])
    BY <1>2 DEF Account, Plus, One, Counts
  <2>2. h[p] \in Cell /\ o[p] \in Nat
    BY <1>2, <2>1 DEF Counts
  <2>3. h[p].state = "live" /\ h[p].locked = 0 /\ o[p] = 0
    BY <2>1, <2>2 DEF Good, Cell
  <2>4. Free \in Cell /\ Good(Free, o[p], l[p]) /\ Deleted(h, p) = On(h, p, Free)
    BY <2>1, <2>3 DEF Free, Cell, Good, Deleted
  <2>5. /\ On(h, p, Free) \in [ValParams -> Cell]
        /\ On(h, p, Free)[p] = Free
        /\ \A q \in ValParams : q # p => On(h, p, Free)[q] = h[q]
    BY <1>2, <2>1, <2>3, <2>4, OnLive
  <2> QED
    BY <1>2, <2>1, <2>4, <2>5 DEF Account
<1> QED
  BY <1>1, <1>2 DEF Maybe

LEMMA AccountLocked ==
    ASSUME None \notin ValParams,
           NEW h, NEW o \in Counts, NEW l \in Counts, NEW p \in Maybe(ValParams),
           p # None => h[p].state = "live", Account(h, o, l)
    PROVE  Account(Locked(h, p), o, Plus(l, p))
<1>1. CASE p = None
  <2>1. Locked(h, p) = h /\ Plus(l, p) = l
    BY <1>1, PlusFacts DEF Locked, On
  <2> QED
    BY <2>1
<1>2. CASE p \in ValParams
  <2>1. /\ h \in [ValParams -> Cell] /\ Good(h[p], o[p], l[p]) /\ h[p].state = "live"
        /\ \A q \in ValParams : q # p => Good(h[q], o[q], Plus(l, p)[q])
        /\ Plus(l, p)[p] = l[p] + 1
    BY <1>2 DEF Account, Plus, One, Counts
  <2>2. h[p] \in Cell /\ h[p].locked \in Int /\ l[p] \in Nat
    BY <1>2, <2>1 DEF Counts, Cell
  <2> DEFINE n == h[p].locked
             f == Live(h[p], IF n < 0 THEN n - 1 ELSE n + 1)
  <2>3. f \in Cell /\ Good(f, o[p], l[p] + 1)
    <3>1. f = [state |-> "live", locked |-> IF n < 0 THEN n - 1 ELSE n + 1]
      BY <2>1, <2>2 DEF Live, Cell
    <3> QED
      BY <2>1, <2>2, <3>1 DEF Cell, Good
  <2>4. Locked(h, p) = On(h, p, f)
    BY DEF Locked
  <2> HIDE DEF f
  <2>5. /\ On(h, p, f) \in [ValParams -> Cell]
        /\ On(h, p, f)[p] = f
        /\ \A q \in ValParams : q # p => On(h, p, f)[q] = h[q]
    BY <1>2, <2>1, <2>3, OnLive
  <2>6. ASSUME NEW q \in ValParams PROVE Good(On(h, p, f)[q], o[q], Plus(l, p)[q])
    <3>1. CASE q = p
      BY <2>1, <2>3, <2>5, <3>1
    <3>2. CASE q # p
      BY <2>1, <2>5, <3>2, Zenon
    <3> QED
      BY <3>1, <3>2
  <2> QED
    BY <2>4, <2>5, <2>6 DEF Account
<1> QED
  BY <1>1, <1>2 DEF Maybe

LEMMA AccountUnlocked ==
    ASSUME None \notin ValParams,
           NEW h, NEW o \in Counts, NEW l \in Counts, NEW p \in Maybe(ValParams),
           Account(h, o, Plus(l, p))
    PROVE  Account(Unlocked(h, p), o, l)
<1>1. CASE p = None
  <2>1. Unlocked(h, p) = h /\ Plus(l, p) = l
    BY <1>1, PlusFacts DEF Unlocked, On
  <2> QED
    BY <2>1
<1>2. CASE p \in ValParams
  <2>1. /\ h \in [ValParams -> Cell] /\ Good(h[p], o[p], l[p] + 1)
        /\ \A q \in ValParams : q # p => Good(h[q], o[q], l[q])
    BY <1>2 DEF Account, Plus, One, Counts
  <2>2. h[p] \in Cell /\ h[p].locked \in Int /\ l[p] \in Nat
    BY <1>2, <2>1 DEF Counts, Cell
  <2>3. h[p].state = "live" /\ h[p].locked # 0
    BY <2>1, <2>2 DEF Good, Cell
  <2> DEFINE n == h[p].locked
             f == CASE n > 0 -> Live(h[p], n - 1)
                    [] n = -1 -> Free
                    [] n < -1 -> Live(h[p], n + 1)
                    [] OTHER -> Broken
  <2>4. f \in Cell /\ Good(f, o[p], l[p])
    <3>1. CASE n > 0
      <4>1. f = [state |-> "live", locked |-> n - 1]
        BY <2>1, <2>2, <2>3, <3>1 DEF Live, Cell
      <4> QED
        BY <2>1, <2>2, <2>3, <3>1, <4>1 DEF Cell, Good
    <3>2. CASE n = -1
      <4>1. f = [state |-> "free", locked |-> 0]
        BY <3>2 DEF Free
      <4> QED
        BY <2>1, <2>2, <2>3, <3>2, <4>1 DEF Cell, Good
    <3>3. CASE n < -1
      <4>1. f = [state |-> "live", locked |-> n + 1]
        BY <2>1, <2>2, <2>3, <3>3 DEF Live, Cell
      <4> QED
        BY <2>1, <2>2, <2>3, <3>3, <4>1 DEF Cell, Good
    <3> QED
      BY <2>2, <2>3, <3>1, <3>2, <3>3
  <2>5. Unlocked(h, p) = On(h, p, f)
    BY DEF Unlocked
  <2> HIDE DEF f
  <2>6. /\ On(h, p, f) \in [ValParams -> Cell]
        /\ On(h, p, f)[p] = f
        /\ \A q \in ValParams : q # p => On(h, p, f)[q] = h[q]
    BY <1>2, <2>1, <2>3, <2>4, OnLive
  <2> QED
    BY <1>2, <2>1, <2>4, <2>5, <2>6 DEF Account
<1> QED
  BY <1>1, <1>2 DEF Maybe

Made(h, p) == [h EXCEPT ![p].state = "live"]

LEMMA AccountMade ==
    ASSUME None \notin ValParams,
           NEW h, NEW o \in Counts, NEW l \in Counts, NEW p \in ValParams,
           h[p].state = "free", Account(h, o, l)
    PROVE  /\ Account(Made(h, p), Plus(o, p), l)
           /\ o[p] = 0 /\ l[p] = 0
<1>1. h \in [ValParams -> Cell] /\ \A q \in ValParams : Good(h[q], o[q], l[q])
  BY DEF Account
<1>2. h[p] \in Cell /\ o[p] \in Nat /\ l[p] \in Nat
  BY <1>1 DEF Counts
<1>3. h[p].locked = 0 /\ o[p] = 0 /\ l[p] = 0
  BY <1>1, <1>2 DEF Good, Cell
<1> DEFINE f == [state |-> "live", locked |-> 0]
<1>4. f \in Cell /\ Good(f, o[p] + 1, l[p])
  BY <1>3 DEF Cell, Good
<1>5. Made(h, p) = [h EXCEPT ![p] = f]
  <2>1. [h[p] EXCEPT !.state = "live"] = f
    BY <1>2, <1>3 DEF Cell
  <2> QED
    BY <2>1 DEF Made
<1> HIDE DEF f
<1>6. /\ Plus(o, p)[p] = o[p] + 1 /\ \A q \in ValParams : q # p => Plus(o, p)[q] = o[q]
  BY DEF Plus, One, Counts
<1>7. Account([h EXCEPT ![p] = f], Plus(o, p), l)
  BY <1>1, <1>4, <1>6 DEF Account
<1> QED
  BY <1>3, <1>5, <1>7
-----------------------------------------------------------------------------
(***************************************************************************)
(* Counting the places of a function, and so of a sequence, that hold a    *)
(* value of a set.                                                         *)
(***************************************************************************)
In(v, S) == IF v \in S THEN 1 ELSE 0

Places(f, S) == {x \in DOMAIN f : f[x] \in S}
Count(f, S)  == Cardinality(Places(f, S))

LEMMA CountFacts ==
    ASSUME NEW f, IsFiniteSet(DOMAIN f), NEW S
    PROVE  /\ IsFiniteSet(Places(f, S)) /\ Count(f, S) \in Nat
           /\ \A x \in DOMAIN f : f[x] \in S => Count(f, S) >= 1
<1>1. IsFiniteSet(Places(f, S))
  <2>1. Places(f, S) \subseteq DOMAIN f
    BY DEF Places
  <2> QED
    BY <2>1, FS_Subset, Zenon
<1>2. Count(f, S) \in Nat
  BY <1>1, FS_CardinalityType, Zenon DEF Count
<1>3. ASSUME NEW x \in DOMAIN f, f[x] \in S PROVE Count(f, S) >= 1
  <2>1. x \in Places(f, S)
    BY <1>3 DEF Places
  <2>2. Cardinality(Places(f, S)) # 0
    BY <1>1, <2>1, FS_EmptySet, Zenon
  <2> QED
    BY <1>2, <2>2 DEF Count
<1> QED
  BY <1>1, <1>2, <1>3

Put(f, x, v) == [f EXCEPT ![x] = v]

LEMMA CountSet ==
    ASSUME NEW f, IsFiniteSet(DOMAIN f), NEW S, NEW x \in DOMAIN f, NEW v
    PROVE  Count(Put(f, x, v), S) + In(f[x], S) = Count(f, S) + In(v, S)
<1> DEFINE g == Put(f, x, v)
           A == Places(f, S)
           B == Places(g, S)
           R == {y \in DOMAIN f \ {x} : f[y] \in S}
<1>1. DOMAIN g = DOMAIN f /\ g[x] = v /\ \A y \in DOMAIN f \ {x} : g[y] = f[y]
  BY DEF Put
<1> HIDE DEF g
<1>2. IsFiniteSet(R)
  <2>1. R \subseteq DOMAIN f
    OBVIOUS
  <2> HIDE DEF R
  <2> QED
    BY <2>1, FS_Subset, Zenon
<1>3. /\ x \notin R
      /\ A = IF f[x] \in S THEN R \cup {x} ELSE R
      /\ B = IF v \in S THEN R \cup {x} ELSE R
  BY <1>1 DEF Places
<1> HIDE DEF A, B, R
<1>4. Cardinality(R) \in Nat /\ Cardinality(R \cup {x}) = Cardinality(R) + 1
  BY <1>2, <1>3, FS_CardinalityType, FS_AddElement, Zenon
<1> DEFINE n == Cardinality(R)
<1> HIDE DEF n
<1>5. /\ Cardinality(A) = n + In(f[x], S)
      /\ Cardinality(B) = n + In(v, S)
  <2>1. n \in Nat /\ n + 0 = n
    BY <1>4 DEF n
  <2> QED
    BY <1>3, <1>4, <2>1 DEF In, n
<1>6. n \in Nat /\ In(f[x], S) \in Nat /\ In(v, S) \in Nat
  BY <1>4 DEF In, n
<1>7. Count(f, S) = Cardinality(A) /\ Count(g, S) = Cardinality(B)
  BY DEF Count, A, B
<1> QED
  BY <1>5, <1>6, <1>7 DEF g

LEMMA SeqFinite ==
    ASSUME NEW E, NEW q \in Seq(E)
    PROVE  IsFiniteSet(DOMAIN q) /\ DOMAIN q = 1..Len(q) /\ Len(q) \in Nat
<1>1. DOMAIN q = 1..Len(q) /\ Len(q) \in Nat
  BY LenProperties
<1>2. IsFiniteSet(1..Len(q))
  BY <1>1, FS_Interval
<1> QED
  BY <1>1, <1>2

LEMMA CountMore ==
    ASSUME NEW E, NEW q \in Seq(E), NEW e \in E, NEW S
    PROVE  Count(Append(q, e), S) = Count(q, S) + In(e, S)
<1> DEFINE r == Append(q, e)
           n == Len(q) + 1
           A == Places(q, S)
           B == Places(r, S)
<1>1. IsFiniteSet(DOMAIN q) /\ DOMAIN q = 1..Len(q) /\ Len(q) \in Nat
  BY SeqFinite, Zenon
<1>2. DOMAIN r = 1..n /\ r[n] = e /\ \A i \in 1..Len(q) : r[i] = q[i]
  BY <1>1, AppendProperties, LenProperties
<1>3. n \notin A /\ B = IF e \in S THEN A \cup {n} ELSE A
  <2>1. 1..n = 1..Len(q) \cup {n} /\ n \notin 1..Len(q)
    BY <1>1
  <2> HIDE DEF r, n
  <2> QED
    BY <1>1, <1>2, <2>1 DEF Places
<1> HIDE DEF r, n
<1>4. IsFiniteSet(A)
  BY <1>1, CountFacts, Zenon
<1> HIDE DEF A, B
<1>5. Cardinality(A) \in Nat /\ Cardinality(A \cup {n}) = Cardinality(A) + 1
  BY <1>3, <1>4, FS_CardinalityType, FS_AddElement, Zenon
<1> QED
  <2> DEFINE k == Cardinality(A)
  <2> HIDE DEF k
  <2>1. k \in Nat /\ k + 0 = k
    BY <1>5 DEF k
  <2>2. Cardinality(B) = k + In(e, S)
    BY <1>3, <1>5, <2>1 DEF In, k
  <2> QED
    BY <2>2 DEF Count, A, B, k, r

LEMMA CountTail ==
    ASSUME NEW E, NEW q \in Seq(E), q # <<>>, NEW S
    PROVE  Count(q, S) = Count(Tail(q), S) + In(Head(q), S)
<1> DEFINE t == Tail(q)
           A == Places(q, S) \ {1}
           B == Places(t, S)
           shift == [i \in B |-> i + 1]
<1>1. DOMAIN q = 1..Len(q) /\ Len(q) \in Nat /\ 1 \in DOMAIN q /\ q[1] = Head(q)
  BY LenProperties, EmptySeq, HeadTailProperties
<1>2. t \in Seq(E) /\ DOMAIN t = 1..(Len(q) - 1) /\ \A i \in 1..(Len(q) - 1) : t[i] = q[i + 1]
  BY HeadTailProperties, LenProperties
<1> HIDE DEF t
<1>3. IsFiniteSet(B)
  BY <1>2, SeqFinite, CountFacts, Zenon
<1>4. shift \in Bijection(B, A)
  <2>1. \A i \in B : i \in Nat /\ i + 1 \in A
    BY <1>1, <1>2 DEF Places
  <2>2. \A j \in A : j - 1 \in B /\ (j - 1) + 1 = j
    BY <1>1, <1>2 DEF Places
  <2> HIDE DEF A, B
  <2>3. shift \in [B -> A]
    BY <2>1
  <2>4. \A i, j \in B : shift[i] = shift[j] => i = j
    BY <2>1
  <2>5. \A j \in A : \E i \in B : shift[i] = j
    BY <2>2
  <2> QED
    BY <2>3, <2>4, <2>5 DEF Bijection, Injection, Surjection, IsInjective
<1>5. IsFiniteSet(A) /\ Cardinality(A) = Cardinality(B)
  <2>1. ExistsBijection(B, A)
    BY <1>4 DEF ExistsBijection
  <2> HIDE DEF A, B
  <2> QED
    BY <1>3, <2>1, FS_Bijection, Zenon
<1>6. 1 \notin A /\ Places(q, S) = IF Head(q) \in S THEN A \cup {1} ELSE A
  BY <1>1 DEF Places
<1>7. Cardinality(A) \in Nat /\ Cardinality(A \cup {1}) = Cardinality(A) + 1
  <2> HIDE DEF A
  <2> QED
    BY <1>5, <1>6, FS_CardinalityType, FS_AddElement, Zenon
<1> QED
  <2> DEFINE k == Cardinality(A)
  <2> HIDE DEF k, A, B
  <2>1. k \in Nat /\ k + 0 = k
    BY <1>7 DEF k
  <2>2. Cardinality(Places(q, S)) = k + In(Head(q), S)
    BY <1>6, <1>7, <2>1 DEF In, k
  <2> QED
    BY <1>5, <2>2 DEF Count, B, k, t

LEMMA CountEmpty == ASSUME NEW S PROVE Count(<<>>, S) = 0
<1>1. Places(<<>>, S) = {}
  BY DEF Places
<1> QED
  BY <1>1, FS_EmptySet DEF Count
-----------------------------------------------------------------------------
(***************************************************************************)
(* The owners and the readers of every argument at once: a tally counts    *)
(* the places that name an argument, and each way to change a component    *)
(* adds the arguments it names, or takes them away.                        *)
(***************************************************************************)
Tally(f, S) == [p \in ValParams |-> Count(f, S[p])]

(* The value u names the argument a, and no other.                          *)
Marks(S, u, a) == \A p \in ValParams : u \in S[p] <=> a = p

LEMMA TallyType ==
    ASSUME NEW f, IsFiniteSet(DOMAIN f), NEW S
    PROVE  Tally(f, S) \in Counts
<1>1. \A p \in ValParams : Count(f, S[p]) \in Nat
  BY CountFacts, Zenon
<1> QED
  BY <1>1 DEF Tally, Counts

LEMMA TallySet ==
    ASSUME NEW f, IsFiniteSet(DOMAIN f), NEW S, NEW x \in DOMAIN f, NEW v,
           NEW a, NEW b, Marks(S, f[x], a), Marks(S, v, b)
    PROVE  Plus(Tally(Put(f, x, v), S), a) = Plus(Tally(f, S), b)
<1>1. ASSUME NEW p \in ValParams
      PROVE  Count(Put(f, x, v), S[p]) + One(a, p) = Count(f, S[p]) + One(b, p)
  <2>1. Count(Put(f, x, v), S[p]) + In(f[x], S[p]) = Count(f, S[p]) + In(v, S[p])
    BY CountSet
  <2>2. In(f[x], S[p]) = One(a, p) /\ In(v, S[p]) = One(b, p)
    BY DEF In, One, Marks
  <2> QED
    BY <2>1, <2>2
<1> QED
  BY <1>1 DEF Plus, Tally

LEMMA TallyMore ==
    ASSUME NEW E, NEW q \in Seq(E), NEW e \in E, NEW S, NEW a,
           Marks(S, e, a)
    PROVE  Tally(Append(q, e), S) = Plus(Tally(q, S), a)
<1>1. ASSUME NEW p \in ValParams
      PROVE  Count(Append(q, e), S[p]) = Count(q, S[p]) + One(a, p)
  <2>1. Count(Append(q, e), S[p]) = Count(q, S[p]) + In(e, S[p])
    BY CountMore, Zenon
  <2>2. In(e, S[p]) = One(a, p)
    BY DEF In, One, Marks
  <2> QED
    BY <2>1, <2>2
<1> QED
  BY <1>1 DEF Plus, Tally

LEMMA TallyTail ==
    ASSUME NEW E, NEW q \in Seq(E), q # <<>>, NEW S, NEW a,
           Marks(S, Head(q), a)
    PROVE  Tally(q, S) = Plus(Tally(Tail(q), S), a)
<1>1. ASSUME NEW p \in ValParams
      PROVE  Count(q, S[p]) = Count(Tail(q), S[p]) + One(a, p)
  <2>1. Count(q, S[p]) = Count(Tail(q), S[p]) + In(Head(q), S[p])
    BY CountTail, Zenon
  <2>2. In(Head(q), S[p]) = One(a, p)
    BY DEF In, One, Marks
  <2> QED
    BY <2>1, <2>2
<1> QED
  BY <1>1 DEF Plus, Tally

LEMMA TallyEmpty == ASSUME NEW S, NEW p \in ValParams PROVE Tally(<<>>, S)[p] = 0
BY CountEmpty DEF Tally

LEMMA PlusCancel ==
    ASSUME NEW o \in Counts, NEW u \in Counts, NEW a, Plus(o, a) = Plus(u, a)
    PROVE  o = u
<1>1. ASSUME NEW p \in ValParams PROVE o[p] = u[p]
  <2>1. /\ o[p] \in Nat /\ u[p] \in Nat /\ One(a, p) \in Nat
        /\ Plus(o, a)[p] = o[p] + One(a, p) /\ Plus(u, a)[p] = u[p] + One(a, p)
    BY DEF Counts, One, Plus
  <2> QED
    BY <2>1
<1> QED
  BY <1>1 DEF Counts

Sum(o, u) == [p \in ValParams |-> o[p] + u[p]]

LEMMA SumType ==
    ASSUME NEW o \in Counts, NEW u \in Counts
    PROVE  /\ Sum(o, u) \in Counts
           /\ \A p \in ValParams : Sum(o, u)[p] = o[p] + u[p]
BY DEF Sum, Counts

LEMMA SumPlus ==
    ASSUME NEW o \in Counts, NEW u \in Counts, NEW a
    PROVE  /\ Sum(Plus(o, a), u) = Plus(Sum(o, u), a)
           /\ Sum(o, Plus(u, a)) = Plus(Sum(o, u), a)
<1>1. ASSUME NEW p \in ValParams
      PROVE  /\ (o[p] + One(a, p)) + u[p] = (o[p] + u[p]) + One(a, p)
             /\ o[p] + (u[p] + One(a, p)) = (o[p] + u[p]) + One(a, p)
  <2>1. One(a, p) \in Nat /\ o[p] \in Nat /\ u[p] \in Nat
    BY DEF One, Counts
  <2> QED
    BY <2>1
<1> QED
  BY <1>1 DEF Sum, Plus

Messages == [to : Sessions, pfx : Maybe(ValParams), arg : Maybe(ValParams)]

ByPfx      == [p \in ValParams |-> {m \in Messages : m.pfx = p}]
ByArg      == [p \in ValParams |-> {m \in Messages : m.arg = p}]
ByRequest  == [p \in ValParams |-> {r \in Requests : r.arg = p}]
ByWatch    == [p \in ValParams |-> {W \in SUBSET Maybe(ValParams) : p \in W}]
ByPrefix   == [p \in ValParams |-> {r \in Shares : r.prefix = p}]
ByHeld     == [p \in ValParams |-> {f \in Frame : f.held = p}]
ByOwned    == [p \in ValParams |-> {f \in Frame : f.owned = p}]
ByLeadPfx  == [p \in ValParams |-> {f \in Frame : f.kind = "post" /\ f.pfx = p}]
ByLeadArg  == [p \in ValParams |-> {f \in Frame : f.kind = "post" /\ f.arg = p}]
ByLockPfx  == [p \in ValParams |-> {f \in Frame : LockedPfx(f) = p}]
ByLockArg  == [p \in ValParams |-> {f \in Frame : LockedArg(f) = p}]

(* What a value of each component names.                                    *)
ArgOf(v)    == IF v = None THEN None ELSE v.arg
PrefixOf(v) == IF v = None THEN None ELSE v.prefix
Watched(W)  == IF W = {} THEN None ELSE CHOOSE a \in W : TRUE
LeadPfx(f)  == IF f.kind = "post" THEN f.pfx ELSE None
LeadArg(f)  == IF f.kind = "post" THEN f.arg ELSE None

OwnedInQueue(q) == Sum(Tally(q, ByPfx), Tally(q, ByArg))
OwnedInEvents(al, w, m) == Sum(Tally(al, ByRequest), Sum(Tally(w, ByWatch), Tally(m, ByPrefix)))
OwnedInHandlers(s) == Sum(Tally(s, ByHeld), Tally(s, ByOwned))
OwnedInStack(s) == Sum(OwnedInHandlers(s), Sum(Tally(s, ByLeadPfx), Tally(s, ByLeadArg)))

(* How many own each argument, and how many have it locked.                 *)
Own(q, al, w, m, s) == Sum(Sum(OwnedInQueue(q), OwnedInEvents(al, w, m)), OwnedInStack(s))
Lock(s) == Sum(Tally(s, ByLockPfx), Tally(s, ByLockArg))

Watchers == {W \in SUBSET Maybe(ValParams) : W = {} \/ \E a \in Maybe(ValParams) : W = {a}}

LEMMA NoneApart ==
    ASSUME ParamsAssumption
    PROVE  /\ None \notin ValParams /\ None \notin Requests /\ None \notin Shares
           /\ None \notin Sessions /\ None \notin Alarms /\ None \notin Impls
           /\ IsFiniteSet(Alarms) /\ IsFiniteSet(Sessions) /\ IsFiniteSet(Impls) /\ IsFiniteSet(Handles)
BY DEF ParamsAssumption

LEMMA Names ==
    ASSUME ParamsAssumption
    PROVE  /\ \A m \in Messages : Marks(ByPfx, m, m.pfx) /\ Marks(ByArg, m, m.arg)
           /\ \A v \in Maybe(Requests) : Marks(ByRequest, v, ArgOf(v))
           /\ \A v \in Maybe(Shares) : Marks(ByPrefix, v, PrefixOf(v))
           /\ \A W \in Watchers : Marks(ByWatch, W, Watched(W))
<1>1. \A m \in Messages : Marks(ByPfx, m, m.pfx) /\ Marks(ByArg, m, m.arg)
  BY DEF ByPfx, ByArg, Marks
<1>2. \A v \in Maybe(Requests) : Marks(ByRequest, v, ArgOf(v))
  BY NoneApart DEF ByRequest, ArgOf, Maybe, Marks
<1>3. \A v \in Maybe(Shares) : Marks(ByPrefix, v, PrefixOf(v))
  BY NoneApart DEF ByPrefix, PrefixOf, Maybe, Marks
<1>4. ASSUME NEW W \in Watchers, NEW p \in ValParams PROVE W \in ByWatch[p] <=> Watched(W) = p
  <2>1. W \in ByWatch[p] <=> p \in W
    BY DEF ByWatch, Watchers
  <2>2. CASE W = {}
    BY <2>1, <2>2, NoneApart DEF Watched
  <2>3. CASE \E a \in Maybe(ValParams) : W = {a}
    BY <2>1, <2>3 DEF Watched
  <2> QED
    BY <2>2, <2>3 DEF Watchers
<1> QED
  BY <1>1, <1>2, <1>3, <1>4 DEF Marks

LEMMA NamesFrame ==
    ASSUME ParamsAssumption, NEW f \in Frame
    PROVE  /\ Marks(ByHeld, f, f.held) /\ Marks(ByOwned, f, f.owned)
           /\ Marks(ByLeadPfx, f, LeadPfx(f)) /\ Marks(ByLeadArg, f, LeadArg(f))
           /\ Marks(ByLockPfx, f, LockedPfx(f)) /\ Marks(ByLockArg, f, LockedArg(f))
<1>1. Marks(ByHeld, f, f.held) /\ Marks(ByOwned, f, f.owned)
  BY DEF ByHeld, ByOwned, Marks
<1>2. Marks(ByLeadPfx, f, LeadPfx(f)) /\ Marks(ByLeadArg, f, LeadArg(f))
  BY NoneApart DEF ByLeadPfx, ByLeadArg, LeadPfx, LeadArg, Marks
<1>3. Marks(ByLockPfx, f, LockedPfx(f)) /\ Marks(ByLockArg, f, LockedArg(f))
  BY DEF ByLockPfx, ByLockArg, Marks
<1> QED
  BY <1>1, <1>2, <1>3
-----------------------------------------------------------------------------
(***************************************************************************)
(* Each way to change a component, and the owners and readers it gives or  *)
(* takes.                                                                  *)
(***************************************************************************)
Typed(q, al, w, m, s) ==
    /\ q \in Seq(Messages)
    /\ al \in [Alarms -> Maybe(Requests)]
    /\ w \in [Sessions -> Watchers]
    /\ m \in [Impls -> Maybe(Shares)]
    /\ s \in Seq(Frame)

LEMMA QueueType ==
    ASSUME NEW q \in Seq(Messages)
    PROVE  /\ Tally(q, ByPfx) \in Counts /\ Tally(q, ByArg) \in Counts
           /\ OwnedInQueue(q) \in Counts
<1>1. IsFiniteSet(DOMAIN q)
  BY SeqFinite, Zenon
<1> QED
  BY <1>1, TallyType, SumType, Zenon DEF OwnedInQueue

LEMMA EventsType ==
    ASSUME ParamsAssumption, NEW al \in [Alarms -> Maybe(Requests)],
           NEW w \in [Sessions -> Watchers], NEW m \in [Impls -> Maybe(Shares)]
    PROVE  /\ Tally(al, ByRequest) \in Counts /\ Tally(w, ByWatch) \in Counts
           /\ Tally(m, ByPrefix) \in Counts
           /\ Sum(Tally(w, ByWatch), Tally(m, ByPrefix)) \in Counts
           /\ OwnedInEvents(al, w, m) \in Counts
<1>1. IsFiniteSet(DOMAIN al) /\ IsFiniteSet(DOMAIN w) /\ IsFiniteSet(DOMAIN m)
  BY NoneApart
<1>2. /\ Tally(al, ByRequest) \in Counts /\ Tally(w, ByWatch) \in Counts
      /\ Tally(m, ByPrefix) \in Counts
  BY <1>1, TallyType, Zenon
<1>3. Sum(Tally(w, ByWatch), Tally(m, ByPrefix)) \in Counts
  BY <1>2, SumType, Zenon
<1> QED
  BY <1>2, <1>3, SumType, Zenon DEF OwnedInEvents

LEMMA StackType ==
    ASSUME NEW s \in Seq(Frame)
    PROVE  /\ Tally(s, ByHeld) \in Counts /\ Tally(s, ByOwned) \in Counts
           /\ Tally(s, ByLeadPfx) \in Counts /\ Tally(s, ByLeadArg) \in Counts
           /\ Tally(s, ByLockPfx) \in Counts /\ Tally(s, ByLockArg) \in Counts
           /\ OwnedInHandlers(s) \in Counts
           /\ Sum(Tally(s, ByLeadPfx), Tally(s, ByLeadArg)) \in Counts
           /\ OwnedInStack(s) \in Counts /\ Lock(s) \in Counts
<1>1. IsFiniteSet(DOMAIN s)
  BY SeqFinite, Zenon
<1>2. /\ Tally(s, ByHeld) \in Counts /\ Tally(s, ByOwned) \in Counts
      /\ Tally(s, ByLeadPfx) \in Counts /\ Tally(s, ByLeadArg) \in Counts
      /\ Tally(s, ByLockPfx) \in Counts /\ Tally(s, ByLockArg) \in Counts
  BY <1>1, TallyType, Zenon
<1>3. OwnedInHandlers(s) \in Counts /\ Lock(s) \in Counts
  BY <1>2, SumType, Zenon DEF OwnedInHandlers, Lock
<1>4. Sum(Tally(s, ByLeadPfx), Tally(s, ByLeadArg)) \in Counts
  BY <1>2, SumType, Zenon
<1>5. OwnedInStack(s) \in Counts
  BY <1>3, <1>4, SumType, Zenon DEF OwnedInStack
<1> QED
  BY <1>2, <1>3, <1>4, <1>5

LEMMA OwnType ==
    ASSUME ParamsAssumption, NEW q, NEW al, NEW w, NEW m, NEW s, Typed(q, al, w, m, s)
    PROVE  /\ OwnedInQueue(q) \in Counts /\ OwnedInEvents(al, w, m) \in Counts
           /\ Sum(OwnedInQueue(q), OwnedInEvents(al, w, m)) \in Counts
           /\ OwnedInStack(s) \in Counts
           /\ Own(q, al, w, m, s) \in Counts /\ Lock(s) \in Counts
<1>1. /\ OwnedInQueue(q) \in Counts /\ OwnedInEvents(al, w, m) \in Counts
      /\ OwnedInStack(s) \in Counts /\ Lock(s) \in Counts
  BY QueueType, EventsType, StackType, Zenon DEF Typed
<1>2. Sum(OwnedInQueue(q), OwnedInEvents(al, w, m)) \in Counts
  BY <1>1, SumType, Zenon
<1> QED
  BY <1>1, <1>2, SumType, Zenon DEF Own

LEMMA ThreeMore ==
    ASSUME NEW x \in Counts, NEW y \in Counts, NEW z \in Counts, NEW a
    PROVE  /\ Sum(Sum(Plus(x, a), y), z) = Plus(Sum(Sum(x, y), z), a)
           /\ Sum(Sum(x, Plus(y, a)), z) = Plus(Sum(Sum(x, y), z), a)
           /\ Sum(Sum(x, y), Plus(z, a)) = Plus(Sum(Sum(x, y), z), a)
<1>1. Sum(x, y) \in Counts
  BY SumType, Zenon
<1>2. Sum(Plus(x, a), y) = Plus(Sum(x, y), a) /\ Sum(x, Plus(y, a)) = Plus(Sum(x, y), a)
  BY SumPlus, Zenon
<1>3. /\ Sum(Plus(Sum(x, y), a), z) = Plus(Sum(Sum(x, y), z), a)
      /\ Sum(Sum(x, y), Plus(z, a)) = Plus(Sum(Sum(x, y), z), a)
  BY <1>1, SumPlus, Zenon
<1> QED
  BY <1>2, <1>3

LEMMA TwoMore ==
    ASSUME NEW o \in Counts, NEW u \in Counts, NEW a, NEW b
    PROVE  Sum(Plus(o, a), Plus(u, b)) = Plus(Plus(Sum(o, u), a), b)
<1>1. Plus(o, a) \in Counts
  BY PlusFacts, Zenon
<1>2. Plus(Sum(Plus(o, a), u), b) = Sum(Plus(o, a), Plus(u, b))
  BY <1>1, SumPlus, Zenon
<1>3. Plus(Sum(o, u), a) = Sum(Plus(o, a), u)
  BY SumPlus, Zenon
<1> QED
  BY <1>2, <1>3, Zenon

(* The arguments that one part names are those that the whole does.         *)
LEMMA OwnQueue ==
    ASSUME ParamsAssumption, NEW q, NEW al, NEW w, NEW m, NEW s, Typed(q, al, w, m, s),
           NEW r, NEW a, NEW b, OwnedInQueue(r) = Plus(Plus(OwnedInQueue(q), a), b)
    PROVE  Own(r, al, w, m, s) = Plus(Plus(Own(q, al, w, m, s), a), b)
<1> DEFINE x == OwnedInQueue(q)
           y == OwnedInEvents(al, w, m)
           z == OwnedInStack(s)
<1>1. x \in Counts /\ y \in Counts /\ z \in Counts
  BY OwnType
<1> HIDE DEF x, y, z
<1>2. Plus(x, a) \in Counts
  BY <1>1, PlusFacts, Zenon
<1>3. Sum(Sum(Plus(Plus(x, a), b), y), z) = Plus(Sum(Sum(Plus(x, a), y), z), b)
  BY ONLY <1>1, <1>2, ThreeMore
<1>4. Sum(Sum(Plus(x, a), y), z) = Plus(Sum(Sum(x, y), z), a)
  BY ONLY <1>1, ThreeMore
<1> QED
  BY <1>3, <1>4 DEF Own, x, y, z

LEMMA OwnEvents ==
    ASSUME ParamsAssumption, NEW q, NEW al, NEW w, NEW m, NEW s, Typed(q, al, w, m, s),
           NEW al2, NEW w2, NEW m2, Typed(q, al2, w2, m2, s), NEW a, NEW b,
           Plus(OwnedInEvents(al2, w2, m2), a) = Plus(OwnedInEvents(al, w, m), b)
    PROVE  Plus(Own(q, al2, w2, m2, s), a) = Plus(Own(q, al, w, m, s), b)
<1> DEFINE x == OwnedInQueue(q)
           y == OwnedInEvents(al, w, m)
           u == OwnedInEvents(al2, w2, m2)
           z == OwnedInStack(s)
<1>1. x \in Counts /\ y \in Counts /\ z \in Counts /\ u \in Counts
  BY OwnType
<1>2. Plus(u, a) = Plus(y, b)
  OBVIOUS
<1> HIDE DEF x, y, z, u
<1>3. Sum(Sum(x, Plus(u, a)), z) = Plus(Sum(Sum(x, u), z), a)
  BY ONLY <1>1, ThreeMore
<1>4. Sum(Sum(x, Plus(y, b)), z) = Plus(Sum(Sum(x, y), z), b)
  BY ONLY <1>1, ThreeMore
<1> QED
  BY <1>2, <1>3, <1>4 DEF Own, x, y, z, u

LEMMA OwnStack ==
    ASSUME ParamsAssumption, NEW q, NEW al, NEW w, NEW m, NEW s, Typed(q, al, w, m, s),
           NEW s2, Typed(q, al, w, m, s2), NEW a, NEW b,
           Plus(OwnedInStack(s2), a) = Plus(OwnedInStack(s), b)
    PROVE  Plus(Own(q, al, w, m, s2), a) = Plus(Own(q, al, w, m, s), b)
<1> DEFINE x == OwnedInQueue(q)
           y == OwnedInEvents(al, w, m)
           z == OwnedInStack(s)
           u == OwnedInStack(s2)
<1>1. Sum(x, y) \in Counts /\ z \in Counts /\ u \in Counts
  BY OwnType
<1>2. Plus(u, a) = Plus(z, b)
  OBVIOUS
<1> HIDE DEF x, y, z, u
<1>3. Sum(Sum(x, y), Plus(u, a)) = Plus(Sum(Sum(x, y), u), a)
  BY ONLY <1>1, SumPlus
<1>4. Sum(Sum(x, y), Plus(z, b)) = Plus(Sum(Sum(x, y), z), b)
  BY ONLY <1>1, SumPlus
<1> QED
  BY <1>2, <1>3, <1>4 DEF Own, x, y, z, u

LEMMA OwnQueueMore ==
    ASSUME ParamsAssumption, NEW q, NEW al, NEW w, NEW m, NEW s, Typed(q, al, w, m, s),
           NEW e \in Messages
    PROVE  /\ Typed(Append(q, e), al, w, m, s)
           /\ Own(Append(q, e), al, w, m, s) = Plus(Plus(Own(q, al, w, m, s), e.pfx), e.arg)
<1> DEFINE r == Append(q, e)
<1>0. ParamsAssumption /\ Typed(q, al, w, m, s)
  OBVIOUS
<1>1. Typed(r, al, w, m, s) /\ q \in Seq(Messages)
  BY AppendProperties DEF Typed
<1>2. Marks(ByPfx, e, e.pfx) /\ Marks(ByArg, e, e.arg)
  BY Names
<1>3. Tally(r, ByPfx) = Plus(Tally(q, ByPfx), e.pfx) /\ Tally(r, ByArg) = Plus(Tally(q, ByArg), e.arg)
  BY <1>1, <1>2, TallyMore
<1> HIDE DEF r
<1>4. OwnedInQueue(r) = Plus(Plus(OwnedInQueue(q), e.pfx), e.arg)
  <2>1. Tally(q, ByPfx) \in Counts /\ Tally(q, ByArg) \in Counts
    BY <1>1, QueueType
  <2>2. Sum(Plus(Tally(q, ByPfx), e.pfx), Plus(Tally(q, ByArg), e.arg))
          = Plus(Plus(Sum(Tally(q, ByPfx), Tally(q, ByArg)), e.pfx), e.arg)
    BY ONLY <2>1, TwoMore
  <2> QED
    BY <1>3, <2>2 DEF OwnedInQueue
<1>5. Own(r, al, w, m, s) = Plus(Plus(Own(q, al, w, m, s), e.pfx), e.arg)
  BY ONLY <1>0, <1>4, OwnQueue
<1> QED
  BY <1>1, <1>5 DEF r

LEMMA OwnQueueTail ==
    ASSUME ParamsAssumption, NEW q, NEW al, NEW w, NEW m, NEW s, Typed(q, al, w, m, s), q # <<>>
    PROVE  /\ Typed(Tail(q), al, w, m, s) /\ Head(q) \in Messages
           /\ Own(q, al, w, m, s)
                = Plus(Plus(Own(Tail(q), al, w, m, s), Head(q).pfx), Head(q).arg)
<1> DEFINE e == Head(q)
           r == Tail(q)
<1>0. ParamsAssumption /\ Typed(q, al, w, m, s)
  OBVIOUS
<1>1. Typed(r, al, w, m, s) /\ q \in Seq(Messages) /\ e \in Messages /\ r \in Seq(Messages)
  BY HeadTailProperties DEF Typed
<1>2. Marks(ByPfx, e, e.pfx) /\ Marks(ByArg, e, e.arg)
  BY <1>1, Names
<1>3. Tally(q, ByPfx) = Plus(Tally(r, ByPfx), e.pfx) /\ Tally(q, ByArg) = Plus(Tally(r, ByArg), e.arg)
  BY <1>1, <1>2, TallyTail
<1> HIDE DEF e, r
<1>4. OwnedInQueue(q) = Plus(Plus(OwnedInQueue(r), e.pfx), e.arg)
  <2>1. Tally(r, ByPfx) \in Counts /\ Tally(r, ByArg) \in Counts
    BY <1>1, QueueType
  <2>2. Sum(Plus(Tally(r, ByPfx), e.pfx), Plus(Tally(r, ByArg), e.arg))
          = Plus(Plus(Sum(Tally(r, ByPfx), Tally(r, ByArg)), e.pfx), e.arg)
    BY ONLY <2>1, TwoMore
  <2> QED
    BY <1>3, <2>2 DEF OwnedInQueue
<1>5. Own(q, al, w, m, s) = Plus(Plus(Own(r, al, w, m, s), e.pfx), e.arg)
  BY ONLY <1>0, <1>1, <1>4, OwnQueue
<1> QED
  BY <1>1, <1>5 DEF e, r

LEMMA OwnAlarm ==
    ASSUME ParamsAssumption, NEW q, NEW al, NEW w, NEW m, NEW s, Typed(q, al, w, m, s),
           NEW x \in Alarms, NEW v \in Maybe(Requests)
    PROVE  /\ Typed(q, Put(al, x, v), w, m, s)
           /\ Plus(Own(q, Put(al, x, v), w, m, s), ArgOf(al[x]))
                = Plus(Own(q, al, w, m, s), ArgOf(v))
<1> DEFINE al2 == [al EXCEPT ![x] = v]
<1>0. ParamsAssumption /\ Typed(q, al, w, m, s)
  OBVIOUS
<1>1. /\ Typed(q, al2, w, m, s) /\ DOMAIN al = Alarms /\ al2 = Put(al, x, v)
      /\ x \in DOMAIN al /\ al[x] \in Maybe(Requests)
  BY DEF Typed, Put
<1>2. IsFiniteSet(DOMAIN al)
  BY <1>1, NoneApart
<1> HIDE DEF al2
<1>3. Plus(Tally(al2, ByRequest), ArgOf(al[x])) = Plus(Tally(al, ByRequest), ArgOf(v))
  <2>1. Marks(ByRequest, al[x], ArgOf(al[x])) /\ Marks(ByRequest, v, ArgOf(v))
    BY <1>1, Names
  <2> QED
    BY ONLY <1>1, <1>2, <2>1, TallySet
<1>4. Plus(OwnedInEvents(al2, w, m), ArgOf(al[x])) = Plus(OwnedInEvents(al, w, m), ArgOf(v))
  <2>1. Tally(al, ByRequest) \in Counts /\ Tally(al2, ByRequest) \in Counts /\ Sum(Tally(w, ByWatch), Tally(m, ByPrefix)) \in Counts
    BY <1>1, EventsType DEF Typed
  <2>2. /\ Sum(Plus(Tally(al2, ByRequest), ArgOf(al[x])), Sum(Tally(w, ByWatch), Tally(m, ByPrefix)))
             = Plus(Sum(Tally(al2, ByRequest), Sum(Tally(w, ByWatch), Tally(m, ByPrefix))), ArgOf(al[x]))
        /\ Sum(Plus(Tally(al, ByRequest), ArgOf(v)), Sum(Tally(w, ByWatch), Tally(m, ByPrefix)))
             = Plus(Sum(Tally(al, ByRequest), Sum(Tally(w, ByWatch), Tally(m, ByPrefix))), ArgOf(v))
    BY ONLY <2>1, SumPlus
  <2> QED
    BY <1>3, <2>2 DEF OwnedInEvents
<1>5. Plus(Own(q, al2, w, m, s), ArgOf(al[x])) = Plus(Own(q, al, w, m, s), ArgOf(v))
  BY ONLY <1>0, <1>1, <1>4, OwnEvents
<1> QED
  BY <1>1, <1>5

LEMMA OwnWatcher ==
    ASSUME ParamsAssumption, NEW q, NEW al, NEW w, NEW m, NEW s, Typed(q, al, w, m, s),
           NEW x \in Sessions, NEW v \in Watchers
    PROVE  /\ Typed(q, al, Put(w, x, v), m, s)
           /\ Plus(Own(q, al, Put(w, x, v), m, s), Watched(w[x]))
                = Plus(Own(q, al, w, m, s), Watched(v))
<1> DEFINE w2 == [w EXCEPT ![x] = v]
<1>0. ParamsAssumption /\ Typed(q, al, w, m, s)
  OBVIOUS
<1>1. /\ Typed(q, al, w2, m, s) /\ DOMAIN w = Sessions /\ w2 = Put(w, x, v)
      /\ x \in DOMAIN w /\ w[x] \in Watchers
  BY DEF Typed, Put
<1>2. IsFiniteSet(DOMAIN w)
  BY <1>1, NoneApart
<1> HIDE DEF w2
<1>3. Plus(Tally(w2, ByWatch), Watched(w[x])) = Plus(Tally(w, ByWatch), Watched(v))
  <2>1. Marks(ByWatch, w[x], Watched(w[x])) /\ Marks(ByWatch, v, Watched(v))
    BY <1>1, Names
  <2> QED
    BY ONLY <1>1, <1>2, <2>1, TallySet
<1>4. Plus(OwnedInEvents(al, w2, m), Watched(w[x])) = Plus(OwnedInEvents(al, w, m), Watched(v))
  <2>1. Tally(w, ByWatch) \in Counts /\ Tally(w2, ByWatch) \in Counts /\ Tally(m, ByPrefix) \in Counts
    BY <1>1, EventsType DEF Typed
  <2>2. /\ Sum(Plus(Tally(w2, ByWatch), Watched(w[x])), Tally(m, ByPrefix)) = Plus(Sum(Tally(w2, ByWatch), Tally(m, ByPrefix)), Watched(w[x]))
        /\ Sum(Plus(Tally(w, ByWatch), Watched(v)), Tally(m, ByPrefix)) = Plus(Sum(Tally(w, ByWatch), Tally(m, ByPrefix)), Watched(v))
    BY ONLY <2>1, SumPlus
  <2>3. /\ Tally(al, ByRequest) \in Counts
        /\ Sum(Tally(w2, ByWatch), Tally(m, ByPrefix)) \in Counts /\ Sum(Tally(w, ByWatch), Tally(m, ByPrefix)) \in Counts
    BY <1>1, EventsType DEF Typed
  <2>4. /\ Sum(Tally(al, ByRequest), Plus(Sum(Tally(w2, ByWatch), Tally(m, ByPrefix)), Watched(w[x])))
             = Plus(Sum(Tally(al, ByRequest), Sum(Tally(w2, ByWatch), Tally(m, ByPrefix))), Watched(w[x]))
        /\ Sum(Tally(al, ByRequest), Plus(Sum(Tally(w, ByWatch), Tally(m, ByPrefix)), Watched(v)))
             = Plus(Sum(Tally(al, ByRequest), Sum(Tally(w, ByWatch), Tally(m, ByPrefix))), Watched(v))
    BY ONLY <2>3, SumPlus
  <2> QED
    BY <1>3, <2>2, <2>4 DEF OwnedInEvents
<1>5. Plus(Own(q, al, w2, m, s), Watched(w[x])) = Plus(Own(q, al, w, m, s), Watched(v))
  BY ONLY <1>0, <1>1, <1>4, OwnEvents
<1> QED
  BY <1>1, <1>5

LEMMA OwnImpl ==
    ASSUME ParamsAssumption, NEW q, NEW al, NEW w, NEW m, NEW s, Typed(q, al, w, m, s),
           NEW x \in Impls, NEW v \in Maybe(Shares)
    PROVE  /\ Typed(q, al, w, Put(m, x, v), s)
           /\ Plus(Own(q, al, w, Put(m, x, v), s), PrefixOf(m[x]))
                = Plus(Own(q, al, w, m, s), PrefixOf(v))
<1> DEFINE m2 == [m EXCEPT ![x] = v]
<1>0. ParamsAssumption /\ Typed(q, al, w, m, s)
  OBVIOUS
<1>1. /\ Typed(q, al, w, m2, s) /\ DOMAIN m = Impls /\ m2 = Put(m, x, v)
      /\ x \in DOMAIN m /\ m[x] \in Maybe(Shares)
  BY DEF Typed, Put
<1>2. IsFiniteSet(DOMAIN m)
  BY <1>1, NoneApart
<1> HIDE DEF m2
<1>3. Plus(Tally(m2, ByPrefix), PrefixOf(m[x])) = Plus(Tally(m, ByPrefix), PrefixOf(v))
  <2>1. Marks(ByPrefix, m[x], PrefixOf(m[x])) /\ Marks(ByPrefix, v, PrefixOf(v))
    BY <1>1, Names
  <2> QED
    BY ONLY <1>1, <1>2, <2>1, TallySet
<1>4. Plus(OwnedInEvents(al, w, m2), PrefixOf(m[x])) = Plus(OwnedInEvents(al, w, m), PrefixOf(v))
  <2>1. Tally(m, ByPrefix) \in Counts /\ Tally(m2, ByPrefix) \in Counts /\ Tally(w, ByWatch) \in Counts
    BY <1>1, EventsType DEF Typed
  <2>2. /\ Sum(Tally(w, ByWatch), Plus(Tally(m2, ByPrefix), PrefixOf(m[x]))) = Plus(Sum(Tally(w, ByWatch), Tally(m2, ByPrefix)), PrefixOf(m[x]))
        /\ Sum(Tally(w, ByWatch), Plus(Tally(m, ByPrefix), PrefixOf(v))) = Plus(Sum(Tally(w, ByWatch), Tally(m, ByPrefix)), PrefixOf(v))
    BY ONLY <2>1, SumPlus
  <2>3. /\ Tally(al, ByRequest) \in Counts
        /\ Sum(Tally(w, ByWatch), Tally(m2, ByPrefix)) \in Counts /\ Sum(Tally(w, ByWatch), Tally(m, ByPrefix)) \in Counts
    BY <1>1, EventsType DEF Typed
  <2>4. /\ Sum(Tally(al, ByRequest), Plus(Sum(Tally(w, ByWatch), Tally(m2, ByPrefix)), PrefixOf(m[x])))
             = Plus(Sum(Tally(al, ByRequest), Sum(Tally(w, ByWatch), Tally(m2, ByPrefix))), PrefixOf(m[x]))
        /\ Sum(Tally(al, ByRequest), Plus(Sum(Tally(w, ByWatch), Tally(m, ByPrefix)), PrefixOf(v)))
             = Plus(Sum(Tally(al, ByRequest), Sum(Tally(w, ByWatch), Tally(m, ByPrefix))), PrefixOf(v))
    BY ONLY <2>3, SumPlus
  <2> QED
    BY <1>3, <2>2, <2>4 DEF OwnedInEvents
<1>5. Plus(Own(q, al, w, m2, s), PrefixOf(m[x])) = Plus(Own(q, al, w, m, s), PrefixOf(v))
  BY ONLY <1>0, <1>1, <1>4, OwnEvents
<1> QED
  BY <1>1, <1>5

(* What a frame owns and reads while it is on the stack.                    *)
Pushed(o, f)     == Plus(Plus(Plus(Plus(o, LeadPfx(f)), LeadArg(f)), f.owned), f.held)
PushedLock(l, f) == Plus(Plus(l, LockedPfx(f)), LockedArg(f))

LEMMA PushedType ==
    ASSUME NEW o \in Counts, NEW f
    PROVE  Pushed(o, f) \in Counts /\ PushedLock(o, f) \in Counts
<1>1. \A u \in Counts : \A a : Plus(u, a) \in Counts
  BY PlusFacts
<1> QED
  BY <1>1 DEF Pushed, PushedLock

LEMMA StackMore ==
    ASSUME ParamsAssumption, NEW s \in Seq(Frame), NEW f \in Frame
    PROVE  /\ Append(s, f) \in Seq(Frame)
           /\ OwnedInHandlers(Append(s, f)) = Plus(Plus(OwnedInHandlers(s), f.owned), f.held)
           /\ OwnedInStack(Append(s, f)) = Pushed(OwnedInStack(s), f)
           /\ Lock(Append(s, f)) = PushedLock(Lock(s), f)
<1> DEFINE t == Append(s, f)
<1>1. t \in Seq(Frame) /\ s \in Seq(Frame) /\ f \in Frame
  BY AppendProperties
<1>2. /\ Marks(ByHeld, f, f.held) /\ Marks(ByOwned, f, f.owned)
      /\ Marks(ByLeadPfx, f, LeadPfx(f)) /\ Marks(ByLeadArg, f, LeadArg(f))
      /\ Marks(ByLockPfx, f, LockedPfx(f)) /\ Marks(ByLockArg, f, LockedArg(f))
  BY NamesFrame
<1>3. ASSUME NEW S, NEW a, Marks(S, f, a) PROVE Tally(t, S) = Plus(Tally(s, S), a)
  BY ONLY <1>1, <1>3, TallyMore
<1>4. /\ Tally(t, ByHeld) = Plus(Tally(s, ByHeld), f.held)
      /\ Tally(t, ByOwned) = Plus(Tally(s, ByOwned), f.owned)
      /\ Tally(t, ByLeadPfx) = Plus(Tally(s, ByLeadPfx), LeadPfx(f))
      /\ Tally(t, ByLeadArg) = Plus(Tally(s, ByLeadArg), LeadArg(f))
      /\ Tally(t, ByLockPfx) = Plus(Tally(s, ByLockPfx), LockedPfx(f))
      /\ Tally(t, ByLockArg) = Plus(Tally(s, ByLockArg), LockedArg(f))
  BY ONLY <1>2, <1>3
<1> HIDE DEF t
<1>5. /\ Tally(s, ByHeld) \in Counts /\ Tally(s, ByOwned) \in Counts
      /\ Tally(s, ByLeadPfx) \in Counts /\ Tally(s, ByLeadArg) \in Counts
      /\ Tally(s, ByLockPfx) \in Counts /\ Tally(s, ByLockArg) \in Counts
      /\ OwnedInHandlers(s) \in Counts
      /\ Sum(Tally(s, ByLeadPfx), Tally(s, ByLeadArg)) \in Counts
  BY ONLY <1>1, StackType
<1>6. OwnedInHandlers(t) = Plus(Plus(OwnedInHandlers(s), f.owned), f.held)
  <2>1. Sum(Plus(Tally(s, ByHeld), f.held), Plus(Tally(s, ByOwned), f.owned))
          = Plus(Plus(Sum(Tally(s, ByHeld), Tally(s, ByOwned)), f.held), f.owned)
    BY ONLY <1>5, TwoMore
  <2>2. Plus(Plus(OwnedInHandlers(s), f.held), f.owned) = Plus(Plus(OwnedInHandlers(s), f.owned), f.held)
    BY ONLY <1>5, PlusSwap
  <2> QED
    BY ONLY <1>4, <2>1, <2>2 DEF OwnedInHandlers
<1>7. Lock(t) = PushedLock(Lock(s), f)
  <2>1. Sum(Plus(Tally(s, ByLockPfx), LockedPfx(f)), Plus(Tally(s, ByLockArg), LockedArg(f)))
          = Plus(Plus(Sum(Tally(s, ByLockPfx), Tally(s, ByLockArg)), LockedPfx(f)), LockedArg(f))
    BY ONLY <1>5, TwoMore
  <2> QED
    BY ONLY <1>4, <2>1 DEF Lock, PushedLock
<1>8. OwnedInStack(t) = Pushed(OwnedInStack(s), f)
  <2> DEFINE h == OwnedInHandlers(s)
             c == Sum(Tally(s, ByLeadPfx), Tally(s, ByLeadArg))
  <2>1. Sum(Plus(Tally(s, ByLeadPfx), LeadPfx(f)), Plus(Tally(s, ByLeadArg), LeadArg(f)))
          = Plus(Plus(c, LeadPfx(f)), LeadArg(f))
    BY ONLY <1>5, TwoMore DEF c
  <2>2. OwnedInStack(t) = Sum(Plus(Plus(h, f.owned), f.held), Plus(Plus(c, LeadPfx(f)), LeadArg(f)))
    BY ONLY <1>4, <1>6, <2>1 DEF OwnedInStack, h
  <2>3. OwnedInStack(s) = Sum(h, c)
    BY DEF OwnedInStack
  <2>4. h \in Counts /\ c \in Counts
    BY <1>5
  <2> HIDE DEF h, c
  <2>5. \A u \in Counts : \A a : Plus(u, a) \in Counts
    BY ONLY PlusFacts
  <2>6. Plus(h, f.owned) \in Counts /\ Plus(c, LeadPfx(f)) \in Counts
        /\ Plus(Plus(c, LeadPfx(f)), LeadArg(f)) \in Counts /\ Sum(h, c) \in Counts
    BY ONLY <2>4, <2>5, SumType
  <2>7. Sum(Plus(Plus(h, f.owned), f.held), Plus(Plus(c, LeadPfx(f)), LeadArg(f)))
          = Plus(Plus(Sum(h, Plus(Plus(c, LeadPfx(f)), LeadArg(f))), f.owned), f.held)
    <3>1. Sum(Plus(Plus(h, f.owned), f.held), Plus(Plus(c, LeadPfx(f)), LeadArg(f)))
            = Plus(Sum(Plus(h, f.owned), Plus(Plus(c, LeadPfx(f)), LeadArg(f))), f.held)
      BY ONLY <2>6, SumPlus
    <3>2. Sum(Plus(h, f.owned), Plus(Plus(c, LeadPfx(f)), LeadArg(f)))
            = Plus(Sum(h, Plus(Plus(c, LeadPfx(f)), LeadArg(f))), f.owned)
      BY ONLY <2>4, <2>6, SumPlus
    <3> QED
      BY ONLY <3>1, <3>2
  <2>8. Sum(h, Plus(Plus(c, LeadPfx(f)), LeadArg(f))) = Plus(Plus(Sum(h, c), LeadPfx(f)), LeadArg(f))
    <3>1. Sum(h, Plus(Plus(c, LeadPfx(f)), LeadArg(f))) = Plus(Sum(h, Plus(c, LeadPfx(f))), LeadArg(f))
      BY ONLY <2>4, <2>6, SumPlus
    <3>2. Sum(h, Plus(c, LeadPfx(f))) = Plus(Sum(h, c), LeadPfx(f))
      BY ONLY <2>4, SumPlus
    <3> QED
      BY ONLY <3>1, <3>2
  <2> QED
    BY ONLY <2>2, <2>3, <2>7, <2>8 DEF Pushed
<1> QED
  BY <1>1, <1>6, <1>7, <1>8 DEF t

LEMMA OwnStackMore ==
    ASSUME ParamsAssumption, NEW q, NEW al, NEW w, NEW m, NEW s, Typed(q, al, w, m, s), NEW f \in Frame
    PROVE  /\ Typed(q, al, w, m, Append(s, f))
           /\ Own(q, al, w, m, Append(s, f)) = Pushed(Own(q, al, w, m, s), f)
           /\ Lock(Append(s, f)) = PushedLock(Lock(s), f)
           /\ OwnedInHandlers(Append(s, f)) = Plus(Plus(OwnedInHandlers(s), f.owned), f.held)
<1> DEFINE t == Append(s, f)
<1>1. s \in Seq(Frame)
  BY DEF Typed
<1>2. /\ t \in Seq(Frame)
      /\ OwnedInHandlers(t) = Plus(Plus(OwnedInHandlers(s), f.owned), f.held)
      /\ OwnedInStack(t) = Pushed(OwnedInStack(s), f)
      /\ Lock(t) = PushedLock(Lock(s), f)
  BY <1>1, StackMore
<1>3. Typed(q, al, w, m, t)
  BY <1>2 DEF Typed
<1> DEFINE x == Sum(OwnedInQueue(q), OwnedInEvents(al, w, m))
           z == OwnedInStack(s)
           a == LeadPfx(f)
           b == LeadArg(f)
           c == f.owned
           d == f.held
<1>4. x \in Counts /\ z \in Counts
  BY OwnType
<1>5. Own(q, al, w, m, t) = Sum(x, Plus(Plus(Plus(Plus(z, a), b), c), d))
  BY <1>2 DEF Own, Pushed
<1>6. Own(q, al, w, m, s) = Sum(x, z)
  BY DEF Own
<1>7. Pushed(Own(q, al, w, m, s), f) = Plus(Plus(Plus(Plus(Sum(x, z), a), b), c), d)
  BY <1>6 DEF Pushed
<1> HIDE DEF x, z, a, b, c, d, t
<1>8. /\ Plus(z, a) \in Counts /\ Plus(Plus(z, a), b) \in Counts /\ Plus(Plus(Plus(z, a), b), c) \in Counts
  <2>1. \A u \in Counts : \A e : Plus(u, e) \in Counts
    BY ONLY PlusFacts
  <2> QED
    BY ONLY <1>4, <2>1
<1>9. ASSUME NEW u \in Counts, NEW e PROVE Sum(x, Plus(u, e)) = Plus(Sum(x, u), e)
  BY ONLY <1>4, <1>9, SumPlus
<1>10. Sum(x, Plus(Plus(Plus(Plus(z, a), b), c), d)) = Plus(Plus(Plus(Plus(Sum(x, z), a), b), c), d)
  BY ONLY <1>4, <1>8, <1>9
<1> QED
  BY <1>2, <1>3, <1>5, <1>7, <1>10 DEF t

LEMMA OwnNothing ==
    ASSUME ParamsAssumption, NEW p \in ValParams
    PROVE  /\ Lock(<<>>)[p] = 0 /\ OwnedInHandlers(<<>>)[p] = 0 /\ OwnedInStack(<<>>)[p] = 0
           /\ OwnedInQueue(<<>>)[p] = 0
<1>1. \A S : Tally(<<>>, S)[p] = 0
  BY TallyEmpty
<1> QED
  BY <1>1 DEF Lock, OwnedInHandlers, OwnedInStack, OwnedInQueue, Sum
-----------------------------------------------------------------------------
(***************************************************************************)
(* Contexts: what entering and leaving one does to the ledger.             *)
(***************************************************************************)
Named(f) == /\ f.pfx \in Maybe(ValParams) /\ f.arg \in Maybe(ValParams)
            /\ f.owned \in Maybe(ValParams) /\ f.held \in Maybe(ValParams)

LEMMA NamedType ==
    ASSUME NEW f, Named(f)
    PROVE  /\ LockedPfx(f) \in Maybe(ValParams) /\ LockedArg(f) \in Maybe(ValParams)
           /\ LeadPfx(f) \in Maybe(ValParams) /\ LeadArg(f) \in Maybe(ValParams)
BY DEF Named, LockedPfx, LockedArg, LeadPfx, LeadArg, Maybe

LEMMA OwnedIsLive ==
    ASSUME NEW h, NEW o, NEW l, Account(h, o, l), NEW p \in ValParams
    PROVE  /\ o[p] # 0 => h[p].state = "live" /\ o[p] = 1
           /\ h[p] \in Cell /\ h[p].state # "broken"
BY DEF Account, Good

LEMMA LockedOwned ==
    ASSUME None \notin ValParams,
           NEW h, NEW o \in Counts, NEW l \in Counts, NEW p \in Maybe(ValParams),
           p # None => o[p] # 0, Account(h, o, l)
    PROVE  Account(Locked(h, p), o, Plus(l, p))
<1>1. p # None => h[p].state = "live"
  BY OwnedIsLive DEF Maybe
<1> QED
  BY <1>1, AccountLocked

LEMMA LocksAccount ==
    ASSUME None \notin ValParams,
           NEW h, NEW o \in Counts, NEW l \in Counts, NEW f, Named(f),
           \A p \in {LockedPfx(f), LockedArg(f)} \ {None} : o[p] # 0, Account(h, o, l)
    PROVE  Account(Locks(h, f), o, PushedLock(l, f))
<1> DEFINE a == LockedPfx(f)
           b == LockedArg(f)
<1>1. a \in Maybe(ValParams) /\ b \in Maybe(ValParams)
  BY NamedType
<1>2. (a # None => o[a] # 0) /\ (b # None => o[b] # 0)
  OBVIOUS
<1>3. None \notin ValParams /\ o \in Counts /\ l \in Counts /\ Account(h, o, l)
  OBVIOUS
<1> HIDE DEF a, b
<1>4. Account(Locked(h, a), o, Plus(l, a)) /\ Plus(l, a) \in Counts
  BY ONLY <1>1, <1>2, <1>3, LockedOwned, PlusFacts
<1>5. Account(Locked(Locked(h, a), b), o, Plus(Plus(l, a), b))
  BY ONLY <1>1, <1>2, <1>3, <1>4, LockedOwned
<1> QED
  BY <1>5 DEF Locks, PushedLock, a, b

LEMMA UnlocksAccount ==
    ASSUME None \notin ValParams,
           NEW h, NEW o \in Counts, NEW l \in Counts, NEW f, Named(f),
           Account(h, o, PushedLock(l, f))
    PROVE  Account(Unlocks(h, f), o, l)
<1> DEFINE a == LockedPfx(f)
           b == LockedArg(f)
<1>1. a \in Maybe(ValParams) /\ b \in Maybe(ValParams)
  BY NamedType
<1>2. None \notin ValParams /\ o \in Counts /\ l \in Counts
  OBVIOUS
<1>3. Account(h, o, Plus(Plus(l, a), b))
  BY DEF PushedLock
<1> HIDE DEF a, b
<1>4. Plus(Plus(l, a), b) = Plus(Plus(l, b), a) /\ Plus(l, b) \in Counts
  BY ONLY <1>2, PlusSwap, PlusFacts
<1>5. Account(Unlocked(h, a), o, Plus(l, b))
  BY ONLY <1>1, <1>2, <1>3, <1>4, AccountUnlocked
<1>6. Account(Unlocked(Unlocked(h, a), b), o, l)
  BY ONLY <1>1, <1>2, <1>5, AccountUnlocked
<1> QED
  BY <1>6 DEF Unlocks, a, b

LEMMA NothingPushed ==
    ASSUME None \notin ValParams, NEW o \in Counts
    PROVE  Plus(o, None) = o
BY PlusFacts

LEMMA LessLock ==
    ASSUME NEW l \in Counts, NEW f, NEW p \in ValParams, PushedLock(l, f)[p] = 0
    PROVE  l[p] = 0 /\ LockedPfx(f) # p /\ LockedArg(f) # p
<1>1. PushedLock(l, f)[p] = (l[p] + One(LockedPfx(f), p)) + One(LockedArg(f), p)
  BY DEF PushedLock, Plus
<1>2. l[p] \in Nat /\ One(LockedPfx(f), p) \in Nat /\ One(LockedArg(f), p) \in Nat
  BY DEF Counts, One
<1>3. l[p] = 0 /\ One(LockedPfx(f), p) = 0 /\ One(LockedArg(f), p) = 0
  BY <1>1, <1>2
<1> QED
  BY <1>3 DEF One

LEMMA ReturnAccount ==
    ASSUME None \notin ValParams,
           NEW h, NEW o \in Counts, NEW l \in Counts, NEW f, Named(f), NEW a \in Maybe(ValParams),
           f.kind = "alarm" \/ a = None,
           f.kind \in {"post", "alarm"} => f.owned = None,
           \A p \in {f.held, f.owned} \ {None} : PushedLock(l, f)[p] = 0,
           Account(h, Pushed(Plus(o, a), f), PushedLock(l, f))
    PROVE  Account(AtReturn(h, f, a), o, l)
<1> DEFINE o1 == Plus(o, a)
           o2 == Plus(Plus(o1, LeadPfx(f)), LeadArg(f))
           o3 == Plus(o2, f.owned)
           L  == PushedLock(l, f)
           d  == Deleted(h, f.held)
           u  == Unlocks(d, f)
<1>0. None \notin ValParams /\ o \in Counts /\ l \in Counts /\ Named(f) /\ a \in Maybe(ValParams)
  OBVIOUS
<1>1. \A e \in Counts : \A b : Plus(e, b) \in Counts
  BY PlusFacts
<1>2. /\ o1 \in Counts /\ o2 \in Counts /\ o3 \in Counts /\ L \in Counts
      /\ Plus(o1, LeadPfx(f)) \in Counts
  BY <1>0, <1>1, PushedType
<1>3. /\ f.held \in Maybe(ValParams) /\ f.owned \in Maybe(ValParams)
      /\ f.pfx \in Maybe(ValParams) /\ f.arg \in Maybe(ValParams)
      /\ LeadPfx(f) \in Maybe(ValParams) /\ LeadArg(f) \in Maybe(ValParams)
  BY NamedType DEF Named
<1>4. /\ f.held # None => L[f.held] = 0
      /\ f.owned # None => L[f.owned] = 0
  OBVIOUS
<1>5. Account(h, Plus(o3, f.held), L)
  BY DEF Pushed
<1>6. f.owned # None => l[f.owned] = 0
  BY <1>3, <1>4, LessLock DEF Maybe
<1>7. AtReturn(h, f, a) = CASE f.kind = "post"  -> Destroyed(Destroyed(u, f.pfx), f.arg)
                            [] f.kind = "alarm" -> Destroyed(u, a)
                            [] OTHER            -> Deleted(u, f.owned)
  BY DEF AtReturn
<1>8. u = Unlocks(d, f) /\ d = Deleted(h, f.held) /\ L = PushedLock(l, f)
  OBVIOUS
<1>9. /\ o1 = Plus(o, a) /\ o2 = Plus(Plus(o1, LeadPfx(f)), LeadArg(f)) /\ o3 = Plus(o2, f.owned)
      /\ f.kind \in {"post", "alarm"} => f.owned = None
      /\ f.kind = "alarm" \/ a = None
  OBVIOUS
<1> HIDE DEF o1, o2, o3, L, d, u
<1>10. Account(d, o3, L)
  BY ONLY <1>0, <1>2, <1>3, <1>4, <1>5, <1>8, AccountDeleted
<1>11. Account(u, o3, l)
  BY ONLY <1>0, <1>2, <1>8, <1>10, UnlocksAccount
<1>12. CASE f.kind = "post"
  <2>1. LeadPfx(f) = f.pfx /\ LeadArg(f) = f.arg
    BY <1>12 DEF LeadPfx, LeadArg
  <2>2. o1 = o /\ o3 = o2
    BY ONLY <1>0, <1>2, <1>9, <1>12, NothingPushed
  <2>3. o2 = Plus(Plus(o, f.arg), f.pfx) /\ Plus(o, f.arg) \in Counts
    BY ONLY <1>0, <1>1, <1>9, <2>1, <2>2, PlusSwap
  <2>4. Account(Destroyed(u, f.pfx), Plus(o, f.arg), l)
    BY ONLY <1>0, <1>3, <1>11, <2>2, <2>3, AccountDestroyed
  <2>5. Account(Destroyed(Destroyed(u, f.pfx), f.arg), o, l)
    BY ONLY <1>0, <1>3, <2>4, AccountDestroyed
  <2> QED
    BY <1>7, <1>12, <2>5
<1>13. CASE f.kind = "alarm"
  <2>1. LeadPfx(f) = None /\ LeadArg(f) = None /\ f.owned = None
    BY <1>9, <1>13 DEF LeadPfx, LeadArg
  <2>2. o3 = o1
    BY ONLY <1>0, <1>2, <1>9, <2>1, NothingPushed
  <2>3. Account(Destroyed(u, a), o, l)
    BY ONLY <1>0, <1>9, <1>11, <2>2, AccountDestroyed
  <2>4. f.kind # "post"
    BY <1>13
  <2> QED
    BY <1>7, <1>13, <2>3, <2>4
<1>14. CASE f.kind \notin {"post", "alarm"}
  <2>1. LeadPfx(f) = None /\ LeadArg(f) = None /\ a = None
    BY <1>9, <1>14 DEF LeadPfx, LeadArg
  <2>2. o1 = o /\ o2 = o
    BY ONLY <1>0, <1>2, <1>9, <2>1, NothingPushed
  <2>3. Account(Deleted(u, f.owned), o, l)
    BY ONLY <1>0, <1>3, <1>6, <1>9, <1>11, <2>2, AccountDeleted
  <2> QED
    BY <1>7, <1>14, <2>3
<1> QED
  BY <1>12, <1>13, <1>14
-----------------------------------------------------------------------------
(***************************************************************************)
(* The books: the ledger balances, and no handler or call holds an         *)
(* argument that somebody reads.                                           *)
(***************************************************************************)
Apart(s) == \A p \in ValParams : OwnedInHandlers(s)[p] # 0 => Lock(s)[p] = 0

Books(h, q, al, w, m, s) ==
    /\ Typed(q, al, w, m, s)
    /\ Account(h, Own(q, al, w, m, s), Lock(s))
    /\ Apart(s)

LEMMA TopFrame ==
    ASSUME NEW s \in Seq(Frame), s # <<>>
    PROVE  /\ Front(s) \in Seq(Frame) /\ Last(s) \in Frame
           /\ s = Append(Front(s), Last(s)) /\ Len(Front(s)) = Len(s) - 1 /\ Len(s) \in Nat \ {0}
           /\ \A d \in 1..(Len(s) - 1) : Front(s)[d] = s[d]
           /\ s[Len(s)] = Last(s)
<1>1. Len(s) \in Nat \ {0} /\ \A i \in 1..Len(s) : s[i] \in Frame
  BY EmptySeq, ElementOfSeq
<1>2. /\ Front(s) \in Seq(Frame) /\ Len(Front(s)) = Len(s) - 1
      /\ \A d \in 1..(Len(s) - 1) : Front(s)[d] = s[d]
  <2> DEFINE n == Len(s) - 1
  <2>1. n \in Nat /\ 1..n \subseteq 1..Len(s) /\ \A i \in 1..n : s[i] \in Frame
    BY <1>1
  <2>2. Front(s) = SubSeq(s, 1, n)
    BY DEF Front
  <2> HIDE DEF n
  <2>3. /\ SubSeq(s, 1, n) \in Seq(Frame) /\ Len(SubSeq(s, 1, n)) = n
        /\ \A i \in 1..n : SubSeq(s, 1, n)[i] = s[i]
    BY <2>1, SubSeqProperties
  <2> QED
    BY <2>2, <2>3 DEF n
<1>3. s[Len(s)] = Last(s) /\ Last(s) \in Frame
  BY <1>1 DEF Last
<1>4. s = Append(Front(s), Last(s))
  <2> DEFINE t == Append(Front(s), Last(s))
  <2>1. t \in Seq(Frame) /\ Len(t) = Len(s) /\ t[Len(s)] = Last(s)
        /\ \A d \in 1..(Len(s) - 1) : t[d] = Front(s)[d]
    BY <1>1, <1>2, <1>3, AppendProperties
  <2>2. \A d \in 1..Len(s) : s[d] = t[d]
    BY <1>1, <1>2, <1>3, <2>1
  <2> HIDE DEF t
  <2>3. s = t
    BY <2>1, <2>2, SeqEqual
  <2> QED
    BY <2>3 DEF t
<1> QED
  BY <1>1, <1>2, <1>3, <1>4

LEMMA TopHeld ==
    ASSUME NEW s \in Seq(Frame), s # <<>>, NEW v \in Maybe(ValParams)
    PROVE  /\ [Last(s) EXCEPT !.held = v] \in Frame
           /\ [s EXCEPT ![Len(s)].held = v] = Append(Front(s), [Last(s) EXCEPT !.held = v])
           /\ [s EXCEPT ![Len(s)].held = v] \in Seq(Frame)
<1> DEFINE f == Last(s)
           g == [f EXCEPT !.held = v]
           t == [s EXCEPT ![Len(s)].held = v]
           u == Append(Front(s), g)
<1>1. /\ Front(s) \in Seq(Frame) /\ f \in Frame /\ Len(Front(s)) = Len(s) - 1
      /\ Len(s) \in Nat \ {0} /\ s[Len(s)] = f
      /\ \A d \in 1..(Len(s) - 1) : Front(s)[d] = s[d]
  BY TopFrame
<1>2. g \in Frame
  BY <1>1 DEF Frame
<1>3. t = [s EXCEPT ![Len(s)] = g]
  BY <1>1
<1> HIDE DEF f, g
<1>4. /\ t \in Seq(Frame) /\ Len(t) = Len(s)
      /\ \A j \in 1..Len(s) : t[j] = IF j = Len(s) THEN g ELSE s[j]
  BY <1>1, <1>2, <1>3, ExceptSeq
<1>5. u \in Seq(Frame) /\ Len(u) = Len(s) /\ u[Len(s)] = g
      /\ \A d \in 1..(Len(s) - 1) : u[d] = Front(s)[d]
  BY <1>1, <1>2, AppendProperties
<1>6. \A d \in 1..Len(s) : t[d] = u[d]
  BY <1>1, <1>4, <1>5
<1> HIDE DEF t, u
<1>7. t = u
  BY <1>4, <1>5, <1>6, SeqEqual
<1> QED
  BY <1>2, <1>4, <1>7 DEF f, g, t, u

LEMMA FrameFields ==
    ASSUME NEW f \in Frame, NEW v \in Maybe(ValParams)
    PROVE  LET g == [f EXCEPT !.held = v]
           IN  /\ g.of = f.of /\ g.kind = f.kind /\ g.pfx = f.pfx /\ g.arg = f.arg
               /\ g.owned = f.owned /\ g.takes = f.takes /\ g.held = v
               /\ LeadPfx(g) = LeadPfx(f) /\ LeadArg(g) = LeadArg(f)
               /\ LockedPfx(g) = LockedPfx(f) /\ LockedArg(g) = LockedArg(f)
BY DEF Frame, LeadPfx, LeadArg, LockedPfx, LockedArg

(* One handler takes hold of another argument, or of none.                  *)
Holding(s, v) == [s EXCEPT ![Len(s)].held = v]

LEMMA HeldBooks ==
    ASSUME ParamsAssumption, NEW q, NEW al, NEW w, NEW m, NEW s, Typed(q, al, w, m, s),
           s # <<>>, NEW v \in Maybe(ValParams), NEW t, t = Holding(s, v)
    PROVE  /\ Typed(q, al, w, m, t) /\ t # <<>> /\ Len(t) = Len(s)
           /\ Plus(Own(q, al, w, m, t), Last(s).held) = Plus(Own(q, al, w, m, s), v)
           /\ Plus(OwnedInHandlers(t), Last(s).held) = Plus(OwnedInHandlers(s), v)
           /\ Lock(t) = Lock(s)
<1> DEFINE r == Front(s)
           f == Last(s)
           g == [f EXCEPT !.held = v]
<1>1. /\ s \in Seq(Frame) /\ r \in Seq(Frame) /\ f \in Frame /\ s = Append(r, f)
      /\ g \in Frame /\ t = Append(r, g) /\ t \in Seq(Frame)
  BY TopFrame, TopHeld DEF Typed, Holding
<1>2. t # <<>> /\ Len(t) = Len(s)
  BY <1>1, AppendProperties
<1>3. /\ LeadPfx(g) = LeadPfx(f) /\ LeadArg(g) = LeadArg(f)
      /\ LockedPfx(g) = LockedPfx(f) /\ LockedArg(g) = LockedArg(f)
      /\ g.owned = f.owned /\ g.held = v
  BY <1>1, FrameFields
<1>4. Typed(q, al, w, m, r) /\ ParamsAssumption
  BY <1>1 DEF Typed
<1> HIDE DEF r, f, g
<1>5. /\ Typed(q, al, w, m, t)
      /\ Own(q, al, w, m, t) = Pushed(Own(q, al, w, m, r), g)
      /\ Lock(t) = PushedLock(Lock(r), g)
      /\ OwnedInHandlers(t) = Plus(Plus(OwnedInHandlers(r), g.owned), g.held)
  BY ONLY <1>1, <1>4, OwnStackMore
<1>6. /\ Own(q, al, w, m, s) = Pushed(Own(q, al, w, m, r), f)
      /\ Lock(s) = PushedLock(Lock(r), f)
      /\ OwnedInHandlers(s) = Plus(Plus(OwnedInHandlers(r), f.owned), f.held)
  BY ONLY <1>1, <1>4, OwnStackMore
<1>7. Own(q, al, w, m, r) \in Counts /\ OwnedInHandlers(r) \in Counts
  BY ONLY <1>1, <1>4, OwnType, StackType
<1> DEFINE b == Plus(Plus(Plus(Own(q, al, w, m, r), LeadPfx(f)), LeadArg(f)), f.owned)
           c == Plus(OwnedInHandlers(r), f.owned)
<1>8. b \in Counts /\ c \in Counts
  <2>1. \A e \in Counts : \A a : Plus(e, a) \in Counts
    BY ONLY PlusFacts
  <2> QED
    BY ONLY <1>7, <2>1 DEF b, c
<1>9. /\ Own(q, al, w, m, t) = Plus(b, v) /\ Own(q, al, w, m, s) = Plus(b, f.held)
      /\ OwnedInHandlers(t) = Plus(c, v) /\ OwnedInHandlers(s) = Plus(c, f.held)
  BY ONLY <1>3, <1>5, <1>6 DEF Pushed, b, c
<1> HIDE DEF b, c
<1>10. /\ Plus(Plus(b, v), f.held) = Plus(Plus(b, f.held), v)
       /\ Plus(Plus(c, v), f.held) = Plus(Plus(c, f.held), v)
  BY ONLY <1>8, PlusSwap
<1>11. Lock(t) = Lock(s)
  BY ONLY <1>3, <1>5, <1>6 DEF PushedLock
<1> QED
  BY <1>2, <1>5, <1>9, <1>10, <1>11 DEF f

LEMMA GivenBooks ==
    ASSUME ParamsAssumption, NEW h, NEW q, NEW al, NEW w, NEW m, Books(h, q, al, w, m, stack),
           Running, NEW a \in Offers
    PROVE  /\ a \in Maybe(ValParams) /\ Given(a) # <<>> /\ Len(Given(a)) = Len(stack)
           /\ Typed(q, al, w, m, Given(a)) /\ Typed(q, al, w, m, stack)
           /\ Account(h, Own(q, al, w, m, stack), Lock(stack))
           /\ Own(q, al, w, m, Given(a)) \in Counts /\ Own(q, al, w, m, stack) \in Counts
           /\ Lock(stack) \in Counts
           /\ Own(q, al, w, m, stack) = Plus(Own(q, al, w, m, Given(a)), a)
           /\ OwnedInHandlers(stack) = Plus(OwnedInHandlers(Given(a)), a)
           /\ Lock(Given(a)) = Lock(stack) /\ Apart(Given(a))
           /\ a # None => Lock(stack)[a] = 0 /\ a \in ValParams
<1> DEFINE o(s) == Own(q, al, w, m, s)
           s2 == Given(a)
<1>0. ParamsAssumption /\ Typed(q, al, w, m, stack) /\ Apart(stack) /\ stack # <<>>
  BY DEF Books, Running
<1>a. Account(h, o(stack), Lock(stack))
  BY DEF Books
<1>1. stack \in Seq(Frame) /\ Last(stack) \in Frame
  BY <1>0, TopFrame DEF Typed
<1>2. a \in Maybe(ValParams) /\ None \notin ValParams
  BY <1>1, NoneApart DEF Offers, Top, Frame, Maybe
<1>3. o(stack) \in Counts /\ OwnedInHandlers(stack) \in Counts /\ Lock(stack) \in Counts
  BY <1>0, <1>1, OwnType, StackType
<1>4. CASE a = None
  <2>1. s2 = stack
    BY <1>4 DEF Given
  <2>2. o(stack) = Plus(o(stack), a) /\ OwnedInHandlers(stack) = Plus(OwnedInHandlers(stack), a)
    BY <1>2, <1>3, <1>4, NothingPushed
  <2> QED
    BY <1>0, <1>a, <1>2, <1>3, <1>4, <2>1, <2>2
<1>5. CASE a # None
  <2>1. a = Last(stack).held /\ a \in ValParams
    BY <1>2, <1>5 DEF Offers, Top, Maybe
  <2>2. s2 = Holding(stack, None) /\ None \in Maybe(ValParams)
    BY <1>5 DEF Given, Maybe, Holding
  <2> HIDE DEF s2
  <2>3. /\ Typed(q, al, w, m, s2) /\ s2 # <<>> /\ Len(s2) = Len(stack)
        /\ Plus(o(s2), a) = Plus(o(stack), None)
        /\ Plus(OwnedInHandlers(s2), a) = Plus(OwnedInHandlers(stack), None)
        /\ Lock(s2) = Lock(stack)
    BY ONLY <1>0, <2>1, <2>2, HeldBooks DEF o
  <2>4. Plus(o(s2), a) = o(stack) /\ Plus(OwnedInHandlers(s2), a) = OwnedInHandlers(stack)
    BY <1>2, <1>3, <2>3, NothingPushed
  <2>5. OwnedInHandlers(s2) \in Counts
    BY <2>3, StackType DEF Typed
  <2>9. o(s2) \in Counts
    BY ONLY <1>0, <2>3, OwnType DEF o
  <2>6. \A p \in ValParams : /\ OwnedInHandlers(stack)[p] = OwnedInHandlers(s2)[p] + One(a, p)
                             /\ OwnedInHandlers(s2)[p] \in Nat
    BY <2>4, <2>5, PlusFacts DEF Counts
  <2>7. Apart(s2)
    <3>1. \A p \in ValParams : OwnedInHandlers(s2)[p] # 0 => OwnedInHandlers(stack)[p] # 0
      BY <2>6 DEF One
    <3> QED
      BY <1>0, <2>3, <3>1 DEF Apart
  <2>8. Lock(stack)[a] = 0
    <3>1. OwnedInHandlers(stack)[a] # 0
      BY <2>1, <2>6 DEF One
    <3> QED
      BY <1>0, <2>1, <3>1 DEF Apart
  <2> QED
    BY <1>0, <1>a, <1>2, <1>3, <2>1, <2>3, <2>4, <2>7, <2>8, <2>9 DEF s2
<1> QED
  BY <1>4, <1>5
-----------------------------------------------------------------------------
(***************************************************************************)
(* Handlers: messages.                                                     *)
(***************************************************************************)
Ledger == Books(heap, queue, alarm, watcher, impl, stack)

(* An argument is made, or there is none to make.                           *)
LEMMA MaybeMade ==
    ASSUME None \notin ValParams,
           NEW h, NEW o \in Counts, NEW l \in Counts, NEW p \in Maybe(ValParams),
           p # None => h[p].state = "free", Account(h, o, l), NEW h2,
           h2 = IF p = None THEN h ELSE Made(h, p)
    PROVE  Account(h2, Plus(o, p), l)
<1>1. CASE p = None
  BY <1>1, NothingPushed
<1>2. CASE p \in ValParams
  BY <1>2, AccountMade
<1> QED
  BY <1>1, <1>2 DEF Maybe

(* A message takes over the argument that the handler gave away, and a      *)
(* prefix made for it.                                                      *)
LEMMA QueuedBooks ==
    ASSUME ParamsAssumption, NEW h, NEW q, NEW al, NEW w, NEW m, NEW s,
           Typed(q, al, w, m, s), Apart(s), NEW e \in Messages,
           Account(h, Plus(Plus(Own(q, al, w, m, s), e.pfx), e.arg), Lock(s))
    PROVE  Books(h, Append(q, e), al, w, m, s)
<1>1. /\ Typed(Append(q, e), al, w, m, s)
      /\ Own(Append(q, e), al, w, m, s) = Plus(Plus(Own(q, al, w, m, s), e.pfx), e.arg)
  BY OwnQueueMore
<1> QED
  BY <1>1 DEF Books

LEMMA HoldBooks ==
    ASSUME ParamsAssumption, Ledger, NEW p \in ValParams, Hold(p)
    PROVE  Ledger'
<1>1. /\ Typed(queue, alarm, watcher, impl, stack) /\ stack # <<>> /\ Last(stack).held = None
      /\ Account(heap, Own(queue, alarm, watcher, impl, stack), Lock(stack)) /\ Apart(stack)
      /\ heap[p].state = "free" /\ heap' = Made(heap, p)
      /\ stack' = Holding(stack, p) /\ ParamsAssumption /\ p \in Maybe(ValParams) /\ p \in ValParams
  BY DEF Ledger, Books, Hold, Running, Top, Holding, Made, Maybe
<1>2. queue' = queue /\ alarm' = alarm /\ watcher' = watcher /\ impl' = impl
  BY DEF Hold, events, handles
<1>3. /\ Own(queue, alarm, watcher, impl, stack) \in Counts /\ Lock(stack) \in Counts
      /\ None \notin ValParams
  BY ONLY <1>1, OwnType, NoneApart
<1>4. /\ Typed(queue, alarm, watcher, impl, stack')
      /\ Plus(Own(queue, alarm, watcher, impl, stack'), None) = Plus(Own(queue, alarm, watcher, impl, stack), p)
      /\ Plus(OwnedInHandlers(stack'), None) = Plus(OwnedInHandlers(stack), p)
      /\ Lock(stack') = Lock(stack)
  BY ONLY <1>1, HeldBooks
<1>5. Own(queue, alarm, watcher, impl, stack') \in Counts /\ OwnedInHandlers(stack') \in Counts
  BY ONLY <1>1, <1>4, OwnType, StackType DEF Typed
<1>6. /\ Own(queue, alarm, watcher, impl, stack') = Plus(Own(queue, alarm, watcher, impl, stack), p)
      /\ OwnedInHandlers(stack') = Plus(OwnedInHandlers(stack), p)
  BY ONLY <1>3, <1>4, <1>5, NothingPushed
<1>7. /\ Account(heap', Plus(Own(queue, alarm, watcher, impl, stack), p), Lock(stack))
      /\ Lock(stack)[p] = 0
  BY ONLY <1>1, <1>3, AccountMade
<1>8. Apart(stack')
  <2>1. OwnedInHandlers(stack) \in Counts
    BY <1>1, StackType DEF Typed
  <2>2. \A x \in ValParams : OwnedInHandlers(stack')[x] # 0 => OwnedInHandlers(stack)[x] # 0 \/ x = p
    BY <1>6, <2>1 DEF Plus, One, Counts
  <2> QED
    BY <1>1, <1>4, <1>7, <2>2 DEF Apart
<1> QED
  BY <1>2, <1>4, <1>6, <1>7, <1>8 DEF Ledger, Books

LEMMA RefuseBooks ==
    ASSUME ParamsAssumption, Ledger, Running, NEW a \in Offers, NEW failed \in BOOLEAN,
           Refuse(failed, a), UNCHANGED <<queue, alarm, watcher, impl>>
    PROVE  Ledger'
<1> DEFINE o == Own(queue, alarm, watcher, impl, Given(a))
           l == Lock(stack)
<1>1. /\ a \in Maybe(ValParams)
      /\ Typed(queue, alarm, watcher, impl, Given(a))
      /\ Account(heap, Plus(o, a), l) /\ o \in Counts /\ l \in Counts
      /\ Lock(Given(a)) = l /\ Apart(Given(a))
      /\ a # None => l[a] = 0
  BY GivenBooks DEF Ledger
<1>2. None \notin ValParams
  BY NoneApart
<1>3. heap' = (IF failed THEN Deleted(heap, a) ELSE Destroyed(heap, a)) /\ stack' = Given(a)
  BY DEF Refuse, FreedBy
<1> HIDE DEF o, l
<1>4. Account(heap', o, l)
  <2>1. Account(Deleted(heap, a), o, l)
    BY ONLY <1>1, <1>2, AccountDeleted
  <2>2. Account(Destroyed(heap, a), o, l)
    BY ONLY <1>1, <1>2, AccountDestroyed
  <2> QED
    BY <1>3, <2>1, <2>2
<1> QED
  BY <1>1, <1>3, <1>4 DEF Ledger, Books, o

(* Post and Yield.                                                          *)
LEMMA PostedBooks ==
    ASSUME ParamsAssumption, Ledger, Running, NEW a \in Offers, NEW to \in Sessions,
           Queued(to, None, a), stack' = Given(a), UNCHANGED <<heap, alarm, watcher, impl>>
    PROVE  Ledger'
<1> DEFINE o == Own(queue, alarm, watcher, impl, Given(a))
           e == [to |-> to, pfx |-> None, arg |-> a]
<1>1. /\ a \in Maybe(ValParams)
      /\ Typed(queue, alarm, watcher, impl, Given(a))
      /\ Account(heap, Plus(o, a), Lock(Given(a))) /\ o \in Counts /\ Apart(Given(a))
  BY GivenBooks DEF Ledger
<1>2. None \notin ValParams /\ ParamsAssumption
  BY NoneApart
<1>3. e \in Messages /\ e.pfx = None /\ e.arg = a
  BY <1>1 DEF Messages, Maybe
<1>4. queue' = Append(queue, e)
  BY DEF Queued
<1> HIDE DEF e
<1>5. Account(heap, Plus(Plus(o, e.pfx), e.arg), Lock(Given(a)))
  <2>1. Plus(o, None) = o
    BY <1>1, <1>2, NothingPushed
  <2> QED
    BY <1>1, <1>3, <2>1
<1>6. Books(heap, Append(queue, e), alarm, watcher, impl, Given(a))
  BY ONLY <1>1, <1>2, <1>3, <1>5, QueuedBooks DEF o
<1> QED
  BY <1>4, <1>6 DEF Ledger

LEMMA ForwardBooks ==
    ASSUME ParamsAssumption, Ledger, Running, NEW a \in Offers, NEW to \in Sessions,
           NEW p \in Maybe(ValParams), p # None => heap[p].state = "free",
           Queued(to, p, a), stack' = Given(a),
           heap' = IF p = None THEN heap ELSE Made(heap, p),
           UNCHANGED <<alarm, watcher, impl>>
    PROVE  Ledger'
<1> DEFINE o == Own(queue, alarm, watcher, impl, Given(a))
           l == Lock(Given(a))
           e == [to |-> to, pfx |-> p, arg |-> a]
<1>1. /\ a \in Maybe(ValParams)
      /\ Typed(queue, alarm, watcher, impl, Given(a))
      /\ Account(heap, Plus(o, a), l) /\ o \in Counts /\ l \in Counts /\ Apart(Given(a))
  BY GivenBooks DEF Ledger
<1>2. None \notin ValParams /\ ParamsAssumption
  BY NoneApart
<1>3. e \in Messages /\ e.pfx = p /\ e.arg = a
  BY <1>1 DEF Messages, Maybe
<1>4. queue' = Append(queue, e)
  BY DEF Queued
<1>a. /\ p \in Maybe(ValParams)
      /\ p # None => heap[p].state = "free"
      /\ heap' = IF p = None THEN heap ELSE Made(heap, p)
  OBVIOUS
<1> HIDE DEF e, l
<1>5. Account(heap', Plus(Plus(o, e.pfx), e.arg), l)
  <2>1. Plus(o, a) \in Counts /\ Plus(Plus(o, a), p) = Plus(Plus(o, p), a)
    BY <1>1, PlusFacts, PlusSwap
  <2> HIDE DEF o
  <2>2. Account(heap', Plus(Plus(o, a), p), l)
    BY ONLY <1>1, <1>2, <1>a, <2>1, MaybeMade
  <2> QED
    BY <1>3, <2>1, <2>2
<1>6. Books(heap', Append(queue, e), alarm, watcher, impl, Given(a))
  BY ONLY <1>1, <1>2, <1>3, <1>5, QueuedBooks DEF o, l
<1> QED
  BY <1>4, <1>6 DEF Ledger

LEMMA OutsideBooks ==
    ASSUME ParamsAssumption, Ledger, NEW to \in Sessions, NEW p \in Maybe(ValParams),
           PostFromOutside(to, p)
    PROVE  Ledger'
<1> DEFINE o == Own(queue, alarm, watcher, impl, stack)
           l == Lock(stack)
           e == [to |-> to, pfx |-> None, arg |-> p]
<1>1. /\ Typed(queue, alarm, watcher, impl, stack) /\ Account(heap, o, l) /\ Apart(stack)
  BY DEF Ledger, Books
<1>2. None \notin ValParams /\ ParamsAssumption
  BY NoneApart
<1>3. o \in Counts /\ l \in Counts
  BY <1>1, OwnType
<1>4. e \in Messages /\ e.pfx = None /\ e.arg = p
  BY DEF Messages, Maybe
<1>5. /\ queue' = Append(queue, e)
      /\ p # None => heap[p].state = "free"
      /\ heap' = IF p = None THEN heap ELSE Made(heap, p)
      /\ alarm' = alarm /\ watcher' = watcher /\ impl' = impl /\ stack' = stack
      /\ p \in Maybe(ValParams)
  BY DEF PostFromOutside, Queued, handles, Made
<1> HIDE DEF o, l, e
<1>6. Account(heap', Plus(o, p), l) /\ Plus(o, None) = o
  BY ONLY <1>1, <1>2, <1>3, <1>5, MaybeMade, NothingPushed
<1>7. Account(heap', Plus(Plus(o, e.pfx), e.arg), l)
  BY <1>4, <1>6
<1>8. Books(heap', Append(queue, e), alarm, watcher, impl, stack)
  BY ONLY <1>1, <1>2, <1>4, <1>7, QueuedBooks DEF o, l
<1> QED
  BY <1>5, <1>8 DEF Ledger
-----------------------------------------------------------------------------
(***************************************************************************)
(* Handlers: callbacks and postbacks.                                      *)
(***************************************************************************)
Uses(hd, i) == Count(hd, {i})

Shared(m, hd) ==
    /\ hd \in [Handles -> Maybe(Impls)]
    /\ \A i \in Impls : Uses(hd, i) = (IF m[i] = None THEN 0 ELSE m[i].refcnt)

ImplType(m) == m \in [Impls -> Maybe(Shares)]

(* What a handle names is there, and counted.                               *)
LEMMA HandleImpl ==
    ASSUME ParamsAssumption, NEW m, ImplType(m), NEW hd, Shared(m, hd), NEW h \in Handles
    PROVE  /\ hd[h] \in Maybe(Impls)
           /\ hd[h] # None => /\ hd[h] \in Impls /\ m[hd[h]] \in Shares /\ m[hd[h]] # None
                              /\ m[hd[h]].refcnt >= 1
<1>1. hd[h] \in Maybe(Impls) /\ DOMAIN hd = Handles
  BY DEF Shared
<1>2. ASSUME hd[h] # None
      PROVE  /\ hd[h] \in Impls /\ m[hd[h]] \in Shares /\ m[hd[h]] # None
             /\ m[hd[h]].refcnt >= 1
  <2> DEFINE i == hd[h]
  <2>1. i \in Impls
    BY <1>1, <1>2 DEF Maybe
  <2>2. Uses(hd, i) >= 1
    <3>1. IsFiniteSet(DOMAIN hd) /\ h \in DOMAIN hd /\ hd[h] \in {i}
      BY <1>1, NoneApart
    <3> HIDE DEF i
    <3> QED
      BY ONLY <3>1, CountFacts DEF Uses
  <2>3. m[i] # None /\ m[i].refcnt >= 1
    <3>1. ~ (0 >= 1)
      OBVIOUS
    <3> QED
      BY <2>1, <2>2, <3>1 DEF Shared
  <2>4. m[i] \in Shares
    BY <2>1, <2>3 DEF ImplType, Maybe
  <2> QED
    BY <2>1, <2>3, <2>4
<1> QED
  BY <1>1, <1>2

LEMMA SharedPut ==
    ASSUME ParamsAssumption, NEW hd \in [Handles -> Maybe(Impls)], NEW h \in Handles,
           NEW v \in Maybe(Impls), NEW i
    PROVE  /\ Put(hd, h, v) \in [Handles -> Maybe(Impls)]
           /\ Put(hd, h, v)[h] = v /\ \A g \in Handles \ {h} : Put(hd, h, v)[g] = hd[g]
           /\ Uses(Put(hd, h, v), i) + One(hd[h], i) = Uses(hd, i) + One(v, i)
           /\ Uses(Put(hd, h, v), i) \in Nat /\ Uses(hd, i) \in Nat
<1>1. /\ Put(hd, h, v) \in [Handles -> Maybe(Impls)]
      /\ Put(hd, h, v)[h] = v /\ \A g \in Handles \ {h} : Put(hd, h, v)[g] = hd[g]
  BY DEF Put
<1>2. /\ IsFiniteSet(DOMAIN hd) /\ h \in DOMAIN hd /\ IsFiniteSet(DOMAIN Put(hd, h, v))
  BY <1>1, NoneApart
<1>3. Uses(Put(hd, h, v), i) + In(hd[h], {i}) = Uses(hd, i) + In(v, {i})
  BY ONLY <1>2, CountSet DEF Uses
<1>4. In(hd[h], {i}) = One(hd[h], i) /\ In(v, {i}) = One(v, i)
  BY DEF In, One
<1>5. Uses(Put(hd, h, v), i) \in Nat /\ Uses(hd, i) \in Nat
  BY ONLY <1>2, CountFacts DEF Uses
<1> QED
  BY <1>1, <1>3, <1>4, <1>5

LEMMA FewerFacts ==
    ASSUME ParamsAssumption, NEW m, ImplType(m), NEW x \in Impls, m[x] \in Shares, m[x].refcnt >= 1
    PROVE  /\ Fewer(m, x) = Put(m, x, Less(m[x])) /\ ImplType(Fewer(m, x))
           /\ Less(m[x]) \in Maybe(Shares)
           /\ \A i \in Impls \ {x} : Fewer(m, x)[i] = m[i]
           /\ m[x].refcnt = 1 => Fewer(m, x)[x] = None /\ Less(m[x]) = None
           /\ m[x].refcnt # 1 => /\ Fewer(m, x)[x] # None /\ Less(m[x]).prefix = m[x].prefix
                                 /\ Fewer(m, x)[x].refcnt = m[x].refcnt - 1
                                 /\ Fewer(m, x)[x] = Less(m[x])
<1>1. x # None /\ None \notin Shares
  BY NoneApart
<1>2. Fewer(m, x) = Put(m, x, Less(m[x]))
  BY <1>1 DEF Fewer, Put
<1>3. m[x].refcnt \in Nat
  BY DEF Shares
<1>4. CASE m[x].refcnt = 1
  <2>1. Less(m[x]) = None /\ None \in Maybe(Shares)
    BY <1>4 DEF Less, Maybe
  <2> QED
    BY <1>2, <1>4, <2>1 DEF Put, ImplType
<1>5. CASE m[x].refcnt # 1
  <2>1. Less(m[x]) = [m[x] EXCEPT !.refcnt = @ - 1] /\ m[x].refcnt - 1 \in Nat
    BY <1>3, <1>5 DEF Less
  <2>2. /\ Less(m[x]) \in Shares /\ Less(m[x]).prefix = m[x].prefix
        /\ Less(m[x]).refcnt = m[x].refcnt - 1
    BY <2>1 DEF Shares
  <2>3. Less(m[x]) # None /\ Less(m[x]) \in Maybe(Shares)
    BY <1>1, <2>2 DEF Maybe
  <2> QED
    BY <1>2, <1>5, <2>2, <2>3 DEF Put, ImplType
<1> QED
  BY <1>4, <1>5

LEMMA MoreFacts ==
    ASSUME ParamsAssumption, NEW m, ImplType(m), NEW x \in Impls, m[x] \in Shares
    PROVE  LET v == [m[x] EXCEPT !.refcnt = @ + 1]
           IN  /\ More(m, x) = Put(m, x, v) /\ ImplType(More(m, x))
               /\ v \in Shares /\ v.prefix = m[x].prefix
               /\ \A i \in Impls \ {x} : More(m, x)[i] = m[i]
               /\ More(m, x)[x] # None /\ More(m, x)[x].refcnt = m[x].refcnt + 1
<1> DEFINE v == [m[x] EXCEPT !.refcnt = @ + 1]
<1>1. x # None /\ None \notin Shares
  BY NoneApart
<1>2. m[x].refcnt \in Nat /\ v \in Shares /\ v.prefix = m[x].prefix /\ v.refcnt = m[x].refcnt + 1
  BY DEF Shares
<1>3. More(m, x) = Put(m, x, v)
  <2>1. More(m, x) = [m EXCEPT ![x].refcnt = @ + 1]
    BY <1>1 DEF More
  <2> QED
    BY <2>1 DEF Put
<1> HIDE DEF v
<1>4. ImplType(Put(m, x, v)) /\ Put(m, x, v)[x] = v /\ \A i \in Impls \ {x} : Put(m, x, v)[i] = m[i]
  BY <1>2 DEF Put, ImplType, Maybe
<1> QED
  BY <1>1, <1>2, <1>3, <1>4 DEF v

(* The handle h is given up: the impl is counted less, and the prefix goes  *)
(* with the last.                                                           *)
LEMMA FewerShared ==
    ASSUME ParamsAssumption, NEW m, ImplType(m), NEW hd, Shared(m, hd), NEW h \in Handles
    PROVE  ImplType(Fewer(m, hd[h])) /\ Shared(Fewer(m, hd[h]), Put(hd, h, None))
<1> DEFINE x == hd[h]
           hd2 == Put(hd, h, None)
<1>0. ParamsAssumption /\ h \in Handles
  OBVIOUS
<1>1. /\ x \in Maybe(Impls)
      /\ x # None => x \in Impls /\ m[x] \in Shares /\ m[x] # None /\ m[x].refcnt >= 1
  BY HandleImpl
<1>2. hd \in [Handles -> Maybe(Impls)] /\ None \in Maybe(Impls)
  BY DEF Shared, Maybe
<1>3. hd2 \in [Handles -> Maybe(Impls)]
  BY <1>2, SharedPut
<1>4. ASSUME NEW i \in Impls
      PROVE  /\ Uses(hd2, i) + One(x, i) = Uses(hd, i)
             /\ Uses(hd2, i) \in Nat /\ Uses(hd, i) \in Nat
  <2>1. /\ Uses(hd2, i) + One(x, i) = Uses(hd, i) + One(None, i)
        /\ Uses(hd2, i) \in Nat /\ Uses(hd, i) \in Nat
    BY ONLY <1>0, <1>2, SharedPut DEF hd2, x
  <2>2. One(None, i) = 0
    BY NoneApart DEF One
  <2> QED
    BY <2>1, <2>2
<1> HIDE DEF x, hd2
<1>5. CASE x = None
  <2>1. Fewer(m, x) = m
    BY <1>5 DEF Fewer
  <2>2. \A i \in Impls : One(x, i) = 0
    BY <1>5, NoneApart DEF One
  <2>3. \A i \in Impls : Uses(hd2, i) = Uses(hd, i)
    BY <1>4, <2>2
  <2> QED
    BY <1>3, <2>1, <2>3 DEF Shared, x, hd2
<1>6. CASE x # None
  <2>1. x \in Impls /\ m[x] \in Shares /\ m[x] # None /\ m[x].refcnt >= 1
    BY <1>1, <1>6
  <2>2. /\ ImplType(Fewer(m, x))
        /\ \A i \in Impls \ {x} : Fewer(m, x)[i] = m[i]
        /\ m[x].refcnt = 1 => Fewer(m, x)[x] = None
        /\ m[x].refcnt # 1 => Fewer(m, x)[x] # None /\ Fewer(m, x)[x].refcnt = m[x].refcnt - 1
    BY <2>1, FewerFacts
  <2>3. ASSUME NEW i \in Impls
        PROVE  Uses(hd2, i) = (IF Fewer(m, x)[i] = None THEN 0 ELSE Fewer(m, x)[i].refcnt)
    <3>1. Uses(hd, i) = (IF m[i] = None THEN 0 ELSE m[i].refcnt)
      BY DEF Shared
    <3>2. CASE i = x
      <4>1. One(x, i) = 1 /\ Uses(hd, i) = m[x].refcnt
        BY <2>1, <3>1, <3>2 DEF One
      <4>2. Uses(hd2, i) = m[x].refcnt - 1
        BY <1>4, <4>1
      <4>3. m[x].refcnt = 1 => m[x].refcnt - 1 = 0
        OBVIOUS
      <4> QED
        BY <2>2, <3>2, <4>2, <4>3
    <3>3. CASE i # x
      <4>1. One(x, i) = 0
        BY <3>3 DEF One
      <4>2. Uses(hd2, i) = Uses(hd, i)
        BY <1>4, <4>1
      <4> QED
        BY <2>2, <3>1, <3>3, <4>2
    <3> QED
      BY <3>2, <3>3
  <2> QED
    BY <1>3, <2>2, <2>3 DEF Shared, x, hd2
<1> QED
  BY <1>5, <1>6

(* An empty handle shares the impl v.                                       *)
LEMMA MoreShared ==
    ASSUME ParamsAssumption, NEW m, ImplType(m), NEW hd, Shared(m, hd), NEW h \in Handles,
           hd[h] = None, NEW v \in Maybe(Impls), v # None => m[v] # None
    PROVE  ImplType(More(m, v)) /\ Shared(More(m, v), Put(hd, h, v))
<1> DEFINE hd2 == Put(hd, h, v)
<1>0. ParamsAssumption /\ h \in Handles /\ hd[h] = None /\ v \in Maybe(Impls)
  OBVIOUS
<1>1. hd \in [Handles -> Maybe(Impls)]
  BY DEF Shared
<1>2. hd2 \in [Handles -> Maybe(Impls)]
  BY <1>1, SharedPut
<1>3. ASSUME NEW i \in Impls
      PROVE  /\ Uses(hd2, i) = Uses(hd, i) + One(v, i)
             /\ Uses(hd2, i) \in Nat /\ Uses(hd, i) \in Nat
  <2>1. /\ Uses(hd2, i) + One(None, i) = Uses(hd, i) + One(v, i)
        /\ Uses(hd2, i) \in Nat /\ Uses(hd, i) \in Nat
    BY ONLY <1>0, <1>1, SharedPut DEF hd2
  <2>2. One(None, i) = 0
    BY NoneApart DEF One
  <2> QED
    BY <2>1, <2>2
<1> HIDE DEF hd2
<1>4. CASE v = None
  <2>1. More(m, v) = m
    BY <1>4 DEF More
  <2>2. \A i \in Impls : One(v, i) = 0
    BY <1>4, NoneApart DEF One
  <2>3. \A i \in Impls : Uses(hd2, i) = Uses(hd, i)
    BY <1>3, <2>2
  <2> QED
    BY <1>2, <2>1, <2>3 DEF Shared, hd2
<1>5. CASE v # None
  <2>1. v \in Impls /\ m[v] \in Shares /\ m[v] # None
    BY <1>5 DEF Maybe, ImplType
  <2>2. /\ ImplType(More(m, v))
        /\ \A i \in Impls \ {v} : More(m, v)[i] = m[i]
        /\ More(m, v)[v] # None /\ More(m, v)[v].refcnt = m[v].refcnt + 1
    BY <2>1, MoreFacts
  <2>3. ASSUME NEW i \in Impls
        PROVE  Uses(hd2, i) = (IF More(m, v)[i] = None THEN 0 ELSE More(m, v)[i].refcnt)
    <3>1. Uses(hd, i) = (IF m[i] = None THEN 0 ELSE m[i].refcnt)
      BY DEF Shared
    <3>2. CASE i = v
      <4>1. One(v, i) = 1 /\ Uses(hd, i) = m[v].refcnt
        BY <2>1, <3>1, <3>2 DEF One
      <4> QED
        BY <1>3, <2>2, <3>2, <4>1
    <3>3. CASE i # v
      <4>1. One(v, i) = 0
        BY <3>3 DEF One
      <4>2. Uses(hd2, i) = Uses(hd, i)
        BY <1>3, <4>1
      <4> QED
        BY <2>2, <3>1, <3>3, <4>2
    <3> QED
      BY <3>2, <3>3
  <2> QED
    BY <1>2, <2>2, <2>3 DEF Shared, hd2
<1> QED
  BY <1>4, <1>5

LEMMA NewShared ==
    ASSUME ParamsAssumption, NEW m, ImplType(m), NEW hd, Shared(m, hd), NEW h \in Handles,
           hd[h] = None, NEW i \in Impls, m[i] = None, NEW v \in Shares, v.refcnt = 1
    PROVE  ImplType(Put(m, i, v)) /\ Shared(Put(m, i, v), Put(hd, h, i))
<1> DEFINE hd2 == Put(hd, h, i)
           m2 == Put(m, i, v)
<1>0. ParamsAssumption /\ h \in Handles /\ hd[h] = None
  OBVIOUS
<1>1. hd \in [Handles -> Maybe(Impls)] /\ i \in Maybe(Impls)
  BY DEF Shared, Maybe
<1>2. hd2 \in [Handles -> Maybe(Impls)]
  BY <1>1, SharedPut
<1>3. ASSUME NEW j \in Impls
      PROVE  /\ Uses(hd2, j) = Uses(hd, j) + One(i, j)
             /\ Uses(hd2, j) \in Nat /\ Uses(hd, j) \in Nat
  <2>1. /\ Uses(hd2, j) + One(None, j) = Uses(hd, j) + One(i, j)
        /\ Uses(hd2, j) \in Nat /\ Uses(hd, j) \in Nat
    BY ONLY <1>0, <1>1, SharedPut DEF hd2
  <2>2. One(None, j) = 0
    BY NoneApart DEF One
  <2> QED
    BY <2>1, <2>2
<1>4. ImplType(m2) /\ m2[i] = v /\ v # None /\ \A j \in Impls \ {i} : m2[j] = m[j]
  BY NoneApart DEF ImplType, Put, Maybe
<1> HIDE DEF hd2, m2
<1>5. ASSUME NEW j \in Impls
      PROVE  Uses(hd2, j) = (IF m2[j] = None THEN 0 ELSE m2[j].refcnt)
  <2>1. Uses(hd, j) = (IF m[j] = None THEN 0 ELSE m[j].refcnt)
    BY DEF Shared
  <2>2. CASE j = i
    <3>1. One(i, j) = 1 /\ Uses(hd, j) = 0
      BY <2>1, <2>2 DEF One
    <3> QED
      BY <1>3, <1>4, <2>2, <3>1
  <2>3. CASE j # i
    <3>1. One(i, j) = 0
      BY <2>3 DEF One
    <3>2. Uses(hd2, j) = Uses(hd, j)
      BY <1>3, <3>1
    <3> QED
      BY <1>4, <2>1, <2>3, <3>2
  <2> QED
    BY <2>2, <2>3
<1> QED
  BY <1>2, <1>4, <1>5 DEF Shared, hd2, m2

LEMMA DroppedBooks ==
    ASSUME ParamsAssumption, Ledger, Shared(impl, handle), NEW h \in Handles
    PROVE  Books(Dropped(heap, handle[h]), queue, alarm, watcher, Fewer(impl, handle[h]), stack)
<1> DEFINE x == handle[h]
           o == Own(queue, alarm, watcher, impl, stack)
           l == Lock(stack)
<1>1. Typed(queue, alarm, watcher, impl, stack) /\ Account(heap, o, l) /\ Apart(stack) /\ ParamsAssumption
  BY DEF Ledger, Books
<1>2. ImplType(impl) /\ None \notin ValParams
  BY <1>1, NoneApart DEF Typed, ImplType
<1>3. /\ x \in Maybe(Impls)
      /\ x # None => x \in Impls /\ impl[x] \in Shares /\ impl[x] # None /\ impl[x].refcnt >= 1
  BY <1>2, HandleImpl
<1>4. o \in Counts /\ l \in Counts
  BY <1>1, OwnType
<1> HIDE DEF x
<1>5. CASE x = None
  <2>1. Fewer(impl, x) = impl /\ Dropped(heap, x) = heap
    BY <1>5 DEF Fewer, Dropped
  <2> QED
    BY <2>1 DEF Ledger, x
<1>6. CASE x # None
  <2> DEFINE v == Less(impl[x])
             o2 == Own(queue, alarm, watcher, Fewer(impl, x), stack)
  <2>1. x \in Impls /\ impl[x] \in Shares /\ impl[x] # None /\ impl[x].refcnt >= 1
    BY <1>3, <1>6
  <2>2. /\ Fewer(impl, x) = Put(impl, x, v) /\ v \in Maybe(Shares)
        /\ impl[x].refcnt = 1 => v = None
        /\ impl[x].refcnt # 1 => v = Fewer(impl, x)[x] /\ Fewer(impl, x)[x] # None /\ v.prefix = impl[x].prefix
    BY <1>1, <1>2, <2>1, FewerFacts
  <2> HIDE DEF v
  <2>3. /\ Typed(queue, alarm, watcher, Put(impl, x, v), stack)
        /\ Plus(Own(queue, alarm, watcher, Put(impl, x, v), stack), PrefixOf(impl[x]))
             = Plus(Own(queue, alarm, watcher, impl, stack), PrefixOf(v))
    BY ONLY <1>1, <2>1, <2>2, OwnImpl
  <2>4. /\ Typed(queue, alarm, watcher, Fewer(impl, x), stack)
        /\ Plus(o2, PrefixOf(impl[x])) = Plus(o, PrefixOf(v))
    BY <2>2, <2>3 DEF o, o2
  <2>5. o2 \in Counts
    BY <1>1, <2>4, OwnType
  <2>6. PrefixOf(impl[x]) = impl[x].prefix /\ impl[x].prefix \in Maybe(ValParams)
    BY <2>1 DEF PrefixOf, Shares
  <2> HIDE DEF o, o2, l
  <2>7. CASE impl[x].refcnt = 1
    <3>1. PrefixOf(v) = None /\ Dropped(heap, x) = Destroyed(heap, impl[x].prefix)
      BY <1>6, <2>2, <2>7 DEF PrefixOf, Dropped
    <3>2. Plus(o2, impl[x].prefix) = o
      BY ONLY <1>2, <1>4, <2>4, <2>6, <3>1, NothingPushed
    <3>3. Account(Destroyed(heap, impl[x].prefix), o2, l)
      BY ONLY <1>1, <1>2, <1>4, <2>5, <2>6, <3>2, AccountDestroyed
    <3> QED
      BY <1>1, <2>4, <3>1, <3>3 DEF Books, o2, l, x
  <2>8. CASE impl[x].refcnt # 1
    <3>1. PrefixOf(v) = impl[x].prefix /\ Dropped(heap, x) = heap
      BY <1>6, <2>2, <2>8 DEF PrefixOf, Dropped
    <3>2. o2 = o
      BY ONLY <1>4, <2>4, <2>5, <2>6, <3>1, PlusCancel
    <3> QED
      BY <1>1, <2>4, <3>1, <3>2 DEF Books, o2, l, x
  <2> QED
    BY <2>7, <2>8
<1> QED
  BY <1>5, <1>6

LEMMA MoreBooks ==
    ASSUME ParamsAssumption, NEW h, NEW q, NEW al, NEW w, NEW m, NEW s, Books(h, q, al, w, m, s),
           NEW x \in Maybe(Impls), x # None => m[x] # None
    PROVE  Books(h, q, al, w, More(m, x), s)
<1>1. Typed(q, al, w, m, s) /\ Account(h, Own(q, al, w, m, s), Lock(s)) /\ Apart(s) /\ ParamsAssumption
  BY DEF Books
<1>2. CASE x = None
  BY <1>2 DEF More
<1>3. CASE x # None
  <2>1. x \in Impls /\ m[x] \in Shares /\ ImplType(m) /\ m[x] # None
    BY <1>1, <1>3 DEF Typed, Maybe, ImplType
  <2> DEFINE v == [m[x] EXCEPT !.refcnt = @ + 1]
  <2>2. More(m, x) = Put(m, x, v) /\ v \in Shares /\ v.prefix = m[x].prefix
    BY <2>1, MoreFacts
  <2> HIDE DEF v
  <2>3. PrefixOf(v) = m[x].prefix /\ PrefixOf(m[x]) = m[x].prefix /\ v \in Maybe(Shares)
    BY <2>1, <2>2, NoneApart DEF PrefixOf, Maybe
  <2>4. /\ Typed(q, al, w, Put(m, x, v), s)
        /\ Plus(Own(q, al, w, Put(m, x, v), s), PrefixOf(m[x]))
             = Plus(Own(q, al, w, m, s), PrefixOf(v))
    BY <1>1, <2>1, <2>3, OwnImpl
  <2>5. /\ Typed(q, al, w, More(m, x), s)
        /\ Plus(Own(q, al, w, More(m, x), s), m[x].prefix) = Plus(Own(q, al, w, m, s), m[x].prefix)
    BY <2>2, <2>3, <2>4
  <2>6. Own(q, al, w, More(m, x), s) \in Counts /\ Own(q, al, w, m, s) \in Counts
    BY <1>1, <2>5, OwnType
  <2>7. Own(q, al, w, More(m, x), s) = Own(q, al, w, m, s)
    BY ONLY <2>5, <2>6, PlusCancel
  <2> QED
    BY <1>1, <2>5, <2>7 DEF Books
<1> QED
  BY <1>2, <1>3

LEMMA NewBooks ==
    ASSUME ParamsAssumption, NEW h, NEW q, NEW al, NEW w, NEW m, Books(h, q, al, w, m, stack),
           Running, NEW a \in Offers, NEW x \in Impls, m[x] = None, NEW v \in Shares, v.prefix = a
    PROVE  Books(h, q, al, w, Put(m, x, v), Given(a))
<1>0. ParamsAssumption
  OBVIOUS
<1>1. /\ a \in Maybe(ValParams) /\ Typed(q, al, w, m, Given(a))
      /\ Account(h, Plus(Own(q, al, w, m, Given(a)), a), Lock(Given(a)))
      /\ Apart(Given(a))
  BY GivenBooks
<1>2. v \in Maybe(Shares) /\ PrefixOf(v) = a /\ PrefixOf(m[x]) = None /\ None \notin ValParams
  BY NoneApart DEF PrefixOf, Maybe
<1>3. /\ Typed(q, al, w, Put(m, x, v), Given(a))
      /\ Plus(Own(q, al, w, Put(m, x, v), Given(a)), PrefixOf(m[x]))
           = Plus(Own(q, al, w, m, Given(a)), PrefixOf(v))
  BY <1>1, <1>2, OwnImpl
<1>4. /\ Typed(q, al, w, Put(m, x, v), Given(a))
      /\ Plus(Own(q, al, w, Put(m, x, v), Given(a)), None) = Plus(Own(q, al, w, m, Given(a)), a)
  BY <1>2, <1>3
<1>5. Own(q, al, w, Put(m, x, v), Given(a)) \in Counts
  BY ONLY <1>0, <1>4, OwnType
<1>6. Own(q, al, w, Put(m, x, v), Given(a)) = Plus(Own(q, al, w, m, Given(a)), a)
  BY ONLY <1>2, <1>4, <1>5, NothingPushed
<1> QED
  BY <1>1, <1>4, <1>6 DEF Books

LEMMA PutPut ==
    ASSUME NEW D, NEW E, NEW f \in [D -> E], NEW x \in D, NEW u, NEW v
    PROVE  Put(Put(f, x, u), x, v) = Put(f, x, v)
BY DEF Put

(* No impl is left without a handle.                                        *)
Counted(m) == \A i \in Impls : m[i] # None => m[i].refcnt >= 1

LEMMA CountedFewer ==
    ASSUME ParamsAssumption, NEW m, ImplType(m), NEW hd, Shared(m, hd), NEW h \in Handles, Counted(m)
    PROVE  Counted(Fewer(m, hd[h]))
<1> DEFINE x == hd[h]
<1>1. x # None => x \in Impls /\ m[x] \in Shares /\ m[x] # None /\ m[x].refcnt >= 1
  BY HandleImpl
<1> HIDE DEF x
<1>2. CASE x = None
  BY <1>2 DEF Fewer, Counted, x
<1>3. CASE x # None
  <2>1. /\ \A i \in Impls \ {x} : Fewer(m, x)[i] = m[i]
        /\ m[x].refcnt = 1 => Fewer(m, x)[x] = None
        /\ m[x].refcnt # 1 => Fewer(m, x)[x].refcnt = m[x].refcnt - 1
        /\ m[x].refcnt \in Nat /\ m[x].refcnt >= 1
    BY <1>1, <1>3, FewerFacts DEF Shares
  <2>2. Fewer(m, x)[x] # None => Fewer(m, x)[x].refcnt >= 1
    BY <2>1
  <2> QED
    BY <2>1, <2>2 DEF Counted, x
<1> QED
  BY <1>2, <1>3

LEMMA CountedMore ==
    ASSUME ParamsAssumption, NEW m, ImplType(m), NEW x \in Maybe(Impls), x # None => m[x] # None, Counted(m)
    PROVE  Counted(More(m, x))
<1>1. CASE x = None
  BY <1>1 DEF More
<1>2. CASE x # None
  <2>1. x \in Impls /\ m[x] \in Shares
    BY <1>2 DEF Maybe, ImplType
  <2>2. m[x].refcnt \in Nat
    BY <2>1 DEF Shares
  <2>3. x \in Impls /\ m[x] \in Shares /\ ImplType(m)
    BY <2>1
  <2> DEFINE v == [m[x] EXCEPT !.refcnt = @ + 1]
  <2>4. More(m, x) = Put(m, x, v)
    BY <1>2 DEF More, Put
  <2>5. v.refcnt = m[x].refcnt + 1
    BY <2>1 DEF Shares
  <2> HIDE DEF v
  <2>6. /\ \A i \in Impls \ {x} : More(m, x)[i] = m[i]
        /\ More(m, x)[x].refcnt = m[x].refcnt + 1 /\ m[x].refcnt \in Nat
    BY <2>2, <2>3, <2>4, <2>5 DEF Put, ImplType
  <2>7. More(m, x)[x].refcnt >= 1
    BY <2>6
  <2> QED
    BY <2>6, <2>7 DEF Counted
<1> QED
  BY <1>1, <1>2

LEMMA CountedPut ==
    ASSUME NEW m, ImplType(m), NEW i \in Impls, NEW v \in Shares, v.refcnt = 1, Counted(m)
    PROVE  Counted(Put(m, i, v))
<1>1. Put(m, i, v)[i] = v /\ \A j \in Impls \ {i} : Put(m, i, v)[j] = m[j]
  BY DEF Put, ImplType
<1>2. v.refcnt >= 1
  OBVIOUS
<1> QED
  BY <1>1, <1>2 DEF Counted

LEMMA MakeStep ==
    ASSUME ParamsAssumption, Ledger, Shared(impl, handle), Counted(impl), NEW h \in Handles, NEW a \in Maybe(ValParams),
           Make(h, a)
    PROVE  Ledger' /\ Shared(impl', handle') /\ Counted(impl')
<1> DEFINE m == Fewer(impl, handle[h])
           hd == Put(handle, h, None)
           v == [prefix |-> a, target |-> Current, refcnt |-> 1]
<1>1. PICK i \in Impls : /\ impl[i] = None
                         /\ impl' = [m EXCEPT ![i] = v]
                         /\ handle' = [handle EXCEPT ![h] = i]
  BY DEF Make
<1>2. /\ Running /\ a \in Offers /\ heap' = Dropped(heap, handle[h]) /\ stack' = Given(a)
      /\ queue' = queue /\ alarm' = alarm /\ watcher' = watcher
  BY DEF Make, events
<1>3. ImplType(impl) /\ stack \in Seq(Frame) /\ stack # <<>>
  BY <1>2 DEF Ledger, Books, Typed, ImplType, Running
<1>4. /\ handle[h] \in Maybe(Impls)
      /\ handle[h] # None => handle[h] \in Impls /\ impl[handle[h]] # None /\ impl[handle[h]] \in Shares
                             /\ impl[handle[h]].refcnt >= 1
  BY <1>3, HandleImpl
<1>5. m[i] = None
  <2>1. CASE handle[h] = None
    BY <1>1, <2>1 DEF Fewer
  <2>2. CASE handle[h] # None
    BY <1>1, <1>3, <1>4, <2>2, FewerFacts
  <2> QED
    BY <2>1, <2>2
<1>6. Current \in Sessions
  BY <1>3, TopFrame DEF Current, Top, Frame
<1>7. v \in Shares /\ v.prefix = a /\ v.refcnt = 1
  BY <1>6 DEF Shares
<1>8. impl' = Put(m, i, v) /\ handle' = Put(handle, h, i)
  BY <1>1 DEF Put
<1>9. handle \in [Handles -> Maybe(Impls)]
  BY DEF Shared
<1>10. handle' = Put(hd, h, i)
  <2>1. h \in Handles
    OBVIOUS
  <2>2. Put(hd, h, i) = Put(handle, h, i)
    BY ONLY <1>9, <2>1, PutPut DEF hd
  <2> QED
    BY <1>8, <2>2
<1>11. ImplType(m) /\ Shared(m, hd)
  BY <1>3, FewerShared
<1>12. hd[h] = None
  BY <1>9 DEF Put
<1>13. Books(heap', queue, alarm, watcher, m, stack)
  BY <1>2, DroppedBooks
<1> HIDE DEF m, hd, v
<1>14. Shared(impl', handle')
  BY <1>5, <1>7, <1>8, <1>10, <1>11, <1>12, NewShared
<1>15. Books(heap', queue, alarm, watcher, Put(m, i, v), Given(a))
  BY <1>2, <1>5, <1>7, <1>13, NewBooks
<1>16. Counted(impl')
  <2>1. Counted(m)
    BY <1>3, CountedFewer DEF m
  <2> QED
    BY <1>7, <1>8, <1>11, <2>1, CountedPut
<1> QED
  BY <1>2, <1>8, <1>14, <1>15, <1>16 DEF Ledger

LEMMA AssignStep ==
    ASSUME ParamsAssumption, Ledger, Shared(impl, handle), Counted(impl), NEW h \in Handles, NEW g \in Handles,
           Assign(h, g)
    PROVE  Ledger' /\ Shared(impl', handle') /\ Counted(impl')
<1> DEFINE m == Fewer(impl, handle[h])
           hd == Put(handle, h, None)
           v == handle[g]
<1>1. /\ handle[h] # v /\ impl' = More(m, v) /\ handle' = [handle EXCEPT ![h] = v]
      /\ heap' = Dropped(heap, handle[h])
      /\ queue' = queue /\ alarm' = alarm /\ watcher' = watcher /\ stack' = stack
  BY DEF Assign, events
<1>2. ImplType(impl)
  BY DEF Ledger, Books, Typed, ImplType
<1>3. /\ handle[h] \in Maybe(Impls) /\ v \in Maybe(Impls)
      /\ handle[h] # None => handle[h] \in Impls /\ impl[handle[h]] \in Shares /\ impl[handle[h]].refcnt >= 1
  BY <1>2, HandleImpl
<1>4. v # None => impl[v] # None /\ v \in Impls
  BY <1>2, HandleImpl
<1>5. v # None => m[v] # None
  <2>1. CASE handle[h] = None
    BY <1>4, <2>1 DEF Fewer
  <2>2. CASE handle[h] # None
    BY <1>1, <1>2, <1>3, <1>4, <2>2, FewerFacts
  <2> QED
    BY <2>1, <2>2
<1>6. handle \in [Handles -> Maybe(Impls)]
  BY DEF Shared
<1>7. handle' = Put(handle, h, v)
  BY <1>1 DEF Put
<1>8. handle' = Put(hd, h, v) /\ hd[h] = None
  <2>1. hd[h] = None
    BY <1>6 DEF Put
  <2>2. Put(hd, h, v) = Put(handle, h, v)
    <3>1. h \in Handles
      OBVIOUS
    <3> QED
      BY ONLY <1>6, <3>1, PutPut DEF hd
  <2> QED
    BY <1>7, <2>1, <2>2
<1>9. ImplType(m) /\ Shared(m, hd)
  BY <1>2, FewerShared
<1>10. Books(heap', queue, alarm, watcher, m, stack)
  BY <1>1, DroppedBooks
<1>0. ParamsAssumption /\ h \in Handles
  OBVIOUS
<1> HIDE DEF m, hd, v
<1>11. Shared(More(m, v), Put(hd, h, v))
  BY ONLY <1>0, <1>3, <1>5, <1>8, <1>9, MoreShared
<1>12. Books(heap', queue, alarm, watcher, More(m, v), stack)
  BY ONLY <1>0, <1>3, <1>5, <1>10, MoreBooks
<1>13. Counted(impl')
  <2>1. Counted(m)
    BY <1>2, CountedFewer DEF m
  <2> QED
    BY <1>1, <1>3, <1>5, <1>9, <2>1, CountedMore
<1> QED
  BY <1>1, <1>8, <1>11, <1>12, <1>13 DEF Ledger

LEMMA ResetStep ==
    ASSUME ParamsAssumption, Ledger, Shared(impl, handle), Counted(impl), NEW h \in Handles, Reset(h)
    PROVE  Ledger' /\ Shared(impl', handle') /\ Counted(impl')
<1>1. /\ impl' = Fewer(impl, handle[h]) /\ handle' = [handle EXCEPT ![h] = None]
      /\ heap' = Dropped(heap, handle[h])
      /\ queue' = queue /\ alarm' = alarm /\ watcher' = watcher /\ stack' = stack
  BY DEF Reset, events
<1>2. ImplType(impl)
  BY DEF Ledger, Books, Typed, ImplType
<1>3. Shared(impl', handle')
  <2>1. handle' = Put(handle, h, None)
    BY <1>1 DEF Put
  <2>2. Shared(Fewer(impl, handle[h]), Put(handle, h, None))
    BY <1>2, FewerShared
  <2> QED
    BY <1>1, <2>1, <2>2
<1>4. Books(heap', queue, alarm, watcher, impl', stack)
  BY <1>1, DroppedBooks
<1>5. Counted(impl')
  BY <1>1, <1>2, CountedFewer
<1> QED
  BY <1>1, <1>3, <1>4, <1>5 DEF Ledger

(* A copy that is made and destroyed leaves the memory as it was.           *)
LEMMA MadeGone ==
    ASSUME None \notin ValParams, NEW h \in [ValParams -> Cell], NEW p \in Maybe(ValParams),
           p # None => h[p].state = "free" /\ h[p].locked = 0
    PROVE  Destroyed(IF p = None THEN h ELSE Made(h, p), p) = h
<1>1. CASE p = None
  BY <1>1 DEF Destroyed, On
<1>2. CASE p \in ValParams
  <2> DEFINE c == [state |-> "live", locked |-> 0]
  <2>1. h[p] \in Cell /\ h[p] = Free
    BY <1>2 DEF Cell, Free
  <2>2. Made(h, p) = [h EXCEPT ![p] = c]
    <3>1. [h[p] EXCEPT !.state = "live"] = c
      BY <2>1 DEF Free
    <3>2. Made(h, p) = [h EXCEPT ![p] = [h[p] EXCEPT !.state = "live"]]
      BY DEF Made
    <3> QED
      BY <3>1, <3>2
  <2>3. /\ Made(h, p)[p] = c /\ p # None
        /\ c.state = "live" /\ c.locked = 0
    BY <1>2, <2>2
  <2> HIDE DEF c
  <2>4. Destroyed(Made(h, p), p) = [Made(h, p) EXCEPT ![p] = Free]
    BY <2>3 DEF Destroyed, On
  <2>5. [[h EXCEPT ![p] = c] EXCEPT ![p] = Free] = h
    BY <1>2, <2>1
  <2> QED
    BY <1>2, <2>2, <2>4, <2>5
<1> QED
  BY <1>1, <1>2 DEF Maybe

LEMMA PostbackStep ==
    ASSUME ParamsAssumption, Ledger, Shared(impl, handle), NEW h \in Handles, NEW a \in Maybe(ValParams),
           PostbackPost(h, a)
    PROVE  Ledger'
<1> DEFINE i == impl[handle[h]]
<1>1. /\ Running /\ a \in Offers /\ handle[h] # None
      /\ alarm' = alarm /\ watcher' = watcher /\ impl' = impl
  BY DEF PostbackPost, handles
<1>2. ImplType(impl)
  BY DEF Ledger, Books, Typed, ImplType
<1>3. i \in Shares
  BY <1>1, <1>2, HandleImpl
<1>4. i.target \in Sessions
  BY <1>3 DEF Shares
<1>5. PICK q \in Clones(i.prefix) :
        /\ IF status[i.target] = "live"
           THEN Queued(i.target, q, a) /\ heap' = Cloned(q)
           ELSE heap' = Destroyed(CopyDeleted(Cloned(q), q), a) /\ queue' = queue
        /\ stack' = Given(a)
  BY Zenon DEF PostbackPost
<1>6. q \in Maybe(ValParams) /\ (q # None => heap[q].state = "free")
  BY DEF Clones, Maybe
<1>7. CASE status[i.target] = "live"
  <2>1. /\ Queued(i.target, q, a) /\ stack' = Given(a)
        /\ heap' = IF q = None THEN heap ELSE Made(heap, q)
    BY <1>5, <1>7 DEF Cloned, Made
  <2> HIDE DEF i
  <2> QED
    BY <1>1, <1>4, <1>6, <2>1, ForwardBooks
<1>8. CASE status[i.target] # "live"
  <2>1. Destroyed(Cloned(q), q) = heap
    <3>1. /\ heap \in [ValParams -> Cell] /\ None \notin ValParams
          /\ \A p \in ValParams : heap[p].state = "free" => heap[p].locked = 0
      BY NoneApart DEF Ledger, Books, Account, Good
    <3>2. q # None => heap[q].state = "free" /\ heap[q].locked = 0
      BY <1>6, <3>1, NoneApart DEF Maybe
    <3>3. Cloned(q) = IF q = None THEN heap ELSE Made(heap, q)
      BY DEF Cloned, Made
    <3>4. Destroyed(IF q = None THEN heap ELSE Made(heap, q), q) = heap
      BY <1>6, <3>1, <3>2, MadeGone
    <3> QED
      BY <3>3, <3>4
  <2>2. Refuse(FALSE, a) /\ queue' = queue
    BY <1>5, <1>8, <2>1 DEF CopyDeleted, Refuse, FreedBy
  <2>3. FALSE \in BOOLEAN
    OBVIOUS
  <2> QED
    BY <1>1, <2>2, <2>3, RefuseBooks
<1> QED
  BY <1>7, <1>8
-----------------------------------------------------------------------------
(***************************************************************************)
(* Handlers: alarms and I/O watchers.                                      *)
(***************************************************************************)
(* An alarm is set, given another argument, or deleted: what it had is      *)
(* destroyed.                                                               *)
LEMMA AlarmBooks ==
    ASSUME ParamsAssumption, NEW h, NEW q, NEW al, NEW w, NEW m, NEW s, Typed(q, al, w, m, s),
           Apart(s), NEW x \in Alarms, NEW v \in Maybe(Requests),
           Account(h, Plus(Own(q, al, w, m, s), ArgOf(v)), Lock(s))
    PROVE  /\ ArgOf(al[x]) \in Maybe(ValParams)
           /\ Books(Destroyed(h, ArgOf(al[x])), q, Put(al, x, v), w, m, s)
<1> DEFINE al2 == Put(al, x, v)
           a == ArgOf(al[x])
           b == ArgOf(v)
<1>0. /\ ParamsAssumption /\ Typed(q, al, w, m, s) /\ x \in Alarms /\ v \in Maybe(Requests)
      /\ Account(h, Plus(Own(q, al, w, m, s), b), Lock(s))
  OBVIOUS
<1>1. a \in Maybe(ValParams)
  BY DEF Typed, ArgOf, Requests, Maybe
<1>2. /\ Typed(q, al2, w, m, s)
      /\ Plus(Own(q, al2, w, m, s), a) = Plus(Own(q, al, w, m, s), b)
  BY ONLY <1>0, OwnAlarm
<1> HIDE DEF al2, a, b
<1>3. Own(q, al2, w, m, s) \in Counts /\ Lock(s) \in Counts
  BY ONLY <1>0, <1>2, OwnType
<1>4. None \notin ValParams
  BY NoneApart
<1>5. Account(h, Plus(Own(q, al2, w, m, s), a), Lock(s))
  BY <1>0, <1>2
<1>6. Account(Destroyed(h, a), Own(q, al2, w, m, s), Lock(s))
  BY ONLY <1>1, <1>3, <1>4, <1>5, AccountDestroyed
<1> QED
  BY <1>1, <1>2, <1>6 DEF Books, al2, a

LEMMA DestroyedNothing == ASSUME NEW h PROVE Destroyed(h, None) = h
BY DEF Destroyed, On

LEMMA DelaySetBooks ==
    ASSUME ParamsAssumption, Ledger, NEW a \in Maybe(ValParams), DelaySet(a)
    PROVE  Ledger'
<1> DEFINE v == [of |-> Current, arg |-> a]
<1>0. ParamsAssumption
  OBVIOUS
<1>1. PICK x \in Alarms : alarm[x] = None /\ alarm' = Put(alarm, x, v)
  BY DEF DelaySet, Put
<1>2. /\ Running /\ a \in Offers /\ stack' = Given(a)
      /\ heap' = heap /\ queue' = queue /\ watcher' = watcher /\ impl' = impl
  BY DEF DelaySet, handles
<1>3. /\ Typed(queue, alarm, watcher, impl, Given(a)) /\ Apart(Given(a))
      /\ Account(heap, Plus(Own(queue, alarm, watcher, impl, Given(a)), a), Lock(Given(a)))
      /\ stack \in Seq(Frame)
  BY <1>2, GivenBooks DEF Ledger, Typed
<1>4. Current \in Sessions
  BY <1>2, <1>3, TopFrame DEF Current, Top, Frame, Running
<1>5. v \in Maybe(Requests) /\ ArgOf(v) = a
  <2>1. v \in Requests /\ v.arg = a
    BY <1>4 DEF Requests
  <2> HIDE DEF v
  <2> QED
    BY <2>1, NoneApart DEF Maybe, ArgOf
<1> HIDE DEF v
<1>6. Books(Destroyed(heap, ArgOf(alarm[x])), queue, Put(alarm, x, v), watcher, impl, Given(a))
  BY ONLY <1>0, <1>1, <1>3, <1>5, AlarmBooks
<1>7. Destroyed(heap, ArgOf(alarm[x])) = heap
  BY <1>1, DestroyedNothing DEF ArgOf
<1> QED
  BY <1>1, <1>2, <1>6, <1>7 DEF Ledger

LEMMA DelayAdjustBooks ==
    ASSUME ParamsAssumption, Ledger, NEW x \in Alarms, NEW a \in Maybe(ValParams), DelayAdjust(x, a)
    PROVE  Ledger'
<1> DEFINE v == [of |-> Current, arg |-> a]
<1>0. ParamsAssumption /\ x \in Alarms
  OBVIOUS
<1>1. /\ Running /\ a \in Offers /\ stack' = Given(a) /\ alarm[x] # None /\ alarm[x].of = Current
      /\ alarm' = [alarm EXCEPT ![x].arg = a] /\ heap' = Destroyed(heap, alarm[x].arg)
      /\ queue' = queue /\ watcher' = watcher /\ impl' = impl
  BY DEF DelayAdjust, handles, Mine
<1>2. /\ Typed(queue, alarm, watcher, impl, Given(a)) /\ Apart(Given(a))
      /\ Account(heap, Plus(Own(queue, alarm, watcher, impl, Given(a)), a), Lock(Given(a)))
  BY <1>1, GivenBooks DEF Ledger
<1>3. alarm[x] \in Requests /\ alarm \in [Alarms -> Maybe(Requests)]
  BY <1>1, <1>2 DEF Typed, Maybe
<1>4. v \in Maybe(Requests) /\ ArgOf(v) = a /\ ArgOf(alarm[x]) = alarm[x].arg
  <2>1. v \in Requests /\ v.arg = a
    BY <1>1, <1>3 DEF Requests
  <2> HIDE DEF v
  <2> QED
    BY <1>1, <2>1, NoneApart DEF Maybe, ArgOf
<1>5. alarm' = Put(alarm, x, v)
  <2>1. [alarm[x] EXCEPT !.arg = a] = v
    BY <1>1, <1>3 DEF Requests
  <2> QED
    BY <1>1, <1>3, <2>1 DEF Put
<1> HIDE DEF v
<1>6. Books(Destroyed(heap, ArgOf(alarm[x])), queue, Put(alarm, x, v), watcher, impl, Given(a))
  BY ONLY <1>0, <1>2, <1>4, AlarmBooks
<1> QED
  BY <1>1, <1>4, <1>5, <1>6 DEF Ledger

LEMMA AlarmGone ==
    ASSUME ParamsAssumption, Ledger, NEW x \in Alarms, alarm[x] # None
    PROVE  /\ alarm[x] \in Requests
           /\ Books(Destroyed(heap, alarm[x].arg), queue, Put(alarm, x, None), watcher, impl, stack)
<1>0. ParamsAssumption /\ x \in Alarms
  OBVIOUS
<1>1. /\ Typed(queue, alarm, watcher, impl, stack) /\ Apart(stack)
      /\ Account(heap, Own(queue, alarm, watcher, impl, stack), Lock(stack))
      /\ Own(queue, alarm, watcher, impl, stack) \in Counts
  BY OwnType DEF Ledger, Books
<1>2. None \in Maybe(Requests) /\ ArgOf(None) = None /\ None \notin ValParams /\ ArgOf(alarm[x]) = alarm[x].arg
  BY NoneApart DEF Maybe, ArgOf
<1>3. Account(heap, Plus(Own(queue, alarm, watcher, impl, stack), ArgOf(None)), Lock(stack))
  BY <1>1, <1>2, NothingPushed
<1>4. Books(Destroyed(heap, ArgOf(alarm[x])), queue, Put(alarm, x, None), watcher, impl, stack)
  BY ONLY <1>0, <1>1, <1>2, <1>3, AlarmBooks
<1>5. alarm[x] \in Requests
  BY <1>1 DEF Typed, Maybe
<1> QED
  BY <1>2, <1>4, <1>5

LEMMA AlarmRemoveBooks ==
    ASSUME ParamsAssumption, Ledger, NEW x \in Alarms, AlarmRemove(x)
    PROVE  Ledger'
<1>1. /\ alarm[x] # None /\ alarm' = Put(alarm, x, None) /\ heap' = Destroyed(heap, alarm[x].arg)
      /\ queue' = queue /\ watcher' = watcher /\ impl' = impl /\ stack' = stack
  BY DEF AlarmRemove, Mine, handles, Put
<1>2. Books(Destroyed(heap, alarm[x].arg), queue, Put(alarm, x, None), watcher, impl, stack)
  BY <1>1, AlarmGone
<1> QED
  BY <1>1, <1>2 DEF Ledger

(* A session has no more than one watcher.                                  *)
LEMMA WatchedGone ==
    ASSUME ParamsAssumption, NEW h \in [ValParams -> Cell], NEW W \in Watchers
    PROVE  /\ AllDestroyed(h, W) = Destroyed(h, Watched(W)) /\ Watched(W) \in Maybe(ValParams)
           /\ \A a \in W : W = {a} /\ Watched(W) = a
<1>0. None \notin ValParams
  BY NoneApart
<1>1. CASE W = {}
  <2>1. Watched(W) = None /\ AllDestroyed(h, W) = h
    BY <1>1 DEF Watched, AllDestroyed
  <2> QED
    BY <1>1, <2>1, DestroyedNothing DEF Maybe
<1>2. CASE W # {}
  <2>1. PICK a \in Maybe(ValParams) : W = {a}
    BY <1>2 DEF Watchers
  <2>2. Watched(W) = a
    BY <2>1 DEF Watched
  <2>3. CASE a = None
    <3>1. AllDestroyed(h, W) = h
      BY <1>0, <2>1, <2>3 DEF AllDestroyed
    <3> QED
      BY <2>1, <2>2, <2>3, <3>1, DestroyedNothing
  <2>4. CASE a # None
    <3>1. a \in ValParams
      BY <2>4 DEF Maybe
    <3>2. PICK f : Destroyed(h, a) = [h EXCEPT ![a] = f]
      BY <2>4 DEF Destroyed, On
    <3>3. Destroyed(h, a)[a] = f
      BY <3>1, <3>2
    <3>4. AllDestroyed(h, W) = [p \in ValParams |-> IF p = a THEN f ELSE h[p]]
      <4>1. AllDestroyed(h, W) = [p \in ValParams |-> IF p \in W THEN Destroyed(h, p)[p] ELSE h[p]]
        BY DEF AllDestroyed
      <4>2. \A p \in ValParams : (IF p \in W THEN Destroyed(h, p)[p] ELSE h[p]) = (IF p = a THEN f ELSE h[p])
        BY <2>1, <3>3
      <4> QED
        BY <4>1, <4>2
    <3>5. [h EXCEPT ![a] = f] = [p \in ValParams |-> IF p = a THEN f ELSE h[p]]
      BY <3>1
    <3> QED
      BY <2>1, <2>2, <3>2, <3>4, <3>5
  <2> QED
    BY <2>3, <2>4
<1> QED
  BY <1>1, <1>2

LEMMA WatcherBooks ==
    ASSUME ParamsAssumption, NEW h, NEW q, NEW al, NEW w, NEW m, NEW s, Typed(q, al, w, m, s),
           Apart(s), NEW x \in Sessions, NEW v \in Watchers,
           Account(h, Plus(Own(q, al, w, m, s), Watched(v)), Lock(s))
    PROVE  Books(AllDestroyed(h, w[x]), q, al, Put(w, x, v), m, s)
<1> DEFINE w2 == Put(w, x, v)
           a == Watched(w[x])
           b == Watched(v)
<1>0. /\ ParamsAssumption /\ Typed(q, al, w, m, s) /\ x \in Sessions /\ v \in Watchers
      /\ Account(h, Plus(Own(q, al, w, m, s), b), Lock(s))
  OBVIOUS
<1>1. w[x] \in Watchers /\ h \in [ValParams -> Cell]
  BY DEF Typed, Account
<1>2. /\ Typed(q, al, w2, m, s)
      /\ Plus(Own(q, al, w2, m, s), a) = Plus(Own(q, al, w, m, s), b)
  BY ONLY <1>0, OwnWatcher
<1>3. AllDestroyed(h, w[x]) = Destroyed(h, a) /\ a \in Maybe(ValParams)
  BY <1>1, WatchedGone
<1> HIDE DEF w2, a, b
<1>4. Own(q, al, w2, m, s) \in Counts /\ Lock(s) \in Counts /\ None \notin ValParams
  BY ONLY <1>0, <1>2, OwnType, NoneApart
<1>5. Account(h, Plus(Own(q, al, w2, m, s), a), Lock(s))
  BY <1>0, <1>2
<1>6. Account(Destroyed(h, a), Own(q, al, w2, m, s), Lock(s))
  BY ONLY <1>3, <1>4, <1>5, AccountDestroyed
<1> QED
  BY <1>2, <1>3, <1>6 DEF Books, w2

LEMMA SelectBooks ==
    ASSUME ParamsAssumption, Ledger, NEW a \in Maybe(ValParams), Select(a)
    PROVE  Ledger'
<1>0. ParamsAssumption
  OBVIOUS
<1>1. /\ Running /\ a \in Offers /\ stack' = Given(a) /\ heap' = AllDestroyed(heap, watcher[Current])
      /\ watcher' = Put(watcher, Current, {a})
      /\ queue' = queue /\ alarm' = alarm /\ impl' = impl
  BY DEF Select, handles, Put
<1>2. /\ Typed(queue, alarm, watcher, impl, Given(a)) /\ Apart(Given(a))
      /\ Account(heap, Plus(Own(queue, alarm, watcher, impl, Given(a)), a), Lock(Given(a)))
      /\ stack \in Seq(Frame)
  BY <1>1, GivenBooks DEF Ledger, Typed
<1>3. Current \in Sessions
  BY <1>1, <1>2, TopFrame DEF Current, Top, Frame, Running
<1>4. {a} \in Watchers /\ Watched({a}) = a
  BY DEF Watchers, Watched
<1>5. Account(heap, Plus(Own(queue, alarm, watcher, impl, Given(a)), Watched({a})), Lock(Given(a)))
  BY <1>2, <1>4
<1>6. PICK v : v = {a}
  OBVIOUS
<1>7. Books(AllDestroyed(heap, watcher[Current]), queue, alarm, Put(watcher, Current, v), impl, Given(a))
  BY ONLY <1>0, <1>2, <1>3, <1>4, <1>5, <1>6, WatcherBooks
<1> QED
  BY <1>1, <1>6, <1>7 DEF Ledger

LEMMA SelectOffBooks ==
    ASSUME ParamsAssumption, Ledger, SelectOff
    PROVE  Ledger'
<1>0. ParamsAssumption
  OBVIOUS
<1>1. /\ Running /\ heap' = AllDestroyed(heap, watcher[Current])
      /\ watcher' = Put(watcher, Current, {})
      /\ queue' = queue /\ alarm' = alarm /\ impl' = impl /\ stack' = stack
  BY DEF SelectOff, handles, Put
<1>2. /\ Typed(queue, alarm, watcher, impl, stack) /\ Apart(stack)
      /\ Account(heap, Own(queue, alarm, watcher, impl, stack), Lock(stack))
      /\ Own(queue, alarm, watcher, impl, stack) \in Counts /\ stack \in Seq(Frame)
  BY OwnType DEF Ledger, Books, Typed
<1>3. Current \in Sessions
  BY <1>1, <1>2, TopFrame DEF Current, Top, Frame, Running
<1>4. {} \in Watchers /\ Watched({}) = None /\ None \notin ValParams
  BY NoneApart DEF Watchers, Watched
<1>5. Account(heap, Plus(Own(queue, alarm, watcher, impl, stack), Watched({})), Lock(stack))
  BY <1>2, <1>4, NothingPushed
<1>6. PICK v : v = {}
  OBVIOUS
<1>7. Books(AllDestroyed(heap, watcher[Current]), queue, alarm, Put(watcher, Current, v), impl, stack)
  BY ONLY <1>0, <1>2, <1>3, <1>4, <1>5, <1>6, WatcherBooks
<1> QED
  BY <1>1, <1>6, <1>7 DEF Ledger
-----------------------------------------------------------------------------
(***************************************************************************)
(* Calls, and the loop.                                                    *)
(***************************************************************************)
LEMMA OwnParts ==
    ASSUME ParamsAssumption, NEW q, NEW al, NEW w, NEW m, NEW s, Typed(q, al, w, m, s),
           NEW p \in ValParams
    PROVE  /\ Own(q, al, w, m, s)[p] =
                (OwnedInQueue(q)[p] + (Tally(al, ByRequest)[p] + (Tally(w, ByWatch)[p] + Tally(m, ByPrefix)[p])))
                  + (OwnedInHandlers(s)[p] + (Tally(s, ByLeadPfx)[p] + Tally(s, ByLeadArg)[p]))
           /\ OwnedInHandlers(s)[p] = Tally(s, ByHeld)[p] + Tally(s, ByOwned)[p]
           /\ OwnedInQueue(q)[p] = Tally(q, ByPfx)[p] + Tally(q, ByArg)[p]
           /\ Lock(s)[p] = Tally(s, ByLockPfx)[p] + Tally(s, ByLockArg)[p]
           /\ OwnedInQueue(q)[p] \in Nat /\ Tally(al, ByRequest)[p] \in Nat
           /\ Tally(w, ByWatch)[p] \in Nat /\ Tally(m, ByPrefix)[p] \in Nat
           /\ OwnedInHandlers(s)[p] \in Nat
           /\ Tally(s, ByLeadPfx)[p] \in Nat /\ Tally(s, ByLeadArg)[p] \in Nat
           /\ Tally(q, ByPfx)[p] \in Nat /\ Tally(q, ByArg)[p] \in Nat
           /\ Tally(s, ByHeld)[p] \in Nat /\ Tally(s, ByOwned)[p] \in Nat
           /\ Tally(s, ByLockPfx)[p] \in Nat /\ Tally(s, ByLockArg)[p] \in Nat
<1>0. /\ ParamsAssumption /\ q \in Seq(Messages) /\ al \in [Alarms -> Maybe(Requests)]
      /\ w \in [Sessions -> Watchers] /\ m \in [Impls -> Maybe(Shares)] /\ s \in Seq(Frame)
  BY DEF Typed
<1>1. /\ OwnedInQueue(q) \in Counts /\ Tally(al, ByRequest) \in Counts
      /\ Tally(w, ByWatch) \in Counts /\ Tally(m, ByPrefix) \in Counts
      /\ Tally(q, ByPfx) \in Counts /\ Tally(q, ByArg) \in Counts
  BY ONLY <1>0, QueueType, EventsType
<1>2. /\ Tally(s, ByHeld) \in Counts /\ Tally(s, ByOwned) \in Counts
      /\ Tally(s, ByLeadPfx) \in Counts /\ Tally(s, ByLeadArg) \in Counts
      /\ Tally(s, ByLockPfx) \in Counts /\ Tally(s, ByLockArg) \in Counts
      /\ OwnedInHandlers(s) \in Counts
  BY ONLY <1>0, StackType
<1>3. \A u \in Counts : u[p] \in Nat
  BY DEF Counts
<1>4. \A u, v : Sum(u, v)[p] = u[p] + v[p]
  BY DEF Sum
<1>5. /\ OwnedInHandlers(s) = Sum(Tally(s, ByHeld), Tally(s, ByOwned))
      /\ OwnedInQueue(q) = Sum(Tally(q, ByPfx), Tally(q, ByArg))
      /\ Lock(s) = Sum(Tally(s, ByLockPfx), Tally(s, ByLockArg))
  BY DEF OwnedInHandlers, OwnedInQueue, Lock
<1>6. /\ OwnedInHandlers(s)[p] = Tally(s, ByHeld)[p] + Tally(s, ByOwned)[p]
      /\ OwnedInQueue(q)[p] = Tally(q, ByPfx)[p] + Tally(q, ByArg)[p]
      /\ Lock(s)[p] = Tally(s, ByLockPfx)[p] + Tally(s, ByLockArg)[p]
  BY ONLY <1>4, <1>5, Zenon
<1>7. Own(q, al, w, m, s)[p] =
        (OwnedInQueue(q)[p] + (Tally(al, ByRequest)[p] + (Tally(w, ByWatch)[p] + Tally(m, ByPrefix)[p])))
          + (OwnedInHandlers(s)[p] + (Tally(s, ByLeadPfx)[p] + Tally(s, ByLeadArg)[p]))
  <2>1. Own(q, al, w, m, s)[p] = (OwnedInQueue(q)[p] + OwnedInEvents(al, w, m)[p]) + OwnedInStack(s)[p]
    BY <1>4 DEF Own
  <2>2. OwnedInEvents(al, w, m)[p] = Tally(al, ByRequest)[p] + (Tally(w, ByWatch)[p] + Tally(m, ByPrefix)[p])
    BY <1>4 DEF OwnedInEvents
  <2>3. OwnedInStack(s)[p] = OwnedInHandlers(s)[p] + (Tally(s, ByLeadPfx)[p] + Tally(s, ByLeadArg)[p])
    BY <1>4 DEF OwnedInStack
  <2> QED
    BY ONLY <2>1, <2>2, <2>3
<1> QED
  BY ONLY <1>1, <1>2, <1>3, <1>6, <1>7

(* A handler runs.                                                          *)
LEMMA EnteredBooks ==
    ASSUME ParamsAssumption, NEW h, NEW q, NEW al, NEW w, NEW m, NEW s, Typed(q, al, w, m, s),
           NEW f \in Frame, NEW g, Named(g),
           LeadPfx(g) = LeadPfx(f), LeadArg(g) = LeadArg(f), g.owned = f.owned, g.held = f.held,
           LockedPfx(g) = LockedPfx(f), LockedArg(g) = LockedArg(f),
           Account(h, Pushed(Own(q, al, w, m, s), g), Lock(s)),
           \A p \in {LockedPfx(g), LockedArg(g)} \ {None} : Pushed(Own(q, al, w, m, s), g)[p] # 0,
           Apart(Append(s, f))
    PROVE  Books(Locks(h, g), q, al, w, m, Append(s, f))
<1> DEFINE o == Own(q, al, w, m, s)
           l == Lock(s)
<1>0. ParamsAssumption /\ Typed(q, al, w, m, s) /\ f \in Frame
  OBVIOUS
<1>1. o \in Counts /\ l \in Counts /\ None \notin ValParams
  BY OwnType, NoneApart
<1>2. Pushed(o, g) \in Counts
  BY <1>1, PushedType
<1>3. /\ Account(h, Pushed(o, g), l) /\ Named(g)
      /\ \A p \in {LockedPfx(g), LockedArg(g)} \ {None} : Pushed(o, g)[p] # 0
  OBVIOUS
<1>4. Pushed(o, g) = Pushed(o, f) /\ PushedLock(l, g) = PushedLock(l, f)
  BY DEF Pushed, PushedLock
<1>5. /\ Typed(q, al, w, m, Append(s, f))
      /\ Own(q, al, w, m, Append(s, f)) = Pushed(o, f)
      /\ Lock(Append(s, f)) = PushedLock(l, f)
  BY ONLY <1>0, OwnStackMore DEF o, l
<1> HIDE DEF o, l
<1>6. Account(Locks(h, g), Pushed(o, g), PushedLock(l, g))
  BY ONLY <1>1, <1>2, <1>3, LocksAccount
<1> QED
  BY <1>4, <1>5, <1>6 DEF Books

(* No handler is found: the context goes at once.                           *)
LEMMA NotEntered ==
    ASSUME None \notin ValParams,
           NEW h, NEW o \in Counts, NEW l \in Counts, NEW g, Named(g), NEW a \in Maybe(ValParams),
           g.kind = "alarm" \/ a = None, g.kind \in {"post", "alarm"} => g.owned = None,
           g.held = None, g.owned # None => PushedLock(l, g)[g.owned] = 0,
           Account(h, Pushed(Plus(o, a), g), l),
           \A p \in {LockedPfx(g), LockedArg(g)} \ {None} : Pushed(Plus(o, a), g)[p] # 0
    PROVE  Account(AtReturn(Locks(h, g), g, a), o, l)
<1> DEFINE u == Pushed(Plus(o, a), g)
<1>0. None \notin ValParams /\ l \in Counts /\ Named(g) /\ o \in Counts /\ a \in Maybe(ValParams)
  OBVIOUS
<1>1. u \in Counts
  BY PlusFacts, PushedType
<1>2. Account(h, u, l) /\ \A p \in {LockedPfx(g), LockedArg(g)} \ {None} : u[p] # 0
  OBVIOUS
<1> HIDE DEF u
<1>3. Account(Locks(h, g), u, PushedLock(l, g))
  BY ONLY <1>0, <1>1, <1>2, LocksAccount
<1>4. \A p \in {g.held, g.owned} \ {None} : PushedLock(l, g)[p] = 0
  OBVIOUS
<1>5. /\ g.kind = "alarm" \/ a = None
      /\ g.kind \in {"post", "alarm"} => g.owned = None
      /\ Account(Locks(h, g), Pushed(Plus(o, a), g), PushedLock(l, g))
  BY <1>3 DEF u
<1> QED
  BY ONLY <1>0, <1>4, <1>5, ReturnAccount

LEMMA ReturnWithoutAlarm ==
    ASSUME NEW h, NEW f, NEW a, NEW b, f.kind # "alarm"
    PROVE  AtReturn(h, f, a) = AtReturn(h, f, b)
BY DEF AtReturn

Entered(s, kind, pfx, arg, owned, hT) ==
    [of |-> s, kind |-> kind, pfx |-> pfx, arg |-> arg,
     owned |-> owned, takes |-> hT, held |-> None]

FrameKinds == {"post", "alarm", "select", "call", "start"}

LEMMA EnteredFacts ==
    ASSUME NEW s \in Sessions, NEW kind \in FrameKinds, NEW pfx \in Maybe(ValParams),
           NEW arg \in Maybe(ValParams), NEW owned \in Maybe(ValParams), NEW hT
    PROVE  LET f == Entered(s, kind, pfx, arg, owned, hT)
           IN  /\ f.kind = kind /\ f.pfx = pfx /\ f.arg = arg /\ f.owned = owned /\ f.held = None
               /\ f.takes = hT /\ f.of = s
               /\ Named(f) /\ (hT \in HandlerTypes => f \in Frame)
               /\ LeadPfx(f) = (IF kind = "post" THEN pfx ELSE None)
               /\ LeadArg(f) = (IF kind = "post" THEN arg ELSE None)
               /\ LockedPfx(f) = (IF kind \in {"post", "call"} THEN pfx ELSE None)
               /\ LockedArg(f) = (IF kind \in {"post", "alarm", "select"} THEN arg ELSE None)
BY DEF Entered, Named, Frame, LeadPfx, LeadArg, LockedPfx, LockedArg, FrameKinds, Maybe

LEMMA ExecutesCases ==
    ASSUME NEW rest, NEW s, NEW kind, NEW pfx, NEW arg, NEW owned,
           Executes(rest, s, kind, pfx, arg, owned)
    PROVE  LET g == Entered(s, kind, pfx, arg, owned, <<>>)
           IN  /\ Len(rest) < MaxDepth
               /\ \/ \E hT \in Found(kind, pfx, arg) :
                        /\ stack' = Append(rest, Entered(s, kind, pfx, arg, owned, hT))
                        /\ heap' = Locks(heap, g)
                  \/ stack' = rest /\ heap' = AtReturn(Locks(heap, g), g, arg)
BY DEF Executes, Entered

(* A call: the function called owns the argument, or the caller keeps it.   *)
LEMMA CallBooks ==
    ASSUME ParamsAssumption, Ledger, Running, NEW s \in Sessions, NEW kind \in {"call", "start"},
           NEW pfx \in Maybe(ValParams), NEW a \in Offers, NEW keep \in BOOLEAN,
           pfx # None =>
               /\ Own(queue, alarm, watcher, impl, stack)[pfx] # 0
               /\ OwnedInHandlers(stack)[pfx] = 0,
           Enters(s, kind, pfx, a, keep), UNCHANGED <<queue, alarm, watcher, impl>>
    PROVE  Ledger'
<1> DEFINE b == IF keep THEN None ELSE a
           rest == Given(b)
           g == Entered(s, kind, pfx, a, b, <<>>)
           o == Own(queue, alarm, watcher, impl, rest)
           l == Lock(stack)
<1>0. ParamsAssumption /\ None \notin ValParams
  BY NoneApart
<1>1. b \in Offers /\ b \in Maybe(ValParams) /\ a \in Maybe(ValParams)
  <2>1. a \in Maybe(ValParams)
    BY GivenBooks DEF Ledger
  <2> QED
    BY <2>1 DEF Offers, Maybe
<1>2. /\ Typed(queue, alarm, watcher, impl, rest) /\ Apart(rest)
      /\ Account(heap, Plus(o, b), l) /\ o \in Counts /\ l \in Counts
      /\ OwnedInHandlers(stack) = Plus(OwnedInHandlers(rest), b)
      /\ Lock(rest) = l /\ Own(queue, alarm, watcher, impl, stack) = Plus(o, b)
      /\ stack \in Seq(Frame)
  BY <1>1, GivenBooks DEF Ledger, Typed
<1>3. /\ g.kind = kind /\ g.owned = b /\ g.held = None /\ Named(g)
      /\ LeadPfx(g) = None /\ LeadArg(g) = None
      /\ LockedPfx(g) = (IF kind = "call" THEN pfx ELSE None) /\ LockedArg(g) = None
  <2>1. kind \in FrameKinds /\ kind # "post" /\ kind # "alarm" /\ kind # "select"
    BY DEF FrameKinds
  <2> QED
    BY <1>1, <2>1, EnteredFacts
<1>4. Pushed(o, g) = Plus(o, b)
  <2>1. Plus(o, b) \in Counts
    BY <1>2, PlusFacts
  <2> HIDE DEF o
  <2> QED
    BY <1>0, <1>2, <1>3, <2>1, NothingPushed DEF Pushed
<1>5. \A p \in {LockedPfx(g), LockedArg(g)} \ {None} : Pushed(o, g)[p] # 0
  BY <1>2, <1>3, <1>4
<1>6. ASSUME NEW p \in ValParams, OwnedInHandlers(stack)[p] # 0
      PROVE  PushedLock(l, g)[p] = 0
  <2>1. l[p] = 0
    BY <1>6 DEF Ledger, Books, Apart
  <2>2. LockedPfx(g) # p /\ LockedArg(g) # p
    BY <1>0, <1>3, <1>6
  <2> HIDE DEF l
  <2> QED
    BY <2>1, <2>2 DEF PushedLock, Plus, One
<1>7. /\ Len(rest) < MaxDepth
      /\ \/ \E hT \in Found(kind, pfx, a) :
               /\ stack' = Append(rest, Entered(s, kind, pfx, a, b, hT))
               /\ heap' = Locks(heap, g)
         \/ stack' = rest /\ heap' = AtReturn(Locks(heap, g), g, a)
  BY ExecutesCases DEF Enters
<1>8. CASE \E hT \in Found(kind, pfx, a) :
               /\ stack' = Append(rest, Entered(s, kind, pfx, a, b, hT))
               /\ heap' = Locks(heap, g)
  <2>1. PICK hT \in HandlerTypes :
               /\ stack' = Append(rest, Entered(s, kind, pfx, a, b, hT))
               /\ heap' = Locks(heap, g)
    BY <1>8 DEF Found
  <2> DEFINE f == Entered(s, kind, pfx, a, b, hT)
  <2>2. /\ f \in Frame /\ f.owned = b /\ f.held = None
        /\ LeadPfx(f) = None /\ LeadArg(f) = None
        /\ LockedPfx(f) = LockedPfx(g) /\ LockedArg(f) = LockedArg(g)
    <3>1. kind \in FrameKinds /\ kind # "post" /\ kind # "alarm" /\ kind # "select"
      BY DEF FrameKinds
    <3> QED
      BY <1>1, <1>3, <3>1, EnteredFacts
  <2> HIDE DEF f, g, rest, b
  <2>3. /\ OwnedInHandlers(Append(rest, f)) = Plus(Plus(OwnedInHandlers(rest), f.owned), f.held)
        /\ Lock(Append(rest, f)) = PushedLock(Lock(rest), f)
    BY ONLY <1>0, <1>2, <2>2, OwnStackMore
  <2>4. OwnedInHandlers(Append(rest, f)) = OwnedInHandlers(stack)
    <3>1. OwnedInHandlers(stack) \in Counts
      BY <1>2, StackType
    <3> QED
      BY <1>0, <1>2, <2>2, <2>3, <3>1, NothingPushed
  <2>5. Lock(Append(rest, f)) = PushedLock(l, g)
    BY <1>2, <2>2, <2>3 DEF PushedLock
  <2>6. Apart(Append(rest, f))
    BY <1>6, <2>4, <2>5 DEF Apart
  <2>7. Account(heap, Pushed(o, g), Lock(rest))
    BY <1>2, <1>4
  <2>8. Books(Locks(heap, g), queue, alarm, watcher, impl, Append(rest, f))
    BY ONLY <1>0, <1>2, <1>3, <1>5, <2>2, <2>6, <2>7, EnteredBooks DEF o
  <2> QED
    BY <2>1, <2>8 DEF Ledger, f
<1>9. CASE stack' = rest /\ heap' = AtReturn(Locks(heap, g), g, a)
  <2>1. kind # "alarm" /\ kind # "post"
    OBVIOUS
  <2>2. AtReturn(Locks(heap, g), g, a) = AtReturn(Locks(heap, g), g, None)
    BY <1>3, <2>1, ReturnWithoutAlarm
  <2>3. g.owned # None => PushedLock(l, g)[g.owned] = 0
    <3>1. CASE b # None
      <4>1. b \in ValParams
        BY <1>1, <3>1 DEF Maybe
      <4>2. OwnedInHandlers(rest)[b] \in Nat
        BY <1>2, <4>1, StackType DEF Typed, Counts
      <4>3. OwnedInHandlers(stack)[b] # 0
        BY <1>2, <4>1, <4>2 DEF Plus, One
      <4> QED
        BY <1>3, <1>6, <4>1, <4>3
    <3>2. CASE b = None
      BY <1>3, <3>2
    <3> QED
      BY <3>1, <3>2
  <2>4. /\ g.kind = "alarm" \/ None = None
        /\ g.kind \in {"post", "alarm"} => g.owned = None
        /\ None \in Maybe(ValParams)
    BY <1>3, <2>1 DEF Maybe
  <2>5. Plus(o, None) = o
    BY <1>0, <1>2, NothingPushed
  <2>6. /\ Account(heap, Pushed(Plus(o, None), g), l)
        /\ \A p \in {LockedPfx(g), LockedArg(g)} \ {None} : Pushed(Plus(o, None), g)[p] # 0
    BY <1>2, <1>4, <1>5, <2>5
  <2> HIDE DEF g, o, l, rest, b
  <2>7. Account(AtReturn(Locks(heap, g), g, None), o, l)
    BY ONLY <1>0, <1>2, <1>3, <2>3, <2>4, <2>6, NotEntered
  <2> QED
    BY <1>2, <1>9, <2>2, <2>7 DEF Ledger, Books, o
<1> QED
  BY <1>7, <1>8, <1>9

(* What an impl owns, no handler holds.                                     *)
LEMMA PrefixOwned ==
    ASSUME ParamsAssumption, Ledger, NEW i \in Impls, impl[i] # None, NEW p \in ValParams,
           impl[i].prefix = p
    PROVE  /\ Own(queue, alarm, watcher, impl, stack)[p] # 0
           /\ OwnedInHandlers(stack)[p] = 0
<1> DEFINE m == Put(impl, i, None)
           o == Own(queue, alarm, watcher, impl, stack)
           u == Own(queue, alarm, watcher, m, stack)
<1>0. /\ ParamsAssumption /\ i \in Impls /\ None \in Maybe(Shares) /\ None \notin ValParams
      /\ Typed(queue, alarm, watcher, impl, stack) /\ p \in ValParams
      /\ Account(heap, o, Lock(stack))
  BY NoneApart DEF Ledger, Books, Maybe
<1>1. PrefixOf(impl[i]) = p /\ PrefixOf(None) = None
  BY DEF PrefixOf
<1>2. /\ Typed(queue, alarm, watcher, m, stack)
      /\ Plus(u, PrefixOf(impl[i])) = Plus(o, PrefixOf(None))
  BY ONLY <1>0, OwnImpl DEF o, u, m
<1>3. o \in Counts /\ u \in Counts
  BY ONLY <1>0, <1>2, OwnType DEF o, u
<1>4. OwnedInHandlers(stack)[p] \in Nat /\ u[p] \in Nat /\ u[p] >= OwnedInHandlers(stack)[p]
  <2> HIDE DEF m
  <2>1. /\ u[p] = (OwnedInQueue(queue)[p] + (Tally(alarm, ByRequest)[p] + (Tally(watcher, ByWatch)[p] + Tally(m, ByPrefix)[p])))
                  + (OwnedInHandlers(stack)[p] + (Tally(stack, ByLeadPfx)[p] + Tally(stack, ByLeadArg)[p]))
        /\ OwnedInQueue(queue)[p] \in Nat /\ Tally(alarm, ByRequest)[p] \in Nat
        /\ Tally(watcher, ByWatch)[p] \in Nat /\ Tally(m, ByPrefix)[p] \in Nat
        /\ OwnedInHandlers(stack)[p] \in Nat
        /\ Tally(stack, ByLeadPfx)[p] \in Nat /\ Tally(stack, ByLeadArg)[p] \in Nat
    BY ONLY <1>0, <1>2, OwnParts DEF u
  <2> HIDE DEF u
  <2> DEFINE n0 == u[p]
             n1 == OwnedInQueue(queue)[p]
             n2 == Tally(alarm, ByRequest)[p]
             n3 == Tally(watcher, ByWatch)[p]
             n4 == Tally(m, ByPrefix)[p]
             n5 == OwnedInHandlers(stack)[p]
             n6 == Tally(stack, ByLeadPfx)[p]
             n7 == Tally(stack, ByLeadArg)[p]
  <2>2. /\ n0 = (n1 + (n2 + (n3 + n4))) + (n5 + (n6 + n7))
        /\ n1 \in Nat /\ n2 \in Nat /\ n3 \in Nat /\ n4 \in Nat
        /\ n5 \in Nat /\ n6 \in Nat /\ n7 \in Nat
    BY ONLY <2>1
  <2>3. n5 \in Nat /\ n0 \in Nat /\ n0 >= n5
    <3> HIDE DEF n0, n1, n2, n3, n4, n5, n6, n7
    <3> QED
      BY ONLY <2>2
  <2> QED
    BY ONLY <2>3
<1> HIDE DEF o, u, m
<1>5. o = Plus(u, p)
  BY ONLY <1>0, <1>1, <1>2, <1>3, NothingPushed
<1>6. o[p] = u[p] + 1
  BY <1>5 DEF Plus, One
<1>7. o[p] # 0 => o[p] = 1
  BY ONLY <1>0, OwnedIsLive
<1>8. o[p] # 0 /\ OwnedInHandlers(stack)[p] = 0
  BY <1>4, <1>6, <1>7
<1> QED
  BY <1>8 DEF o

LEMMA CallStep ==
    ASSUME ParamsAssumption, Ledger, NEW s \in Sessions, NEW a \in Maybe(ValParams),
           NEW keep \in BOOLEAN, Call(s, a, keep) \/ SessionCall(s, a, keep)
    PROVE  Ledger'
<1>1. /\ Running /\ a \in Offers /\ Enters(s, "call", None, a, keep)
      /\ UNCHANGED <<queue, alarm, watcher, impl>>
  BY DEF Call, SessionCall, events, handles
<1>2. None \in Maybe(ValParams)
  BY DEF Maybe
<1> QED
  BY <1>1, <1>2, CallBooks

LEMMA ContextSwitchStep ==
    ASSUME ParamsAssumption, Ledger, NEW s \in Sessions, ContextSwitch(s)
    PROVE  Ledger'
<1>1. /\ Running /\ None \in Offers /\ Enters(s, "call", None, None, FALSE) /\ FALSE \in BOOLEAN
      /\ UNCHANGED <<queue, alarm, watcher, impl>>
  BY DEF ContextSwitch, events, handles, Offers
<1>2. None \in Maybe(ValParams)
  BY DEF Maybe
<1> QED
  BY <1>1, <1>2, CallBooks

LEMMA CallbackCallStep ==
    ASSUME ParamsAssumption, Ledger, Shared(impl, handle), NEW h \in Callbacks,
           NEW a \in Maybe(ValParams), NEW keep \in BOOLEAN, CallbackCall(h, a, keep)
    PROVE  Ledger'
<1> DEFINE i == handle[h]
           pfx == impl[i].prefix
           to == impl[i].target
<1>1. /\ Running /\ a \in Offers /\ i # None /\ Enters(to, "call", pfx, a, keep)
      /\ UNCHANGED <<queue, alarm, watcher, impl>>
  BY DEF CallbackCall, events, handles
<1>2. ImplType(impl) /\ h \in Handles
  BY DEF Ledger, Books, Typed, ImplType, Handles
<1>3. i \in Impls /\ impl[i] \in Shares /\ impl[i] # None
  BY <1>1, <1>2, HandleImpl
<1>4. to \in Sessions /\ pfx \in Maybe(ValParams)
  BY <1>3 DEF Shares
<1>5. pfx # None => /\ Own(queue, alarm, watcher, impl, stack)[pfx] # 0
                    /\ OwnedInHandlers(stack)[pfx] = 0
  <2>1. SUFFICES ASSUME pfx # None
                 PROVE  /\ Own(queue, alarm, watcher, impl, stack)[pfx] # 0
                        /\ OwnedInHandlers(stack)[pfx] = 0
    OBVIOUS
  <2>2. pfx \in ValParams
    BY <1>4, <2>1 DEF Maybe
  <2> QED
    BY <1>3, <2>2, PrefixOwned
<1> HIDE DEF i, pfx, to
<1> QED
  BY <1>1, <1>4, <1>5, CallBooks

LEMMA StartSessionStep ==
    ASSUME ParamsAssumption, Ledger, NEW s \in Sessions, NEW a \in Maybe(ValParams),
           StartSession(s, a)
    PROVE  Ledger'
<1>1. Running /\ a \in Offers /\ UNCHANGED <<queue, alarm, watcher, impl>>
  BY DEF StartSession, events, handles
<1>2. CASE Enters(s, "start", None, a, FALSE)
  <2>1. None \in Maybe(ValParams) /\ FALSE \in BOOLEAN
    BY DEF Maybe
  <2> QED
    BY <1>1, <1>2, <2>1, CallBooks
<1>3. CASE Refuse(TRUE, a)
  <2>1. TRUE \in BOOLEAN
    OBVIOUS
  <2> QED
    BY <1>1, <1>3, <2>1, RefuseBooks
<1> QED
  BY <1>2, <1>3 DEF StartSession

LEMMA FailStep ==
    ASSUME ParamsAssumption, Ledger, NEW a \in Maybe(ValParams), Fail(a)
    PROVE  Ledger'
<1>1. /\ Running /\ a \in Offers /\ Refuse(TRUE, a) /\ TRUE \in BOOLEAN
      /\ UNCHANGED <<queue, alarm, watcher, impl>>
  BY DEF Fail, events, handles
<1> QED
  BY <1>1, RefuseBooks

LEMMA PostStep ==
    ASSUME ParamsAssumption, Ledger, NEW s \in Sessions, NEW a \in Maybe(ValParams), Post(s, a)
    PROVE  Ledger'
<1>1. Running /\ a \in Offers /\ alarm' = alarm /\ watcher' = watcher /\ impl' = impl
  BY DEF Post, handles
<1>2. CASE Queued(s, None, a) /\ stack' = Given(a) /\ heap' = heap
  BY <1>1, <1>2, PostedBooks
<1>3. CASE Refuse(FALSE, a) /\ queue' = queue
  <2>1. FALSE \in BOOLEAN
    OBVIOUS
  <2> QED
    BY <1>1, <1>3, <2>1, RefuseBooks
<1> QED
  BY <1>2, <1>3 DEF Post

LEMMA YieldStep ==
    ASSUME ParamsAssumption, Ledger, NEW a \in Maybe(ValParams), Yield(a)
    PROVE  Ledger'
<1>1. /\ Running /\ a \in Offers /\ Queued(Current, None, a) /\ stack' = Given(a)
      /\ UNCHANGED <<heap, alarm, watcher, impl>>
  BY DEF Yield, handles
<1>2. Current \in Sessions
  BY <1>1, TopFrame DEF Current, Top, Frame, Running, Ledger, Books, Typed
<1> QED
  BY <1>1, <1>2, PostedBooks
-----------------------------------------------------------------------------
(***************************************************************************)
(* The loop: the books with nothing on the stack, and its steps.           *)
(***************************************************************************)
LEMMA ApartAlone ==
    ASSUME ParamsAssumption, NEW f \in Frame, f.owned = None, f.held = None
    PROVE  Apart(Append(<<>>, f)) /\ <<>> \in Seq(Frame) /\ Apart(<<>>)
<1>0. ParamsAssumption /\ f \in Frame /\ None \notin ValParams /\ <<>> \in Seq(Frame)
  BY NoneApart
<1>1. OwnedInHandlers(Append(<<>>, f)) = Plus(Plus(OwnedInHandlers(<<>>), f.owned), f.held)
  BY ONLY <1>0, StackMore
<1>2. OwnedInHandlers(<<>>) \in Counts
  BY ONLY <1>0, StackType
<1>3. OwnedInHandlers(Append(<<>>, f)) = OwnedInHandlers(<<>>)
  BY <1>0, <1>1, <1>2, NothingPushed
<1>4. \A p \in ValParams : OwnedInHandlers(<<>>)[p] = 0
  BY OwnNothing
<1> QED
  BY <1>0, <1>3, <1>4 DEF Apart

(* The handler of an event runs, or none is found.  The event's argument    *)
(* and prefix are with somebody.                                            *)
LEMMA DispatchBooks ==
    ASSUME ParamsAssumption, NEW q, NEW al, NEW w, NEW m, Typed(q, al, w, m, <<>>),
           NEW s \in Sessions, NEW kind \in {"post", "alarm", "select"},
           NEW pfx \in Maybe(ValParams), NEW arg \in Maybe(ValParams),
           kind # "post" => pfx = None,
           NEW g, g = Entered(s, kind, pfx, arg, None, <<>>),
           Account(heap, Pushed(Own(q, al, w, m, <<>>), g), Lock(<<>>)),
           \A p \in {LockedPfx(g), LockedArg(g)} \ {None} : Pushed(Own(q, al, w, m, <<>>), g)[p] # 0,
           NEW hT \in HandlerTypes
    PROVE  Books(Locks(heap, g), q, al, w, m, Append(<<>>, Entered(s, kind, pfx, arg, None, hT)))
<1> DEFINE f == Entered(s, kind, pfx, arg, None, hT)
<1>0. ParamsAssumption /\ Typed(q, al, w, m, <<>>)
  OBVIOUS
<1>1. kind \in FrameKinds /\ None \in Maybe(ValParams)
  BY DEF FrameKinds, Maybe
<1>2. /\ f \in Frame /\ Named(g) /\ f.owned = None /\ f.held = None
      /\ LeadPfx(g) = LeadPfx(f) /\ LeadArg(g) = LeadArg(f) /\ g.owned = f.owned /\ g.held = f.held
      /\ LockedPfx(g) = LockedPfx(f) /\ LockedArg(g) = LockedArg(f)
  BY <1>1, EnteredFacts
<1>a. /\ Account(heap, Pushed(Own(q, al, w, m, <<>>), g), Lock(<<>>))
      /\ \A p \in {LockedPfx(g), LockedArg(g)} \ {None} : Pushed(Own(q, al, w, m, <<>>), g)[p] # 0
  OBVIOUS
<1> HIDE DEF f
<1>3. Apart(Append(<<>>, f))
  BY ONLY <1>0, <1>2, ApartAlone
<1>4. Books(Locks(heap, g), q, al, w, m, Append(<<>>, f))
  BY ONLY <1>0, <1>2, <1>a, <1>3, EnteredBooks
<1> QED
  BY <1>4 DEF f

LEMMA IdleFacts ==
    ASSUME ParamsAssumption, Ledger, Idle
    PROVE  /\ Typed(queue, alarm, watcher, impl, <<>>) /\ Apart(<<>>)
           /\ Account(heap, Own(queue, alarm, watcher, impl, <<>>), Lock(<<>>))
           /\ Own(queue, alarm, watcher, impl, <<>>) \in Counts /\ Lock(<<>>) \in Counts
           /\ None \notin ValParams /\ stack = <<>>
<1>1. /\ Typed(queue, alarm, watcher, impl, <<>>) /\ Apart(<<>>) /\ stack = <<>>
      /\ Account(heap, Own(queue, alarm, watcher, impl, <<>>), Lock(<<>>))
  BY DEF Ledger, Books, Idle
<1> QED
  BY <1>1, OwnType, NoneApart

LEMMA DispatchMsgStep ==
    ASSUME ParamsAssumption, Ledger, DispatchMsg
    PROVE  Ledger'
<1> DEFINE e == Head(queue)
           q == Tail(queue)
           o == Own(q, alarm, watcher, impl, <<>>)
           l == Lock(<<>>)
           g == Entered(e.to, "post", e.pfx, e.arg, None, <<>>)
<1>0. ParamsAssumption /\ Idle
  BY DEF DispatchMsg
<1>1. /\ Typed(queue, alarm, watcher, impl, <<>>) /\ Apart(<<>>)
      /\ Account(heap, Own(queue, alarm, watcher, impl, <<>>), l) /\ l \in Counts
      /\ None \notin ValParams /\ stack = <<>> /\ queue # <<>>
  BY <1>0, IdleFacts DEF DispatchMsg
<1>2. /\ Typed(q, alarm, watcher, impl, <<>>) /\ e \in Messages
      /\ Own(queue, alarm, watcher, impl, <<>>) = Plus(Plus(o, e.pfx), e.arg)
  BY <1>0, <1>1, OwnQueueTail
<1>3. e.to \in Sessions /\ e.pfx \in Maybe(ValParams) /\ e.arg \in Maybe(ValParams) /\ None \in Maybe(ValParams)
  BY <1>2 DEF Messages, Maybe
<1>4. o \in Counts
  BY ONLY <1>0, <1>2, OwnType DEF o
<1>5. UNCHANGED <<alarm, watcher, impl>> /\ queue' = q
  BY DEF DispatchMsg, handles
<1>6. CASE status[e.to] = "live"
  <2>0. Executes(<<>>, e.to, "post", e.pfx, e.arg, None)
    BY <1>6 DEF DispatchMsg
  <2>1. /\ g.kind = "post" /\ g.pfx = e.pfx /\ g.arg = e.arg /\ g.owned = None /\ g.held = None /\ Named(g)
        /\ LeadPfx(g) = e.pfx /\ LeadArg(g) = e.arg /\ LockedPfx(g) = e.pfx /\ LockedArg(g) = e.arg
    <3>1. "post" \in FrameKinds
      BY DEF FrameKinds
    <3> HIDE DEF e
    <3> QED
      BY <1>3, <3>1, EnteredFacts
  <2> DEFINE t == Plus(Plus(o, e.pfx), e.arg)
  <2>2. Plus(o, e.pfx) \in Counts /\ t \in Counts
    <3>1. \A u \in Counts : \A a : Plus(u, a) \in Counts
      BY PlusFacts
    <3> QED
      BY <1>4, <3>1
  <2>3. Pushed(o, g) = t
    <3> HIDE DEF o, e
    <3> QED
      BY <1>1, <2>1, <2>2, NothingPushed DEF Pushed
  <2>4. \A p \in {LockedPfx(g), LockedArg(g)} \ {None} : Pushed(o, g)[p] # 0
    <3> HIDE DEF o, e
    <3>1. SUFFICES ASSUME NEW p \in {e.pfx, e.arg} \ {None} PROVE t[p] # 0
      BY <2>1, <2>3
    <3>2. p \in ValParams /\ o[p] \in Nat
      BY <1>3, <1>4 DEF Maybe, Counts
    <3> QED
      BY <3>1, <3>2 DEF Plus, One
  <2>5. /\ \/ \E hT \in Found("post", e.pfx, e.arg) :
                /\ stack' = Append(<<>>, Entered(e.to, "post", e.pfx, e.arg, None, hT))
                /\ heap' = Locks(heap, g)
           \/ stack' = <<>> /\ heap' = AtReturn(Locks(heap, g), g, e.arg)
    BY <2>0, ExecutesCases
  <2>6. CASE stack' = <<>> /\ heap' = AtReturn(Locks(heap, g), g, e.arg)
    <3>1. AtReturn(Locks(heap, g), g, e.arg) = AtReturn(Locks(heap, g), g, None)
      BY <2>1, ReturnWithoutAlarm
    <3>2. Plus(o, None) = o
      BY <1>1, <1>4, NothingPushed
    <3>3. /\ Account(heap, Pushed(Plus(o, None), g), l)
          /\ \A p \in {LockedPfx(g), LockedArg(g)} \ {None} : Pushed(Plus(o, None), g)[p] # 0
          /\ g.owned # None => PushedLock(l, g)[g.owned] = 0
          /\ g.kind = "alarm" \/ None = None
          /\ g.kind \in {"post", "alarm"} => g.owned = None
      BY <1>1, <1>2, <2>1, <2>3, <2>4, <3>2
    <3> HIDE DEF o, g, l
    <3>4. Account(AtReturn(Locks(heap, g), g, None), o, l)
      BY ONLY <1>1, <1>3, <1>4, <2>1, <3>3, NotEntered
    <3> QED
      BY <1>1, <1>2, <1>5, <2>6, <3>1, <3>4 DEF Ledger, Books, o, l
  <2>7. CASE \E hT \in Found("post", e.pfx, e.arg) :
                /\ stack' = Append(<<>>, Entered(e.to, "post", e.pfx, e.arg, None, hT))
                /\ heap' = Locks(heap, g)
    <3>1. PICK hT \in HandlerTypes :
                /\ stack' = Append(<<>>, Entered(e.to, "post", e.pfx, e.arg, None, hT))
                /\ heap' = Locks(heap, g)
      BY <2>7 DEF Found
    <3>2. /\ "post" \in {"post", "alarm", "select"} /\ ("post" # "post" => e.pfx = None)
          /\ Account(heap, Pushed(o, g), Lock(<<>>))
          /\ g = Entered(e.to, "post", e.pfx, e.arg, None, <<>>)
      BY <1>1, <1>2, <2>3
    <3> HIDE DEF q, g, e, o
    <3>3. Books(Locks(heap, g), q, alarm, watcher, impl, Append(<<>>, Entered(e.to, "post", e.pfx, e.arg, None, hT)))
      BY ONLY <1>0, <1>2, <1>3, <2>4, <3>2, hT \in HandlerTypes, DispatchBooks DEF o
    <3> QED
      BY <1>5, <3>1, <3>3 DEF Ledger
  <2> QED
    BY <2>5, <2>6, <2>7
<1>7. CASE status[e.to] # "live"
  <2>1. heap' = Destroyed(Destroyed(heap, e.pfx), e.arg) /\ stack' = <<>>
    BY <1>1, <1>7 DEF DispatchMsg
  <2>2. Plus(Plus(o, e.pfx), e.arg) = Plus(Plus(o, e.arg), e.pfx) /\ Plus(o, e.arg) \in Counts
    BY <1>4, PlusSwap, PlusFacts
  <2>3. Account(heap, Plus(Plus(o, e.arg), e.pfx), l)
    BY <1>1, <1>2, <2>2
  <2> HIDE DEF o, e, l
  <2>4. Account(Destroyed(heap, e.pfx), Plus(o, e.arg), l)
    BY ONLY <1>1, <1>3, <2>2, <2>3, AccountDestroyed
  <2>5. Account(Destroyed(Destroyed(heap, e.pfx), e.arg), o, l)
    BY ONLY <1>1, <1>3, <1>4, <2>4, AccountDestroyed
  <2> QED
    BY <1>1, <1>2, <1>5, <2>1, <2>5 DEF Ledger, Books, o, l
<1> QED
  BY <1>6, <1>7

LEMMA AlarmOwned ==
    ASSUME ParamsAssumption, NEW q, NEW al, NEW w, NEW m, NEW s, Typed(q, al, w, m, s),
           NEW x \in Alarms, al[x] # None
    PROVE  /\ al[x] \in Requests /\ al[x].of \in Sessions /\ al[x].arg \in Maybe(ValParams)
           /\ Typed(q, Put(al, x, None), w, m, s)
           /\ Own(q, Put(al, x, None), w, m, s) \in Counts
           /\ Own(q, al, w, m, s) = Plus(Own(q, Put(al, x, None), w, m, s), al[x].arg)
<1>0. /\ ParamsAssumption /\ x \in Alarms /\ None \in Maybe(Requests) /\ None \notin ValParams
      /\ Typed(q, al, w, m, s) /\ al[x] \in Requests
  BY NoneApart DEF Typed, Maybe
<1>1. ArgOf(al[x]) = al[x].arg /\ ArgOf(None) = None
  BY DEF ArgOf
<1>2. /\ Typed(q, Put(al, x, None), w, m, s)
      /\ Plus(Own(q, Put(al, x, None), w, m, s), ArgOf(al[x])) = Plus(Own(q, al, w, m, s), ArgOf(None))
  BY ONLY <1>0, OwnAlarm
<1>3. Own(q, al, w, m, s) \in Counts /\ Own(q, Put(al, x, None), w, m, s) \in Counts
  BY ONLY <1>0, <1>2, OwnType
<1>4. Own(q, al, w, m, s) = Plus(Own(q, Put(al, x, None), w, m, s), al[x].arg)
  BY ONLY <1>0, <1>1, <1>2, <1>3, NothingPushed
<1>5. al[x].of \in Sessions /\ al[x].arg \in Maybe(ValParams)
  BY <1>0 DEF Requests
<1> QED
  BY <1>0, <1>2, <1>3, <1>4, <1>5

LEMMA PlusOwns ==
    ASSUME NEW o \in Counts, NEW a \in ValParams
    PROVE  Plus(o, a)[a] # 0
<1>1. o[a] \in Nat
  BY DEF Counts
<1> QED
  BY <1>1 DEF Plus, One

LEMMA DispatchAlarmStep ==
    ASSUME ParamsAssumption, Ledger, NEW x \in Alarms, DispatchAlarm(x)
    PROVE  Ledger'
<1> DEFINE e == alarm[x]
           o == Own(queue, alarm, watcher, impl, <<>>)
           u == Own(queue, Put(alarm, x, None), watcher, impl, <<>>)
           l == Lock(<<>>)
           g == Entered(e.of, "alarm", None, e.arg, None, <<>>)
<1>0. ParamsAssumption /\ Idle /\ x \in Alarms
  BY DEF DispatchAlarm
<1>1. /\ Typed(queue, alarm, watcher, impl, <<>>) /\ Apart(<<>>)
      /\ Account(heap, o, l) /\ o \in Counts /\ l \in Counts
      /\ None \notin ValParams /\ stack = <<>> /\ e # None
  BY <1>0, IdleFacts DEF DispatchAlarm
<1>2. /\ Typed(queue, Put(alarm, x, None), watcher, impl, <<>>) /\ u \in Counts
      /\ e.of \in Sessions /\ e.arg \in Maybe(ValParams) /\ o = Plus(u, e.arg)
  BY <1>0, <1>1, AlarmOwned
<1>3. None \in Maybe(ValParams)
  BY DEF Maybe
<1>5. UNCHANGED <<queue, watcher, impl>>
  BY DEF DispatchAlarm, handles
<1>6. CASE status[e.of] = "live"
  <2>0. /\ Executes(<<>>, e.of, "alarm", None, e.arg, None)
        /\ alarm' = IF stack' = <<>> THEN Put(alarm, x, None) ELSE alarm
    BY <1>6 DEF DispatchAlarm, Put
  <2>1. /\ g.kind = "alarm" /\ g.owned = None /\ g.held = None /\ Named(g)
        /\ LeadPfx(g) = None /\ LeadArg(g) = None /\ LockedPfx(g) = None /\ LockedArg(g) = e.arg
    <3>1. "alarm" \in FrameKinds
      BY DEF FrameKinds
    <3> HIDE DEF e
    <3> QED
      BY <1>2, <1>3, <3>1, EnteredFacts
  <2>3. Pushed(o, g) = o
    <3> HIDE DEF o, e
    <3> QED
      BY <1>1, <2>1, NothingPushed DEF Pushed
  <2>4. \A p \in {LockedPfx(g), LockedArg(g)} \ {None} : Pushed(o, g)[p] # 0
    <3> HIDE DEF o, u, e
    <3>1. SUFFICES ASSUME e.arg # None PROVE o[e.arg] # 0
      BY <2>1, <2>3
    <3>2. e.arg \in ValParams
      BY <1>2, <3>1 DEF Maybe
    <3> QED
      BY <1>2, <3>2, PlusOwns
  <2>5. /\ \/ \E hT \in Found("alarm", None, e.arg) :
                /\ stack' = Append(<<>>, Entered(e.of, "alarm", None, e.arg, None, hT))
                /\ heap' = Locks(heap, g)
           \/ stack' = <<>> /\ heap' = AtReturn(Locks(heap, g), g, e.arg)
    BY <2>0, ExecutesCases
  <2>6. CASE stack' = <<>> /\ heap' = AtReturn(Locks(heap, g), g, e.arg)
    <3>3. /\ Account(heap, Pushed(Plus(u, e.arg), g), l)
          /\ \A p \in {LockedPfx(g), LockedArg(g)} \ {None} : Pushed(Plus(u, e.arg), g)[p] # 0
          /\ g.owned # None => PushedLock(l, g)[g.owned] = 0
          /\ g.kind = "alarm" \/ e.arg = None
          /\ g.kind \in {"post", "alarm"} => g.owned = None
      BY <1>1, <1>2, <2>1, <2>3, <2>4
    <3>5. alarm' = Put(alarm, x, None)
      BY <2>0, <2>6
    <3> HIDE DEF u, g, l, e
    <3>4. Account(AtReturn(Locks(heap, g), g, e.arg), u, l)
      BY ONLY <1>1, <1>2, <2>1, <3>3, NotEntered
    <3> QED
      BY <1>1, <1>2, <1>5, <2>6, <3>4, <3>5 DEF Ledger, Books, u, l
  <2>7. CASE \E hT \in Found("alarm", None, e.arg) :
                /\ stack' = Append(<<>>, Entered(e.of, "alarm", None, e.arg, None, hT))
                /\ heap' = Locks(heap, g)
    <3>1. PICK hT \in HandlerTypes :
                /\ stack' = Append(<<>>, Entered(e.of, "alarm", None, e.arg, None, hT))
                /\ heap' = Locks(heap, g)
      BY <2>7 DEF Found
    <3>2. /\ "alarm" \in {"post", "alarm", "select"} /\ ("alarm" # "post" => None = None)
          /\ Account(heap, Pushed(o, g), Lock(<<>>))
          /\ g = Entered(e.of, "alarm", None, e.arg, None, <<>>)
      BY <1>1, <1>2, <2>3
    <3>4. alarm' = alarm
      BY <2>0, <3>1
    <3> HIDE DEF g, e, o
    <3>3. Books(Locks(heap, g), queue, alarm, watcher, impl, Append(<<>>, Entered(e.of, "alarm", None, e.arg, None, hT)))
      BY ONLY <1>0, <1>1, <1>2, <1>3, <2>4, <3>2, hT \in HandlerTypes, DispatchBooks DEF o
    <3> QED
      BY <1>5, <3>1, <3>3, <3>4 DEF Ledger
  <2> QED
    BY <2>5, <2>6, <2>7
<1>7. CASE status[e.of] # "live"
  <2>1. heap' = Destroyed(heap, e.arg) /\ stack' = stack /\ alarm' = Put(alarm, x, None)
    BY <1>7 DEF DispatchAlarm, Put
  <2>2. Books(Destroyed(heap, e.arg), queue, Put(alarm, x, None), watcher, impl, stack)
    BY <1>1, AlarmGone
  <2> QED
    BY <1>5, <2>1, <2>2 DEF Ledger
<1> QED
  BY <1>6, <1>7

LEMMA DispatchIoStep ==
    ASSUME ParamsAssumption, Ledger, NEW s \in Sessions, DispatchIo(s)
    PROVE  Ledger'
<1> DEFINE o == Own(queue, alarm, watcher, impl, <<>>)
           u == Own(queue, alarm, Put(watcher, s, {}), impl, <<>>)
           l == Lock(<<>>)
<1>0. ParamsAssumption /\ Idle /\ s \in Sessions
  BY DEF DispatchIo
<1>1. /\ Typed(queue, alarm, watcher, impl, <<>>) /\ Apart(<<>>)
      /\ Account(heap, o, l) /\ o \in Counts /\ l \in Counts
      /\ None \notin ValParams /\ stack = <<>>
  BY <1>0, IdleFacts
<1>2. PICK a \in watcher[s] : Executes(<<>>, s, "select", None, a, None)
  BY DEF DispatchIo
<1>3. watcher[s] \in Watchers /\ heap \in [ValParams -> Cell]
  BY <1>1 DEF Typed, Account
<1>4. Watched(watcher[s]) = a /\ a \in Maybe(ValParams)
  BY <1>2, <1>3, WatchedGone
<1>5. UNCHANGED <<queue, alarm, watcher, impl>>
  BY DEF DispatchIo, events, handles
<1>6. o = Plus(u, a) /\ u \in Counts
  <2>1. PICK v : v = {}
    OBVIOUS
  <2>2. v \in Watchers /\ Watched(v) = None
    BY <2>1 DEF Watchers, Watched
  <2>3. /\ Typed(queue, alarm, Put(watcher, s, v), impl, <<>>)
        /\ Plus(Own(queue, alarm, Put(watcher, s, v), impl, <<>>), Watched(watcher[s]))
             = Plus(Own(queue, alarm, watcher, impl, <<>>), Watched(v))
    BY ONLY <1>0, <1>1, <2>2, OwnWatcher
  <2>4. Own(queue, alarm, Put(watcher, s, v), impl, <<>>) \in Counts
    BY ONLY <1>0, <2>3, OwnType
  <2> QED
    BY <1>1, <1>4, <2>1, <2>2, <2>3, <2>4, NothingPushed
<1>7. None \in Maybe(ValParams)
  BY DEF Maybe
<1> DEFINE g == Entered(s, "select", None, a, None, <<>>)
<1>8. /\ g.kind = "select" /\ g.owned = None /\ g.held = None /\ Named(g)
      /\ LeadPfx(g) = None /\ LeadArg(g) = None /\ LockedPfx(g) = None /\ LockedArg(g) = a
  <2>1. "select" \in FrameKinds
    BY DEF FrameKinds
  <2> QED
    BY <1>4, <1>7, <2>1, EnteredFacts
<1>9. Pushed(o, g) = o
  <2> HIDE DEF o
  <2> QED
    BY <1>1, <1>8, NothingPushed DEF Pushed
<1>10. \A p \in {LockedPfx(g), LockedArg(g)} \ {None} : Pushed(o, g)[p] # 0
  <2> HIDE DEF o, u
  <2>1. SUFFICES ASSUME a # None PROVE o[a] # 0
    BY <1>8, <1>9
  <2>2. a \in ValParams
    BY <1>4, <2>1 DEF Maybe
  <2> QED
    BY <1>6, <2>2, PlusOwns
<1>11. /\ \/ \E hT \in Found("select", None, a) :
                /\ stack' = Append(<<>>, Entered(s, "select", None, a, None, hT))
                /\ heap' = Locks(heap, g)
          \/ stack' = <<>> /\ heap' = AtReturn(Locks(heap, g), g, a)
  BY <1>2, ExecutesCases
<1>12. CASE stack' = <<>> /\ heap' = AtReturn(Locks(heap, g), g, a)
  <2>1. AtReturn(Locks(heap, g), g, a) = AtReturn(Locks(heap, g), g, None)
    BY <1>8, ReturnWithoutAlarm
  <2>2. Plus(o, None) = o
    BY <1>1, NothingPushed
  <2>3. /\ Account(heap, Pushed(Plus(o, None), g), l)
        /\ \A p \in {LockedPfx(g), LockedArg(g)} \ {None} : Pushed(Plus(o, None), g)[p] # 0
        /\ g.owned # None => PushedLock(l, g)[g.owned] = 0
        /\ g.kind = "alarm" \/ None = None
        /\ g.kind \in {"post", "alarm"} => g.owned = None
    BY <1>1, <1>8, <1>9, <1>10, <2>2
  <2> HIDE DEF o, g, l
  <2>4. Account(AtReturn(Locks(heap, g), g, None), o, l)
    BY ONLY <1>1, <1>7, <1>8, <2>3, NotEntered
  <2> QED
    BY <1>1, <1>5, <1>12, <2>1, <2>4 DEF Ledger, Books, o, l
<1>13. CASE \E hT \in Found("select", None, a) :
                /\ stack' = Append(<<>>, Entered(s, "select", None, a, None, hT))
                /\ heap' = Locks(heap, g)
  <2>1. PICK hT \in HandlerTypes :
                /\ stack' = Append(<<>>, Entered(s, "select", None, a, None, hT))
                /\ heap' = Locks(heap, g)
    BY <1>13 DEF Found
  <2>2. /\ "select" \in {"post", "alarm", "select"} /\ ("select" # "post" => None = None)
        /\ Account(heap, Pushed(o, g), Lock(<<>>))
        /\ g = Entered(s, "select", None, a, None, <<>>)
    BY <1>1, <1>9
  <2> HIDE DEF g, o
  <2>3. Books(Locks(heap, g), queue, alarm, watcher, impl, Append(<<>>, Entered(s, "select", None, a, None, hT)))
    BY ONLY <1>0, <1>1, <1>4, <1>7, <1>10, <2>2, hT \in HandlerTypes, DispatchBooks DEF o
  <2> QED
    BY <1>5, <2>1, <2>3 DEF Ledger
<1> QED
  BY <1>11, <1>12, <1>13

(***************************************************************************)
(* The stack: an event is at its foot, calls are above it.  A call owns    *)
(* its argument, or leaves it to the handler below, which holds it for as  *)
(* long as the call lasts.                                                 *)
(***************************************************************************)
Fits(s, d) ==
    LET f == s[d]
    IN  /\ f.takes = PfxTypes(f.kind, f.pfx) \o Types(f.arg)
        /\ f.kind \in {"post", "alarm", "select"} <=> d = 1
        /\ f.kind \notin {"post", "call"} => f.pfx = None
        /\ IF d = 1 THEN f.owned = None
           ELSE f.arg = f.owned \/ (f.owned = None /\ f.arg = s[d - 1].held)

Stacked(s) == \A d \in 1..Len(s) : Fits(s, d)

(* The alarm that is being dispatched, if it was not removed, is there for  *)
(* as long as its handler runs.                                             *)
RememberedBy(dis, al, s) ==
    dis # None => dis \in Alarms /\ al[dis] # None /\ s # <<>> /\ s[1].kind = "alarm"

Remembered == RememberedBy(dispatched, alarm, stack)

LEMMA ReturnStep ==
    ASSUME ParamsAssumption, Ledger, Stacked(stack), Remembered, Return
    PROVE  Ledger'
<1> DEFINE r == Front(stack)
           f == Last(stack)
           l == Lock(r)
<1>0. ParamsAssumption /\ None \notin ValParams /\ stack # <<>> /\ None \in Maybe(ValParams)
  BY NoneApart DEF Return, Maybe
<1>1. /\ Typed(queue, alarm, watcher, impl, stack) /\ Apart(stack)
      /\ Account(heap, Own(queue, alarm, watcher, impl, stack), Lock(stack))
  BY DEF Ledger, Books
<1>2. /\ stack \in Seq(Frame) /\ r \in Seq(Frame) /\ f \in Frame /\ stack = Append(r, f)
      /\ Len(stack) \in Nat \ {0} /\ stack[Len(stack)] = f
  BY <1>0, <1>1, TopFrame DEF Typed
<1>3. Named(f) /\ (f.kind \in {"post", "alarm"} => f.owned = None)
  <2>1. Fits(stack, Len(stack))
    BY <1>2 DEF Stacked
  <2>2. f.kind \in {"post", "alarm"} => f.owned = None
    BY <1>2, <2>1 DEF Fits
  <2>3. Named(f)
    BY <1>2 DEF Named, Frame
  <2> QED
    BY <2>2, <2>3
<1>4. UNCHANGED <<queue, watcher, impl>> /\ stack' = r
  BY DEF Return, handles
<1> HIDE DEF r, f
<1>5. ASSUME NEW al, Typed(queue, al, watcher, impl, stack)
      PROVE  /\ Typed(queue, al, watcher, impl, r)
             /\ Own(queue, al, watcher, impl, stack) = Pushed(Own(queue, al, watcher, impl, r), f)
             /\ Own(queue, al, watcher, impl, r) \in Counts
  <2>1. Typed(queue, al, watcher, impl, r)
    BY <1>2, <1>5 DEF Typed
  <2> QED
    BY ONLY <1>0, <1>2, <2>1, OwnStackMore, OwnType
<1>6. Typed(queue, alarm, watcher, impl, r)
  BY <1>1, <1>5
<1>7. /\ Lock(stack) = PushedLock(l, f) /\ l \in Counts
      /\ OwnedInHandlers(stack) = Plus(Plus(OwnedInHandlers(r), f.owned), f.held)
      /\ OwnedInHandlers(r) \in Counts
  BY ONLY <1>0, <1>2, <1>6, OwnStackMore, OwnType, StackType DEF l
<1> HIDE DEF l
<1>8. \A p \in ValParams : /\ OwnedInHandlers(r)[p] # 0 => OwnedInHandlers(stack)[p] # 0
                           /\ p = f.held \/ p = f.owned => OwnedInHandlers(stack)[p] # 0
  <2>1. \A p \in ValParams : OwnedInHandlers(r)[p] \in Nat
    BY <1>7 DEF Counts
  <2>2. \A p \in ValParams :
           OwnedInHandlers(stack)[p] = (OwnedInHandlers(r)[p] + One(f.owned, p)) + One(f.held, p)
    BY <1>7 DEF Plus
  <2> QED
    BY <2>1, <2>2 DEF One
<1>9. Apart(r)
  <2>1. \A p \in ValParams : OwnedInHandlers(r)[p] # 0 => PushedLock(l, f)[p] = 0
    BY <1>1, <1>7, <1>8 DEF Apart
  <2>2. \A p \in ValParams : PushedLock(l, f)[p] = 0 => l[p] = 0
    BY <1>7, LessLock
  <2> QED
    BY <2>1, <2>2 DEF Apart, l
<1>10. \A p \in {f.held, f.owned} \ {None} : PushedLock(l, f)[p] = 0
  <2>1. \A p \in {f.held, f.owned} \ {None} : p \in ValParams
    BY <1>3 DEF Named, Maybe
  <2> QED
    BY <1>1, <1>7, <1>8, <2>1 DEF Apart
<1>11. CASE f.kind = "alarm" /\ dispatched # None
  <2> DEFINE x == dispatched
             al == Put(alarm, x, None)
             u == Own(queue, al, watcher, impl, r)
             a == alarm[x].arg
  <2>1. x \in Alarms /\ alarm[x] # None
    BY <1>11 DEF Remembered, RememberedBy
  <2>2. heap' = AtReturn(heap, f, a) /\ alarm' = al
    BY <1>11, <2>1 DEF Return, Top, Put, f
  <2>3. /\ Typed(queue, al, watcher, impl, r) /\ u \in Counts /\ a \in Maybe(ValParams)
        /\ Own(queue, alarm, watcher, impl, r) = Plus(u, a)
    BY ONLY <1>0, <1>6, <2>1, AlarmOwned DEF u, al, a
  <2>4. Account(heap, Pushed(Plus(u, a), f), PushedLock(l, f))
    BY <1>1, <1>5, <1>7, <2>3
  <2> HIDE DEF u, a, al
  <2>5. f.kind = "alarm" \/ a = None
    BY <1>11
  <2>6. Account(AtReturn(heap, f, a), u, l)
    BY ONLY <1>0, <1>3, <1>7, <1>10, <2>3, <2>4, <2>5, ReturnAccount
  <2> QED
    BY <1>4, <1>9, <2>2, <2>3, <2>6 DEF Ledger, Books, u, l
<1>12. CASE ~ (f.kind = "alarm" /\ dispatched # None)
  <2> DEFINE u == Own(queue, alarm, watcher, impl, r)
  <2>1. heap' = AtReturn(heap, f, None) /\ alarm' = alarm
    BY <1>12 DEF Return, Top, f
  <2>2. u \in Counts /\ Account(heap, Pushed(u, f), PushedLock(l, f))
    BY <1>1, <1>5, <1>7
  <2>3. Plus(u, None) = u
    BY <1>0, <2>2, NothingPushed
  <2>4. Account(heap, Pushed(Plus(u, None), f), PushedLock(l, f)) /\ (f.kind = "alarm" \/ None = None)
    BY <2>2, <2>3
  <2> HIDE DEF u
  <2>5. Account(AtReturn(heap, f, None), u, l)
    BY ONLY <1>0, <1>3, <1>7, <1>10, <2>2, <2>4, ReturnAccount
  <2> QED
    BY <1>4, <1>6, <1>9, <2>1, <2>5 DEF Ledger, Books, u, l
<1> QED
  BY <1>11, <1>12

(* Several arguments are destroyed at once.                                 *)
LEMMA AccountAllDestroyed ==
    ASSUME None \notin ValParams,
           NEW h, NEW o \in Counts, NEW u \in Counts, NEW l \in Counts, NEW args,
           \A p \in ValParams : o[p] = u[p] + In(p, args), Account(h, o, l)
    PROVE  Account(AllDestroyed(h, args), u, l)
<1> DEFINE h2 == AllDestroyed(h, args)
<1>1. h \in [ValParams -> Cell] /\ \A p \in ValParams : Good(h[p], o[p], l[p])
  BY DEF Account
<1>2. ASSUME NEW p \in ValParams
      PROVE  h2[p] \in Cell /\ Good(h2[p], u[p], l[p])
  <2>1. CASE p \notin args
    <3>1. h2[p] = h[p] /\ o[p] = u[p] + 0 /\ u[p] \in Nat
      BY <2>1 DEF AllDestroyed, In, Counts
    <3> QED
      BY <1>1, <3>1
  <2>2. CASE p \in args
    <3> DEFINE v == [o EXCEPT ![p] = u[p]]
    <3>1. h2[p] = Destroyed(h, p)[p] /\ o[p] = u[p] + 1 /\ u[p] \in Nat
      BY <2>2 DEF AllDestroyed, In, Counts
    <3>2. v \in Counts /\ v[p] = u[p] /\ \A q \in ValParams : q # p => v[q] = o[q]
      BY <3>1 DEF Counts
    <3>3. Plus(v, p) = o
      <4>1. ASSUME NEW q \in ValParams PROVE v[q] + One(p, q) = o[q]
        <5>1. CASE q = p
          BY <3>1, <3>2, <5>1 DEF One
        <5>2. CASE q # p
          BY <3>2, <5>2 DEF One, Counts
        <5> QED
          BY <5>1, <5>2
      <4> HIDE DEF v
      <4> QED
        BY <4>1 DEF Plus, Counts
    <3> HIDE DEF v
    <3>4. Account(h, Plus(v, p), l) /\ p \in Maybe(ValParams)
      BY <3>3 DEF Maybe
    <3>5. Account(Destroyed(h, p), v, l)
      BY <3>2, <3>4, AccountDestroyed
    <3> QED
      BY <3>1, <3>2, <3>5 DEF Account
  <2> QED
    BY <2>1, <2>2
<1>3. h2 \in [ValParams -> Cell]
  <2>1. h2 = [p \in ValParams |-> h2[p]]
    BY DEF AllDestroyed
  <2> HIDE DEF h2
  <2> QED
    BY <1>2, <2>1
<1> QED
  BY <1>2, <1>3 DEF Account

LEMMA SomeGone ==
    ASSUME NEW f, IsFiniteSet(DOMAIN f), NEW S, NEW v, v \notin S, NEW own \in SUBSET DOMAIN f,
           NEW g, DOMAIN g = DOMAIN f, \A x \in DOMAIN f : g[x] = IF x \in own THEN v ELSE f[x],
           Count(f, S) = 0 \/ Count(f, S) = 1
    PROVE  Count(f, S) = Count(g, S) + (IF \E x \in own : f[x] \in S THEN 1 ELSE 0)
<1> DEFINE P == Places(f, S)
           Q == Places(g, S)
<1>1. IsFiniteSet(P) /\ Count(f, S) = Cardinality(P) /\ Cardinality(P) \in Nat
  BY CountFacts DEF Count
<1>2. Q = P \ own
  BY DEF Places
<1>3. \A x \in own : f[x] \in S <=> x \in P
  BY DEF Places
<1> HIDE DEF P
<1>4. CASE \E x \in own : f[x] \in S
  <2>1. PICK x \in own : x \in P
    BY <1>3, <1>4
  <2>2. /\ IsFiniteSet(P \ {x}) /\ Cardinality(P \ {x}) = Cardinality(P) - 1
        /\ Cardinality(P \ {x}) \in Nat
    BY <1>1, <2>1, FS_RemoveElement, FS_CardinalityType
  <2>3. Cardinality(P \ {x}) = 0 /\ Cardinality(P) = 1
    BY <1>1, <2>2
  <2>4. P \ {x} = {}
    BY <2>2, <2>3, FS_EmptySet
  <2>5. Q = {}
    BY <1>2, <2>1, <2>4
  <2>6. Cardinality(Q) = 0
    BY <2>5, FS_EmptySet
  <2> QED
    BY <1>1, <1>4, <2>3, <2>6 DEF Count
<1>5. CASE ~ \E x \in own : f[x] \in S
  <2>1. Q = P
    BY <1>2, <1>3, <1>5
  <2> QED
    BY <1>1, <1>5, <2>1 DEF Count
<1> QED
  BY <1>4, <1>5

LEMMA DestroySessionStep ==
    ASSUME ParamsAssumption, Ledger, NEW s \in Sessions, DestroySession(s)
    PROVE  Ledger'
<1> DEFINE own  == {x \in Alarms : alarm[x] # None /\ alarm[x].of = s}
           args == watcher[s] \cup {alarm[x].arg : x \in own}
           al2  == [x \in Alarms |-> IF x \in own THEN None ELSE alarm[x]]
           l    == Lock(stack)
           a    == Watched(watcher[s])
<1>0. /\ ParamsAssumption /\ None \notin ValParams /\ None \notin Requests /\ s \in Sessions
      /\ None \in Maybe(Requests)
  BY NoneApart DEF Maybe
<1>1. /\ heap' = AllDestroyed(heap, args) /\ alarm' = al2 /\ watcher' = Put(watcher, s, {})
      /\ UNCHANGED <<queue, impl, stack>>
  BY DEF DestroySession, handles, Put
<1>2. /\ Typed(queue, alarm, watcher, impl, stack) /\ Apart(stack)
      /\ Account(heap, Own(queue, alarm, watcher, impl, stack), l)
  BY DEF Ledger, Books
<1>3. watcher[s] \in Watchers /\ heap \in [ValParams -> Cell] /\ alarm \in [Alarms -> Maybe(Requests)]
      /\ watcher \in [Sessions -> Watchers]
  BY <1>2 DEF Typed, Account
<1>4. a \in Maybe(ValParams) /\ \A p \in ValParams : p \in watcher[s] <=> p = a
  <2>1. a \in Maybe(ValParams) /\ \A b \in watcher[s] : watcher[s] = {b} /\ a = b
    BY <1>0, <1>3, WatchedGone
  <2>2. watcher[s] = {} => a = None
    BY DEF Watched
  <2>3. watcher[s] # {} => a \in watcher[s]
    BY <2>1
  <2> QED
    BY <1>0, <2>1, <2>2, <2>3
<1>5. PICK w2 : w2 = Put(watcher, s, {})
  OBVIOUS
<1>6. PICK e : e = {}
  OBVIOUS
<1>7. e \in Watchers /\ Watched(e) = None /\ w2 = Put(watcher, s, e)
  BY <1>5, <1>6 DEF Watchers, Watched
<1>8. w2 \in [Sessions -> Watchers] /\ DOMAIN watcher = Sessions
  BY <1>3, <1>7 DEF Put
<1>9. al2 \in [Alarms -> Maybe(Requests)]
  BY <1>0, <1>3
<1>10. Typed(queue, al2, w2, impl, stack)
  BY <1>2, <1>8, <1>9 DEF Typed
<1>11. Plus(Tally(w2, ByWatch), a) = Plus(Tally(watcher, ByWatch), None)
  <2>1. Marks(ByWatch, watcher[s], a) /\ Marks(ByWatch, e, None)
    BY <1>0, <1>3, <1>7, Names
  <2>2. IsFiniteSet(DOMAIN watcher) /\ s \in DOMAIN watcher
    BY <1>0, <1>8, NoneApart
  <2> QED
    BY ONLY <1>7, <2>1, <2>2, TallySet
<1>12. ASSUME NEW p \in ValParams
       PROVE  Own(queue, alarm, watcher, impl, stack)[p] = Own(queue, al2, w2, impl, stack)[p] + In(p, args)
  <2> DEFINE E == IF \E x \in own : alarm[x] \in ByRequest[p] THEN 1 ELSE 0
  <2>1. \A x \in own : alarm[x] \in ByRequest[p] <=> p = alarm[x].arg
    BY <1>3 DEF ByRequest, Maybe
  <2>2. In(p, args) = IF E = 1 \/ p = a THEN 1 ELSE 0
    <3>1. p \in args <=> (\E x \in own : p = alarm[x].arg) \/ p = a
      BY <1>4
    <3>2. E = 1 <=> \E x \in own : p = alarm[x].arg
      BY <2>1
    <3> HIDE DEF args, own, E
    <3> QED
      BY <3>1, <3>2 DEF In
  <2>3. Tally(watcher, ByWatch)[p] + One(None, p) = Tally(w2, ByWatch)[p] + One(a, p)
    BY <1>11 DEF Plus
  <2> DEFINE A == Tally(alarm, ByRequest)[p]
             A2 == Tally(al2, ByRequest)[p]
             W == Tally(watcher, ByWatch)[p]
             W2 == Tally(w2, ByWatch)[p]
             c == OwnedInQueue(queue)[p]
             d == Tally(impl, ByPrefix)[p]
             k == (OwnedInHandlers(stack)[p] + (Tally(stack, ByLeadPfx)[p] + Tally(stack, ByLeadArg)[p]))
             o == Own(queue, alarm, watcher, impl, stack)[p]
             u == Own(queue, al2, w2, impl, stack)[p]
  <2>4. /\ o = (c + (A + (W + d))) + k /\ c \in Nat /\ A \in Nat /\ W \in Nat /\ d \in Nat
        /\ OwnedInHandlers(stack)[p] \in Nat /\ Tally(stack, ByLeadPfx)[p] \in Nat
        /\ Tally(stack, ByLeadArg)[p] \in Nat
    BY ONLY <1>0, <1>2, <1>12, OwnParts DEF A, W, c, d, k, o
  <2>5. u = (c + (A2 + (W2 + d))) + k /\ A2 \in Nat /\ W2 \in Nat
    <3> HIDE DEF al2
    <3> QED
      BY ONLY <1>0, <1>10, <1>12, OwnParts DEF A2, W2, c, d, k, u
  <2>6. k \in Nat
    BY <2>4
  <2>7. o = 0 \/ o = 1
    BY ONLY <1>2, <1>12, OwnedIsLive DEF o
  <2>8. E = 0 \/ E = 1
    OBVIOUS
  <2>9. A = 0 \/ A = 1 => A = A2 + E
    <3>1. A = Count(alarm, ByRequest[p]) /\ A2 = Count(al2, ByRequest[p])
      BY DEF Tally
    <3>2. /\ IsFiniteSet(DOMAIN alarm) /\ None \notin ByRequest[p] /\ own \in SUBSET DOMAIN alarm
          /\ DOMAIN al2 = DOMAIN alarm
          /\ \A x \in DOMAIN alarm : al2[x] = IF x \in own THEN None ELSE alarm[x]
      BY <1>0, <1>3, NoneApart DEF ByRequest
    <3> HIDE DEF al2, own, A, A2
    <3>3. Count(alarm, ByRequest[p]) = 0 \/ Count(alarm, ByRequest[p]) = 1 =>
            Count(alarm, ByRequest[p]) = Count(al2, ByRequest[p]) + (IF \E x \in own : alarm[x] \in ByRequest[p] THEN 1 ELSE 0)
      BY ONLY <3>2, SomeGone
    <3> QED
      BY <3>1, <3>3
  <2>10. One(None, p) = 0 /\ (One(a, p) = IF p = a THEN 1 ELSE 0)
    BY <1>0 DEF One
  <2>11. W = W2 + One(a, p)
    <3>1. W + 0 = W
      BY <2>4
    <3> QED
      BY <2>3, <2>10, <3>1
  <2> HIDE DEF E, A, A2, W, W2, c, d, k, o, u
  <2>12. A = 0 \/ A = 1
    BY <2>4, <2>6, <2>7
  <2>13. o = u + In(p, args)
    <3>1. A = A2 + E
      BY <2>9, <2>12
    <3>2. CASE p = a
      <4>1. W = W2 + 1 /\ In(p, args) = 1
        BY <2>2, <2>10, <2>11, <3>2
      <4> QED
        BY <2>4, <2>5, <2>6, <2>7, <2>8, <3>1, <4>1
    <3>3. CASE p # a
      <4>1. W = W2 + 0 /\ In(p, args) = E
        BY <2>2, <2>8, <2>10, <2>11, <3>3
      <4> QED
        BY <2>4, <2>5, <2>6, <2>7, <2>8, <3>1, <4>1
    <3> QED
      BY <3>2, <3>3
  <2> QED
    BY <2>13 DEF o, u
<1> HIDE DEF args, al2, l
<1>13. /\ Own(queue, alarm, watcher, impl, stack) \in Counts
       /\ Own(queue, al2, w2, impl, stack) \in Counts /\ l \in Counts
  BY ONLY <1>0, <1>2, <1>10, OwnType DEF l
<1>14. Account(AllDestroyed(heap, args), Own(queue, al2, w2, impl, stack), l)
  BY ONLY <1>0, <1>2, <1>12, <1>13, AccountAllDestroyed
<1> QED
  BY <1>1, <1>2, <1>5, <1>10, <1>14 DEF Ledger, Books, l
-----------------------------------------------------------------------------
(***************************************************************************)
(* The shape of the stack.                                                 *)
(***************************************************************************)
Upright(s) == Stacked(s) /\ Len(s) <= MaxDepth

LEMMA TypesType ==
    ASSUME ParamsAssumption, NEW kind, NEW pfx \in Maybe(ValParams), NEW arg \in Maybe(ValParams)
    PROVE  PfxTypes(kind, pfx) \in Seq(TypeInfos) /\ Types(arg) \in Seq(TypeInfos)
<1>1. \A p \in Maybe(ValParams) : Types(p) \in Seq(TypeInfos)
  <2>1. \A p \in ValParams : TypeOf[p] \in Seq(TypeInfos)
    BY DEF ParamsAssumption
  <2> QED
    BY <2>1 DEF Types, Maybe
<1>2. <<IO_Ctx>> \in Seq(TypeInfos)
  BY DEF ParamsAssumption
<1> QED
  BY <1>1, <1>2 DEF PfxTypes

(* The syntax check compares the types one by one: a handler that passes    *)
(* takes exactly the types of the prefix and then those of the argument.    *)
LEMMA SyntaxExact ==
    ASSUME ParamsAssumption, NEW kind, NEW pfx \in Maybe(ValParams), NEW arg \in Maybe(ValParams),
           NEW hT \in Found(kind, pfx, arg)
    PROVE  hT \in HandlerTypes /\ hT = PfxTypes(kind, pfx) \o Types(arg)
<1> DEFINE x == PfxTypes(kind, pfx)
           a == Types(arg)
<1>1. x \in Seq(TypeInfos) /\ a \in Seq(TypeInfos)
  BY TypesType
<1>2. hT \in HandlerTypes /\ syntax_check(hT, x, a)
  BY DEF Found
<1>3. hT \in Seq(TypeInfos)
  BY <1>2 DEF ParamsAssumption
<1> HIDE DEF x, a
<1>4. CASE x = <<>>
  <2>1. hT = a
    BY <1>2, <1>4 DEF syntax_check
  <2>2. <<>> \o a = a
    BY <1>1, ConcatEmptySeq
  <2> QED
    BY <1>2, <1>4, <2>1, <2>2 DEF x, a
<1>5. CASE x # <<>> /\ a = <<>>
  <2>1. hT = x
    BY <1>2, <1>5 DEF syntax_check
  <2>2. x \o <<>> = x
    BY <1>1, ConcatEmptySeq
  <2> QED
    BY <1>2, <1>5, <2>1, <2>2 DEF x, a
<1>6. CASE x # <<>> /\ a # <<>>
  <2>1. /\ Len(hT) = Len(x) + Len(a)
        /\ \A i \in DOMAIN x : hT[i] = x[i]
        /\ \A j \in DOMAIN a : hT[Len(x) + j] = a[j]
    BY <1>2, <1>6 DEF syntax_check
  <2>2. Len(x) \in Nat /\ Len(a) \in Nat /\ DOMAIN x = 1..Len(x) /\ DOMAIN a = 1..Len(a)
    BY <1>1, LenProperties
  <2> DEFINE y == x \o a
  <2>3. /\ y \in Seq(TypeInfos) /\ Len(y) = Len(x) + Len(a)
        /\ \A i \in 1..(Len(x) + Len(a)) : y[i] = IF i <= Len(x) THEN x[i] ELSE a[i - Len(x)]
    BY <1>1, ConcatProperties
  <2> HIDE DEF y
  <2>4. ASSUME NEW i \in 1..(Len(x) + Len(a)) PROVE hT[i] = y[i]
    <3>1. CASE i <= Len(x)
      BY <2>1, <2>2, <2>3, <3>1
    <3>2. CASE ~ (i <= Len(x))
      <4>1. i - Len(x) \in 1..Len(a) /\ Len(x) + (i - Len(x)) = i
        BY <2>2, <3>2
      <4>2. hT[Len(x) + (i - Len(x))] = a[i - Len(x)]
        BY <2>1, <2>2, <4>1
      <4> QED
        BY <2>3, <3>2, <4>1, <4>2
    <3> QED
      BY <3>1, <3>2
  <2>5. hT = y
    BY <1>3, <2>1, <2>3, <2>4, SeqEqual
  <2> QED
    BY <1>2, <2>5 DEF x, a, y
<1> QED
  BY <1>2, <1>4, <1>5, <1>6 DEF x, a

LEMMA HoldingUpright ==
    ASSUME NEW s \in Seq(Frame), s # <<>>, NEW v \in Maybe(ValParams), Upright(s)
    PROVE  Upright(Holding(s, v)) /\ Holding(s, v) # <<>> /\ Holding(s, v)[1].kind = s[1].kind
<1> DEFINE t == Holding(s, v)
           n == Len(s)
<1>1. n \in Nat \ {0} /\ \A d \in 1..n : s[d] \in Frame
  BY EmptySeq, ElementOfSeq, LenProperties
<1>2. DOMAIN s = 1..n /\ DOMAIN t = 1..n
  BY LenProperties DEF Holding
<1>3. t \in Seq(Frame) /\ Len(t) = n /\ t # <<>>
  <2>1. t \in Seq(Frame) /\ s \in Seq(Frame)
    BY TopHeld DEF Holding
  <2>2. Len(t) \in Nat /\ Len(s) \in Nat /\ DOMAIN t = 1..Len(t)
    BY <2>1, LenProperties
  <2> HIDE DEF t
  <2>3. Len(t) = n
    BY <1>1, <1>2, <2>2
  <2> QED
    BY <1>1, <2>1, <2>3, EmptySeq
<1>4. /\ \A d \in 1..n : d # n => t[d] = s[d]
      /\ t[n] = [s[n] EXCEPT !.held = v]
  BY <1>1, <1>2 DEF Holding
<1>5. \A d \in 1..n : /\ t[d].kind = s[d].kind /\ t[d].pfx = s[d].pfx /\ t[d].arg = s[d].arg
                      /\ t[d].owned = s[d].owned /\ t[d].takes = s[d].takes
  <2>1. n \in 1..n /\ s[n] \in Frame
    BY <1>1
  <2>2. LET g == [s[n] EXCEPT !.held = v]
        IN  /\ g.kind = s[n].kind /\ g.pfx = s[n].pfx /\ g.arg = s[n].arg
            /\ g.owned = s[n].owned /\ g.takes = s[n].takes
    BY <2>1, FrameFields
  <2> HIDE DEF t, n
  <2> QED
    BY <1>4, <2>2
<1>6. \A d \in 1..n : d # 1 => t[d - 1].held = s[d - 1].held
  <2>1. \A d \in 1..n : d # 1 => d - 1 \in 1..n /\ d - 1 # n
    BY <1>1
  <2> HIDE DEF t, n
  <2> QED
    BY <1>4, <2>1
<1>7. \A d \in 1..n : Fits(s, d)
  BY DEF Upright, Stacked
<1>8. n <= MaxDepth /\ 1 \in 1..n
  BY <1>1 DEF Upright
<1> HIDE DEF t, n
<1>9. \A d \in 1..n : Fits(t, d)
  <2>1. SUFFICES ASSUME NEW d \in 1..n PROVE Fits(t, d)
    OBVIOUS
  <2>2. Fits(s, d)
    BY <1>7
  <2> QED
    BY <1>5, <1>6, <2>2 DEF Fits
<1> QED
  BY <1>3, <1>5, <1>8, <1>9 DEF Upright, Stacked, t, n

LEMMA PushUpright ==
    ASSUME NEW s \in Seq(Frame), NEW f \in Frame, Upright(s), Len(s) < MaxDepth, MaxDepth \in Nat,
           Fits(Append(s, f), Len(s) + 1)
    PROVE  Upright(Append(s, f)) /\ Append(s, f) # <<>> /\ (s # <<>> => Append(s, f)[1] = s[1])
<1> DEFINE t == Append(s, f)
           n == Len(s)
<1>1. n \in Nat /\ t \in Seq(Frame) /\ Len(t) = n + 1 /\ t # <<>> /\ \A d \in 1..n : t[d] = s[d]
  BY LenProperties, AppendProperties, EmptySeq
<1>2. s # <<>> => 1 \in 1..n
  BY <1>1, EmptySeq
<1>3. n + 1 <= MaxDepth /\ Fits(t, n + 1) /\ \A d \in 1..n : Fits(s, d)
  BY <1>1 DEF Upright, Stacked
<1> HIDE DEF t, n
<1>4. \A d \in 1..n : d # 1 => d - 1 \in 1..n
  BY <1>1
<1>5. \A d \in 1..n : Fits(t, d)
  <2>1. SUFFICES ASSUME NEW d \in 1..n PROVE Fits(t, d)
    OBVIOUS
  <2>2. Fits(s, d) /\ t[d] = s[d] /\ (d # 1 => t[d - 1] = s[d - 1])
    BY <1>1, <1>3, <1>4
  <2> QED
    BY <2>2 DEF Fits
<1>6. \A d \in 1..(n + 1) : Fits(t, d)
  <2>1. \A d \in 1..(n + 1) : d \in 1..n \/ d = n + 1
    BY <1>1
  <2> QED
    BY <1>3, <1>5, <2>1
<1> QED
  BY <1>1, <1>2, <1>3, <1>6 DEF Upright, Stacked, t, n

LEMMA FrontUpright ==
    ASSUME NEW s \in Seq(Frame), s # <<>>, Upright(s), MaxDepth \in Nat
    PROVE  /\ Upright(Front(s))
           /\ Len(s) # 1 => Front(s) # <<>> /\ Front(s)[1] = s[1]
           /\ Len(s) = 1 => s[1] = Last(s)
<1> DEFINE t == Front(s)
           n == Len(s) - 1
<1>1. /\ n \in Nat /\ Len(s) = n + 1 /\ t \in Seq(Frame) /\ Len(t) = n
      /\ \A d \in 1..n : t[d] = s[d]
      /\ s[Len(s)] = Last(s)
  BY TopFrame
<1>2. n <= MaxDepth /\ \A d \in 1..n : Fits(s, d)
  BY <1>1 DEF Upright, Stacked
<1> HIDE DEF t, n
<1>3. \A d \in 1..n : d # 1 => d - 1 \in 1..n
  BY <1>1
<1>4. \A d \in 1..n : Fits(t, d)
  <2>1. SUFFICES ASSUME NEW d \in 1..n PROVE Fits(t, d)
    OBVIOUS
  <2>2. Fits(s, d) /\ t[d] = s[d] /\ (d # 1 => t[d - 1] = s[d - 1])
    BY <1>1, <1>2, <1>3
  <2> QED
    BY <2>2 DEF Fits
<1>5. Len(s) # 1 => t # <<>> /\ t[1] = s[1]
  BY <1>1, EmptySeq
<1> QED
  BY <1>1, <1>2, <1>4, <1>5 DEF Upright, Stacked, t, n

LEMMA GivenUpright ==
    ASSUME ParamsAssumption, Ledger, Running, Upright(stack), NEW a \in Offers
    PROVE  /\ Upright(Given(a)) /\ Given(a) # <<>> /\ Given(a)[1].kind = stack[1].kind
           /\ Given(a) \in Seq(Frame) /\ stack \in Seq(Frame) /\ Len(Given(a)) = Len(stack)
<1>1. /\ stack \in Seq(Frame) /\ stack # <<>> /\ None \in Maybe(ValParams)
      /\ Given(a) \in Seq(Frame) /\ Len(Given(a)) = Len(stack)
  BY GivenBooks DEF Ledger, Books, Typed, Running, Maybe
<1>2. Given(a) = IF a = None THEN stack ELSE Holding(stack, None)
  BY DEF Given, Holding
<1>3. Upright(Holding(stack, None)) /\ Holding(stack, None) # <<>> /\ Holding(stack, None)[1].kind = stack[1].kind
  BY <1>1, HoldingUpright
<1> QED
  BY <1>1, <1>2, <1>3

(* A handler is entered, or not found.                                      *)
LEMMA ExecutesUpright ==
    ASSUME ParamsAssumption, NEW rest \in Seq(Frame), Upright(rest),
           NEW s \in Sessions, NEW kind \in FrameKinds, NEW pfx \in Maybe(ValParams),
           NEW arg \in Maybe(ValParams), NEW owned \in Maybe(ValParams),
           kind \in {"post", "alarm", "select"} <=> rest = <<>>,
           kind \notin {"post", "call"} => pfx = None,
           IF rest = <<>> THEN owned = None
           ELSE arg = owned \/ (owned = None /\ arg = rest[Len(rest)].held),
           Executes(rest, s, kind, pfx, arg, owned)
    PROVE  /\ Upright(stack')
           /\ rest # <<>> => stack' # <<>> /\ stack'[1].kind = rest[1].kind
           /\ rest = <<>> /\ stack' # <<>> => stack'[1].kind = kind
<1>0. /\ ParamsAssumption /\ s \in Sessions /\ kind \in FrameKinds /\ pfx \in Maybe(ValParams)
      /\ arg \in Maybe(ValParams) /\ owned \in Maybe(ValParams)
  OBVIOUS
<1>1. /\ Len(rest) < MaxDepth
      /\ \/ \E hT \in Found(kind, pfx, arg) :
               stack' = Append(rest, Entered(s, kind, pfx, arg, owned, hT))
         \/ stack' = rest
  BY ExecutesCases
<1>2. MaxDepth \in Nat
  BY DEF ParamsAssumption
<1>3. CASE stack' = rest
  BY <1>3
<1>4. CASE \E hT \in Found(kind, pfx, arg) :
               stack' = Append(rest, Entered(s, kind, pfx, arg, owned, hT))
  <2>1. PICK hT \in Found(kind, pfx, arg) :
               stack' = Append(rest, Entered(s, kind, pfx, arg, owned, hT))
    BY <1>4
  <2>2. hT \in HandlerTypes /\ hT = PfxTypes(kind, pfx) \o Types(arg)
    BY ONLY <1>0, <2>1, SyntaxExact
  <2> DEFINE f == Entered(s, kind, pfx, arg, owned, hT)
             t == Append(rest, f)
             n == Len(rest)
  <2>3. f \in Frame /\ f.kind = kind /\ f.pfx = pfx /\ f.arg = arg /\ f.owned = owned /\ f.takes = hT
    <3>1. hT \in HandlerTypes
      BY <2>2
    <3> QED
      BY ONLY <1>0, <3>1, EnteredFacts
  <2> HIDE DEF f
  <2>4. n \in Nat /\ t \in Seq(Frame) /\ t[n + 1] = f /\ \A d \in 1..n : t[d] = rest[d]
    BY <2>3, LenProperties, AppendProperties
  <2>5. rest = <<>> <=> n = 0
    BY <2>4, EmptySeq
  <2>6. Fits(t, n + 1)
    <3>1. n + 1 = 1 <=> rest = <<>>
      BY <2>4, <2>5
    <3>2. n + 1 - 1 = n /\ (rest # <<>> => n \in 1..n)
      BY <2>4, <2>5
    <3>3. f.takes = PfxTypes(f.kind, f.pfx) \o Types(f.arg)
      BY <2>2, <2>3
    <3>4. f.kind \in {"post", "alarm", "select"} <=> n + 1 = 1
      BY <2>3, <3>1
    <3>5. f.kind \notin {"post", "call"} => f.pfx = None
      BY <2>3
    <3>6. CASE rest = <<>>
      <4>1. f.owned = None /\ n + 1 = 1
        BY <2>3, <3>1, <3>6
      <4> HIDE DEF t, n
      <4> QED
        BY <2>4, <3>3, <3>4, <3>5, <4>1 DEF Fits
    <3>7. CASE rest # <<>>
      <4>1. /\ f.arg = f.owned \/ (f.owned = None /\ f.arg = t[n].held)
            /\ n + 1 # 1 /\ n + 1 - 1 = n
        BY <2>3, <2>4, <3>1, <3>2, <3>7
      <4> HIDE DEF t, n
      <4> QED
        BY <2>4, <3>3, <3>4, <3>5, <4>1 DEF Fits
    <3> QED
      BY <3>6, <3>7
  <2>7. Upright(t) /\ t # <<>> /\ (rest # <<>> => t[1] = rest[1])
    BY <1>1, <1>2, <2>3, <2>6, PushUpright
  <2>8. rest = <<>> => t[1] = f
    BY <2>4, <2>5
  <2> QED
    BY <2>1, <2>3, <2>7, <2>8 DEF f
<1> QED
  BY <1>1, <1>3, <1>4

LEMMA EntersUpright ==
    ASSUME ParamsAssumption, Ledger, Running, Upright(stack), NEW s \in Sessions,
           NEW kind \in {"call", "start"}, NEW pfx \in Maybe(ValParams), kind = "start" => pfx = None,
           NEW a \in Offers, NEW keep \in BOOLEAN, Enters(s, kind, pfx, a, keep)
    PROVE  Upright(stack') /\ stack' # <<>> /\ stack'[1].kind = stack[1].kind
<1> DEFINE b == IF keep THEN None ELSE a
           rest == Given(b)
<1>1. b \in Offers /\ b \in Maybe(ValParams) /\ a \in Maybe(ValParams)
  <2>1. a \in Maybe(ValParams)
    BY GivenBooks DEF Ledger
  <2> QED
    BY <2>1 DEF Offers, Maybe
<1>2. /\ Upright(rest) /\ rest # <<>> /\ rest[1].kind = stack[1].kind
      /\ rest \in Seq(Frame) /\ stack \in Seq(Frame)
  BY <1>1, GivenUpright
<1>3. /\ kind \in FrameKinds /\ kind \notin {"post", "alarm", "select"}
      /\ kind \notin {"post", "call"} => pfx = None
  BY DEF FrameKinds
<1>4. a = b \/ (b = None /\ a = rest[Len(rest)].held)
  <2>1. CASE keep
    <3>1. a # None
      BY <2>1 DEF Enters
    <3>2. rest = stack /\ b = None
      BY <2>1 DEF Given
    <3>3. a = stack[Len(stack)].held
      BY <3>1 DEF Offers, Top, Last
    <3> QED
      BY <3>2, <3>3
  <2>2. CASE ~ keep
    BY <2>2
  <2> QED
    BY <2>1, <2>2
<1>5. Executes(rest, s, kind, pfx, a, b)
  BY DEF Enters
<1> HIDE DEF b, rest
<1>6. /\ kind \in {"post", "alarm", "select"} <=> rest = <<>>
      /\ IF rest = <<>> THEN b = None ELSE a = b \/ (b = None /\ a = rest[Len(rest)].held)
  BY <1>2, <1>3, <1>4
<1>7. Upright(stack') /\ stack' # <<>> /\ stack'[1].kind = rest[1].kind
  BY <1>1, <1>2, <1>3, <1>5, <1>6, ExecutesUpright
<1> QED
  BY <1>2, <1>7
-----------------------------------------------------------------------------
(***************************************************************************)
(* The inductive invariant.                                                *)
(***************************************************************************)
Statuses == [Sessions -> {"none", "live", "stopped", "deleted"}]

IInv == /\ status \in Statuses
        /\ Ledger
        /\ Shared(impl, handle) /\ Counted(impl)
        /\ Upright(stack)
        /\ Remembered

(* What a handler does leaves the event at the foot of the stack, and its   *)
(* alarm, alone.                                                            *)
LEMMA HandlerStep ==
    ASSUME ParamsAssumption, IInv, Running, Ledger', Shared(impl', handle'), Counted(impl'), status' \in Statuses,
           \/ stack' = stack
           \/ \E a \in Offers : stack' = Given(a)
           \/ \E v \in ValParams : stack' = Holding(stack, v)
           \/ Upright(stack') /\ stack' # <<>> /\ stack'[1].kind = stack[1].kind,
           dispatched' = dispatched,
           \A x \in Alarms : alarm[x] # None => alarm'[x] # None
    PROVE  IInv'
<1>1. Ledger /\ Upright(stack) /\ stack \in Seq(Frame) /\ stack # <<>> /\ Remembered
  BY DEF IInv, Ledger, Books, Typed, Running
<1>2. Upright(stack') /\ stack' # <<>> /\ stack'[1].kind = stack[1].kind
  <2>1. CASE stack' = stack
    BY <1>1, <2>1
  <2>2. CASE \E a \in Offers : stack' = Given(a)
    BY <1>1, <2>2, GivenUpright
  <2>3. CASE \E v \in ValParams : stack' = Holding(stack, v)
    BY <1>1, <2>3, HoldingUpright DEF Maybe
  <2>4. CASE Upright(stack') /\ stack' # <<>> /\ stack'[1].kind = stack[1].kind
    BY <2>4
  <2> QED
    BY <2>1, <2>2, <2>3, <2>4
<1>3. Remembered'
  <2>1. SUFFICES ASSUME dispatched' # None
                 PROVE  /\ dispatched' \in Alarms /\ alarm'[dispatched'] # None
                        /\ stack' # <<>> /\ stack'[1].kind = "alarm"
    BY DEF Remembered, RememberedBy
  <2> QED
    BY <1>1, <1>2, <2>1 DEF Remembered, RememberedBy
<1>4. Upright(stack)'
  BY <1>2 DEF Upright, Stacked, Fits
<1> QED
  BY <1>3, <1>4 DEF IInv, Shared, Counted

LEMMA HandlesKept ==
    ASSUME IInv, UNCHANGED handles
    PROVE  Shared(impl', handle') /\ Counted(impl')
<1>1. impl' = impl /\ handle' = handle
  BY DEF handles
<1> QED
  BY <1>1 DEF IInv

LEMMA MessagesStep ==
    ASSUME ParamsAssumption, IInv, NEW a \in Maybe(ValParams),
           \/ \E p \in ValParams : Hold(p)
           \/ Fail(a) \/ Yield(a)
           \/ \E s \in Sessions : Post(s, a)
           \/ \E h \in Postbacks : PostbackPost(h, a)
    PROVE  IInv'
<1>1. Ledger /\ Shared(impl, handle) /\ Counted(impl) /\ status \in Statuses
  BY DEF IInv
<1>2. /\ Running /\ UNCHANGED handles /\ status' = status /\ dispatched' = dispatched /\ alarm' = alarm
      /\ (\E b \in Offers : stack' = Given(b)) \/ (\E p \in ValParams : stack' = Holding(stack, p))
  BY DEF Hold, Fail, Post, Yield, PostbackPost, Refuse, events, Holding
<1>3. Postbacks \subseteq Handles
  BY DEF Handles
<1>4. Ledger'
  BY <1>1, <1>3, HoldBooks, FailStep, PostStep, YieldStep, PostbackStep
<1>5. Shared(impl', handle') /\ Counted(impl')
  BY <1>2, HandlesKept
<1> QED
  BY <1>1, <1>2, <1>4, <1>5, HandlerStep

LEMMA HandlesStep ==
    ASSUME ParamsAssumption, IInv, NEW a \in Maybe(ValParams), NEW h \in Handles,
           Make(h, a) \/ Reset(h) \/ \E g \in Handles : Assign(h, g)
    PROVE  IInv'
<1>1. Ledger /\ Shared(impl, handle) /\ Counted(impl) /\ status \in Statuses
  BY DEF IInv
<1>2. /\ Running /\ status' = status /\ dispatched' = dispatched /\ alarm' = alarm
      /\ (\E b \in Offers : stack' = Given(b)) \/ stack' = stack
  BY DEF Make, Assign, Reset, events
<1>3. Ledger' /\ Shared(impl', handle') /\ Counted(impl')
  BY <1>1, MakeStep, AssignStep, ResetStep
<1> QED
  BY <1>1, <1>2, <1>3, HandlerStep

LEMMA AlarmsStep ==
    ASSUME ParamsAssumption, IInv, NEW a \in Maybe(ValParams),
           DelaySet(a) \/ Select(a) \/ SelectOff \/ \E x \in Alarms : DelayAdjust(x, a)
    PROVE  IInv'
<1>1. Ledger /\ Shared(impl, handle) /\ Counted(impl) /\ status \in Statuses /\ alarm \in [Alarms -> Maybe(Requests)]
  BY DEF IInv, Ledger, Books, Typed
<1>2. /\ Running /\ status' = status /\ dispatched' = dispatched /\ UNCHANGED handles
      /\ (\E b \in Offers : stack' = Given(b)) \/ stack' = stack
  BY DEF DelaySet, DelayAdjust, Select, SelectOff
<1>3. Ledger' /\ Shared(impl', handle') /\ Counted(impl')
  BY <1>1, <1>2, HandlesKept, DelaySetBooks, DelayAdjustBooks, SelectBooks, SelectOffBooks
<1>4. \A y \in Alarms : alarm[y] # None => alarm'[y] # None
  <2>1. CASE alarm' = alarm
    BY <2>1
  <2>2. CASE \E z \in Alarms : \E v : alarm[z] = None /\ alarm' = [alarm EXCEPT ![z] = v]
    BY <1>1, <2>2
  <2>3. CASE \E x \in Alarms : alarm[x] # None /\ alarm' = [alarm EXCEPT ![x].arg = a]
    <3>0. PICK x \in Alarms : alarm[x] # None /\ alarm' = [alarm EXCEPT ![x].arg = a]
      BY <2>3
    <3>1. alarm[x] \in Requests
      BY <1>1, <3>0 DEF Maybe
    <3>2. [alarm[x] EXCEPT !.arg = a] \in Requests
      BY <3>1 DEF Requests
    <3>3. PICK v \in Requests : v = [alarm[x] EXCEPT !.arg = a]
      BY <3>2
    <3>4. alarm' = [alarm EXCEPT ![x] = v] /\ v # None
      BY <3>0, <3>3, NoneApart
    <3> QED
      BY <1>1, <3>4
  <2> QED
    BY <2>1, <2>2, <2>3 DEF DelaySet, DelayAdjust, Select, SelectOff, Mine
<1> QED
  BY <1>1, <1>2, <1>3, <1>4, HandlerStep

LEMMA RemoveStep ==
    ASSUME ParamsAssumption, IInv, NEW x \in Alarms, AlarmRemove(x)
    PROVE  IInv'
<1>1. Ledger /\ Upright(stack) /\ status \in Statuses /\ alarm \in [Alarms -> Maybe(Requests)] /\ Remembered
  BY DEF IInv, Ledger, Books, Typed
<1>2. /\ status' = status /\ UNCHANGED handles /\ stack' = stack
      /\ alarm' = [alarm EXCEPT ![x] = None] /\ dispatched' = Marked(x)
  BY DEF AlarmRemove
<1>3. Ledger' /\ Shared(impl', handle') /\ Counted(impl')
  BY <1>1, <1>2, HandlesKept, AlarmRemoveBooks
<1>4. dispatched' # None => dispatched' = dispatched /\ dispatched # x
  BY <1>2 DEF Marked
<1>5. Remembered'
  BY <1>1, <1>2, <1>4 DEF Remembered, RememberedBy
<1> QED
  BY <1>1, <1>2, <1>3, <1>5 DEF IInv, Shared, Counted

LEMMA CallsStep ==
    ASSUME ParamsAssumption, IInv, NEW a \in Maybe(ValParams), NEW s \in Sessions, NEW keep \in BOOLEAN,
           Call(s, a, keep) \/ SessionCall(s, a, keep) \/ ContextSwitch(s) \/ StartSession(s, a)
    PROVE  IInv'
<1>1. Ledger /\ Shared(impl, handle) /\ Counted(impl) /\ status \in Statuses /\ Upright(stack)
  BY DEF IInv
<1>2. /\ Running /\ dispatched' = dispatched /\ alarm' = alarm /\ UNCHANGED handles
      /\ \/ \E b \in Offers, kind \in {"call", "start"}, k \in BOOLEAN : Enters(s, kind, None, b, k)
         \/ \E b \in Offers : stack' = Given(b)
  <2>1. FALSE \in BOOLEAN /\ None \in Offers /\ "call" \in {"call", "start"} /\ "start" \in {"call", "start"}
    BY DEF Offers
  <2> QED
    BY <2>1 DEF Call, SessionCall, ContextSwitch, StartSession, Refuse, events
<1>3. status' \in Statuses
  <2>1. status' = status \/ \E v \in {"live", "deleted"} : status' = [status EXCEPT ![s] = v]
    BY DEF Call, SessionCall, ContextSwitch, StartSession
  <2> QED
    BY <1>1, <2>1 DEF Statuses
<1>4. Ledger' /\ Shared(impl', handle') /\ Counted(impl')
  BY <1>1, <1>2, HandlesKept, CallStep, ContextSwitchStep, StartSessionStep
<1>5. CASE \E b \in Offers, kind \in {"call", "start"}, k \in BOOLEAN : Enters(s, kind, None, b, k)
  <2>1. None \in Maybe(ValParams)
    BY DEF Maybe
  <2>2. Upright(stack') /\ stack' # <<>> /\ stack'[1].kind = stack[1].kind
    BY <1>1, <1>2, <1>5, <2>1, EntersUpright
  <2> QED
    BY <1>1, <1>2, <1>3, <1>4, <2>2, HandlerStep
<1>6. CASE \E b \in Offers : stack' = Given(b)
  BY <1>1, <1>2, <1>3, <1>4, <1>6, HandlerStep
<1> QED
  BY <1>2, <1>5, <1>6

LEMMA CallbackStep ==
    ASSUME ParamsAssumption, IInv, NEW a \in Maybe(ValParams), NEW h \in Callbacks, NEW keep \in BOOLEAN,
           CallbackCall(h, a, keep)
    PROVE  IInv'
<1>1. Ledger /\ Shared(impl, handle) /\ Counted(impl) /\ status \in Statuses /\ Upright(stack)
  BY DEF IInv
<1>2. /\ Running /\ dispatched' = dispatched /\ alarm' = alarm /\ UNCHANGED handles /\ status' = status
      /\ a \in Offers /\ handle[h] # None
      /\ Enters(impl[handle[h]].target, "call", impl[handle[h]].prefix, a, keep)
  BY DEF CallbackCall, events
<1>3. Ledger' /\ Shared(impl', handle') /\ Counted(impl')
  BY <1>1, <1>2, HandlesKept, CallbackCallStep
<1>4. ImplType(impl) /\ h \in Handles
  BY <1>1 DEF Ledger, Books, Typed, ImplType, Handles
<1>5. impl[handle[h]] \in Shares
  BY <1>1, <1>2, <1>4, HandleImpl
<1>6. impl[handle[h]].target \in Sessions /\ impl[handle[h]].prefix \in Maybe(ValParams)
  BY <1>5 DEF Shares
<1>7. Upright(stack') /\ stack' # <<>> /\ stack'[1].kind = stack[1].kind
  BY <1>1, <1>2, <1>6, EntersUpright
<1> QED
  BY <1>1, <1>2, <1>3, <1>7, HandlerStep

LEMMA StopStep ==
    ASSUME ParamsAssumption, IInv, NEW s \in Sessions, StopSession(s)
    PROVE  IInv'
<1>1. /\ Running /\ UNCHANGED <<heap, queue, alarm, watcher, impl, stack, dispatched, handle>>
      /\ status' = [status EXCEPT ![s] = "stopped"]
  BY DEF StopSession, events, handles
<1>2. Ledger /\ Shared(impl, handle) /\ Counted(impl) /\ status \in Statuses
  BY DEF IInv
<1>3. Ledger'
  BY <1>1, <1>2 DEF Ledger
<1>4. status' \in Statuses
  BY <1>1, <1>2 DEF Statuses
<1> QED
  BY <1>1, <1>2, <1>3, <1>4, HandlerStep

LEMMA OutsideStep ==
    ASSUME ParamsAssumption, IInv, NEW s \in Sessions, NEW p \in Maybe(ValParams), PostFromOutside(s, p)
    PROVE  IInv'
<1>1. Ledger /\ Shared(impl, handle) /\ Counted(impl) /\ status \in Statuses /\ Upright(stack) /\ Remembered
  BY DEF IInv
<1>2. UNCHANGED <<status, stack, dispatched, alarm, impl, handle>>
  BY DEF PostFromOutside, handles
<1>3. Ledger'
  BY <1>1, OutsideBooks
<1> QED
  BY <1>1, <1>2, <1>3 DEF IInv, Shared, Counted, Upright, Stacked, Fits, Remembered

LEMMA IdleUpright ==
    ASSUME ParamsAssumption
    PROVE  Upright(<<>>) /\ <<>> \in Seq(Frame)
BY DEF Upright, Stacked, ParamsAssumption

LEMMA DispatchStep ==
    ASSUME ParamsAssumption, IInv, DispatchMsg \/ \E s \in Sessions : DispatchIo(s)
    PROVE  IInv'
<1>0. ParamsAssumption /\ None \in Maybe(ValParams)
  BY DEF Maybe
<1>1. Ledger /\ Shared(impl, handle) /\ Counted(impl) /\ status \in Statuses /\ Upright(stack) /\ Remembered
  BY DEF IInv
<1>2. /\ Idle /\ UNCHANGED <<status, dispatched, alarm, impl, handle>>
  BY DEF DispatchMsg, DispatchIo, events, handles
<1>3. Ledger'
  BY <1>1, DispatchMsgStep, DispatchIoStep
<1>4. dispatched = None
  BY <1>1, <1>2 DEF Remembered, RememberedBy, Idle
<1>5. Typed(queue, alarm, watcher, impl, <<>>) /\ heap \in [ValParams -> Cell] /\ stack = <<>>
  BY <1>1, <1>2, IdleFacts DEF Account
<1>6. \/ \E s \in Sessions, kind \in {"post", "select"}, pfx \in Maybe(ValParams), arg \in Maybe(ValParams) :
             /\ Executes(<<>>, s, kind, pfx, arg, None) /\ (kind # "post" => pfx = None)
      \/ stack' = stack
  <2>1. CASE DispatchMsg
    <3>1. queue # <<>> /\ Head(queue) \in Messages
      BY <1>0, <1>5, <2>1, OwnQueueTail DEF DispatchMsg
    <3>2. /\ Head(queue).to \in Sessions /\ Head(queue).pfx \in Maybe(ValParams)
          /\ Head(queue).arg \in Maybe(ValParams)
      BY <3>1 DEF Messages
    <3>3. Executes(<<>>, Head(queue).to, "post", Head(queue).pfx, Head(queue).arg, None) \/ stack' = stack
      BY <2>1 DEF DispatchMsg
    <3>4. "post" \in {"post", "select"}
      OBVIOUS
    <3> QED
      BY <3>2, <3>3, <3>4
  <2>2. CASE \E s \in Sessions : DispatchIo(s)
    <3>1. PICK s \in Sessions : \E a \in watcher[s] : Executes(<<>>, s, "select", None, a, None)
      BY <2>2 DEF DispatchIo
    <3>2. watcher[s] \in Watchers
      BY <1>5 DEF Typed
    <3>3. PICK a \in Maybe(ValParams) : Executes(<<>>, s, "select", None, a, None)
      BY <3>1, <3>2 DEF Watchers
    <3>4. "select" \in {"post", "select"}
      OBVIOUS
    <3> QED
      BY <1>0, <3>1, <3>3, <3>4
  <2> QED
    BY <2>1, <2>2
<1>7. CASE \E s \in Sessions, kind \in {"post", "select"}, pfx \in Maybe(ValParams), arg \in Maybe(ValParams) :
             /\ Executes(<<>>, s, kind, pfx, arg, None) /\ (kind # "post" => pfx = None)
  <2>1. PICK s \in Sessions, kind \in {"post", "select"}, pfx \in Maybe(ValParams), arg \in Maybe(ValParams) :
             /\ Executes(<<>>, s, kind, pfx, arg, None) /\ (kind # "post" => pfx = None)
    BY <1>7
  <2>2. PICK rest : rest = <<>>
    OBVIOUS
  <2>3. /\ kind \in FrameKinds /\ rest \in Seq(Frame) /\ Upright(rest)
        /\ kind \in {"post", "alarm", "select"} <=> rest = <<>>
        /\ kind \notin {"post", "call"} => pfx = None
        /\ IF rest = <<>> THEN None = None ELSE arg = None \/ (None = None /\ arg = rest[Len(rest)].held)
        /\ Executes(rest, s, kind, pfx, arg, None)
    BY <2>1, <2>2, IdleUpright DEF FrameKinds
  <2>4. s \in Sessions /\ pfx \in Maybe(ValParams) /\ arg \in Maybe(ValParams)
    OBVIOUS
  <2>5. Upright(stack')
    BY ONLY <1>0, <2>3, <2>4, ExecutesUpright
  <2> QED
    BY <1>1, <1>2, <1>3, <1>4, <2>5 DEF IInv, Shared, Counted, Upright, Stacked, Fits, Remembered, RememberedBy
<1>8. CASE stack' = stack
  BY <1>1, <1>2, <1>3, <1>4, <1>8 DEF IInv, Shared, Counted, Upright, Stacked, Fits, Remembered, RememberedBy
<1> QED
  BY <1>6, <1>7, <1>8

LEMMA AlarmStep ==
    ASSUME ParamsAssumption, IInv, NEW x \in Alarms, DispatchAlarm(x)
    PROVE  IInv'
<1>0. ParamsAssumption /\ None \in Maybe(ValParams) /\ x \in Alarms
  BY DEF Maybe
<1>1. Ledger /\ Shared(impl, handle) /\ Counted(impl) /\ status \in Statuses /\ Upright(stack) /\ Remembered
  BY DEF IInv
<1>2. /\ Idle /\ UNCHANGED <<status, impl, handle>> /\ alarm[x] # None
  BY DEF DispatchAlarm, handles
<1>3. Ledger'
  BY <1>1, DispatchAlarmStep
<1>4. dispatched = None
  BY <1>1, <1>2 DEF Remembered, RememberedBy, Idle
<1>5. Typed(queue, alarm, watcher, impl, <<>>) /\ stack = <<>>
  BY <1>1, <1>2, IdleFacts
<1>6. alarm[x].of \in Sessions /\ alarm[x].arg \in Maybe(ValParams)
  BY <1>0, <1>2, <1>5, AlarmOwned
<1>7. CASE status[alarm[x].of] = "live"
  <2>1. /\ Executes(<<>>, alarm[x].of, "alarm", None, alarm[x].arg, None)
        /\ dispatched' = (IF stack' = <<>> THEN None ELSE x)
        /\ stack' # <<>> => alarm' = alarm
    BY <1>7 DEF DispatchAlarm
  <2>2. PICK rest : rest = <<>>
    OBVIOUS
  <2>3. PICK kind : kind = "alarm"
    OBVIOUS
  <2>4. /\ kind \in FrameKinds /\ rest \in Seq(Frame) /\ Upright(rest)
        /\ kind \in {"post", "alarm", "select"} <=> rest = <<>>
        /\ kind \notin {"post", "call"} => None = None
        /\ IF rest = <<>> THEN None = None
           ELSE alarm[x].arg = None \/ (None = None /\ alarm[x].arg = rest[Len(rest)].held)
        /\ Executes(rest, alarm[x].of, kind, None, alarm[x].arg, None)
    BY <2>1, <2>2, <2>3, IdleUpright DEF FrameKinds
  <2>5. /\ Upright(stack')
        /\ rest = <<>> /\ stack' # <<>> => stack'[1].kind = kind
    BY ONLY <1>0, <1>6, <2>4, ExecutesUpright
  <2>6. Remembered'
    BY <1>2, <2>1, <2>2, <2>3, <2>5 DEF Remembered, RememberedBy
  <2> QED
    BY <1>1, <1>2, <1>3, <2>5, <2>6 DEF IInv, Shared, Counted, Upright, Stacked, Fits
<1>8. CASE status[alarm[x].of] # "live"
  <2>1. stack' = stack /\ dispatched' = dispatched
    BY <1>8 DEF DispatchAlarm
  <2> QED
    BY <1>1, <1>2, <1>3, <1>4, <2>1 DEF IInv, Shared, Counted, Upright, Stacked, Fits, Remembered, RememberedBy
<1> QED
  BY <1>7, <1>8

LEMMA BackStep ==
    ASSUME ParamsAssumption, IInv, Return
    PROVE  IInv'
<1>1. /\ Ledger /\ Shared(impl, handle) /\ Counted(impl) /\ status \in Statuses /\ Upright(stack) /\ Remembered
      /\ stack \in Seq(Frame) /\ stack # <<>> /\ MaxDepth \in Nat
  BY DEF IInv, Ledger, Books, Typed, Return, ParamsAssumption
<1>2. /\ UNCHANGED <<status, impl, handle>> /\ stack' = Front(stack)
      /\ IF Last(stack).kind = "alarm" /\ dispatched # None THEN dispatched' = None
         ELSE UNCHANGED <<alarm, dispatched>>
  BY DEF Return, handles, Top
<1>3. Ledger'
  BY <1>1, ReturnStep DEF Upright
<1>4. /\ Upright(Front(stack))
      /\ Len(stack) # 1 => Front(stack) # <<>> /\ Front(stack)[1] = stack[1]
      /\ Len(stack) = 1 => stack[1] = Last(stack)
  BY <1>1, FrontUpright
<1>5. Remembered'
  <2>1. CASE dispatched' = None
    BY <2>1 DEF Remembered, RememberedBy
  <2>2. CASE dispatched' # None
    <3>1. UNCHANGED <<alarm, dispatched>> /\ Last(stack).kind # "alarm"
      BY <1>2, <2>2
    <3>2. stack[1].kind = "alarm" /\ dispatched \in Alarms /\ alarm[dispatched] # None
      BY <1>1, <2>2, <3>1 DEF Remembered, RememberedBy
    <3>3. Len(stack) # 1
      BY <1>4, <3>1, <3>2
    <3> QED
      BY <1>2, <1>4, <3>1, <3>2, <3>3 DEF Remembered, RememberedBy
  <2> QED
    BY <2>1, <2>2
<1> QED
  BY <1>1, <1>2, <1>3, <1>4, <1>5 DEF IInv, Shared, Counted, Upright, Stacked, Fits

LEMMA DestroyStep ==
    ASSUME ParamsAssumption, IInv, NEW s \in Sessions, DestroySession(s)
    PROVE  IInv'
<1>1. Ledger /\ Shared(impl, handle) /\ Counted(impl) /\ status \in Statuses /\ Upright(stack) /\ Remembered
  BY DEF IInv
<1>2. /\ Idle /\ UNCHANGED <<impl, handle, stack, dispatched>>
      /\ status' = [status EXCEPT ![s] = "deleted"]
  BY DEF DestroySession, handles
<1>3. Ledger' /\ status' \in Statuses
  BY <1>1, <1>2, DestroySessionStep DEF Statuses
<1>4. dispatched = None
  BY <1>1, <1>2 DEF Remembered, RememberedBy, Idle
<1> QED
  BY <1>1, <1>2, <1>3, <1>4 DEF IInv, Shared, Counted, Upright, Stacked, Fits, Remembered, RememberedBy
-----------------------------------------------------------------------------
(***************************************************************************)
(* The invariant holds at the start, and every step keeps it.              *)
(***************************************************************************)
LEMMA CountNowhere ==
    ASSUME NEW f, NEW S, \A x \in DOMAIN f : f[x] \notin S
    PROVE  Count(f, S) = 0
<1>1. Places(f, S) = {}
  BY DEF Places
<1> QED
  BY <1>1, FS_EmptySet DEF Count

LEMMA TallyNowhere ==
    ASSUME NEW f, NEW S, \A x \in DOMAIN f : Marks(S, f[x], None), None \notin ValParams
    PROVE  \A p \in ValParams : Tally(f, S)[p] = 0
<1>1. ASSUME NEW p \in ValParams PROVE Count(f, S[p]) = 0
  <2>1. \A x \in DOMAIN f : f[x] \notin S[p]
    BY DEF Marks
  <2> QED
    BY <2>1, CountNowhere
<1> QED
  BY <1>1 DEF Tally

LEMMA StartBooks ==
    ASSUME ParamsAssumption, Init
    PROVE  Ledger
<1>0. ParamsAssumption /\ None \notin ValParams /\ None \in Maybe(ValParams)
  BY NoneApart DEF Maybe
<1>1. /\ heap = [p \in ValParams |-> [state |-> "free", locked |-> 0]]
      /\ queue = <<>> /\ stack = <<>> /\ alarm = [a \in Alarms |-> None]
      /\ watcher = [s \in Sessions |-> {}] /\ impl = [i \in Impls |-> None]
  BY DEF Init
<1>2. Typed(queue, alarm, watcher, impl, stack)
  BY <1>0, <1>1 DEF Typed, Maybe, Watchers
<1>3. /\ Marks(ByRequest, None, None) /\ Marks(ByPrefix, None, None) /\ Marks(ByWatch, {}, None)
  BY <1>0, NoneApart DEF Marks, ByRequest, ByPrefix, ByWatch
<1>4. ASSUME NEW p \in ValParams
      PROVE  Own(queue, alarm, watcher, impl, stack)[p] = 0 /\ Lock(stack)[p] = 0
             /\ OwnedInHandlers(stack)[p] = 0
  <2>1. Tally(alarm, ByRequest)[p] = 0 /\ Tally(impl, ByPrefix)[p] = 0 /\ Tally(watcher, ByWatch)[p] = 0
    BY <1>0, <1>1, <1>3, TallyNowhere
  <2>2. /\ Lock(stack)[p] = 0 /\ OwnedInHandlers(stack)[p] = 0
        /\ OwnedInQueue(queue)[p] = 0
        /\ Tally(stack, ByLeadPfx)[p] = 0 /\ Tally(stack, ByLeadArg)[p] = 0
    BY <1>0, <1>1, OwnNothing, TallyEmpty
  <2>3. Own(queue, alarm, watcher, impl, stack)[p] =
           (OwnedInQueue(queue)[p] + (Tally(alarm, ByRequest)[p] + (Tally(watcher, ByWatch)[p] + Tally(impl, ByPrefix)[p])))
             + (OwnedInHandlers(stack)[p] + (Tally(stack, ByLeadPfx)[p] + Tally(stack, ByLeadArg)[p]))
    BY <1>0, <1>2, OwnParts
  <2> QED
    BY <2>1, <2>2, <2>3
<1>5. Account(heap, Own(queue, alarm, watcher, impl, stack), Lock(stack))
  <2> DEFINE v == [state |-> "free", locked |-> 0]
  <2>1. v \in Cell /\ Good(v, 0, 0)
    BY DEF Cell, Good
  <2>2. heap = [p \in ValParams |-> v]
    BY <1>1
  <2> HIDE DEF v
  <2> QED
    BY <1>4, <2>1, <2>2 DEF Account
<1> QED
  BY <1>2, <1>4, <1>5 DEF Ledger, Books, Apart

LEMMA InitInv ==
    ASSUME ParamsAssumption, Init
    PROVE  IInv
<1>1. /\ status \in Statuses /\ stack = <<>> /\ dispatched = None
      /\ impl = [i \in Impls |-> None] /\ handle = [h \in Handles |-> None]
  BY DEF Init, Statuses
<1>2. None \notin Impls
  BY NoneApart
<1>3. Shared(impl, handle)
  <2>1. handle \in [Handles -> Maybe(Impls)]
    BY <1>1 DEF Maybe
  <2>2. ASSUME NEW i \in Impls PROVE Uses(handle, i) = 0
    BY <1>1, <1>2, CountNowhere DEF Uses
  <2> QED
    BY <1>1, <2>1, <2>2 DEF Shared
<1>4. Counted(impl)
  BY <1>1 DEF Counted
<1>5. Upright(stack) /\ Remembered
  BY <1>1, IdleUpright DEF Remembered, RememberedBy
<1> QED
  BY <1>1, <1>3, <1>4, <1>5, StartBooks DEF IInv

LEMMA UserCodeStep ==
    ASSUME ParamsAssumption, IInv, UserCode
    PROVE  IInv'
<1>0. None \in Maybe(ValParams) /\ TRUE \in BOOLEAN
  BY DEF Maybe
<1>1. CASE \E p \in ValParams : Hold(p)
  BY <1>0, <1>1, MessagesStep
<1>2. CASE \E s \in Sessions : StopSession(s)
  BY <1>2, StopStep
<1>3. CASE \E s \in Sessions : ContextSwitch(s)
  BY <1>0, <1>3, CallsStep
<1>4. CASE \E al \in Alarms : AlarmRemove(al)
  BY <1>4, RemoveStep
<1>5. CASE SelectOff
  BY <1>0, <1>5, AlarmsStep
<1>6. CASE \E h \in Handles : Reset(h)
  BY <1>0, <1>6, HandlesStep
<1>7. CASE \E h, g \in Handles : Assign(h, g)
  BY <1>0, <1>7, HandlesStep
<1>8. ASSUME NEW a \in Maybe(ValParams),
             \/ Fail(a) \/ Yield(a) \/ DelaySet(a) \/ Select(a)
             \/ \E s \in Sessions : StartSession(s, a) \/ Post(s, a)
             \/ \E h \in Handles : Make(h, a)
             \/ \E h \in Postbacks : PostbackPost(h, a)
             \/ \E al \in Alarms : DelayAdjust(al, a)
             \/ \E keep \in BOOLEAN :
                   \/ \E s \in Sessions : Call(s, a, keep) \/ SessionCall(s, a, keep)
                   \/ \E h \in Callbacks : CallbackCall(h, a, keep)
      PROVE  IInv'
  <2>1. CASE Fail(a) \/ Yield(a) \/ (\E s \in Sessions : Post(s, a)) \/ (\E h \in Postbacks : PostbackPost(h, a))
    BY <2>1, MessagesStep
  <2>2. CASE DelaySet(a) \/ Select(a) \/ (\E al \in Alarms : DelayAdjust(al, a))
    BY <2>2, AlarmsStep
  <2>3. CASE \E s \in Sessions : StartSession(s, a)
    BY <1>0, <2>3, CallsStep
  <2>4. CASE \E h \in Handles : Make(h, a)
    BY <2>4, HandlesStep
  <2>5. CASE \E keep \in BOOLEAN : \E s \in Sessions : Call(s, a, keep) \/ SessionCall(s, a, keep)
    BY <2>5, CallsStep
  <2>6. CASE \E keep \in BOOLEAN : \E h \in Callbacks : CallbackCall(h, a, keep)
    BY <2>6, CallbackStep
  <2> QED
    BY <1>8, <2>1, <2>2, <2>3, <2>4, <2>5, <2>6
<1> QED
  BY <1>1, <1>2, <1>3, <1>4, <1>5, <1>6, <1>7, <1>8 DEF UserCode

LEMMA NextStep ==
    ASSUME ParamsAssumption, IInv, [Next]_vars
    PROVE  IInv'
<1>1. CASE UserCode
  BY <1>1, UserCodeStep
<1>2. CASE DispatchMsg \/ \E s \in Sessions : DispatchIo(s)
  BY <1>2, DispatchStep
<1>3. CASE Return
  BY <1>3, BackStep
<1>4. CASE \E al \in Alarms : DispatchAlarm(al)
  BY <1>4, AlarmStep
<1>5. CASE \E s \in Sessions : DestroySession(s)
  BY <1>5, DestroyStep
<1>6. CASE \E s \in Sessions, p \in Maybe(ValParams) : PostFromOutside(s, p)
  BY <1>6, OutsideStep
<1>7. CASE UNCHANGED vars
  BY <1>7 DEF vars, IInv, Ledger, Shared, Counted, Upright, Stacked, Fits, Remembered
<1> QED
  BY <1>1, <1>2, <1>3, <1>4, <1>5, <1>6, <1>7 DEF Next, Loop

(* Every argument's owners and readers are counted, every handle is, and    *)
(* the stack holds one event with its calls, whatever handlers do in        *)
(* whatever order.                                                          *)
THEOREM Inductive == Spec => []IInv
<1>1. Init => IInv
  BY ParamsAssumption, InitInv
<1>2. IInv /\ [Next]_vars => IInv'
  BY ParamsAssumption, NextStep
<1> QED
  BY <1>1, <1>2, PTL DEF Spec
-----------------------------------------------------------------------------
(***************************************************************************)
(* What the books say about the arguments.                                 *)
(***************************************************************************)
LEMMA Balanced ==
    ASSUME ParamsAssumption, IInv, NEW p \in ValParams
    PROVE  /\ heap[p] \in Cell /\ heap[p].state # "broken"
           /\ Own(queue, alarm, watcher, impl, stack)[p]
                = (IF heap[p].state = "live" /\ heap[p].locked >= 0 THEN 1 ELSE 0)
           /\ Lock(stack)[p] = (IF heap[p].locked < 0 THEN -heap[p].locked ELSE heap[p].locked)
           /\ Own(queue, alarm, watcher, impl, stack)[p] # 0 \/ Lock(stack)[p] # 0
                => heap[p].state = "live"
<1>1. Good(heap[p], Own(queue, alarm, watcher, impl, stack)[p], Lock(stack)[p])
  BY DEF IInv, Ledger, Books, Account
<1>2. heap[p].state \in {"free", "live", "broken"} /\ heap[p].locked \in Int
  BY <1>1 DEF Good, Cell
<1> QED
  BY <1>1, <1>2 DEF Good

LEMMA FiniteParts ==
    ASSUME ParamsAssumption, IInv
    PROVE  /\ Typed(queue, alarm, watcher, impl, stack)
           /\ DOMAIN stack = 1..Len(stack) /\ Len(stack) \in Nat
           /\ IsFiniteSet(DOMAIN queue) /\ IsFiniteSet(DOMAIN stack)
           /\ IsFiniteSet(DOMAIN alarm) /\ IsFiniteSet(DOMAIN watcher) /\ IsFiniteSet(DOMAIN impl)
           /\ \A d \in DOMAIN stack : stack[d] \in Frame
<1>1. Typed(queue, alarm, watcher, impl, stack)
  BY DEF IInv, Ledger, Books
<1>2. queue \in Seq(Messages) /\ stack \in Seq(Frame)
  BY <1>1 DEF Typed
<1>3. /\ IsFiniteSet(DOMAIN queue) /\ IsFiniteSet(DOMAIN stack)
      /\ DOMAIN stack = 1..Len(stack) /\ Len(stack) \in Nat
  BY <1>2, SeqFinite
<1>4. DOMAIN alarm = Alarms /\ DOMAIN watcher = Sessions /\ DOMAIN impl = Impls
  BY <1>1 DEF Typed
<1> QED
  BY <1>1, <1>2, <1>3, <1>4, NoneApart

(* What a context names is there.                                           *)
LEMMA FrameSeen ==
    ASSUME ParamsAssumption, IInv, NEW p \in ValParams, NEW d \in DOMAIN stack
    PROVE  \/ stack[d].held = p \/ stack[d].owned = p
           \/ LockedPfx(stack[d]) = p \/ LockedArg(stack[d]) = p
           => heap[p].state = "live"
<1>1. /\ Typed(queue, alarm, watcher, impl, stack) /\ IsFiniteSet(DOMAIN stack) /\ stack[d] \in Frame
  BY FiniteParts
<1>2. /\ Own(queue, alarm, watcher, impl, stack)[p] =
           (OwnedInQueue(queue)[p] + (Tally(alarm, ByRequest)[p] + (Tally(watcher, ByWatch)[p] + Tally(impl, ByPrefix)[p])))
             + (OwnedInHandlers(stack)[p] + (Tally(stack, ByLeadPfx)[p] + Tally(stack, ByLeadArg)[p]))
      /\ OwnedInHandlers(stack)[p] = Tally(stack, ByHeld)[p] + Tally(stack, ByOwned)[p]
      /\ Lock(stack)[p] = Tally(stack, ByLockPfx)[p] + Tally(stack, ByLockArg)[p]
      /\ OwnedInQueue(queue)[p] \in Nat /\ Tally(alarm, ByRequest)[p] \in Nat
      /\ Tally(watcher, ByWatch)[p] \in Nat /\ Tally(impl, ByPrefix)[p] \in Nat
      /\ Tally(stack, ByLeadPfx)[p] \in Nat /\ Tally(stack, ByLeadArg)[p] \in Nat
      /\ Tally(stack, ByHeld)[p] \in Nat /\ Tally(stack, ByOwned)[p] \in Nat
      /\ Tally(stack, ByLockPfx)[p] \in Nat /\ Tally(stack, ByLockArg)[p] \in Nat
  BY <1>1, OwnParts
<1>3. /\ stack[d].held = p => Tally(stack, ByHeld)[p] >= 1
      /\ stack[d].owned = p => Tally(stack, ByOwned)[p] >= 1
      /\ LockedPfx(stack[d]) = p => Tally(stack, ByLockPfx)[p] >= 1
      /\ LockedArg(stack[d]) = p => Tally(stack, ByLockArg)[p] >= 1
  <2>1. /\ stack[d].held = p => stack[d] \in ByHeld[p]
        /\ stack[d].owned = p => stack[d] \in ByOwned[p]
        /\ LockedPfx(stack[d]) = p => stack[d] \in ByLockPfx[p]
        /\ LockedArg(stack[d]) = p => stack[d] \in ByLockArg[p]
    BY <1>1 DEF ByHeld, ByOwned, ByLockPfx, ByLockArg
  <2>2. \A S : stack[d] \in S => Count(stack, S) >= 1
    BY <1>1, CountFacts
  <2>3. /\ Tally(stack, ByHeld)[p] = Count(stack, ByHeld[p])
        /\ Tally(stack, ByOwned)[p] = Count(stack, ByOwned[p])
        /\ Tally(stack, ByLockPfx)[p] = Count(stack, ByLockPfx[p])
        /\ Tally(stack, ByLockArg)[p] = Count(stack, ByLockArg[p])
    BY DEF Tally
  <2> QED
    BY <2>1, <2>2, <2>3
<1>4. /\ stack[d].held = p \/ stack[d].owned = p => Own(queue, alarm, watcher, impl, stack)[p] # 0
      /\ LockedPfx(stack[d]) = p \/ LockedArg(stack[d]) = p => Lock(stack)[p] # 0
  <2> DEFINE h == Tally(stack, ByHeld)[p]
             o == Tally(stack, ByOwned)[p]
             x == Tally(stack, ByLockPfx)[p]
             y == Tally(stack, ByLockArg)[p]
             q == OwnedInQueue(queue)[p]
             u == Tally(alarm, ByRequest)[p]
             v == Tally(watcher, ByWatch)[p]
             w == Tally(impl, ByPrefix)[p]
             m == Tally(stack, ByLeadPfx)[p]
             n == Tally(stack, ByLeadArg)[p]
  <2>1. /\ q \in Nat /\ u \in Nat /\ v \in Nat /\ w \in Nat /\ m \in Nat /\ n \in Nat
        /\ h \in Nat /\ o \in Nat /\ x \in Nat /\ y \in Nat
        /\ Own(queue, alarm, watcher, impl, stack)[p] = (q + (u + (v + w))) + ((h + o) + (m + n))
        /\ Lock(stack)[p] = x + y
    BY <1>2, Zenon
  <2>2. /\ stack[d].held = p => h >= 1
        /\ stack[d].owned = p => o >= 1
        /\ LockedPfx(stack[d]) = p => x >= 1
        /\ LockedArg(stack[d]) = p => y >= 1
    BY <1>3
  <2> HIDE DEF h, o, x, y, q, u, v, w, m, n
  <2>3. h >= 1 \/ o >= 1 => (q + (u + (v + w))) + ((h + o) + (m + n)) # 0
    BY <2>1
  <2>4. x >= 1 \/ y >= 1 => x + y # 0
    BY <2>1
  <2> QED
    BY <2>1, <2>2, <2>3, <2>4
<1> QED
  BY <1>4, Balanced

LEMMA GoodArguments ==
    ASSUME ParamsAssumption, IInv
    PROVE  ArgumentsGood
<1>0. ParamsAssumption /\ IInv
  OBVIOUS
<1>1. SUFFICES ASSUME NEW d \in DOMAIN stack
               PROVE  /\ \A p \in {stack[d].pfx, stack[d].arg} \ {None} : heap[p].state = "live"
                      /\ stack[d].takes = PfxTypes(stack[d].kind, stack[d].pfx) \o Types(stack[d].arg)
  BY DEF ArgumentsGood
<1>2. /\ Fits(stack, d) /\ stack[d] \in Frame /\ d \in 1..Len(stack) /\ Len(stack) \in Nat
      /\ DOMAIN stack = 1..Len(stack)
  <2>1. DOMAIN stack = 1..Len(stack) /\ Len(stack) \in Nat /\ stack[d] \in Frame
    BY <1>0, FiniteParts
  <2> QED
    BY <2>1 DEF IInv, Upright, Stacked
<1>3. stack[d].takes = PfxTypes(stack[d].kind, stack[d].pfx) \o Types(stack[d].arg)
  BY <1>2 DEF Fits
<1>4. ASSUME NEW p \in {stack[d].pfx, stack[d].arg} \ {None} PROVE heap[p].state = "live"
  <2>1. p \in ValParams /\ stack[d].kind \in {"post", "alarm", "select", "call", "start"}
    BY <1>2 DEF Frame, Maybe
  <2>2. \/ LockedPfx(stack[d]) = p \/ LockedArg(stack[d]) = p \/ stack[d].owned = p
        \/ d # 1 /\ stack[d - 1].held = p
    BY <1>2, <1>4, <2>1 DEF Fits, LockedPfx, LockedArg
  <2>3. CASE LockedPfx(stack[d]) = p \/ LockedArg(stack[d]) = p \/ stack[d].owned = p
    BY <1>0, <2>1, <2>3, FrameSeen
  <2>4. CASE d # 1 /\ stack[d - 1].held = p
    <3>1. d - 1 \in DOMAIN stack
      BY <1>2, <2>4
    <3> QED
      BY <1>0, <2>1, <2>4, <3>1, FrameSeen
  <2> QED
    BY <2>2, <2>3, <2>4
<1> QED
  BY <1>3, <1>4

LEMMA ExactRefcnt ==
    ASSUME ParamsAssumption, IInv
    PROVE  /\ RefcntExact
           /\ \A i \in Impls : impl[i] # None => impl[i].refcnt \in 1..Cardinality(Handles)
<1>1. /\ handle \in [Handles -> Maybe(Impls)] /\ ImplType(impl) /\ Counted(impl)
      /\ \A i \in Impls : Uses(handle, i) = (IF impl[i] = None THEN 0 ELSE impl[i].refcnt)
  BY DEF IInv, Shared, Ledger, Books, Typed, ImplType
<1>2. ASSUME NEW i \in Impls
      PROVE  /\ Cardinality({h \in Handles : handle[h] = i}) = Uses(handle, i)
             /\ Cardinality({h \in Handles : handle[h] = i}) <= Cardinality(Handles)
             /\ Cardinality(Handles) \in Nat
  <2>1. {h \in Handles : handle[h] = i} = Places(handle, {i})
    BY <1>1 DEF Places
  <2>2. {h \in Handles : handle[h] = i} \subseteq Handles /\ IsFiniteSet(Handles)
    BY NoneApart
  <2> QED
    BY <2>1, <2>2, FS_Subset, FS_CardinalityType DEF Uses, Count
<1>3. RefcntExact
  BY <1>1, <1>2 DEF RefcntExact
<1>4. ASSUME NEW i \in Impls, impl[i] # None PROVE impl[i].refcnt \in 1..Cardinality(Handles)
  <2>1. impl[i] \in Shares
    BY <1>1, <1>4 DEF ImplType, Maybe
  <2>2. impl[i].refcnt \in Nat
    BY <2>1 DEF Shares
  <2>3. impl[i].refcnt >= 1 /\ impl[i].refcnt <= Cardinality(Handles) /\ Cardinality(Handles) \in Nat
    BY <1>1, <1>2, <1>4 DEF Counted
  <2> QED
    BY <2>2, <2>3
<1> QED
  BY <1>3, <1>4
-----------------------------------------------------------------------------
(***************************************************************************)
(* Owners and readers as sets: the model tells them apart by a tag.        *)
(***************************************************************************)
Tag(A, t) == {<<x, t>> : x \in A}

LEMMA AddTagged ==
    ASSUME NEW X, IsFiniteSet(X), NEW A, IsFiniteSet(A), NEW t, \A x \in A : <<x, t>> \notin X
    PROVE  /\ IsFiniteSet(X \cup Tag(A, t))
           /\ Cardinality(X \cup Tag(A, t)) = Cardinality(X) + Cardinality(A)
<1> DEFINE T == Tag(A, t)
           f == [x \in A |-> <<x, t>>]
<1>1. f \in Bijection(A, T)
  <2>1. f \in [A -> T]
    BY DEF Tag
  <2>2. \A x, y \in A : f[x] = f[y] => x = y
    OBVIOUS
  <2>3. \A u \in T : \E x \in A : f[x] = u
    BY DEF Tag
  <2> QED
    BY <2>1, <2>2, <2>3 DEF Bijection, Injection, Surjection, IsInjective
<1>2. ExistsBijection(A, T)
  BY <1>1 DEF ExistsBijection
<1>3. X \cap T = {}
  BY DEF Tag
<1> HIDE DEF T, f
<1>4. IsFiniteSet(T) /\ Cardinality(T) = Cardinality(A)
  BY <1>2, FS_Bijection, Zenon
<1>5. /\ IsFiniteSet(X \cup T)
      /\ Cardinality(X \cup T) = Cardinality(X) + Cardinality(T) - Cardinality(X \cap T)
  BY <1>4, FS_Union
<1>6. Cardinality(X) \in Nat /\ Cardinality(A) \in Nat /\ Cardinality(X \cap T) = 0
  BY <1>3, FS_CardinalityType, FS_EmptySet
<1> QED
  BY <1>4, <1>5, <1>6 DEF T

LEMMA ExactLocks ==
    ASSUME ParamsAssumption, IInv
    PROVE  LocksExact
<1>0. ParamsAssumption /\ IInv
  OBVIOUS
<1>1. SUFFICES ASSUME NEW p \in ValParams
               PROVE  Cardinality(Lockers(p)) = (IF heap[p].locked < 0 THEN -1 ELSE 1) * heap[p].locked
  BY DEF LocksExact
<1> DEFINE P == {d \in DOMAIN stack : LockedPfx(stack[d]) = p}
           A == {d \in DOMAIN stack : LockedArg(stack[d]) = p}
<1>2. /\ Typed(queue, alarm, watcher, impl, stack) /\ IsFiniteSet(DOMAIN stack)
      /\ \A d \in DOMAIN stack : stack[d] \in Frame
  BY <1>0, FiniteParts
<1>3. P = Places(stack, ByLockPfx[p]) /\ A = Places(stack, ByLockArg[p])
  BY <1>2 DEF Places, ByLockPfx, ByLockArg
<1>4. Lockers(p) = Tag(P, "pfx") \cup Tag(A, "arg")
  BY DEF Lockers, Tag
<1> HIDE DEF P, A
<1>5. IsFiniteSet(P) /\ IsFiniteSet(A) /\ Cardinality(P) \in Nat /\ Cardinality(A) \in Nat
  BY <1>2, <1>3, CountFacts, FS_CardinalityType, Zenon
<1>6. IsFiniteSet(Tag(P, "pfx")) /\ Cardinality(Tag(P, "pfx")) = Cardinality(P)
  <2>1. {} \cup Tag(P, "pfx") = Tag(P, "pfx") /\ \A x \in P : <<x, "pfx">> \notin {}
    OBVIOUS
  <2>2. IsFiniteSet({}) /\ Cardinality({}) = 0
    BY FS_EmptySet
  <2>3. /\ IsFiniteSet({} \cup Tag(P, "pfx"))
        /\ Cardinality({} \cup Tag(P, "pfx")) = Cardinality({}) + Cardinality(P)
    BY ONLY <1>5, <2>1, <2>2, AddTagged
  <2> QED
    BY <1>5, <2>1, <2>2, <2>3
<1>7. Cardinality(Lockers(p)) = Cardinality(P) + Cardinality(A)
  <2>1. \A x \in A : <<x, "arg">> \notin Tag(P, "pfx")
    BY DEF Tag
  <2>2. Cardinality(Tag(P, "pfx") \cup Tag(A, "arg")) = Cardinality(Tag(P, "pfx")) + Cardinality(A)
    BY ONLY <1>5, <1>6, <2>1, AddTagged
  <2> QED
    BY <1>4, <1>6, <2>2
<1>8. Lock(stack)[p] = Cardinality(P) + Cardinality(A)
  <2>1. Lock(stack)[p] = Tally(stack, ByLockPfx)[p] + Tally(stack, ByLockArg)[p]
    BY <1>0, <1>2, OwnParts
  <2> QED
    BY <1>3, <2>1 DEF Tally, Count
<1>9. /\ Lock(stack)[p] = (IF heap[p].locked < 0 THEN -heap[p].locked ELSE heap[p].locked)
      /\ heap[p].locked \in Int
  BY <1>0, Balanced DEF Cell
<1> QED
  BY <1>7, <1>8, <1>9

Tags(A1, A2, A3, A4, A5, A6, A7, A8) ==
    Tag(A1, "arg") \cup Tag(A2, "pfx") \cup Tag(A3, "alarm") \cup Tag(A4, "watcher")
      \cup Tag(A5, "impl") \cup Tag(A6, "held") \cup Tag(A7, "owned") \cup Tag(A8, "msg")

Sizes(A1, A2, A3, A4, A5, A6, A7, A8) ==
    Cardinality(A1) + Cardinality(A2) + Cardinality(A3) + Cardinality(A4)
      + Cardinality(A5) + Cardinality(A6) + Cardinality(A7) + Cardinality(A8)

LEMMA TagsSize ==
    ASSUME NEW A1, NEW A2, NEW A3, NEW A4, NEW A5, NEW A6, NEW A7, NEW A8,
           IsFiniteSet(A1), IsFiniteSet(A2), IsFiniteSet(A3), IsFiniteSet(A4),
           IsFiniteSet(A5), IsFiniteSet(A6), IsFiniteSet(A7), IsFiniteSet(A8)
    PROVE  Cardinality(Tags(A1, A2, A3, A4, A5, A6, A7, A8)) = Sizes(A1, A2, A3, A4, A5, A6, A7, A8)
<1> DEFINE X1 == {} \cup Tag(A1, "arg")
           X2 == X1 \cup Tag(A2, "pfx")
           X3 == X2 \cup Tag(A3, "alarm")
           X4 == X3 \cup Tag(A4, "watcher")
           X5 == X4 \cup Tag(A5, "impl")
           X6 == X5 \cup Tag(A6, "held")
           X7 == X6 \cup Tag(A7, "owned")
           X8 == X7 \cup Tag(A8, "msg")
<1>1. X8 = Tags(A1, A2, A3, A4, A5, A6, A7, A8)
  BY DEF Tags
<1>2. /\ IsFiniteSet({}) /\ Cardinality({}) = 0
      /\ Cardinality(A1) \in Nat
  BY FS_EmptySet, FS_CardinalityType
<1>3. /\ \A x \in A1 : <<x, "arg">> \notin {}
      /\ \A x \in A2 : <<x, "pfx">> \notin X1
      /\ \A x \in A3 : <<x, "alarm">> \notin X2
      /\ \A x \in A4 : <<x, "watcher">> \notin X3
      /\ \A x \in A5 : <<x, "impl">> \notin X4
      /\ \A x \in A6 : <<x, "held">> \notin X5
      /\ \A x \in A7 : <<x, "owned">> \notin X6
      /\ \A x \in A8 : <<x, "msg">> \notin X7
  BY DEF Tag
<1>4. IsFiniteSet(X1) /\ Cardinality(X1) = Cardinality(A1)
  <2>1. IsFiniteSet(X1) /\ Cardinality(X1) = Cardinality({}) + Cardinality(A1)
    BY <1>2, <1>3, AddTagged
  <2> QED
    BY <1>2, <2>1
<1>5. IsFiniteSet(X2) /\ Cardinality(X2) = Cardinality(X1) + Cardinality(A2)
  <2> HIDE DEF X1
  <2> QED
    BY <1>3, <1>4, AddTagged
<1>6. IsFiniteSet(X3) /\ Cardinality(X3) = Cardinality(X2) + Cardinality(A3)
  <2> HIDE DEF X2
  <2> QED
    BY <1>3, <1>5, AddTagged
<1>7. IsFiniteSet(X4) /\ Cardinality(X4) = Cardinality(X3) + Cardinality(A4)
  <2> HIDE DEF X3
  <2> QED
    BY <1>3, <1>6, AddTagged
<1>8. IsFiniteSet(X5) /\ Cardinality(X5) = Cardinality(X4) + Cardinality(A5)
  <2> HIDE DEF X4
  <2> QED
    BY <1>3, <1>7, AddTagged
<1>9. IsFiniteSet(X6) /\ Cardinality(X6) = Cardinality(X5) + Cardinality(A6)
  <2> HIDE DEF X5
  <2> QED
    BY <1>3, <1>8, AddTagged
<1>10. IsFiniteSet(X7) /\ Cardinality(X7) = Cardinality(X6) + Cardinality(A7)
  <2> HIDE DEF X6
  <2> QED
    BY <1>3, <1>9, AddTagged
<1>11. Cardinality(X8) = Cardinality(X7) + Cardinality(A8)
  <2> HIDE DEF X7
  <2> QED
    BY <1>3, <1>10, AddTagged
<1> HIDE DEF X1, X2, X3, X4, X5, X6, X7, X8
<1>12. Cardinality(X8) = Sizes(A1, A2, A3, A4, A5, A6, A7, A8)
  BY <1>4, <1>5, <1>6, <1>7, <1>8, <1>9, <1>10, <1>11 DEF Sizes
<1> QED
  BY <1>1, <1>12

(* The sets of the model's owners are those the ledger counts.              *)
LEMMA OwnerPlaces ==
    ASSUME ParamsAssumption, IInv, NEW p \in ValParams
    PROVE  /\ {i \in DOMAIN queue : queue[i].arg = p} = Places(queue, ByArg[p])
           /\ {i \in DOMAIN queue : queue[i].pfx = p} = Places(queue, ByPfx[p])
           /\ {al \in Alarms : alarm[al] # None /\ alarm[al].arg = p} = Places(alarm, ByRequest[p])
           /\ {s \in Sessions : p \in watcher[s]} = Places(watcher, ByWatch[p])
           /\ {i \in Impls : impl[i] # None /\ impl[i].prefix = p} = Places(impl, ByPrefix[p])
           /\ {d \in DOMAIN stack : stack[d].held = p} = Places(stack, ByHeld[p])
           /\ {d \in DOMAIN stack : stack[d].owned = p} = Places(stack, ByOwned[p])
           /\ {d \in DOMAIN stack : stack[d].kind = "post" /\ p \in {stack[d].arg, stack[d].pfx}}
                = Places(stack, ByLeadPfx[p]) \cup Places(stack, ByLeadArg[p])
<1>1. /\ Typed(queue, alarm, watcher, impl, stack)
      /\ \A d \in DOMAIN stack : stack[d] \in Frame
  BY FiniteParts
<1>2. /\ queue \in Seq(Messages) /\ alarm \in [Alarms -> Maybe(Requests)]
      /\ watcher \in [Sessions -> Watchers] /\ impl \in [Impls -> Maybe(Shares)]
  BY <1>1 DEF Typed
<1>3. /\ {i \in DOMAIN queue : queue[i].arg = p} = Places(queue, ByArg[p])
      /\ {i \in DOMAIN queue : queue[i].pfx = p} = Places(queue, ByPfx[p])
  <2>1. \A i \in DOMAIN queue : queue[i] \in Messages
    BY <1>2, ElementOfSeq, LenProperties
  <2> QED
    BY <2>1 DEF Places, ByArg, ByPfx
<1>4. {al \in Alarms : alarm[al] # None /\ alarm[al].arg = p} = Places(alarm, ByRequest[p])
  <2>1. DOMAIN alarm = Alarms /\ \A x \in Alarms : alarm[x] \in Requests <=> alarm[x] # None
    BY <1>2, NoneApart DEF Maybe
  <2> QED
    BY <2>1 DEF Places, ByRequest
<1>5. {s \in Sessions : p \in watcher[s]} = Places(watcher, ByWatch[p])
  <2>1. DOMAIN watcher = Sessions /\ \A s \in Sessions : watcher[s] \in SUBSET Maybe(ValParams)
    BY <1>2 DEF Watchers
  <2> QED
    BY <2>1 DEF Places, ByWatch
<1>6. {i \in Impls : impl[i] # None /\ impl[i].prefix = p} = Places(impl, ByPrefix[p])
  <2>1. DOMAIN impl = Impls /\ \A x \in Impls : impl[x] \in Shares <=> impl[x] # None
    BY <1>2, NoneApart DEF Maybe
  <2> QED
    BY <2>1 DEF Places, ByPrefix
<1>7. /\ {d \in DOMAIN stack : stack[d].held = p} = Places(stack, ByHeld[p])
      /\ {d \in DOMAIN stack : stack[d].owned = p} = Places(stack, ByOwned[p])
      /\ {d \in DOMAIN stack : stack[d].kind = "post" /\ p \in {stack[d].arg, stack[d].pfx}}
           = Places(stack, ByLeadPfx[p]) \cup Places(stack, ByLeadArg[p])
  BY <1>1 DEF Places, ByHeld, ByOwned, ByLeadPfx, ByLeadArg
<1> QED
  BY <1>3, <1>4, <1>5, <1>6, <1>7

(* A message that names an argument names it once.                          *)
LEMMA NamedOnce ==
    ASSUME ParamsAssumption, IInv, NEW p \in ValParams
    PROVE  /\ Places(stack, ByLeadPfx[p]) = {} \/ Places(stack, ByLeadArg[p]) = {}
           /\ Cardinality(Places(stack, ByLeadPfx[p]) \cup Places(stack, ByLeadArg[p]))
                = Tally(stack, ByLeadPfx)[p] + Tally(stack, ByLeadArg)[p]
           /\ IsFiniteSet(Places(stack, ByLeadPfx[p]) \cup Places(stack, ByLeadArg[p]))
<1> DEFINE X == Places(stack, ByLeadPfx[p])
           Y == Places(stack, ByLeadArg[p])
<1>0. ParamsAssumption /\ IInv /\ Typed(queue, alarm, watcher, impl, stack) /\ IsFiniteSet(DOMAIN stack)
  BY FiniteParts
<1>1. IsFiniteSet(X) /\ IsFiniteSet(Y) /\ Cardinality(X) \in Nat /\ Cardinality(Y) \in Nat
  BY <1>0, CountFacts, FS_CardinalityType, Zenon
<1>2. /\ Own(queue, alarm, watcher, impl, stack)[p] =
           (OwnedInQueue(queue)[p] + (Tally(alarm, ByRequest)[p] + (Tally(watcher, ByWatch)[p] + Tally(impl, ByPrefix)[p])))
             + (OwnedInHandlers(stack)[p] + (Tally(stack, ByLeadPfx)[p] + Tally(stack, ByLeadArg)[p]))
      /\ OwnedInQueue(queue)[p] \in Nat /\ Tally(alarm, ByRequest)[p] \in Nat
      /\ Tally(watcher, ByWatch)[p] \in Nat /\ Tally(impl, ByPrefix)[p] \in Nat
      /\ OwnedInHandlers(stack)[p] \in Nat
  BY ONLY <1>0, p \in ValParams, OwnParts
<1>3. Tally(stack, ByLeadPfx)[p] = Cardinality(X) /\ Tally(stack, ByLeadArg)[p] = Cardinality(Y)
  BY DEF Tally, Count
<1>4. Own(queue, alarm, watcher, impl, stack)[p] \in {0, 1}
  BY Balanced
<1> HIDE DEF X, Y
<1>5. Cardinality(X) + Cardinality(Y) <= 1
  <2> DEFINE q == OwnedInQueue(queue)[p]
             u == Tally(alarm, ByRequest)[p]
             v == Tally(watcher, ByWatch)[p]
             w == Tally(impl, ByPrefix)[p]
             h == OwnedInHandlers(stack)[p]
             m == Cardinality(X)
             n == Cardinality(Y)
  <2>1. /\ q \in Nat /\ u \in Nat /\ v \in Nat /\ w \in Nat /\ h \in Nat /\ m \in Nat /\ n \in Nat
        /\ (q + (u + (v + w))) + (h + (m + n)) \in {0, 1}
    BY <1>1, <1>2, <1>3, <1>4, Zenon
  <2> HIDE DEF q, u, v, w, h, m, n
  <2>2. m + n <= 1
    BY <2>1
  <2> QED
    BY <2>2 DEF m, n
<1>6. Cardinality(X) = 0 \/ Cardinality(Y) = 0
  BY <1>1, <1>5
<1>7. X = {} \/ Y = {}
  BY <1>1, <1>6, FS_EmptySet
<1>8. Cardinality(X \cup Y) = Cardinality(X) + Cardinality(Y) /\ IsFiniteSet(X \cup Y)
  <2>1. (X = {} /\ X \cup Y = Y) \/ (Y = {} /\ X \cup Y = X)
    BY <1>7
  <2>2. Cardinality({}) = 0
    BY FS_EmptySet
  <2>3. \A n \in Nat : 0 + n = n /\ n + 0 = n
    OBVIOUS
  <2> QED
    BY <1>1, <2>1, <2>2, <2>3, Zenon
<1> QED
  BY <1>3, <1>7, <1>8 DEF X, Y

LEMMA OwnedExactly ==
    ASSUME ParamsAssumption, IInv
    PROVE  OwnedOnce
<1>0. ParamsAssumption /\ IInv
  OBVIOUS
<1>1. SUFFICES ASSUME NEW p \in ValParams
               PROVE  Cardinality(Owners(p)) =
                         IF heap[p].state = "live" /\ heap[p].locked >= 0 THEN 1 ELSE 0
  BY DEF OwnedOnce
<1> DEFINE A1 == Places(queue, ByArg[p])
           A2 == Places(queue, ByPfx[p])
           A3 == Places(alarm, ByRequest[p])
           A4 == Places(watcher, ByWatch[p])
           A5 == Places(impl, ByPrefix[p])
           A6 == Places(stack, ByHeld[p])
           A7 == Places(stack, ByOwned[p])
           A8 == Places(stack, ByLeadPfx[p]) \cup Places(stack, ByLeadArg[p])
<1>2. Owners(p) = Tags(A1, A2, A3, A4, A5, A6, A7, A8)
  <2>1. /\ {i \in DOMAIN queue : queue[i].arg = p} = A1
        /\ {i \in DOMAIN queue : queue[i].pfx = p} = A2
        /\ {al \in Alarms : alarm[al] # None /\ alarm[al].arg = p} = A3
        /\ {s \in Sessions : p \in watcher[s]} = A4
        /\ {i \in Impls : impl[i] # None /\ impl[i].prefix = p} = A5
        /\ {d \in DOMAIN stack : stack[d].held = p} = A6
        /\ {d \in DOMAIN stack : stack[d].owned = p} = A7
        /\ {d \in DOMAIN stack : stack[d].kind = "post" /\ p \in {stack[d].arg, stack[d].pfx}} = A8
    BY <1>0, OwnerPlaces
  <2> HIDE DEF A1, A2, A3, A4, A5, A6, A7, A8
  <2> QED
    BY <2>1, Zenon DEF Owners, Tags, Tag
<1>3. /\ Typed(queue, alarm, watcher, impl, stack)
      /\ IsFiniteSet(DOMAIN queue) /\ IsFiniteSet(DOMAIN stack)
      /\ IsFiniteSet(DOMAIN alarm) /\ IsFiniteSet(DOMAIN watcher) /\ IsFiniteSet(DOMAIN impl)
  BY <1>0, FiniteParts
<1>4. /\ IsFiniteSet(A1) /\ IsFiniteSet(A2) /\ IsFiniteSet(A3) /\ IsFiniteSet(A4)
      /\ IsFiniteSet(A5) /\ IsFiniteSet(A6) /\ IsFiniteSet(A7)
  BY <1>3, CountFacts, Zenon
<1>5. IsFiniteSet(A8) /\ Cardinality(A8) = Tally(stack, ByLeadPfx)[p] + Tally(stack, ByLeadArg)[p]
  BY <1>0, NamedOnce
<1>6. /\ Tally(queue, ByArg)[p] = Cardinality(A1) /\ Tally(queue, ByPfx)[p] = Cardinality(A2)
      /\ Tally(alarm, ByRequest)[p] = Cardinality(A3) /\ Tally(watcher, ByWatch)[p] = Cardinality(A4)
      /\ Tally(impl, ByPrefix)[p] = Cardinality(A5)
      /\ Tally(stack, ByHeld)[p] = Cardinality(A6) /\ Tally(stack, ByOwned)[p] = Cardinality(A7)
  BY DEF Tally, Count
<1> HIDE DEF A1, A2, A3, A4, A5, A6, A7, A8
<1>7. Cardinality(Owners(p)) = Sizes(A1, A2, A3, A4, A5, A6, A7, A8)
  BY ONLY <1>2, <1>4, <1>5, TagsSize
<1>8. /\ Own(queue, alarm, watcher, impl, stack)[p] =
           (OwnedInQueue(queue)[p] + (Cardinality(A3) + (Cardinality(A4) + Cardinality(A5))))
             + (OwnedInHandlers(stack)[p] + Cardinality(A8))
      /\ OwnedInHandlers(stack)[p] = Cardinality(A6) + Cardinality(A7)
      /\ OwnedInQueue(queue)[p] = Cardinality(A2) + Cardinality(A1)
  BY <1>0, <1>3, <1>5, <1>6, OwnParts
<1>9. /\ Cardinality(A1) \in Nat /\ Cardinality(A2) \in Nat /\ Cardinality(A3) \in Nat /\ Cardinality(A4) \in Nat
      /\ Cardinality(A5) \in Nat /\ Cardinality(A6) \in Nat /\ Cardinality(A7) \in Nat /\ Cardinality(A8) \in Nat
  BY <1>4, <1>5, FS_CardinalityType, Zenon
<1>10. Cardinality(Owners(p)) = Own(queue, alarm, watcher, impl, stack)[p]
  <2> DEFINE c0 == Cardinality(Owners(p))
             o0 == Own(queue, alarm, watcher, impl, stack)[p]
             q0 == OwnedInQueue(queue)[p]
             h0 == OwnedInHandlers(stack)[p]
             c1 == Cardinality(A1)
             c2 == Cardinality(A2)
             c3 == Cardinality(A3)
             c4 == Cardinality(A4)
             c5 == Cardinality(A5)
             c6 == Cardinality(A6)
             c7 == Cardinality(A7)
             c8 == Cardinality(A8)
  <2>1. c0 = c1 + c2 + c3 + c4 + c5 + c6 + c7 + c8
    BY ONLY <1>7, Zenon DEF Sizes
  <2>2. /\ o0 = (q0 + (c3 + (c4 + c5))) + (h0 + c8)
        /\ h0 = c6 + c7 /\ q0 = c2 + c1
    BY ONLY <1>8
  <2>3. /\ c1 \in Nat /\ c2 \in Nat /\ c3 \in Nat /\ c4 \in Nat
        /\ c5 \in Nat /\ c6 \in Nat /\ c7 \in Nat /\ c8 \in Nat
    BY ONLY <1>9
  <2>4. c0 = o0
    <3> HIDE DEF c0, o0, q0, h0, c1, c2, c3, c4, c5, c6, c7, c8
    <3> QED
      BY ONLY <2>1, <2>2, <2>3
  <2> QED
    BY ONLY <2>4
<1> QED
  BY <1>0, <1>10, Balanced

LEMMA LocksBounded ==
    ASSUME ParamsAssumption, IInv, NEW p \in ValParams
    PROVE  Lock(stack)[p] <= MaxDepth
<1> DEFINE X == Places(stack, ByLockPfx[p])
           Y == Places(stack, ByLockArg[p])
<1>0. /\ ParamsAssumption /\ IInv /\ Typed(queue, alarm, watcher, impl, stack) /\ IsFiniteSet(DOMAIN stack)
      /\ DOMAIN stack = 1..Len(stack) /\ Len(stack) \in Nat
  BY FiniteParts
<1>1. IsFiniteSet(X) /\ IsFiniteSet(Y) /\ Cardinality(X) \in Nat /\ Cardinality(Y) \in Nat
  BY <1>0, CountFacts, FS_CardinalityType, Zenon
<1>2. Lock(stack)[p] = Cardinality(X) + Cardinality(Y)
  <2>1. Lock(stack)[p] = Tally(stack, ByLockPfx)[p] + Tally(stack, ByLockArg)[p]
    BY <1>0, OwnParts
  <2> QED
    BY <2>1 DEF Tally, Count
<1>3. X \cap Y = {}
  <2>1. ASSUME NEW d \in X \cap Y PROVE FALSE
    <3>1. /\ d \in DOMAIN stack /\ stack[d] \in Frame
          /\ LockedPfx(stack[d]) = p /\ LockedArg(stack[d]) = p
      BY DEF Places, ByLockPfx, ByLockArg
    <3>2. stack[d].kind = "post" /\ stack[d].pfx = p /\ stack[d].arg = p
      BY <1>0, <3>1, NoneApart DEF LockedPfx, LockedArg
    <3>3. d \in Places(stack, ByLeadPfx[p]) /\ d \in Places(stack, ByLeadArg[p])
      BY <3>1, <3>2 DEF Places, ByLeadPfx, ByLeadArg
    <3> QED
      BY <1>0, <3>3, NamedOnce
  <2> QED
    BY <2>1
<1>4. X \cup Y \subseteq DOMAIN stack
  BY DEF Places
<1> HIDE DEF X, Y
<1>5. Cardinality(X \cup Y) = Cardinality(X) + Cardinality(Y)
  <2>1. Cardinality(X \cup Y) = Cardinality(X) + Cardinality(Y) - Cardinality(X \cap Y)
    BY <1>1, FS_Union
  <2>2. Cardinality(X \cap Y) = 0
    BY <1>3, FS_EmptySet
  <2> QED
    BY <1>1, <2>1, <2>2
<1>6. Cardinality(X \cup Y) <= Cardinality(DOMAIN stack)
  BY <1>0, <1>4, FS_Subset
<1>7. Cardinality(DOMAIN stack) = Len(stack)
  <2> DEFINE n == Len(stack)
  <2>1. n \in Nat /\ 1 \in Int /\ n \in Int
    BY <1>0
  <2> HIDE DEF n
  <2>2. Cardinality(1..n) = IF 1 > n THEN 0 ELSE n - 1 + 1
    BY ONLY <2>1, FS_Interval
  <2> QED
    BY <1>0, <2>1, <2>2 DEF n
<1>8. Len(stack) <= MaxDepth /\ MaxDepth \in Nat
  BY DEF IInv, Upright, ParamsAssumption
<1> QED
  BY <1>0, <1>1, <1>2, <1>5, <1>6, <1>7, <1>8

LEMMA WellTyped ==
    ASSUME ParamsAssumption, IInv
    PROVE  TypeOK
<1>0. ParamsAssumption /\ IInv
  OBVIOUS
<1>1. /\ status \in Statuses /\ Upright(stack) /\ Remembered /\ handle \in [Handles -> Maybe(Impls)]
      /\ Typed(queue, alarm, watcher, impl, stack) /\ heap \in [ValParams -> Cell]
  BY DEF IInv, Ledger, Books, Account, Shared
<1>2. /\ status \in [Sessions -> {"none", "live", "stopped", "deleted"}]
      /\ queue \in Seq([to : Sessions, pfx : Maybe(ValParams), arg : Maybe(ValParams)])
      /\ alarm \in [Alarms -> Maybe(Requests)]
      /\ dispatched \in Maybe(Alarms)
      /\ impl \in [Impls -> Maybe(Shares)]
      /\ handle \in [Handles -> Maybe(Impls)]
      /\ stack \in Seq(Frame) /\ Len(stack) <= MaxDepth
  BY <1>1 DEF Statuses, Typed, Messages, Upright, Remembered, RememberedBy, Maybe
<1>3. heap \in [ValParams -> [state : {"free", "live", "broken"}, locked : (-MaxDepth)..MaxDepth]]
  <2>1. ASSUME NEW p \in ValParams
        PROVE  heap[p] \in [state : {"free", "live", "broken"}, locked : (-MaxDepth)..MaxDepth]
    <3>1. /\ heap[p] \in Cell
          /\ Lock(stack)[p] = (IF heap[p].locked < 0 THEN -heap[p].locked ELSE heap[p].locked)
      BY <1>0, Balanced
    <3>2. Lock(stack)[p] <= MaxDepth /\ MaxDepth \in Nat
      BY <1>0, LocksBounded DEF ParamsAssumption
    <3>3. heap[p].locked \in Int
      BY <3>1 DEF Cell
    <3>4. heap[p].locked \in (-MaxDepth)..MaxDepth
      BY <3>1, <3>2, <3>3
    <3> QED
      BY <3>1, <3>4 DEF Cell
  <2> QED
    BY <1>1, <2>1
<1>4. \A s \in Sessions : watcher[s] \subseteq Maybe(ValParams) /\ Cardinality(watcher[s]) <= 1
  <2>1. SUFFICES ASSUME NEW s \in Sessions
                 PROVE  watcher[s] \subseteq Maybe(ValParams) /\ Cardinality(watcher[s]) <= 1
    OBVIOUS
  <2>2. watcher[s] \in Watchers
    BY <1>1 DEF Typed
  <2>3. watcher[s] = {} \/ \E a \in Maybe(ValParams) : watcher[s] = {a}
    BY <2>2 DEF Watchers
  <2>4. Cardinality({}) = 0 /\ \A a : Cardinality({a}) = 1
    BY FS_EmptySet, FS_Singleton
  <2>5. Cardinality(watcher[s]) = 0 \/ Cardinality(watcher[s]) = 1
    BY <2>3, <2>4, Zenon
  <2> QED
    BY <2>3, <2>5
<1>5. \A i \in Impls : impl[i] # None => impl[i].refcnt \in 1..Cardinality(Handles)
  BY <1>0, ExactRefcnt
<1> QED
  BY <1>2, <1>3, <1>4, <1>5 DEF TypeOK
-----------------------------------------------------------------------------
(* Every variable stays of its type; a lock, an int in the code, never      *)
(* passes the depth of the calls, in either direction, and a count of       *)
(* handles is between one and the number of handles there are.              *)
THEOREM TypeCorrect == Spec => []TypeOK
<1>1. IInv => TypeOK
  BY ParamsAssumption, WellTyped
<1> QED
  BY <1>1, Inductive, PTL

(* An argument is freed by one owner and is never left without one: it is   *)
(* in one message, alarm, watcher, callback, postback, handler or call, or  *)
(* its owner went and those that have it locked will free it.               *)
THEOREM AlwaysOwnedOnce == Spec => []OwnedOnce
<1>1. IInv => OwnedOnce
  BY ParamsAssumption, OwnedExactly
<1> QED
  BY <1>1, Inductive, PTL

(* _locked is the number of contexts that read the argument, with the sign  *)
(* turned when its owner has gone: it is 0 when the last of them returns.   *)
THEOREM AlwaysLocksExact == Spec => []LocksExact
<1>1. IInv => LocksExact
  BY ParamsAssumption, ExactLocks
<1> QED
  BY <1>1, Inductive, PTL

(* What a handler was given stays until the handler returns, whatever it    *)
(* and the handlers it calls remove, replace or reset meanwhile, and a      *)
(* handler only runs with the types it reads its arguments as.              *)
THEOREM AlwaysArgumentsGood == Spec => []ArgumentsGood
<1>1. IInv => ArgumentsGood
  BY ParamsAssumption, GoodArguments
<1> QED
  BY <1>1, Inductive, PTL

(* What callbacks and postbacks share is freed with the last of them, not   *)
(* before and not later, however they are assigned to one another.          *)
THEOREM AlwaysRefcntExact == Spec => []RefcntExact
<1>1. IInv => RefcntExact
  BY ParamsAssumption, ExactRefcnt
<1> QED
  BY <1>1, Inductive, PTL

(* No assertion of the code about an argument can fail: nothing is deleted  *)
(* twice, destroyed twice, or deleted while it is locked.                   *)
THEOREM AlwaysNothingBroken == Spec => []NothingBroken
<1>1. IInv => NothingBroken
  BY ParamsAssumption, Balanced DEF NothingBroken
<1> QED
  BY <1>1, Inductive, PTL
=============================================================================
