---------------------------- MODULE IdentsProofs ----------------------------
(***************************************************************************)
(* Theorems about Idents, for every width of an int and every number of    *)
(* identifiers in use: the generator that searches with a predicate never  *)
(* hands out an identifier in use, also after its count has wrapped        *)
(* around.                                                                 *)
(***************************************************************************)
EXTENDS Idents, FilterProofs

(* A solution of the recursion in FirstUnused.                              *)
IsSearch(f) == f = [i \in Ids |-> IF i \in live THEN f[Following(i)] ELSE i]

(* What the search returns, without recursion: the least unused identifier  *)
(* from i on but below LastValue or, if there is none, from 1 on.  A search *)
(* that starts at LastValue itself goes on with the negative numbers.       *)
Ahead(i) == i .. LastValue - 1 \ live

NextUnused(i) == LeastOf(IF Ahead(i) # {} THEN Ahead(i) ELSE Ahead(1))

SearchResult(i) ==
    IF i # LastValue THEN NextUnused(i)
    ELSE IF i \in live THEN NextUnused(-LastValue - 1) ELSE i

(* The inductive invariant: until the count wraps around, what is in use    *)
(* was handed out by it.                                                    *)
IdentsInv ==
    /\ TypeOK
    /\ IsFiniteSet(live)
    /\ ~overflow => last \in Nat
-----------------------------------------------------------------------------
(* Fewer identifiers are in use than there are positive ones.               *)
LEMMA SomeUnused ==
    ASSUME IdentsAssumption, IsFiniteSet(live), Cardinality(live) < MaxLive
    PROVE  Ahead(1) # {}
<1>1. /\ LastValue \in Nat /\ MaxLive \in Int /\ MaxLive <= LastValue - 2
      /\ LastValue - 1 \in Int /\ 1 <= LastValue - 1
  BY DEF IdentsAssumption
<1>2. IsFiniteSet(1 .. LastValue - 1) /\ Cardinality(1 .. LastValue - 1) = LastValue - 1
  BY <1>1, FS_Interval, SMT
<1>3. Cardinality(live) \in Nat
  BY FS_CardinalityType
<1>4. ASSUME 1 .. LastValue - 1 \subseteq live PROVE FALSE
  <2>1. Cardinality(1 .. LastValue - 1) <= Cardinality(live)
    BY <1>4, FS_Subset
  <2> QED
    BY <1>1, <1>2, <1>3, <2>1
<1> QED
  BY <1>4 DEF Ahead

LEMMA NextUnusedIsLeast ==
    ASSUME IdentsAssumption, Ahead(1) # {}, NEW i \in Ids
    PROVE  /\ NextUnused(i) \in IF Ahead(i) # {} THEN Ahead(i) ELSE Ahead(1)
           /\ Ahead(i) # {} => \A j \in Ahead(i) : NextUnused(i) <= j
<1> DEFINE S == IF Ahead(i) # {} THEN Ahead(i) ELSE Ahead(1)
           low == -LastValue - 1
<1>1. LastValue \in Nat
  BY DEF IdentsAssumption
<1>2. S \in SUBSET Int /\ S # {} /\ \A j \in S : low <= j
  BY <1>1 DEF Ahead, Ids
<1>3. NextUnused(i) = LeastOf(S)
  BY DEF NextUnused
<1>4. NextUnused(i) \in S /\ \A j \in S : NextUnused(i) <= j
  <2>1. low \in Int
    BY <1>1
  <2> HIDE DEF S, low
  <2>2. LeastOf(S) \in S /\ \A j \in S : LeastOf(S) <= j
    BY <1>2, <2>1, Least
  <2> QED
    BY <1>3, <2>2
<1> QED
  BY <1>4

(* The recursion in FirstUnused defines a function.                         *)
LEMMA SearchExists ==
    ASSUME IdentsAssumption, Ahead(1) # {}
    PROVE  IsSearch(FirstUnused)
<1> DEFINE f == [i \in Ids |-> SearchResult(i)]
<1>1. LastValue \in Nat /\ 1 <= LastValue - 2 /\ LastValue \in Ids /\ -LastValue - 1 \in Ids /\ 1 \in Ids
  BY DEF IdentsAssumption, Ids
<1>2. ASSUME NEW i \in Ids PROVE f[i] = IF i \in live THEN f[Following(i)] ELSE i
  <2>1. Following(i) \in Ids /\ Following(i) # LastValue
    BY <1>1 DEF Following, NextValue, Ids
  <2>2. f[i] = SearchResult(i) /\ f[Following(i)] = NextUnused(Following(i))
    BY <2>1 DEF SearchResult
  <2>3. CASE i = LastValue
    <3>1. Following(i) = -LastValue - 1
      BY <1>1, <2>3 DEF Following, NextValue
    <3> QED
      BY <2>2, <2>3, <3>1 DEF SearchResult
  <2>4. CASE i # LastValue /\ i \notin live
    <3>1. i \in Int /\ i \in Ahead(i) /\ \A j \in Ahead(i) : j \in Int /\ i <= j
      BY <1>1, <2>4 DEF Ahead, Ids
    <3>2. NextUnused(i) \in Ahead(i) /\ NextUnused(i) <= i
      BY <3>1, NextUnusedIsLeast
    <3>3. NextUnused(i) = i
      BY <3>1, <3>2
    <3> QED
      BY <2>2, <2>4, <3>3 DEF SearchResult
  <2>5. CASE i # LastValue /\ i \in live /\ i # LastValue - 1
    <3>1. Following(i) = i + 1
      BY <1>1, <2>5 DEF Following, NextValue, Ids
    <3>2. Ahead(i) = Ahead(i + 1)
      BY <1>1, <2>5 DEF Ahead, Ids
    <3> QED
      BY <2>2, <2>5, <3>1, <3>2 DEF SearchResult, NextUnused
  <2>6. CASE i = LastValue - 1 /\ i \in live
    <3>1. Following(i) = 1 /\ i # LastValue
      BY <1>1, <2>6 DEF Following, NextValue, Ids
    <3>2. Ahead(i) = {}
      BY <1>1, <2>6 DEF Ahead, Ids
    <3> QED
      BY <2>2, <2>6, <3>1, <3>2 DEF SearchResult, NextUnused
  <2> QED
    BY <2>3, <2>4, <2>5, <2>6
<1>3. IsSearch(f)
  <2>1. f = [i \in Ids |-> f[i]]
    OBVIOUS
  <2>2. [i \in Ids |-> f[i]] = [i \in Ids |-> IF i \in live THEN f[Following(i)] ELSE i]
    BY <1>2
  <2> QED
    BY <2>1, <2>2, Zenon DEF IsSearch
<1>4. FirstUnused = CHOOSE g : IsSearch(g)
  BY DEF FirstUnused, IsSearch
<1> HIDE DEF f
<1> QED
  BY <1>3, <1>4, Zenon

(* A search that would find an unused identifier from b on finds one from   *)
(* every identifier a before it.                                            *)
LEMMA SearchReaches ==
    ASSUME IdentsAssumption, NEW f, IsSearch(f),
           NEW b \in Ids, b # LastValue, f[b] \in Ids \ live
    PROVE  \A a \in Ids : a <= b => f[a] \in Ids \ live
<1> DEFINE good == {n \in Nat : b - n \in Ids => f[b - n] \in Ids \ live}
<1>1. LastValue \in Nat /\ b \in Int /\ b < LastValue /\ b - 0 = b
  BY DEF IdentsAssumption, Ids
<1>2. 0 \in good
  BY <1>1
<1>3. ASSUME NEW n \in Nat, n \in good PROVE n + 1 \in good
  <2> DEFINE i == b - (n + 1)
  <2> SUFFICES ASSUME i \in Ids PROVE f[i] \in Ids \ live
    OBVIOUS
  <2>1. b - n \in Ids /\ Following(i) = b - n
    BY <1>1, <1>3 DEF Following, NextValue, Ids
  <2>2. f[b - n] \in Ids \ live
    BY <1>3, <2>1
  <2>3. f[i] = IF i \in live THEN f[Following(i)] ELSE i
    <3> HIDE DEF i
    <3> QED
      BY DEF IsSearch
  <2> HIDE DEF i
  <2> QED
    BY <2>1, <2>2, <2>3
<1>4. Nat \subseteq good
  <2> HIDE DEF good
  <2> QED
    BY <1>2, <1>3, NatSetInduction, Zenon
<1>5. ASSUME NEW a \in Ids, a <= b PROVE f[a] \in Ids \ live
  <2>1. a \in Int /\ b - a \in Nat /\ b - (b - a) = a
    BY <1>1, <1>5 DEF Ids
  <2> QED
    BY <1>4, <2>1
<1> QED
  BY <1>5

(* The search ends with an unused identifier, wherever it starts.           *)
LEMMA SearchFindsUnused ==
    ASSUME IdentsAssumption, Ahead(1) # {}
    PROVE  \A i \in Ids : Searched(i) \in Ids \ live
<1> DEFINE f == FirstUnused
<1>1. /\ LastValue \in Nat /\ 1 <= LastValue - 2
      /\ {LastValue, LastValue - 1, -LastValue - 1, 1} \subseteq Ids
  BY DEF IdentsAssumption, Ids
<1>2. IsSearch(f)
  BY SearchExists
<1> HIDE DEF f
<1>3. \A i \in Ids : f[i] = IF i \in live THEN f[Following(i)] ELSE i
  BY <1>2 DEF IsSearch
<1>4. PICK u \in Ahead(1) : TRUE
  OBVIOUS
<1>5. u \in Ids /\ u # LastValue /\ 1 <= u /\ -LastValue - 1 <= u /\ u \notin live
  BY <1>1, <1>4 DEF Ahead, Ids
<1>6. f[u] \in Ids \ live
  BY <1>3, <1>5
<1>7. f[1] \in Ids \ live /\ f[-LastValue - 1] \in Ids \ live
  BY <1>1, <1>2, <1>5, <1>6, SearchReaches
<1>8. f[LastValue - 1] \in Ids \ live
  <2>1. Following(LastValue - 1) = 1
    BY <1>1 DEF Following, NextValue
  <2> QED
    BY <1>1, <1>3, <1>7, <2>1
<1>9. f[LastValue] \in Ids \ live
  <2>1. Following(LastValue) = -LastValue - 1
    BY <1>1 DEF Following, NextValue
  <2> QED
    BY <1>1, <1>3, <1>7, <2>1
<1>10. \A i \in Ids : i <= LastValue - 1 => f[i] \in Ids \ live
  BY <1>1, <1>2, <1>8, SearchReaches
<1>11. \A i \in Ids : f[i] \in Ids \ live
  BY <1>1, <1>9, <1>10 DEF Ids
<1> QED
  BY <1>11 DEF Searched, f
-----------------------------------------------------------------------------
LEMMA InitIdents == ASSUME IdentsAssumption, Init PROVE IdentsInv
<1>1. IsFiniteSet(live)
  BY FS_EmptySet DEF Init
<1>2. LastValue \in Nat /\ last = 0 /\ live = {}
  BY DEF IdentsAssumption, Init
<1>3. last \in Nat /\ last \in Ids /\ live \subseteq Ids /\ live \subseteq 1 .. last
  BY <1>2 DEF Ids
<1>4. overflow \in BOOLEAN
  BY Zenon DEF Init
<1> QED
  BY <1>1, <1>3, <1>4 DEF IdentsInv, TypeOK

(* An identifier handed out is unused, whether the count or a search found  *)
(* it.                                                                      *)
LEMMA AllocateUnused ==
    ASSUME IdentsAssumption, IdentsInv, AllocateByPredicate
    PROVE  IdentsInv' /\ last' \notin live
<1>1. /\ LastValue \in Nat /\ 1 <= LastValue - 2
      /\ last \in Ids /\ live \subseteq Ids /\ IsFiniteSet(live)
      /\ ~overflow => last \in Nat /\ live \subseteq 1 .. last
  BY DEF IdentsAssumption, IdentsInv, TypeOK
<1>2. /\ overflow' = Overflowed
      /\ last' = IF Overflowed THEN Searched(Candidate) ELSE Candidate
      /\ live' = live \cup {last'}
      /\ Cardinality(live) < MaxLive
  BY DEF AllocateByPredicate, Allocate
<1>3. Candidate \in Ids
  BY <1>1 DEF Candidate, NextValue, Ids
<1>4. Searched(Candidate) \in Ids \ live
  BY <1>1, <1>2, <1>3, SomeUnused, SearchFindsUnused
<1>5. ASSUME ~Overflowed
      PROVE  /\ Candidate \in Nat /\ Candidate \notin live
             /\ live \cup {Candidate} \subseteq 1 .. Candidate
  <2>1. ~overflow /\ last # LastValue
    BY <1>5 DEF Overflowed
  <2>2. Candidate = last + 1
    BY <2>1 DEF Candidate, NextValue
  <2> QED
    BY <1>1, <2>1, <2>2
<1>6. last' \in Ids \ live
  BY <1>2, <1>3, <1>4, <1>5
<1>7. live' \subseteq Ids /\ IsFiniteSet(live')
  BY <1>1, <1>2, <1>6, FS_AddElement
<1>8. overflow' \in BOOLEAN
  BY <1>2, Zenon DEF Overflowed, IdentsInv, TypeOK
<1>9. ~overflow' => last' \in Nat /\ live' \subseteq 1 .. last'
  BY <1>2, <1>5, Zenon
<1>10. TypeOK'
  BY <1>6, <1>7, <1>8, <1>9 DEF TypeOK, Ids
<1> QED
  BY <1>6, <1>7, <1>9, <1>10 DEF IdentsInv

LEMMA ReleaseKeeps ==
    ASSUME IdentsAssumption, IdentsInv, NEW i \in live, Release(i)
    PROVE  IdentsInv' /\ last' = last
<1>1. last' = last /\ overflow' = overflow /\ live' \subseteq live
  BY DEF Release
<1>2. IsFiniteSet(live')
  BY <1>1, FS_Subset DEF IdentsInv
<1> QED
  BY <1>1, <1>2 DEF IdentsInv, TypeOK, Ids

LEMMA IdentsStep ==
    ASSUME IdentsAssumption, IdentsInv,
           [AllocateByPredicate \/ \E i \in live : Release(i)]_vars
    PROVE  IdentsInv' /\ (last' # last => last' \notin live)
<1>1. CASE AllocateByPredicate
  BY <1>1, AllocateUnused
<1>2. CASE \E i \in live : Release(i)
  BY <1>2, ReleaseKeeps
<1>3. CASE UNCHANGED vars
  BY <1>3 DEF vars, IdentsInv, TypeOK, Ids
<1> QED
  BY <1>1, <1>2, <1>3

(* The count and the identifiers in use are ints, and until the count wraps *)
(* around it is the largest that was handed out (IdentGenerator).           *)
THEOREM IdentsTyped == PredicateSpec => []IdentsInv
<1>1. Init => IdentsInv
  BY InitIdents, IdentsAssumption
<1>2. IdentsInv /\ [AllocateByPredicate \/ \E i \in live : Release(i)]_vars => IdentsInv'
  BY IdentsStep, IdentsAssumption
<1> QED
  BY <1>1, <1>2, PTL DEF PredicateSpec

(* However far the count has come and in whatever order identifiers are     *)
(* released, a search with a predicate hands out one that is not in use, so *)
(* the alarm created under it does not replace another one                  *)
(* (IdentGenerator::generate_next with a predicate).                        *)
THEOREM IdUnused == PredicateSpec => NewIdUnused
<1>1. IdentsInv /\ [AllocateByPredicate \/ \E i \in live : Release(i)]_vars
      => [last' # last => last' \notin live]_vars
  BY IdentsStep, IdentsAssumption
<1> QED
  BY <1>1, IdentsTyped, PTL DEF PredicateSpec, NewIdUnused
=============================================================================
