------------------------------- MODULE Idents -------------------------------
(***************************************************************************)
(* IdentGenerator, which hands out the identifiers of threads, kernels,    *)
(* sessions and alarms.  It counts up; once the count has wrapped around,  *)
(* it avoids identifiers still in use, in one of two ways: the owner gives *)
(* it a predicate (alarms), or the map the identifiers are keys of         *)
(* (threads, kernels, sessions).                                           *)
(*                                                                         *)
(* Identifiers are C++ ints, of which the largest is LastValue; adding one *)
(* to it is undefined, and wraps around in the builds of this code.        *)
(***************************************************************************)
EXTENDS Integers, FiniteSets

CONSTANTS LastValue,   \* numeric_limits<int>::max()
          MaxLive      \* bound on the identifiers in use

(* An unused identifier below LastValue exists: else a search never ends.   *)
ASSUME IdentsAssumption ==
    /\ LastValue \in Nat
    /\ MaxLive \in 1 .. LastValue - 2

VARIABLES last,        \* IdentGenerator::_last
          overflow,    \* IdentGenerator::_overflow
          live         \* the identifiers in use

vars == <<last, overflow, live>>

Ids == -LastValue - 1 .. LastValue

Init ==
    /\ last = 0
    /\ overflow = FALSE
    /\ live = {}
-----------------------------------------------------------------------------
NextValue(i) == IF i = LastValue THEN -LastValue - 1 ELSE i + 1

Overflowed == overflow \/ last = LastValue

Candidate == IF last = LastValue THEN 1 ELSE NextValue(last)

(* A search leaves out the last value, unless it starts there.              *)
Following(i) == IF NextValue(i) = LastValue THEN 1 ELSE NextValue(i)

(* generate_next(map): the iterators that should walk the map are bounded   *)
(* to the one key found, so the search ends with the next identifier.       *)
BesideExisting(i) == IF i \in live THEN Following(i) ELSE i

(* generate_next(exists): the search goes on until an identifier is unused. *)
FirstUnused[i \in Ids] == IF i \in live THEN FirstUnused[Following(i)] ELSE i

Searched(i) == FirstUnused[i]

Allocate(found) ==
    /\ Cardinality(live) < MaxLive
    /\ overflow' = Overflowed
    /\ last' = IF Overflowed THEN found ELSE Candidate
    /\ live' = live \cup {last'}

AllocateByMap == Allocate(BesideExisting(Candidate))

AllocateByPredicate == Allocate(Searched(Candidate))

(* The owner of an identifier goes away, at any time after.                 *)
Release(i) ==
    /\ i \in live
    /\ live' = live \ {i}
    /\ UNCHANGED <<last, overflow>>

MapSpec       == Init /\ [][AllocateByMap \/ \E i \in live : Release(i)]_vars
PredicateSpec == Init /\ [][AllocateByPredicate \/ \E i \in live : Release(i)]_vars
-----------------------------------------------------------------------------
TypeOK ==
    /\ last \in Ids
    /\ overflow \in BOOLEAN
    /\ live \subseteq Ids
    /\ ~overflow => live \subseteq 1 .. last

(* An identifier handed out is not in use, however many were handed out     *)
(* before and in whatever order they are released (generate_next and the    *)
(* maps its result is inserted into).                                       *)
NewIdUnused == [][last' # last => last' \notin live]_vars
=============================================================================
