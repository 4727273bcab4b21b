--------------------------- MODULE LifecycleProofs ---------------------------
(***************************************************************************)
(* Theorems about Lifecycle, for every set of sessions and every bound on  *)
(* the messages: the tree stays a tree.  SessionTreeProofs shows that the  *)
(* kernel keeps these promises.                                            *)
(***************************************************************************)
EXTENDS Lifecycle, TLAPS

(* The inductive invariant.  None of its parts is inductive alone: that a   *)
(* deletion leaves no orphan needs the parents, and a start must know that  *)
(* a new session has no children.                                           *)
IndInv == TypeOK /\ ParentsStay /\ Connected
-----------------------------------------------------------------------------
(***************************************************************************)
(* Below.                                                                  *)
(***************************************************************************)

(* A session is among those below it, and so are their children.            *)
LEMMA BelowClosed ==
    ASSUME NEW s \in Nodes
    PROVE  s \in Below(s) /\ Below(s) \subseteq Nodes /\ Closed(Below(s))
BY DEF Below, Closed

(* Everything below a session is in each closed set that it is in.          *)
LEMMA BelowLeast ==
    ASSUME NEW s \in Nodes, NEW D \in SUBSET Nodes, s \in D, Closed(D)
    PROVE  Below(s) \subseteq D
BY DEF Below

(* The kernel's session is not below another one that has a parent: the     *)
(* sessions other than it make a closed set.                                *)
LEMMA RootAboveAll ==
    ASSUME LifecycleAssumption, TypeOK, NEW s \in Children
    PROVE  Root \notin Below(s)
<1>1. Children \in SUBSET Nodes /\ s \in Children
  BY DEF Nodes
<1>2. Closed(Children)
  <2>1. ASSUME NEW c \in Nodes, above[c] \in Children PROVE c \in Children
    BY <2>1 DEF TypeOK, LifecycleAssumption, Nodes
  <2> QED
    BY <2>1 DEF Closed
<1>3. Below(s) \subseteq Children
  BY <1>1, <1>2, BelowLeast DEF Nodes
<1> QED
  BY <1>3 DEF LifecycleAssumption
-----------------------------------------------------------------------------
(***************************************************************************)
(* Each action.                                                            *)
(***************************************************************************)
LEMMA InitInv == ASSUME LifecycleAssumption, Init PROVE IndInv
<1>1. Root \in Nodes /\ Present = {Root}
  BY DEF Init, Present, Nodes, LifecycleAssumption
<1>2. TypeOK
  BY <1>1 DEF Init, TypeOK, Nodes, LifecycleAssumption
<1>3. ParentsStay
  BY <1>1 DEF Init, ParentsStay, Nodes, LifecycleAssumption
<1>4. Connected
  BY <1>1, BelowClosed DEF Connected
<1> QED
  BY <1>2, <1>3, <1>4 DEF IndInv

(* As long as the parents do not change, neither does what is below.        *)
LEMMA SameBelow ==
    ASSUME UNCHANGED above, NEW s \in Nodes
    PROVE  Below(s)' = Below(s)
BY DEF Below, Closed

LEMMA StartKeepsInv ==
    ASSUME LifecycleAssumption, IndInv, NEW s \in Children, NEW p \in Nodes, Start(s, p)
    PROVE  IndInv'
<1> USE DEF IndInv
<1>1. /\ s \in Nodes /\ s # Root /\ Root \in Nodes
      /\ status[s] = "new" /\ status[p] = "live" /\ s # p
      /\ status' = [status EXCEPT ![s] = "live"]
      /\ above' = [above EXCEPT ![s] = p]
      /\ owed' = owed
  BY DEF Start, MayHaveChildren, Nodes, LifecycleAssumption
<1>2. Present' = Present \cup {s} /\ s \notin Present /\ p \in Present /\ above[s] = None
  BY <1>1 DEF Present, TypeOK
<1>3. TypeOK'
  BY <1>1, <1>2 DEF TypeOK, Nodes, LifecycleAssumption
<1>4. ParentsStay'
  BY <1>1, <1>2 DEF ParentsStay, TypeOK
<1>5. Connected'
  <2>1. ASSUME NEW n \in Present', NEW D \in SUBSET Nodes, Root \in D, Closed(D)'
        PROVE  n \in D
    <3>1. Closed(D)
      BY <1>1, <1>2, <2>1 DEF Closed, TypeOK, LifecycleAssumption, Nodes
    <3>2. Present \subseteq D
      BY <1>1, <2>1, <3>1, BelowLeast DEF Connected
    <3>3. s \in D
      BY <1>1, <1>2, <2>1, <3>2 DEF Closed, TypeOK
    <3> QED
      BY <1>2, <3>2, <3>3
  <2> QED
    BY <2>1 DEF Connected, Below, Present
<1> QED
  BY <1>3, <1>4, <1>5

LEMMA RefuseKeepsInv ==
    ASSUME LifecycleAssumption, IndInv, NEW s \in Children, Refuse(s)
    PROVE  IndInv'
<1> USE DEF IndInv
<1>1. /\ s \in Nodes /\ s # Root /\ status[s] = "new"
      /\ status' = [status EXCEPT ![s] = "gone"]
      /\ above' = above /\ owed' = owed
  BY DEF Refuse, Nodes, LifecycleAssumption
<1>2. Present' = Present /\ s \notin Present
  BY <1>1 DEF Present, TypeOK
<1>3. TypeOK'
  BY <1>1, <1>2 DEF TypeOK, Nodes, LifecycleAssumption
<1>4. ParentsStay'
  BY <1>1, <1>2 DEF ParentsStay, TypeOK
<1>5. Connected'
  BY <1>1, <1>2, SameBelow DEF Connected, Nodes
<1> QED
  BY <1>3, <1>4, <1>5

LEMMA StopKeepsInv ==
    ASSUME LifecycleAssumption, IndInv, NEW r \in Children, Stop(r)
    PROVE  IndInv'
<1> USE DEF IndInv
<1>1. /\ r \in Nodes
      /\ status' = [s \in Nodes |-> IF s \in Below(r) /\ status[s] = "live" THEN "stopped"
                                                                            ELSE status[s]]
      /\ above' = above /\ owed' = owed
  BY DEF Stop, Nodes
<1>2. Present' = Present
  BY <1>1 DEF Present, TypeOK
<1>3. TypeOK'
  BY <1>1, <1>2, RootAboveAll DEF TypeOK, Nodes
<1>4. ParentsStay'
  <2>1. ASSUME NEW s \in Children \cap Present, status'[s] = "live"
        PROVE  status'[above[s]] = "live"
    <3>1. s \in Nodes /\ s \notin Below(r) /\ status[s] = "live"
      BY <1>1, <2>1 DEF Nodes, TypeOK
    <3>2. above[s] \in Nodes /\ status[above[s]] = "live"
      BY <3>1 DEF ParentsStay, Present
    <3>3. above[s] \notin Below(r)
      BY <1>1, <3>1, BelowClosed DEF Closed
    <3> QED
      BY <1>1, <3>2, <3>3
  <2> QED
    BY <1>1, <1>2, <2>1 DEF ParentsStay
<1>5. Connected'
  BY <1>1, <1>2, SameBelow DEF Connected, Nodes
<1> QED
  BY <1>3, <1>4, <1>5

LEMMA DeleteKeepsInv ==
    ASSUME LifecycleAssumption, IndInv, NEW r \in Children, Delete(r)
    PROVE  IndInv'
<1> USE DEF IndInv
<1>1. /\ r \in Nodes /\ Root \in Nodes
      /\ \A s \in Below(r) : status[s] = "stopped" /\ owed[s] = 0
      /\ status' = [s \in Nodes |-> IF s \in Below(r) THEN "gone" ELSE status[s]]
      /\ above' = [s \in Nodes |-> IF s \in Below(r) THEN None ELSE above[s]]
      /\ owed' = owed
  BY DEF Delete, Settled, Nodes
<1>2. Below(r) \subseteq Nodes /\ Closed(Below(r)) /\ Root \notin Below(r)
  BY <1>1, BelowClosed, RootAboveAll
<1>3. Present' = Present \ Below(r)
  BY <1>1 DEF Present
<1>4. TypeOK'
  BY <1>1, <1>2, <1>3 DEF TypeOK, Nodes
<1>5. ParentsStay'
  <2>1. ASSUME NEW s \in Children \cap Present' PROVE above[s] \in Present \ Below(r)
    BY <1>2, <1>3, <2>1 DEF Closed, ParentsStay, Nodes
  <2>2. \A s \in Present' : status'[s] = status[s] /\ above'[s] = above[s]
    BY <1>1, <1>3 DEF Present
  <2> QED
    BY <1>3, <2>1, <2>2 DEF ParentsStay
<1>6. Connected'
  <2>1. ASSUME NEW n \in Present', NEW D \in SUBSET Nodes, Root \in D, Closed(D)'
        PROVE  n \in D
    <3>1. Closed(D \cup Below(r))
      BY <1>1, <1>2, <2>1 DEF Closed
    <3>2. Present \subseteq D \cup Below(r)
      BY <1>1, <1>2, <2>1, <3>1, BelowLeast DEF Connected
    <3> QED
      BY <1>3, <3>2
  <2> QED
    BY <2>1 DEF Connected, Below, Present
<1> QED
  BY <1>4, <1>5, <1>6

LEMMA MessageKeepsInv ==
    ASSUME LifecycleAssumption, IndInv, NEW s \in Nodes, Accept(s) \/ Consume(s)
    PROVE  IndInv'
<1> USE DEF IndInv
<1>1. status' = status /\ above' = above /\ Present' = Present
  BY DEF Accept, Consume, Present
<1>2. owed' \in [Nodes -> 0..MaxOwed]
  <2>1. CASE Accept(s)
    BY <2>1 DEF Accept, TypeOK, LifecycleAssumption
  <2>2. CASE Consume(s)
    BY <2>2 DEF Consume, Consumable, TypeOK, LifecycleAssumption
  <2> QED
    BY <2>1, <2>2
<1>3. TypeOK'
  BY <1>1, <1>2 DEF TypeOK
<1>4. ParentsStay'
  BY <1>1 DEF ParentsStay
<1>5. Connected'
  BY <1>1, SameBelow DEF Connected, Nodes
<1> QED
  BY <1>3, <1>4, <1>5
-----------------------------------------------------------------------------
(* The invariant holds at all times: start_session, stop_session_tree,      *)
(* post_event, the dispatch of messages and destroy() preserve it.          *)
THEOREM Invariance == ASSUME LifecycleAssumption PROVE Spec => []IndInv
<1>1. Init => IndInv
  BY InitInv
<1>2. IndInv /\ [Next]_vars => IndInv'
  <2> SUFFICES ASSUME IndInv, [Next]_vars PROVE IndInv'
    OBVIOUS
  <2>1. ASSUME NEW s \in Children, NEW p \in Nodes, Start(s, p) PROVE IndInv'
    BY <2>1, StartKeepsInv
  <2>2. ASSUME NEW s \in Children, Refuse(s) PROVE IndInv'
    BY <2>2, RefuseKeepsInv
  <2>3. ASSUME NEW s \in Children, Stop(s) PROVE IndInv'
    BY <2>3, StopKeepsInv
  <2>4. ASSUME NEW s \in Children, Delete(s) PROVE IndInv'
    BY <2>4, DeleteKeepsInv
  <2>5. ASSUME NEW s \in Nodes, Accept(s) \/ Consume(s) PROVE IndInv'
    BY <2>5, MessageKeepsInv
  <2>6. CASE UNCHANGED vars
    BY <2>6, SameBelow DEF vars, IndInv, TypeOK, ParentsStay, Connected,
                           Present, Nodes
  <2> QED
    BY <2>1, <2>2, <2>3, <2>4, <2>5, <2>6 DEF Next
<1> QED
  BY <1>1, <1>2, PTL DEF Spec

(* A session has a parent exactly while it is in the tree, and no message   *)
(* is consumed that was not accepted for it.                                *)
THEOREM TypeCorrect == ASSUME LifecycleAssumption PROVE Spec => []TypeOK
<1>1. IndInv => TypeOK
  BY DEF IndInv
<1> QED
  BY <1>1, Invariance, PTL

(* A stop or a deletion leaves no session behind: the parent of a session   *)
(* in the tree is in the tree, and live if the session is.                  *)
THEOREM ParentsAlwaysStay == ASSUME LifecycleAssumption PROVE Spec => []ParentsStay
<1>1. IndInv => ParentsStay
  BY DEF IndInv
<1> QED
  BY <1>1, Invariance, PTL

(* There are neither orphans nor rings: every session hangs from the        *)
(* kernel's own.                                                            *)
THEOREM AlwaysConnected == ASSUME LifecycleAssumption PROVE Spec => []Connected
<1>1. IndInv => Connected
  BY DEF IndInv
<1> QED
  BY <1>1, Invariance, PTL
=============================================================================
